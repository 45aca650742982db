------------------------------- MODULE Fat32 --------------------------------
(***************************************************************************)
(* The FAT32 file system (kernel/FileSystem/Fat32FS.cpp), the files it     *)
(* opens (kernel/FileSystem/CharFile.cpp) and the disk below it            *)
(* (kernel/drivers/ATADisk.cpp).                                           *)
(*                                                                         *)
(* The disk is written one sector at a time, so the machine can stop       *)
(* between any two sectors of a call.  A system call runs with interrupts  *)
(* off and is alone on the machine, unless it had to sleep for the lock of *)
(* the disk: a process that loads its program (loader.cpp) reads the disk  *)
(* with interrupts on and can be preempted while it holds that lock.  A    *)
(* call that slept goes on with interrupts on.                             *)
(*                                                                         *)
(* A cluster is SPC sectors.  A sector of a directory is a sequence of     *)
(* slots; a sector of a file is the path of the file it was written for.   *)
(* Of an open file the position is left out: it decides only which bytes   *)
(* of the cache are copied.                                                *)
(* Sizes count units of which SECTOR make a sector.  A name is the         *)
(* sequence of its pieces of 13 characters, one per long entry.            *)
(***************************************************************************)
EXTENDS Integers, Sequences, FiniteSets

CONSTANTS Procs,           \* processes
          MaxCluster,      \* the FAT has the entries 0..MaxCluster
          SaneCluster,     \* the last cluster below MAX_SECTOR of the disk driver
          SlotsPerSector,  \* directory entries in a sector
          Users,           \* those that open files
          Paths,           \* the paths they use
          Creatable,       \* what the processes create: paths with a type
          Image,           \* the path of the file mkfs and mount put on the disk
          Counts,          \* how much a process writes or reads at once
          MaxCalls,        \* bound: system calls that touch the disk
          MaxCrashes       \* bound: times the machine stops

\* Path::base_name asserts that there is a part; no part of a path is empty.
ASSUME FatAssumption ==
    /\ IsFiniteSet(Procs) /\ Users \subseteq Procs /\ {"nobody", "loader"} \cap Procs = {}
    /\ Paths \subseteq Seq(Seq(STRING)) /\ Counts \subseteq Nat
    /\ Creatable \subseteq Paths \X {"file", "directory"}
    /\ \A new \in Creatable : new[1] # <<>> /\ new[1][Len(new[1])] # <<>>
    /\ Image \in Seq(Seq(STRING)) /\ Len(Image) = 1 /\ Len(Image[1]) = 1
    /\ MaxCluster \in Nat /\ MaxCluster >= 4 /\ SaneCluster \in 4..MaxCluster
    /\ SlotsPerSector \in Nat /\ SlotsPerSector >= 4
    /\ MaxCalls \in Nat /\ MaxCrashes \in Nat

SPC    == 2                \* sectors_per_cluster
SECTOR == 2
Root   == 2
EOF    == MaxCluster + 1   \* FAT_ENTRY_EOF
SlotsPerCluster == SPC * SlotsPerSector
ClusterSize     == SPC * SECTOR

VARIABLES disk,    \* disk[c][s]: sector s of cluster c; 0 is what lies before the data
          fat,     \* the first file allocation table
          lock,    \* the holder of the disk's lock
          op,      \* op[p]: the system call p is in
          file,    \* file[p]: the CharFile p has open
          panic,   \* the assertion that stopped the kernel
          named,   \* names asked for so far, each with the cluster of its directory
          torn,    \* clusters of entries whose creation was cut short by a crash
          overlap, \* two calls that change a directory were in progress at once
          loaded,  \* some program was loaded while a call was made
          calls, crashes

vars == <<disk, fat, lock, op, file, panic, named, torn, overlap, loaded, calls, crashes>>
seen == <<named, torn, overlap, loaded>>

Nobody == "nobody"
Loader == "loader"
NoFile == [open |-> FALSE]
Idle   == [pc |-> "idle", ie |-> FALSE]

\* The kinds of sectors.  Zero is a directory without entries or no data.
Zero == [is |-> "zero"]
Directory(slots) == [is |-> "directory", slots |-> slots]
Data(path) == [is |-> "data", path |-> path]
BeforeData == [is |-> "data", path |-> <<>>]

NoEntry == [type |-> "none"]
RootEntry == [type |-> "directory", cluster |-> Root, size |-> 0, name |-> <<>>]

-----------------------------------------------------------------------------
(* What lies on the disk *)

End == [kind |-> "end"]
LongEntry(part, last) == [kind |-> "long", part |-> part, last |-> last]
RawEntry(t, c) == [kind |-> "raw", type |-> t, cluster |-> c, size |-> 0]
ShortName == <<"8.3">>

ZeroSlots == [i \in 1..SlotsPerSector |-> End]
Slots(sector) == IF sector.is = "directory" THEN sector.slots ELSE ZeroSlots

entry_in_fat(c) == fat[c]

\* The clusters of a file or directory, as read_whole_entry follows them.
Chain(c) ==
    LET follow[n \in 0..MaxCluster] ==
            IF n = 0 THEN <<c>>
            ELSE LET got  == follow[n - 1]
                     next == entry_in_fat(got[Len(got)])
                 IN  IF next >= EOF THEN got ELSE Append(got, next)
    IN  follow[MaxCluster]

ClusterSlots(c) ==
    [i \in 1..SlotsPerCluster |->
        Slots(disk[c][(i - 1) \div SlotsPerSector + 1])[((i - 1) % SlotsPerSector) + 1]]

SlotsOf(chain) ==
    [i \in 1..(Len(chain) * SlotsPerCluster) |->
        ClusterSlots(chain[(i - 1) \div SlotsPerCluster + 1])[((i - 1) % SlotsPerCluster) + 1]]

DirectorySlots(c) == SlotsOf(Chain(c))

\* Mutant of NameAt: the pieces are put together in the order of the slots.
NameForwards(slots, i) ==
    LET lasts == {j \in 1..(i - 1) : /\ slots[j].kind = "long" /\ slots[j].last
                                     /\ \A k \in j..(i - 1) : slots[k].kind = "long"}
    IN  IF lasts = {} THEN ShortName
        ELSE LET first == CHOOSE j \in lasts : \A k \in lasts : k <= j
             IN  [k \in 1..(i - first) |-> slots[first + k - 1].part]

\* The name of the entry in slot i: its long entries lie before it, read
\* backwards up to the one marked last.
NameAt(slots, i) ==
    LET lasts == {j \in 1..(i - 1) : /\ slots[j].kind = "long" /\ slots[j].last
                                     /\ \A k \in j..(i - 1) : slots[k].kind = "long"}
    IN  IF lasts = {} THEN ShortName
        ELSE LET first == CHOOSE j \in lasts : \A k \in lasts : k <= j
             IN  [k \in 1..(i - first) |-> slots[i - k].part]

\* read_directory finds an empty slot; without one it asserts.  Reading the
\* data of a file as a directory is taken to stop the kernel too.
Readable(chain) ==
    /\ \A k \in 1..Len(chain) : \A s \in 1..SPC : disk[chain[k]][s].is # "data"
    /\ \E i \in 1..(Len(chain) * SlotsPerCluster) : SlotsOf(chain)[i] = End

HasEnd(c) == Readable(Chain(c))

EndSlot(slots) == CHOOSE i \in 1..Len(slots) : /\ slots[i] = End
                                               /\ \A k \in 1..(i - 1) : slots[k] # End

\* create_entry_from
EntryAt(slots, i) ==
    [name |-> NameAt(slots, i), type |-> slots[i].type,
     cluster |-> slots[i].cluster, size |-> slots[i].size]

\* read_directory: the entries up to the first empty slot, by their slots; long
\* entries, "." and "..", and removed entries are passed over.
EntriesOf(slots) ==
    [i \in {j \in 1..(EndSlot(slots) - 1) : slots[j].kind = "raw"} |-> EntryAt(slots, i)]

ReadDirectory(c) == EntriesOf(DirectorySlots(c))

FirstNamed(entries, part) ==
    LET hits == {i \in DOMAIN entries : entries[i].name = part}
    IN  IF hits = {} THEN NoEntry
        ELSE entries[CHOOSE i \in hits : \A k \in hits : i <= k]

\* A directory without an empty slot: read_directory asserts.
Stuck(e) == e.type = "directory" /\ ~HasEnd(e.cluster)

LookUp(e, part) ==
    IF e.type # "directory" \/ Stuck(e) THEN NoEntry
    ELSE FirstNamed(ReadDirectory(e.cluster), part)

\* The entries a path leads through; find returns the last one when it has
\* the type that is wanted.
Walk(path) ==
    LET step[n \in 0..Len(path)] == IF n = 0 THEN RootEntry ELSE LookUp(step[n - 1], path[n])
    IN  step

\* The root is found whatever type is wanted.
OfType(e, type) == IF e.type = type \/ e = RootEntry THEN e ELSE NoEntry

find(path, type) == OfType(Walk(path)[Len(path)], type)

\* Some directory on the way has no empty slot left.
FindPanics(path) == \E n \in 0..(Len(path) - 1) : Stuck(Walk(path)[n])

Dirname(path)  == SubSeq(path, 1, Len(path) - 1)
Basename(path) == path[Len(path)]

-----------------------------------------------------------------------------
(* The machine *)

Sector(slots) == Directory([i \in 1..SlotsPerSector |-> IF i \in DOMAIN slots THEN slots[i] ELSE End])

Init ==
    /\ disk = [c \in 0..MaxCluster |->
                 [s \in 1..SPC |->
                    CASE c = Root /\ s = 1 -> Sector(<<[kind |-> "free"],
                                                 LongEntry(Image[1][1], TRUE),
                                                 [RawEntry("file", 3) EXCEPT !.size = 2 * ClusterSize]>>)
                      [] c \in {3, 4} -> Data(Image)
                      [] c < 2 -> BeforeData
                      [] OTHER -> Zero]]
    /\ fat = [c \in 0..MaxCluster |-> CASE c = 3 -> 4 [] c \in {0, 1, Root, 4} -> EOF [] OTHER -> 0]
    /\ lock = Nobody
    /\ op = [p \in Procs |-> Idle]
    /\ file = [p \in Procs |-> NoFile]
    /\ panic = "none"
    /\ named = {<<Root, Image[1]>>}
    /\ torn = {} /\ overlap = FALSE /\ loaded = FALSE
    /\ calls = 0 /\ crashes = 0

\* p can take a step: no call with interrupts off is in progress elsewhere.
Runs(p) == panic = "none" /\ \A q \in Procs \ {p} : op[q].pc = "idle" \/ op[q].ie

\* sanity_sector_idx lets the cluster through.
Sane(c) == c <= SaneCluster

\* p can use the disk.
Disk(p) == Runs(p) /\ lock \in {Nobody, p}

Changing(q) == op[q].pc # "idle"

Panic(why) == panic' = why /\ UNCHANGED <<disk, fat, lock, op, file, seen, calls, crashes>>

\* A process that loads its program takes the lock of the disk and may be
\* preempted with it.
LoaderReads ==
    /\ panic = "none" /\ lock = Nobody /\ calls < MaxCalls
    /\ \A q \in Procs : op[q].pc = "idle" \/ op[q].ie
    /\ lock' = Loader
    /\ UNCHANGED <<disk, fat, op, file, panic, seen, calls, crashes>>

LoaderDone ==
    /\ panic = "none" /\ lock = Loader
    /\ \A q \in Procs : op[q].pc = "idle" \/ op[q].ie
    /\ lock' = Nobody
    /\ UNCHANGED <<disk, fat, op, file, panic, seen, calls, crashes>>

\* The machine stops and starts again with what is on the disk.
Crash ==
    /\ crashes < MaxCrashes
    /\ crashes' = crashes + 1
    /\ torn' = torn \cup {op[p].cl : p \in {q \in Procs : op[q].pc \in {"dirw", "fatr", "fatw"}}}
    /\ lock' = Nobody
    /\ op' = [p \in Procs |-> Idle]
    /\ file' = [p \in Procs |-> NoFile]
    /\ panic' = "none"
    /\ UNCHANGED <<disk, fat, named, overlap, loaded, calls>>

\* The disk reports an error while p writes: poll asserts.
DiskError(p) ==
    /\ Disk(p) /\ op[p].pc \in {"dirw", "fatw", "zero", "data", "sizew"}
    /\ Panic("poll")

\* A call that changes a directory begins: it sleeps if the disk is in use.
Begin(p, call) ==
    /\ Runs(p) /\ op[p].pc = "idle" /\ calls < MaxCalls
    /\ calls' = calls + 1
    /\ \E ie \in BOOLEAN :
         /\ lock # Nobody => ie
         /\ (lock = Nobody /\ \A q \in Procs : ~Changing(q)) => ~ie
         /\ op' = [op EXCEPT ![p] = [call EXCEPT !.ie = ie]]
    /\ overlap' = (overlap \/ \E q \in Procs : Changing(q))
    /\ loaded' = (loaded \/ lock = Loader)
    /\ UNCHANGED <<disk, fat, lock, panic, torn, crashes>>

Step(p, rec) == op' = [op EXCEPT ![p] = rec]
Pc(p, l) == op[p].pc = l

Call(pc, path, type, cl, count) ==
    [pc |-> pc, ie |-> FALSE, path |-> path, type |-> type, cl |-> cl, count |-> count,
     c |-> 0, at |-> 0, buf |-> <<>>, s |-> 1]

\* Sector op.s of cluster c goes to the disk, the lock is held up to the last one.
FlushSector(p, c, next) ==
    LET s == op[p].s
    IN  /\ disk' = [disk EXCEPT ![c][s] = op[p].buf[s]]
        /\ IF s < SPC
           THEN Step(p, [op[p] EXCEPT !.s = s + 1]) /\ lock' = p
           ELSE Step(p, next) /\ lock' = Nobody

-----------------------------------------------------------------------------
(* create_entry *)

Create(p, path, type) == Begin(p, Call("slot", path, type, 0, 0)) /\ UNCHANGED <<file, named>>

\* The first empty slot e of the directory.
TakeSlot(p, dir, e) ==
    /\ Step(p, [op[p] EXCEPT !.pc = "cluster",
                  !.c = Chain(dir)[(e - 1) \div SlotsPerCluster + 1],
                  !.at = ((e - 1) % SlotsPerCluster) + 1])
    /\ named' = named \cup {<<dir, Basename(op[p].path)>>}
    /\ UNCHANGED <<disk, fat, lock, file, panic, torn, overlap, loaded, calls, crashes>>

CreateIn(p, parent) ==
    CASE parent = NoEntry ->
           Step(p, Idle) /\ UNCHANGED <<disk, fat, lock, file, panic, seen, calls, crashes>>
      [] Stuck(parent) -> Panic("create_entry: no empty slot")
      [] OTHER -> TakeSlot(p, parent.cluster, EndSlot(DirectorySlots(parent.cluster)))

\* The parent directory and its first empty slot.
CreateSlot(p) ==
    /\ Disk(p) /\ Pc(p, "slot")
    /\ IF FindPanics(Dirname(op[p].path)) THEN Panic("read_directory")
       ELSE CreateIn(p, find(Dirname(op[p].path), "directory"))

\* Mutant of FreeClusters: every entry that does not end a chain counts as free.
NotLastClusters == {c \in 0..MaxCluster : fat[c] # EOF}

FreeClusters == {c \in 0..MaxCluster : fat[c] = 0}

\* find_free_cluster, and the check of the room left, which counts words of 4
\* bytes where an entry has 32.
CreateCluster(p) ==
    LET left == 8 * (SlotsPerCluster - op[p].at + 1)
    IN  /\ Disk(p) /\ Pc(p, "cluster")
        /\ CASE FreeClusters = {} -> Panic("find_free_cluster")
             [] FreeClusters # {} /\ Len(Basename(op[p].path)) + 1 > left -> Panic("not implemented")
             [] OTHER ->
                  /\ Step(p, [op[p] EXCEPT !.pc = "dirr",
                                !.cl = CHOOSE c \in FreeClusters : \A k \in FreeClusters : c <= k])
                  /\ UNCHANGED <<disk, fat, lock, file, panic, seen, calls, crashes>>

\* The long entries, the last piece of the name first, and the entry itself.
NewSlots(name, type, cl) ==
    [k \in 1..(Len(name) + 1) |->
        IF k <= Len(name) THEN LongEntry(name[Len(name) + 1 - k], k = 1)
        ELSE RawEntry(type, cl)]

SectorsOf(slots) ==
    [s \in 1..SPC |-> Directory([i \in 1..SlotsPerSector |-> slots[(s - 1) * SlotsPerSector + i]])]

\* The new slots are put into a copy of the cluster; they may not fit.
CreateFill(p) ==
    LET o    == op[p]
        new  == NewSlots(Basename(o.path), o.type, o.cl)
        old  == ClusterSlots(o.c)
        fill == [i \in 1..SlotsPerCluster |->
                    IF i \in o.at..(o.at + Len(new) - 1) THEN new[i - o.at + 1] ELSE old[i]]
    IN  /\ Disk(p) /\ Pc(p, "dirr")
        /\ IF o.at + Len(new) - 1 > SlotsPerCluster
           THEN Panic("create_entry: past the buffer")
           ELSE /\ Step(p, [o EXCEPT !.pc = "dirw", !.buf = SectorsOf(fill)])
                /\ UNCHANGED <<disk, fat, lock, file, panic, seen, calls, crashes>>

CreateWrite(p) ==
    /\ Disk(p) /\ Pc(p, "dirw")
    /\ FlushSector(p, op[p].c, [op[p] EXCEPT !.pc = "fatr"])
    /\ UNCHANGED <<fat, file, panic, seen, calls, crashes>>

\* update_FAT reads the sector, changes the entry and writes the sector back;
\* the second table is not written.
ReadFat(p) ==
    /\ Disk(p) /\ Pc(p, "fatr")
    /\ Step(p, [op[p] EXCEPT !.pc = "fatw", !.buf = fat])
    /\ UNCHANGED <<disk, fat, lock, file, panic, seen, calls, crashes>>

WriteFat(p) ==
    /\ Disk(p) /\ Pc(p, "fatw")
    /\ fat' = [op[p].buf EXCEPT ![op[p].cl] = EOF]
    /\ Step(p, [op[p] EXCEPT !.pc = "zero", !.buf = [s \in 1..SPC |-> Zero], !.s = 1])
    /\ UNCHANGED <<disk, lock, file, panic, seen, calls, crashes>>

\* The new cluster is zeroed last; the driver refuses one beyond MAX_SECTOR.
CreateZero(p) ==
    /\ Disk(p) /\ Pc(p, "zero")
    /\ IF ~Sane(op[p].cl)
       THEN Panic("sanity_sector_idx")
       ELSE /\ FlushSector(p, op[p].cl, Idle)
            /\ UNCHANGED <<fat, file, panic, seen, calls, crashes>>

-----------------------------------------------------------------------------
(* CharFile *)

\* Fat32FS::open
Open(p, path) ==
    /\ Disk(p) /\ Pc(p, "idle")
    /\ IF FindPanics(path) THEN Panic("read_directory")
       ELSE \E e \in {find(path, "file")} :
              /\ e # NoEntry
              /\ file' = [file EXCEPT ![p] =
                    [open |-> TRUE, path |-> path, cluster |-> e.cluster, size |-> e.size,
                     cached |-> FALSE]]
              /\ UNCHANGED <<disk, fat, lock, op, panic, seen, calls, crashes>>

\* list_directory; is_directory and is_file look a path up in the same way.
ListPanics(path) == FindPanics(path) \/ Stuck(find(path, "directory"))

List(p, path) ==
    /\ Disk(p) /\ Pc(p, "idle") /\ ListPanics(Dirname(path))
    /\ Panic("read_directory")

\* write drops the cache and pads to whole sectors: one more than needed when
\* count is a multiple of them.
Write(p, count) ==
    /\ file[p].open
    /\ Begin(p, Call("parent", file[p].path, "file", file[p].cluster, count))
    /\ file' = [file EXCEPT ![p].cached = FALSE]
    /\ UNCHANGED named

Padded(count) == (count \div SECTOR + 1) * SECTOR

\* write_file looks the parent directory up before it writes.
WriteParent(p) ==
    LET path == Dirname(op[p].path)
    IN  /\ Disk(p) /\ Pc(p, "parent")
        /\ CASE FindPanics(path) -> Panic("read_directory")
             [] ~FindPanics(path) /\ find(path, "directory") = NoEntry -> Panic("write_file")
             [] OTHER ->
                  /\ Step(p, [op[p] EXCEPT !.pc = "data", !.c = find(path, "directory").cluster])
                  /\ UNCHANGED <<disk, fat, lock, file, panic, seen, calls, crashes>>

\* Mutant of WriteData: the end of the chain is not noticed.
WriteOn(p) ==
    LET o     == op[p]
        n     == Padded(o.count) \div SECTOR
        k     == (o.s - 1) \div SPC
    IN  /\ Disk(p) /\ Pc(p, "data")
        /\ disk' = [disk EXCEPT ![o.cl + k][((o.s - 1) % SPC) + 1] = Data(o.path)]
        /\ Step(p, [o EXCEPT !.s = IF o.s = n THEN 1 ELSE o.s + 1,
                             !.pc = IF o.s = n THEN "size" ELSE "data"])
        /\ lock' = IF o.s = n \/ o.s % SPC = 0 THEN Nobody ELSE p
        /\ UNCHANGED <<fat, file, panic, seen, calls, crashes>>

\* One sector of write_to_existing_file: always from the start of the file,
\* along the chain, which is never made longer.
WriteSector(p, chain) ==
    LET o == op[p]
        n == Padded(o.count) \div SECTOR
        k == (o.s - 1) \div SPC + 1
    IN  CASE k > Len(chain) -> Panic("not implemented")
          [] k <= Len(chain) /\ ~Sane(chain[k]) -> Panic("sanity_sector_idx")
          [] OTHER ->
               /\ disk' = [disk EXCEPT ![chain[k]][((o.s - 1) % SPC) + 1] = Data(o.path)]
               /\ Step(p, [o EXCEPT !.s = IF o.s = n THEN 1 ELSE o.s + 1,
                                    !.pc = IF o.s = n THEN "size" ELSE "data"])
               /\ lock' = IF o.s = n \/ o.s % SPC = 0 THEN Nobody ELSE p
               /\ UNCHANGED <<fat, file, panic, seen, calls, crashes>>

WriteData(p) == Disk(p) /\ Pc(p, "data") /\ WriteSector(p, Chain(op[p].cl))

\* update_file_size: the first slot of the parent directory with the cluster
\* of the file gets its new size, in a copy of the cluster it is in.
SizeAt(p, c, i) ==
    LET sector == (i - 1) \div SlotsPerSector + 1
        slot   == ((i - 1) % SlotsPerSector) + 1
    IN  /\ Step(p, [op[p] EXCEPT !.pc = "sizew", !.c = c,
                      !.buf = [disk[c] EXCEPT ![sector].slots[slot].size = Padded(op[p].count)]])
        /\ UNCHANGED <<disk, fat, lock, file, panic, seen, calls, crashes>>

SlotsWith(slots, c) == {i \in DOMAIN slots : slots[i].kind = "raw" /\ slots[i].cluster = c}

WriteSizeIn(p, chain) ==
    \E hits \in {SlotsWith(SlotsOf(chain), op[p].cl)} :
        IF hits = {} THEN Panic("update_file_size")
        ELSE LET at == CHOOSE i \in hits : \A k \in hits : i <= k
             IN  SizeAt(p, chain[(at - 1) \div SlotsPerCluster + 1], ((at - 1) % SlotsPerCluster) + 1)

WriteSize(p) == Disk(p) /\ Pc(p, "size") /\ WriteSizeIn(p, Chain(op[p].c))

WriteSizeBack(p) ==
    /\ Disk(p) /\ Pc(p, "sizew")
    /\ FlushSector(p, op[p].c, Idle)
    /\ UNCHANGED <<fat, file, panic, seen, calls, crashes>>

RoundUp(size) == ((size + ClusterSize - 1) \div ClusterSize) * ClusterSize

\* The first read fills the cache: the whole chain goes into a buffer made for
\* the size the file had when it was opened.
Read(p) ==
    LET f == file[p]
    IN  /\ Disk(p) /\ Pc(p, "idle") /\ f.open /\ ~f.cached
        /\ CASE f.size = 0 -> Panic("BigBuffer::allocate")
             [] f.size > 0 /\ Len(Chain(f.cluster)) * ClusterSize > RoundUp(f.size) ->
                  Panic("read_whole_entry: past the buffer")
             [] OTHER ->
                  /\ file' = [file EXCEPT ![p].cached = TRUE]
                  /\ UNCHANGED <<disk, fat, lock, op, panic, seen, calls, crashes>>

\* lseek to position i: m_size is the size at the time of the open, whatever
\* was written since.
Lseek(p, i) ==
    /\ Runs(p) /\ Pc(p, "idle") /\ file[p].open
    /\ i > file[p].size
    /\ Panic("lseek")

CreateEntry(p) ==
    \/ \E new \in Creatable : Create(p, new[1], new[2])
    \/ CreateSlot(p) \/ CreateCluster(p) \/ CreateFill(p) \/ CreateWrite(p)
    \/ ReadFat(p) \/ WriteFat(p) \/ CreateZero(p)
    \/ DiskError(p)

UseFile(p) ==
    \/ \E path \in Paths : Open(p, path) \/ List(p, path)
    \/ \E n \in Counts : Write(p, n) \/ Lseek(p, n)
    \/ Read(p)
    \/ WriteParent(p) \/ WriteData(p) \/ WriteSize(p) \/ WriteSizeBack(p)

Next ==
    \/ \E p \in Procs : CreateEntry(p)
    \/ \E p \in Users : UseFile(p)
    \/ LoaderReads \/ LoaderDone
    \/ Crash

Spec == Init /\ [][Next]_vars

-----------------------------------------------------------------------------
(* Properties *)

\* The directories that can be read, and every entry with the path to it.
Entries(dir, prefix) ==
    LET es == ReadDirectory(dir.cluster)
    IN  {[at |-> <<dir.cluster, n>>, path |-> Append(prefix, es[n].name), entry |-> es[n]]
            : n \in DOMAIN es}

\* A directory below the root that can be read.
Subdirectory(t) == t.entry.type = "directory" /\ t.entry.cluster # Root /\ HasEnd(t.entry.cluster)

WithSubdirectories(top) == top \cup UNION {Entries(t.entry, t.path) : t \in {u \in top : Subdirectory(u)}}

Tree == IF HasEnd(Root) THEN WithSubdirectories(Entries(RootEntry, <<>>)) ELSE {}

Creating == {op[p].cl : p \in {q \in Procs : op[q].pc \in {"dirw", "fatr", "fatw", "zero"}}}

\* Two entries name the same cluster only if the machine stopped after
\* create_entry wrote the directory and before it wrote the FAT, or if two
\* calls were in the file system at once; and that takes a program that was
\* being loaded when one of them began.
NoCrossLink ==
    /\ overlap => loaded
    /\ ~overlap =>
         LET tree == Tree IN \A t, u \in tree : t.at # u.at /\ t.entry.cluster = u.entry.cluster
                               => t.entry.cluster \in torn

\* Whatever sectors of a directory reached the disk before the machine
\* stopped, read_directory puts together only names that create_entry was
\* given for this directory; two overlapping calls can mix theirs.
NamesAsked == ~overlap => \A t \in Tree : <<t.at[1], t.entry.name>> \in named

\* A file holds what was written to it or nothing, never the data of another
\* file, and never claims more than its clusters hold; with the exception of
\* the entries NoCrossLink allows, and of what a directory among them contains,
\* which has two paths.
OwnData ==
    ~overlap =>
        \A t \in Tree :
            t.entry.type = "file" /\ t.at[1] \notin torn /\ t.entry.cluster \notin torn \cup Creating =>
                LET chain == Chain(t.entry.cluster)
                IN  /\ \A k \in 1..Len(chain) : \A s \in 1..SPC :
                          disk[chain[k]][s] \in {Zero, Data(t.path)}
                    /\ t.entry.size <= Len(chain) * ClusterSize

=============================================================================
