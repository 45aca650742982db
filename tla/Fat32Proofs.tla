----------------------------- MODULE Fat32Proofs -----------------------------
(***************************************************************************)
(* Proofs about Fat32, for any number of processes, clusters, slots of a   *)
(* sector, paths, calls and crashes.                                       *)
(*                                                                         *)
(* The argument follows the cluster that create_entry takes.  While calls  *)
(* do not overlap there is one call at a time, so what it has read is what *)
(* is on the disk when it writes.  The entry reaches the disk in the last  *)
(* sector that holds new slots, before the FAT: until the FAT is written   *)
(* the cluster is Entering, and a crash then makes it torn for good.  For  *)
(* every cluster that is not torn one entry at most refers to it, it is    *)
(* fresh when it is taken, and only the path of that entry leads to it, so *)
(* that what is written through an open file is the file's own data.       *)
(***************************************************************************)
EXTENDS Fat32, SequenceTheorems, WellFoundedInduction, TLAPS

\* The clusters, their slots, and names.
Clusters == 0..MaxCluster
Places   == 1..SlotsPerCluster
Name     == Seq(STRING)

\* A slot of an entry, which names the cluster of the image's file or one that
\* was free when the entry was created.
RawSlot == [kind : {"raw"}, type : {"file", "directory"}, cluster : 5..MaxCluster, size : Nat]
           \cup [kind : {"raw"}, type : {"file"}, cluster : {3}, size : Nat]
Slot    == {End, [kind |-> "free"]} \cup [kind : {"long"}, part : STRING, last : BOOLEAN] \cup RawSlot

\* What a sector, a cluster and its slots can be.
SectorType == {Zero} \cup [is : {"data"}, path : Seq(Name)]
              \cup [is : {"directory"}, slots : [1..SlotsPerSector -> Slot]]
Contents   == [1..SPC -> SectorType]
Table      == [Places -> Slot]

\* The image's file has two clusters, and only clusters from 5 on are ever free.
Fats == {f \in [Clusters -> {0, 4, EOF}] :
            \A c \in Clusters : IF c = 3 THEN f[c] = 4
                               ELSE f[c] \in (IF c < 5 THEN {EOF} ELSE {0, EOF})}

\* Where a slot is in a cluster, and the slots of what a cluster contains.
SectorOf(i)   == (i - 1) \div SlotsPerSector + 1
PlaceOf(i)    == ((i - 1) % SlotsPerSector) + 1
SlotsIn(b)    == [i \in Places |-> Slots(b[SectorOf(i)])[PlaceOf(i)]]
Whole(b)      == (\A s \in 1..SPC : b[s].is # "data") /\ \E i \in Places : SlotsIn(b)[i] = End
EndsAtEnd(t)  == \A i, j \in Places : i < j /\ t[i] = End => t[j] = End

-----------------------------------------------------------------------------
(* Numbers *)

\* A set of the numbers up to n that has 0 and with each the next has all of them.
LEMMA Counting ==
    ASSUME NEW n \in Nat, NEW T, 0 \in T, \A i \in 0..(n - 1) : i \in T => i + 1 \in T
    PROVE  \A i \in 0..n : i \in T
<1> DEFINE R == OpToRel(<, Nat)
           U == {i \in 0..n : i \notin T}
<1> SUFFICES ASSUME U # {} PROVE FALSE
  OBVIOUS
<1>1. PICK m \in U : \A y \in U : ~(<<y, m>> \in R)
  <2>1. IsWellFoundedOn(R, Nat)
    BY NatLessThanWellFounded
  <2>2. U \subseteq Nat
    OBVIOUS
  <2> HIDE DEF R, U
  <2> QED
    BY <2>1, <2>2, WFMin
<1>2. m \in 0..n /\ m # 0 /\ m \notin T
  BY <1>1
<1>3. m - 1 \in 0..(n - 1) /\ (m - 1) + 1 = m
  BY <1>2
<1>4. m - 1 \in U
  BY <1>2, <1>3
<1>5. <<m - 1, m>> \in R
  <2>1. <<m - 1, m>> \in Nat \X Nat /\ <<m - 1, m>>[1] < <<m - 1, m>>[2]
    BY <1>2, <1>3
  <2> QED
    BY <2>1 DEF OpToRel
<1> QED
  BY <1>1, <1>4, <1>5

\* The least of some numbers is one of them.
LEMMA LeastOf ==
    ASSUME NEW S, S \subseteq Nat, S # {}
    PROVE  LET m == CHOOSE i \in S : \A k \in S : i <= k
           IN  m \in S /\ \A k \in S : m <= k
<1> DEFINE R == OpToRel(<, Nat)
<1>1. PICK m \in S : \A y \in S : ~(<<y, m>> \in R)
  <2> HIDE DEF R
  <2>1. IsWellFoundedOn(R, Nat)
    BY NatLessThanWellFounded DEF R
  <2> QED
    BY <2>1, WFMin
<1>2. \A y \in S : m <= y
  <2> SUFFICES ASSUME NEW y \in S, y < m PROVE FALSE
    OBVIOUS
  <2>1. <<y, m>> \in Nat \X Nat /\ <<y, m>>[1] < <<y, m>>[2]
    OBVIOUS
  <2>2. <<y, m>> \in R
    BY <2>1 DEF OpToRel
  <2> QED
    BY <1>1, <2>2
<1> QED
  BY <1>1, <1>2

\* The greatest of the numbers up to n that are in a set.
LEMMA GreatestOf ==
    ASSUME NEW n \in Nat, NEW S, S \subseteq 1..n, S # {}
    PROVE  \E m \in S : \A k \in S : k <= m
<1> DEFINE U == {u \in 0..n : \A k \in S : k <= u}
           m == CHOOSE i \in U : \A k \in U : i <= k
<1>1. U \subseteq Nat /\ n \in U
  OBVIOUS
<1>2. m \in U /\ \A k \in U : m <= k
  BY <1>1, LeastOf
<1>3. m \in S
  <2> SUFFICES ASSUME m \notin S PROVE FALSE
    OBVIOUS
  <2> HIDE DEF m
  <2>1. \A k \in S : k <= m - 1
    BY <1>2
  <2>2. m # 0
    <3>1. PICK k \in S : TRUE
      OBVIOUS
    <3> QED
      BY <1>2, <3>1
  <2>3. m - 1 \in U
    BY <1>2, <2>1, <2>2
  <2> QED
    BY <1>2, <2>3
<1> QED
  BY <1>2, <1>3

\* A place of a cluster is one of a sector.
LEMMA Positions ==
    /\ SlotsPerCluster \in Nat /\ SlotsPerCluster = 2 * SlotsPerSector
    /\ \A i \in Places : /\ SectorOf(i) \in 1..SPC /\ PlaceOf(i) \in 1..SlotsPerSector
                         /\ SectorOf(i) = IF i <= SlotsPerSector THEN 1 ELSE 2
                         /\ PlaceOf(i) = IF i <= SlotsPerSector THEN i ELSE i - SlotsPerSector
<1>1. SlotsPerSector \in Nat /\ SlotsPerSector >= 4 /\ SlotsPerCluster = 2 * SlotsPerSector
  BY FatAssumption DEF SlotsPerCluster, SPC
<1>2. ASSUME NEW i \in Places
      PROVE  /\ SectorOf(i) = IF i <= SlotsPerSector THEN 1 ELSE 2
             /\ PlaceOf(i) = IF i <= SlotsPerSector THEN i ELSE i - SlotsPerSector
  <2>1. (i - 1) \div SlotsPerSector = IF i <= SlotsPerSector THEN 0 ELSE 1
    BY <1>1 DEF Places
  <2>2. (i - 1) % SlotsPerSector = IF i <= SlotsPerSector THEN i - 1 ELSE i - 1 - SlotsPerSector
    BY <1>1 DEF Places
  <2> QED
    BY <1>1, <2>1, <2>2 DEF SectorOf, PlaceOf, Places
<1>3. ASSUME NEW i \in Places
      PROVE  SectorOf(i) \in 1..SPC /\ PlaceOf(i) \in 1..SlotsPerSector
  BY <1>1, <1>2 DEF Places, SPC
<1> QED
  BY <1>1, <1>2, <1>3

\* Each place of each sector is one of the cluster.
LEMMA PlaceIn ==
    ASSUME NEW s \in 1..SPC, NEW k \in 1..SlotsPerSector
    PROVE  LET i == (s - 1) * SlotsPerSector + k
           IN  i \in Places /\ SectorOf(i) = s /\ PlaceOf(i) = k
<1> DEFINE i == (s - 1) * SlotsPerSector + k
<1>1. SlotsPerSector \in Nat /\ SlotsPerCluster = 2 * SlotsPerSector
  BY FatAssumption, Positions
<1>2. CASE s = 1
  <2>1. i = k /\ i \in Places
    BY <1>1, <1>2 DEF Places
  <2> QED
    BY <1>2, <2>1, Positions
<1>3. CASE s = 2
  <2>1. i = SlotsPerSector + k /\ i \in Places /\ ~(i <= SlotsPerSector)
    BY <1>1, <1>3 DEF Places
  <2> QED
    BY <1>1, <1>3, <2>1, Positions
<1> QED
  BY <1>2, <1>3 DEF SPC

-----------------------------------------------------------------------------
(* Slots *)

\* What a sector or a cluster has in its slots.
LEMMA SlotsTyped ==
    /\ End \in Slot /\ ZeroSlots \in [1..SlotsPerSector -> Slot]
    /\ \A x \in SectorType : Slots(x) \in [1..SlotsPerSector -> Slot]
    /\ \A b \in Contents : SlotsIn(b) \in Table
<1>1. End \in Slot /\ ZeroSlots \in [1..SlotsPerSector -> Slot]
  BY DEF Slot, ZeroSlots
<1>2. ASSUME NEW x \in SectorType
      PROVE  Slots(x) \in [1..SlotsPerSector -> Slot]
  <2>1. CASE x = Zero
    BY <1>1, <2>1 DEF Slots, Zero
  <2>2. CASE x \in [is : {"data"}, path : Seq(Name)]
    BY <1>1, <2>2 DEF Slots
  <2>3. CASE x \in [is : {"directory"}, slots : [1..SlotsPerSector -> Slot]]
    BY <1>1, <2>3 DEF Slots
  <2> QED
    BY <2>1, <2>2, <2>3 DEF SectorType
<1>3. ASSUME NEW b \in Contents
      PROVE  SlotsIn(b) \in Table
  <2>1. ASSUME NEW i \in Places
        PROVE  Slots(b[SectorOf(i)])[PlaceOf(i)] \in Slot
    <3>1. SectorOf(i) \in 1..SPC /\ PlaceOf(i) \in 1..SlotsPerSector
      BY Positions
    <3>2. b[SectorOf(i)] \in SectorType
      BY <3>1 DEF Contents
    <3>3. Slots(b[SectorOf(i)]) \in [1..SlotsPerSector -> Slot]
      BY <1>2, <3>2
    <3> QED
      BY <3>1, <3>3
  <2> QED
    BY <2>1 DEF SlotsIn, Table
<1> QED
  BY <1>1, <1>2, <1>3

\* The kinds of slots differ.
LEMMA Kinds ==
    ASSUME NEW x \in Slot
    PROVE  /\ x.kind \in {"end", "free", "long", "raw"} /\ (x = End <=> x.kind = "end")
           /\ x.kind = "raw" => /\ x \in RawSlot /\ x.cluster \in {3} \cup 5..MaxCluster
                                /\ x.size \in Nat /\ x.type \in {"file", "directory"}
                                /\ x.cluster = 3 => x.type = "file"
           /\ x.kind = "long" => x.part \in STRING /\ x.last \in BOOLEAN
<1>1. CASE x = End \/ x = [kind |-> "free"]
  BY <1>1 DEF End
<1>2. CASE x \in [kind : {"long"}, part : STRING, last : BOOLEAN]
  BY <1>2 DEF End
<1>3. CASE x \in RawSlot
  BY <1>3, FatAssumption DEF RawSlot, End
<1> QED
  BY <1>1, <1>2, <1>3 DEF Slot

\* The name of an entry depends on the kinds of the slots before it and on the
\* long ones among them.
LEMMA SameName ==
    ASSUME NEW t, NEW u, NEW i \in Nat,
           \A j \in 1..(i - 1) : t[j].kind = u[j].kind /\ (t[j].kind = "long" => t[j] = u[j])
    PROVE  NameAt(t, i) = NameAt(u, i)
<1> DEFINE L(v) == {j \in 1..(i - 1) : /\ v[j].kind = "long" /\ v[j].last
                                       /\ \A k \in j..(i - 1) : v[k].kind = "long"}
           F(v) == CHOOSE j \in L(v) : \A k \in L(v) : k <= j
<1>1. L(t) = L(u)
  OBVIOUS
<1>2. CASE L(t) = {}
  BY <1>1, <1>2 DEF NameAt
<1>3. CASE L(t) # {}
  <2>1. F(t) = F(u)
    BY <1>1
  <2>2. F(t) \in L(t) /\ \A k \in L(t) : k <= F(t)
    <3>1. i - 1 \in Nat
      BY <1>3
    <3>2. L(t) \subseteq 1..(i - 1)
      OBVIOUS
    <3> HIDE DEF L
    <3> QED
      BY <1>3, <3>1, <3>2, GreatestOf
  <2>3. \A k \in 1..(i - F(t)) : t[i - k].part = u[i - k].part
    <3> SUFFICES ASSUME NEW k \in 1..(i - F(t)) PROVE t[i - k].part = u[i - k].part
      OBVIOUS
    <3>1. F(t) \in 1..(i - 1) /\ \A m \in F(t)..(i - 1) : t[m].kind = "long"
      BY <2>2
    <3> HIDE DEF F
    <3>2. i - k \in F(t)..(i - 1) /\ i - k \in 1..(i - 1)
      BY <3>1
    <3> QED
      BY <3>1, <3>2
  <2>4. NameAt(t, i) = [k \in 1..(i - F(t)) |-> t[i - k].part]
    BY <1>3 DEF NameAt
  <2>5. NameAt(u, i) = [k \in 1..(i - F(u)) |-> u[i - k].part]
    BY <1>1, <1>3 DEF NameAt
  <2> HIDE DEF F
  <2> QED
    BY <2>1, <2>3, <2>4, <2>5
<1> QED
  BY <1>2, <1>3

\* The slots of a new entry from place at on give it its name.
LEMMA NewName ==
    ASSUME NEW t, NEW at \in Nat \ {0}, NEW name \in Name, name # <<>>, NEW type, NEW cl,
           \A k \in 1..Len(name) : t[at + k - 1] = NewSlots(name, type, cl)[k]
    PROVE  NameAt(t, at + Len(name)) = name
<1> DEFINE i == at + Len(name)
           L == {j \in 1..(i - 1) : /\ t[j].kind = "long" /\ t[j].last
                                    /\ \A k \in j..(i - 1) : t[k].kind = "long"}
           first == CHOOSE j \in L : \A k \in L : k <= j
<1>1. Len(name) \in Nat \ {0} /\ name = [k \in 1..Len(name) |-> name[k]]
  BY DEF Name
<1>2. \A k \in 1..Len(name) :
          t[at + k - 1] = LongEntry(name[Len(name) + 1 - k], k = 1)
  <2> SUFFICES ASSUME NEW k \in 1..Len(name)
               PROVE  t[at + k - 1] = LongEntry(name[Len(name) + 1 - k], k = 1)
    OBVIOUS
  <2>1. k \in 1..(Len(name) + 1) /\ k <= Len(name)
    BY <1>1
  <2>2. NewSlots(name, type, cl)[k] = LongEntry(name[Len(name) + 1 - k], k = 1)
    BY <2>1, Zenon DEF NewSlots
  <2> QED
    BY <2>2
<1>3. \A j \in at..(i - 1) : /\ t[j].kind = "long" /\ (t[j].last <=> j = at)
                             /\ t[j].part = name[i - j]
  <2> SUFFICES ASSUME NEW j \in at..(i - 1)
               PROVE  t[j].kind = "long" /\ (t[j].last <=> j = at) /\ t[j].part = name[i - j]
    OBVIOUS
  <2> HIDE DEF L, first
  <2> DEFINE k == j - at + 1
  <2>1. /\ k \in 1..Len(name) /\ at + k - 1 = j
        /\ Len(name) + 1 - k = i - j /\ (k = 1 <=> j = at)
    <3>1. Len(name) \in Nat
      BY <1>1
    <3> DEFINE len == Len(name)
    <3>2. len \in Nat /\ at \in Nat /\ j \in at..(at + len - 1)
      BY <3>1
    <3> HIDE DEF len
    <3>3. /\ k \in 1..len /\ at + k - 1 = j
          /\ len + 1 - k = at + len - j /\ (k = 1 <=> j = at)
      BY <3>2
    <3> QED
      BY <3>3 DEF len
  <2> HIDE DEF k
  <2>2. t[j] = LongEntry(name[i - j], k = 1)
    BY <1>2, <2>1
  <2>3. t[j].kind = "long" /\ t[j].last = (k = 1) /\ t[j].part = name[i - j]
    <3> DEFINE part == name[i - j]
               last == k = 1
    <3>1. t[j] = [kind |-> "long", part |-> part, last |-> last]
      BY <2>2 DEF LongEntry
    <3> HIDE DEF part, last
    <3>2. t[j].kind = "long" /\ t[j].last = last /\ t[j].part = part
      BY <3>1
    <3> QED
      BY <3>2, Zenon DEF part, last
  <2> QED
    BY <2>1, <2>3, Zenon
<1>4. at \in L
  <2>1. at \in 1..(i - 1) /\ at \in at..(i - 1)
    BY <1>1
  <2> QED
    BY <1>3, <2>1
<1>5. \A j \in L : j <= at
  <2> SUFFICES ASSUME NEW j \in L, j > at PROVE FALSE
    BY <1>1
  <2>1. j \in at..(i - 1)
    BY <1>1
  <2> QED
    BY <1>1, <1>3, <2>1
<1>6. first = at
  <2>1. first \in L /\ \A k \in L : k <= first
    BY <1>4, <1>5
  <2>2. L \subseteq Nat
    BY <1>1
  <2> HIDE DEF L, first
  <2> QED
    BY <1>4, <1>5, <2>1, <2>2
<1>7. NameAt(t, i) = [k \in 1..(i - at) |-> t[i - k].part]
  BY <1>4, <1>6 DEF NameAt
<1>8. i - at = Len(name)
  BY <1>1
<1>9. \A k \in 1..Len(name) : t[i - k].part = name[k]
  <2> SUFFICES ASSUME NEW k \in 1..Len(name) PROVE t[i - k].part = name[k]
    OBVIOUS
  <2>1. i - k \in at..(i - 1) /\ i - (i - k) = k
    BY <1>1
  <2> QED
    BY <1>3, <2>1
<1> QED
  BY <1>1, <1>7, <1>8, <1>9

-----------------------------------------------------------------------------
(* Directories *)

\* What is on the disk, and that what lies before the data is no directory.
DiskTypes ==
    /\ disk \in [Clusters -> Contents]
    /\ fat \in Fats
    /\ \A s \in 1..SPC : disk[0][s].is = "data"

\* The slots of cluster c, and those of an entry.
Held(c)      == SlotsIn(disk[c])
Cell(c, i)   == c \in Clusters /\ i \in Places /\ Held(c)[i].kind = "raw"
Target(c, i) == Held(c)[i].cluster
NameIn(c, i) == NameAt(Held(c), i)

\* Entry e is that of slot i of cluster c.
EntryIn(e, c, i) == Cell(c, i) /\ e = EntryAt(Held(c), i)

\* What a path can lead to.
Reached(e) == e = NoEntry \/ e = RootEntry \/ \E c \in Clusters : \E i \in Places : EntryIn(e, c, i)

\* A chain has one cluster or two, because FAT entry 0 and that of the second
\* cluster of the image's file end one.
LEMMA ChainIs ==
    ASSUME fat \in Fats, NEW c \in Clusters
    PROVE  Chain(c) = IF fat[c] = EOF THEN <<c>> ELSE <<c, fat[c]>>
<1> DEFINE all == IF fat[c] = EOF THEN <<c>> ELSE <<c, fat[c]>>
           After(got) == LET next == entry_in_fat(got[Len(got)])
                         IN  IF next >= EOF THEN got ELSE Append(got, next)
           Loop(f) == [n \in 0..MaxCluster |-> IF n = 0 THEN <<c>> ELSE After(f[n - 1])]
           follow == CHOOSE f : f = Loop(f)
           g == [n \in 0..MaxCluster |-> IF n = 0 THEN <<c>> ELSE all]
<1>1. MaxCluster \in Nat /\ MaxCluster >= 4 /\ EOF = MaxCluster + 1 /\ c \in Nat
  BY FatAssumption DEF EOF, Clusters
<1>2. /\ fat[c] \in {0, 4, EOF}
      /\ 0 \in Clusters /\ 4 \in Clusters /\ fat[0] = EOF /\ fat[4] = EOF
  BY <1>1 DEF Fats, Clusters
<1>3. After(<<c>>) = all
  <2>1. Len(<<c>>) = 1 /\ <<c>>[1] = c /\ Append(<<c>>, fat[c]) = <<c, fat[c]>>
    <3>1. ASSUME NEW x, NEW y
          PROVE  Len(<<x>>) = 1 /\ <<x>>[1] = x /\ Append(<<x>>, y) = <<x, y>>
      <4> DEFINE both == Append(<<x>>, y)
      <4>1. Len(<<x>>) = 1 /\ <<x>>[1] = x /\ <<x>> \in Seq({x, y})
        OBVIOUS
      <4>2. both \in Seq({x, y}) /\ Len(both) = 2 /\ both[1] = x /\ both[2] = y
        BY <4>1, AppendProperties
      <4> HIDE DEF both
      <4>3. both = <<x, y>>
        BY <4>2
      <4> QED
        BY <4>1, <4>3 DEF both
    <3> QED
      BY <3>1
  <2>2. After(<<c>>) = IF fat[c] >= EOF THEN <<c>> ELSE <<c, fat[c]>>
    BY <2>1, Zenon DEF entry_in_fat
  <2>3. fat[c] >= EOF <=> fat[c] = EOF
    BY <1>1, <1>2
  <2> QED
    BY <2>2, <2>3
<1>4. After(all) = all
  <2>1. CASE fat[c] = EOF
    BY <1>3, <2>1
  <2>2. CASE fat[c] # EOF
    <3>1. all = <<c, fat[c]>> /\ fat[fat[c]] = EOF
      BY <1>2, <2>2
    <3>2. Len(<<c, fat[c]>>) = 2 /\ <<c, fat[c]>>[2] = fat[c]
      OBVIOUS
    <3> HIDE DEF all
    <3> QED
      BY <1>1, <3>1, <3>2 DEF entry_in_fat
  <2> QED
    BY <2>1, <2>2
<1>5. g = Loop(g)
  <2> HIDE DEF all, After
  <2>1. ASSUME NEW n \in 0..MaxCluster, n # 0
        PROVE  g[n] = After(g[n - 1])
    <3>1. n - 1 \in 0..MaxCluster
      BY <1>1, <2>1
    <3> QED
      BY <1>3, <1>4, <2>1, <3>1
  <2>2. \A n \in 0..MaxCluster : g[n] = IF n = 0 THEN <<c>> ELSE After(g[n - 1])
    BY <2>1
  <2> QED
    BY <2>2
<1>6. follow = Loop(follow)
  <2> HIDE DEF g, Loop
  <2> QED
    BY <1>5
<1>7. Chain(c) = follow[MaxCluster]
  BY DEF Chain
<1> HIDE DEF follow, After, all
<1>8. follow[0] = <<c>> /\ \A n \in 1..MaxCluster : follow[n] = After(follow[n - 1])
  BY <1>1, <1>6
<1> DEFINE T == {n \in 0..MaxCluster : n = 0 \/ follow[n] = all}
<1>9. 0 \in T
  BY <1>1
<1>10. ASSUME NEW n \in 0..(MaxCluster - 1), n \in T
       PROVE  n + 1 \in T
  <2>1. n + 1 \in 1..MaxCluster /\ (n + 1) - 1 = n
    BY <1>1
  <2>2. follow[n + 1] = After(follow[n])
    BY <1>8, <2>1
  <2>3. follow[n + 1] = all
    BY <1>3, <1>4, <1>8, <1>10, <2>2
  <2> QED
    BY <2>1, <2>3
<1>11. \A n \in 0..MaxCluster : n \in T
  <2> HIDE DEF T
  <2> QED
    BY <1>1, <1>9, <1>10, Counting
<1>12. MaxCluster \in 0..MaxCluster /\ MaxCluster # 0
  BY <1>1
<1> QED
  BY <1>7, <1>11, <1>12 DEF all

\* The first empty slot.
LEMMA FirstEnd ==
    ASSUME NEW t \in Table, \E i \in Places : t[i] = End
    PROVE  LET e == EndSlot(t)
           IN  /\ e \in Places /\ t[e] = End /\ \A k \in 1..(e - 1) : t[k] # End
<1> DEFINE S == {i \in Places : t[i] = End}
           m == CHOOSE i \in S : \A k \in S : i <= k
<1>1. SlotsPerCluster \in Nat /\ Len(t) = SlotsPerCluster
  BY Positions DEF Table, Places
<1>2. m \in S /\ \A k \in S : m <= k
  <2>1. S \subseteq Nat /\ S # {}
    BY <1>1 DEF Places
  <2> HIDE DEF S
  <2> QED
    BY <2>1, LeastOf
<1> HIDE DEF m
<1>3. m \in 1..Len(t) /\ t[m] = End
  BY <1>1, <1>2 DEF Places
<1>4. ASSUME NEW k \in 1..(m - 1)
      PROVE  t[k] # End
  <2>1. k \in Places /\ ~(m <= k)
    BY <1>1, <1>3 DEF Places
  <2> QED
    BY <1>2, <2>1
<1> DEFINE First(i) == t[i] = End /\ \A k \in 1..(i - 1) : t[k] # End
<1>5. First(m)
  BY <1>3, <1>4
<1>6. EndSlot(t) = CHOOSE i \in 1..Len(t) : First(i)
  BY DEF EndSlot
<1> HIDE DEF First
<1>7. EndSlot(t) \in 1..Len(t) /\ First(EndSlot(t))
  BY <1>3, <1>5, <1>6
<1> QED
  BY <1>1, <1>7 DEF First, Places

\* A directory that can be read is one cluster.
LEMMA OneCluster ==
    ASSUME DiskTypes, NEW c \in Clusters, c # 3, HasEnd(c)
    PROVE  Chain(c) = <<c>> /\ fat[c] = EOF /\ Whole(disk[c]) /\ DirectorySlots(c) = Held(c)
<1>1. SlotsPerCluster \in Nat /\ SlotsPerCluster >= 8
  BY Positions, FatAssumption
<1>2. Readable(Chain(c))
  BY DEF HasEnd
<1>3. fat[c] = EOF
  <2> SUFFICES ASSUME fat[c] # EOF PROVE FALSE
    OBVIOUS
  <2>1. fat[c] = 0
    BY DEF DiskTypes, Fats
  <2>2. Chain(c) = <<c, 0>>
    BY <2>1, ChainIs DEF DiskTypes
  <2>3. disk[<<c, 0>>[2]][1].is # "data"
    BY <1>2, <2>2 DEF Readable, SPC
  <2> QED
    BY <2>3 DEF DiskTypes, SPC
<1>4. Chain(c) = <<c>>
  BY <1>3, ChainIs DEF DiskTypes
<1>5. ClusterSlots(c) = Held(c)
  BY DEF ClusterSlots, Held, SlotsIn, SectorOf, PlaceOf, Places
<1>6. Held(c) \in Table
  BY SlotsTyped DEF DiskTypes, Held
<1>7. SlotsOf(<<c>>) = Held(c)
  <2>1. Len(<<c>>) = 1 /\ 1 * SlotsPerCluster = SlotsPerCluster
    BY <1>1
  <2>2. SlotsOf(<<c>>) = [i \in Places |->
            ClusterSlots(<<c>>[(i - 1) \div SlotsPerCluster + 1])[((i - 1) % SlotsPerCluster) + 1]]
    BY <2>1 DEF SlotsOf, Places
  <2>3. ASSUME NEW i \in Places
        PROVE  (i - 1) \div SlotsPerCluster + 1 = 1 /\ ((i - 1) % SlotsPerCluster) + 1 = i
    BY <1>1 DEF Places
  <2>4. \A i \in Places : SlotsOf(<<c>>)[i] = Held(c)[i]
    BY <1>5, <2>2, <2>3
  <2>5. Held(c) = [i \in Places |-> Held(c)[i]]
    BY <1>6 DEF Table
  <2> QED
    BY <2>2, <2>4, <2>5
<1>8. Whole(disk[c])
  <2>1. \A s \in 1..SPC : disk[c][s].is # "data"
    BY <1>2, <1>4 DEF Readable
  <2>2. \E i \in 1..(Len(<<c>>) * SlotsPerCluster) : Held(c)[i] = End
    BY <1>2, <1>4, <1>7 DEF Readable
  <2>3. Len(<<c>>) * SlotsPerCluster = SlotsPerCluster
    BY <1>1
  <2> QED
    BY <2>1, <2>2, <2>3 DEF Whole, Held, Places
<1> QED
  BY <1>3, <1>4, <1>7, <1>8 DEF DirectorySlots

\* Each entry of a directory is a slot of its cluster.
LEMMA ReadIs ==
    ASSUME DiskTypes, NEW c \in Clusters, c # 3, HasEnd(c)
    PROVE  \A i \in DOMAIN ReadDirectory(c) : i \in Places /\ EntryIn(ReadDirectory(c)[i], c, i)
<1>1. DirectorySlots(c) = Held(c) /\ Whole(disk[c])
  BY OneCluster
<1>2. Held(c) \in Table
  BY SlotsTyped DEF DiskTypes, Held
<1>3. EndSlot(Held(c)) \in Places
  BY <1>1, <1>2, FirstEnd DEF Whole, Held
<1>4. ReadDirectory(c) = EntriesOf(Held(c))
  BY <1>1 DEF ReadDirectory
<1>5. DOMAIN ReadDirectory(c) = {j \in 1..(EndSlot(Held(c)) - 1) : Held(c)[j].kind = "raw"}
  BY <1>4 DEF EntriesOf
<1>6. ASSUME NEW i \in DOMAIN ReadDirectory(c)
      PROVE  i \in Places /\ Held(c)[i].kind = "raw" /\ ReadDirectory(c)[i] = EntryAt(Held(c), i)
  <2>1. i \in 1..(EndSlot(Held(c)) - 1) /\ Held(c)[i].kind = "raw"
    BY <1>5
  <2>2. i \in Places
    BY <1>3, <2>1, Positions DEF Places
  <2>3. EntriesOf(Held(c))[i] = EntryAt(Held(c), i)
    BY <1>4, <1>5, <2>1 DEF EntriesOf
  <2> QED
    BY <1>4, <2>1, <2>2, <2>3
<1> QED
  BY <1>6 DEF EntryIn, Cell

-----------------------------------------------------------------------------
(* Look-ups *)

\* What the entry of a slot is like.
LEMMA EntryTyped ==
    ASSUME DiskTypes, NEW c, NEW i, NEW e, EntryIn(e, c, i)
    PROVE  /\ Held(c)[i] \in RawSlot /\ e.cluster = Target(c, i) /\ e.name = NameIn(c, i)
           /\ e.type = Held(c)[i].type /\ e.size = Held(c)[i].size
           /\ e.type \in {"file", "directory"} /\ e.size \in Nat
           /\ e.cluster \in {3} \cup 5..MaxCluster /\ e.cluster \in Clusters \ {0, Root}
           /\ e.type = "directory" => e.cluster # 3
           /\ e # NoEntry /\ e # RootEntry
<1>1. Held(c)[i].kind = "raw" /\ e = EntryAt(Held(c), i)
  BY DEF EntryIn, Cell
<1>2. Held(c)[i] \in Slot
  BY SlotsTyped DEF DiskTypes, Held, Table, EntryIn, Cell
<1>3. /\ e.cluster = Target(c, i) /\ e.name = NameIn(c, i)
      /\ e.type = Held(c)[i].type /\ e.size = Held(c)[i].size
  BY <1>1 DEF EntryAt, Target, NameIn
<1>4. /\ Held(c)[i] \in RawSlot /\ e.type \in {"file", "directory"} /\ e.size \in Nat
      /\ e.cluster \in {3} \cup 5..MaxCluster
      /\ e.type = "directory" => e.cluster # 3
  BY <1>1, <1>2, <1>3, Kinds DEF Target
<1>5. e.cluster \in Clusters \ {0, Root}
  BY <1>4, FatAssumption DEF Clusters, Root
<1>6. NoEntry.type = "none" /\ RootEntry.cluster = Root
  BY DEF NoEntry, RootEntry
<1> QED
  BY <1>3, <1>4, <1>5, <1>6

\* What a path leads to is nothing, the root, or the entry of a slot.
LEMMA ReachedTyped ==
    ASSUME DiskTypes, NEW e, Reached(e), e # NoEntry
    PROVE  /\ e.type \in {"file", "directory"} /\ e.size \in Nat
           /\ e.cluster \in {Root, 3} \cup 5..MaxCluster /\ e.cluster \in Clusters \ {0}
           /\ e.type = "directory" => e.cluster # 3
<1>1. CASE e = RootEntry
  BY <1>1, FatAssumption DEF RootEntry, Root, Clusters
<1>2. CASE e # RootEntry
  <2>1. PICK c \in Clusters, i \in Places : EntryIn(e, c, i)
    BY <1>2 DEF Reached
  <2> QED
    BY <2>1, EntryTyped
<1> QED
  BY <1>1, <1>2

\* A part of a path is looked up in a directory that can be read.
LEMMA LookUpIs ==
    ASSUME DiskTypes, NEW e, Reached(e), NEW part, LookUp(e, part) # NoEntry
    PROVE  /\ e.type = "directory" /\ HasEnd(e.cluster) /\ e.cluster \in Clusters /\ e.cluster # 3
           /\ \E i \in Places : /\ EntryIn(LookUp(e, part), e.cluster, i)
                               /\ NameIn(e.cluster, i) = part
<1>1. e.type = "directory" /\ HasEnd(e.cluster)
  BY DEF LookUp, Stuck
<1>2. e # NoEntry
  BY <1>1 DEF NoEntry
<1>3. e.cluster \in Clusters /\ e.cluster # 3
  BY <1>1, <1>2, ReachedTyped
<1> DEFINE es == ReadDirectory(e.cluster)
           hits == {i \in DOMAIN es : es[i].name = part}
           at == CHOOSE i \in hits : \A k \in hits : i <= k
<1>4. LookUp(e, part) = FirstNamed(es, part)
  BY <1>1 DEF LookUp, Stuck
<1>5. hits # {} /\ LookUp(e, part) = es[at]
  BY <1>4 DEF FirstNamed
<1>6. \A i \in DOMAIN es : i \in Places /\ EntryIn(es[i], e.cluster, i)
  BY <1>1, <1>3, ReadIs
<1>7. at \in hits
  <2>1. hits \subseteq Nat
    BY <1>6, Positions DEF Places
  <2> HIDE DEF hits
  <2> QED
    BY <1>5, <2>1, LeastOf
<1> HIDE DEF at
<1>8. at \in Places /\ EntryIn(es[at], e.cluster, at) /\ es[at].name = part
  BY <1>6, <1>7
<1> HIDE DEF es
<1>9. NameIn(e.cluster, at) = part
  BY <1>8, EntryTyped
<1> QED
  BY <1>1, <1>3, <1>5, <1>8, <1>9

\* The steps of a walk up to part n of a path.
Steps(g, n, path) == [m \in 0..n |-> IF m = 0 THEN RootEntry ELSE LookUp(g[m - 1], path[m])]

\* There is a walk along each path.
LEMMA WalkExists ==
    ASSUME NEW path, NEW n \in Nat
    PROVE  \E g : g = Steps(g, n, path)
<1> DEFINE T == {m \in 0..n : \E g : g = Steps(g, m, path)}
<1>1. 0 \in T
  <2> DEFINE g == [i \in 0..0 |-> RootEntry]
  <2>1. g = Steps(g, 0, path)
    BY DEF Steps
  <2> QED
    BY <2>1
<1>2. ASSUME NEW m \in 0..(n - 1), m \in T
      PROVE  m + 1 \in T
  <2>1. PICK g : g = Steps(g, m, path)
    BY <1>2
  <2> DEFINE h == [i \in 0..(m + 1) |-> IF i = m + 1 THEN LookUp(g[m], path[m + 1]) ELSE g[i]]
  <2>2. g[0] = RootEntry /\ \A i \in 1..m : g[i] = LookUp(g[i - 1], path[i])
    BY <2>1 DEF Steps
  <2>3. ASSUME NEW i \in 0..(m + 1)
        PROVE  h[i] = IF i = 0 THEN RootEntry ELSE LookUp(h[i - 1], path[i])
    <3>1. CASE i = 0
      BY <2>2, <3>1
    <3>2. CASE i \in 1..m
      <4>1. i # 0 /\ i # m + 1 /\ i - 1 \in 0..(m + 1) /\ i - 1 # m + 1
        BY <3>2
      <4>2. h[i] = g[i] /\ h[i - 1] = g[i - 1]
        BY <4>1
      <4> QED
        BY <2>2, <3>2, <4>1, <4>2
    <3>3. CASE i = m + 1
      <4>1. i # 0 /\ i - 1 = m /\ m \in 0..(m + 1) /\ m # m + 1
        BY <3>3
      <4>2. h[i] = LookUp(g[m], path[m + 1]) /\ h[m] = g[m]
        BY <3>3, <4>1
      <4> QED
        BY <3>3, <4>1, <4>2
    <3> QED
      BY <3>1, <3>2, <3>3
  <2>4. h = Steps(h, m + 1, path)
    BY <2>3 DEF Steps
  <2> QED
    BY <2>4
<1> HIDE DEF T
<1>3. \A i \in 0..n : i \in T
  BY <1>1, <1>2, Counting
<1> QED
  BY <1>3 DEF T

\* A walk begins at the root and goes on from each entry to the next.
LEMMA WalkSteps ==
    ASSUME NEW path, Len(path) \in Nat
    PROVE  /\ Walk(path)[0] = RootEntry
           /\ \A n \in 1..Len(path) : Walk(path)[n] = LookUp(Walk(path)[n - 1], path[n])
<1> DEFINE N == Len(path)
           Loop(g) == [m \in 0..N |-> IF m = 0 THEN RootEntry ELSE LookUp(g[m - 1], path[m])]
           step == CHOOSE g : g = Loop(g)
<1>1. Walk(path) = step
  BY DEF Walk
<1>2. step = Loop(step)
  <2>1. \E g : g = Loop(g)
    BY WalkExists DEF Steps
  <2> QED
    BY <2>1
<1> HIDE DEF step
<1>3. step[0] = RootEntry /\ \A n \in 1..N : step[n] = LookUp(step[n - 1], path[n])
  BY <1>2
<1> QED
  BY <1>1, <1>3

\* So each entry on the way is the root or lies in the directory before it.
LEMMA WalkIs ==
    ASSUME DiskTypes, NEW path, Len(path) \in Nat
    PROVE  \A n \in 0..Len(path) :
             LET e == Walk(path)[n]
                 d == Walk(path)[n - 1]
             IN  /\ Reached(e) /\ (n = 0 <=> e = RootEntry)
                 /\ n # 0 /\ e # NoEntry =>
                      /\ Reached(d) /\ d.type = "directory" /\ HasEnd(d.cluster)
                      /\ d.cluster \in Clusters /\ d.cluster # 3
                      /\ \E i \in Places : EntryIn(e, d.cluster, i) /\ NameIn(d.cluster, i) = path[n]
<1> DEFINE w == Walk(path)
           N == Len(path)
           T == {n \in 0..N : Reached(w[n])}
<1>0. w[0] = RootEntry /\ \A n \in 1..N : w[n] = LookUp(w[n - 1], path[n])
  BY WalkSteps
<1> HIDE DEF w
<1>1. 0 \in T
  BY <1>0 DEF Reached
<1>2. ASSUME NEW n \in 0..(N - 1), Reached(w[n]), w[n + 1] # NoEntry
      PROVE  /\ w[n].type = "directory" /\ HasEnd(w[n].cluster)
             /\ w[n].cluster \in Clusters /\ w[n].cluster # 3
             /\ \E i \in Places : /\ EntryIn(w[n + 1], w[n].cluster, i)
                                 /\ NameIn(w[n].cluster, i) = path[n + 1]
  <2>1. n + 1 \in 1..N /\ (n + 1) - 1 = n
    OBVIOUS
  <2>2. w[n + 1] = LookUp(w[n], path[n + 1])
    BY <1>0, <2>1
  <2> QED
    BY <1>2, <2>2, LookUpIs
<1>3. ASSUME NEW n \in 0..(N - 1), n \in T
      PROVE  n + 1 \in T
  <2>1. CASE w[n + 1] = NoEntry
    BY <2>1 DEF Reached
  <2>2. CASE w[n + 1] # NoEntry
    BY <1>2, <1>3, <2>2 DEF Reached
  <2> QED
    BY <2>1, <2>2
<1>4. \A n \in 0..N : n \in T
  <2> HIDE DEF T
  <2> QED
    BY <1>1, <1>3, Counting
<1>5. ASSUME NEW n \in 0..N
      PROVE  LET e == w[n]
                 d == w[n - 1]
             IN  /\ Reached(e) /\ (n = 0 <=> e = RootEntry)
                 /\ n # 0 /\ e # NoEntry =>
                      /\ Reached(d) /\ d.type = "directory" /\ HasEnd(d.cluster)
                      /\ d.cluster \in Clusters /\ d.cluster # 3
                      /\ \E i \in Places : EntryIn(e, d.cluster, i) /\ NameIn(d.cluster, i) = path[n]
  <2>1. CASE n = 0
    BY <1>0, <1>4, <2>1
  <2>2. CASE n # 0
    <3>1. n - 1 \in 0..(N - 1) /\ (n - 1) + 1 = n /\ n - 1 \in 0..N
      BY <2>2
    <3>2. Reached(w[n]) /\ Reached(w[n - 1])
      BY <1>4, <3>1
    <3>3. CASE w[n] = NoEntry
      <4>1. NoEntry # RootEntry
        <5>1. NoEntry.type = "none" /\ RootEntry.type = "directory"
          BY DEF NoEntry, RootEntry
        <5> QED
          BY <5>1
      <4> QED
        BY <2>2, <3>2, <3>3, <4>1
    <3>4. CASE w[n] # NoEntry
      <4>1. /\ w[n - 1].type = "directory" /\ HasEnd(w[n - 1].cluster)
            /\ w[n - 1].cluster \in Clusters /\ w[n - 1].cluster # 3
            /\ \E i \in Places : /\ EntryIn(w[n], w[n - 1].cluster, i)
                                /\ NameIn(w[n - 1].cluster, i) = path[n]
        BY <1>2, <3>1, <3>2, <3>4
      <4>2. w[n] # RootEntry
        BY <4>1, EntryTyped
      <4> QED
        BY <2>2, <3>2, <4>1, <4>2
    <3> QED
      BY <3>3, <3>4
  <2> QED
    BY <2>1, <2>2
<1> QED
  BY <1>5 DEF w

-----------------------------------------------------------------------------
(* Types *)

Filing   == {"slot", "cluster", "dirr", "dirw", "fatr", "fatw", "zero"}
Writing  == {"parent", "data", "size", "sizew"}
Flushing == {"dirw", "zero", "data", "sizew"}

\* The variables of a call.
CallType ==
    [pc : Filing \cup Writing, ie : BOOLEAN, path : Paths, type : {"file", "directory"},
     cl : Clusters, count : Nat, c : Clusters, at : Nat, buf : {<<>>} \cup Contents \cup Fats,
     s : Nat \ {0}]

\* What a call has in its variables, by where it is.
CallOk(o) ==
    /\ o \in {Idle} \cup CallType
    /\ o.pc \in Filing => \E t \in {"file", "directory"} : <<o.path, t>> \in Creatable
    /\ o.pc \in {"slot", "cluster", "dirr", "parent", "size"} => o.s = 1
    /\ o.pc \in {"dirw", "zero", "sizew"} => o.buf \in Contents /\ o.s \in 1..SPC
    /\ o.pc = "fatw" => o.buf \in Fats
    /\ o.pc \in {"cluster", "dirr", "dirw", "sizew"} => o.c # 0
    /\ o.pc \in {"dirr", "dirw", "fatr", "fatw", "zero"} => o.cl >= 5

\* An open CharFile.
FileType == [open : {TRUE}, path : Paths, cluster : Clusters, size : Nat, cached : BOOLEAN]

TypeInv ==
    /\ DiskTypes
    /\ file \in [Procs -> {NoFile} \cup FileType]
    /\ lock \in Procs \cup {Nobody, Loader}
    /\ op \in [Procs -> {Idle} \cup CallType] /\ \A p \in Procs : CallOk(op[p])
    /\ {overlap, loaded} \subseteq BOOLEAN

\* Calls overlap, or run with interrupts on, only when a program has been
\* loaded during one; a call keeps the disk's lock only between two sectors.
LoadedFirst ==
    /\ overlap => loaded
    /\ \A p \in Procs : op[p].ie => loaded
    /\ lock \in Procs => op[lock].pc \in Flushing

\* The part of the invariant that holds with overlapping calls too.
Base == TypeInv /\ LoadedFirst

\* A step that leaves all this alone.
LEMMA BaseSame ==
    ASSUME Base, UNCHANGED <<disk, fat, lock, op, file, overlap, loaded>>
    PROVE  Base'
BY DEF Base, TypeInv, DiskTypes, LoadedFirst

\* The lock of the disk is not p's outside a write.
LEMMA LockFree ==
    ASSUME Base, NEW p \in Procs, Disk(p), op[p].pc \notin Flushing
    PROVE  lock = Nobody
<1>1. lock \in {Nobody, p}
  BY DEF Disk
<1>2. lock # p
  BY DEF Base, LoadedFirst
<1> QED
  BY <1>1, <1>2

\* The names of the locks are no process.
LEMMA NoProcess ==
    Nobody \notin Procs /\ Loader \notin Procs /\ Nobody # Loader
BY FatAssumption DEF Nobody, Loader

\* One step of a call of p.
LEMMA StepTyped ==
    ASSUME Base, NEW p \in Procs, NEW rec, Step(p, rec), CallOk(rec), DiskTypes',
           rec.ie => op[p].ie, lock' \in {Nobody, p}, lock' = p => rec.pc \in Flushing,
           UNCHANGED <<file, overlap, loaded>>
    PROVE  Base'
<1>1. /\ op \in [Procs -> {Idle} \cup CallType] /\ \A q \in Procs : CallOk(op[q])
      /\ op' = [op EXCEPT ![p] = rec]
  BY DEF Base, TypeInv, Step
<1>2. rec \in {Idle} \cup CallType
  BY DEF CallOk
<1>3. /\ op' \in [Procs -> {Idle} \cup CallType] /\ op'[p] = rec
      /\ \A q \in Procs \ {p} : op'[q] = op[q]
  BY <1>1, <1>2
<1>4. \A q \in Procs : CallOk(op'[q])
  BY <1>1, <1>3
<1>5. TypeInv'
  <2>1. file' \in [Procs -> {NoFile} \cup FileType] /\ {overlap', loaded'} \subseteq BOOLEAN
    BY DEF Base, TypeInv
  <2>2. (\A q \in Procs : CallOk(op[q]))'
    BY <1>4 DEF CallOk
  <2> QED
    BY <1>3, <2>1, <2>2 DEF TypeInv
<1>6. LoadedFirst'
  <2>1. \A q \in Procs : op'[q].ie => loaded'
    BY <1>3 DEF Base, LoadedFirst
  <2>2. lock' \in Procs => op'[lock'].pc \in Flushing
    BY <1>3, NoProcess
  <2>3. overlap' => loaded'
    BY DEF Base, LoadedFirst
  <2> QED
    BY <2>1, <2>2, <2>3 DEF LoadedFirst
<1> QED
  BY <1>5, <1>6 DEF Base

\* One sector written.
LEMMA Written ==
    ASSUME DiskTypes, NEW c \in Clusters, NEW s \in 1..SPC, NEW x \in SectorType,
           c = 0 => x.is = "data",
           disk' = [disk EXCEPT ![c][s] = x], UNCHANGED fat
    PROVE  /\ DiskTypes' /\ disk'[c] = [disk[c] EXCEPT ![s] = x]
           /\ \A d \in Clusters \ {c} : disk'[d] = disk[d]
<1>1. disk \in [Clusters -> Contents] /\ disk[c] \in [1..SPC -> SectorType]
  BY DEF DiskTypes, Contents
<1>2. disk' = [disk EXCEPT ![c] = [disk[c] EXCEPT ![s] = x]]
  BY <1>1
<1>3. [disk[c] EXCEPT ![s] = x] \in Contents
  BY <1>1 DEF Contents
<1>4. /\ disk' \in [Clusters -> Contents] /\ disk'[c] = [disk[c] EXCEPT ![s] = x]
      /\ \A d \in Clusters \ {c} : disk'[d] = disk[d]
  BY <1>1, <1>2, <1>3
<1>5. 0 \in Clusters /\ \A t \in 1..SPC : disk[0][t].is = "data"
  BY FatAssumption DEF DiskTypes, Clusters
<1>6. \A t \in 1..SPC : disk'[0][t].is = "data"
  <2>1. CASE c = 0
    BY <1>1, <1>4, <1>5, <2>1
  <2>2. CASE c # 0
    BY <1>4, <1>5, <2>2
  <2> QED
    BY <2>1, <2>2
<1> QED
  BY <1>4, <1>6 DEF DiskTypes

\* The call of a process that is in one.
LEMMA InCall ==
    ASSUME Base, NEW p \in Procs, op[p].pc # "idle"
    PROVE  op[p] \in CallType /\ CallOk(op[p])
<1>1. op[p] \in {Idle} \cup CallType /\ CallOk(op[p])
  BY DEF Base, TypeInv
<1> QED
  BY <1>1 DEF Idle

\* FlushSector, which ends in the call next.
LEMMA FlushTyped ==
    ASSUME Base, NEW p \in Procs, op[p].pc \in {"dirw", "zero", "sizew"},
           NEW c \in Clusters, c # 0, NEW next, CallOk(next), next.ie => op[p].ie,
           FlushSector(p, c, next), UNCHANGED <<fat, file, overlap, loaded>>
    PROVE  Base'
<1> DEFINE o == op[p]
<1>1. o \in CallType /\ CallOk(o)
  BY InCall
<1>2. o.s \in 1..SPC /\ o.buf \in Contents
  BY <1>1 DEF CallOk
<1>3. o.buf[o.s] \in SectorType
  BY <1>2 DEF Contents
<1>4. DiskTypes'
  <2>1. DiskTypes /\ disk' = [disk EXCEPT ![c][o.s] = o.buf[o.s]]
    BY DEF FlushSector, Base, TypeInv
  <2> QED
    BY <1>2, <1>3, <2>1, Written
<1>5. CASE o.s < SPC
  <2> DEFINE rec == [o EXCEPT !.s = o.s + 1]
  <2>1. Step(p, rec) /\ lock' = p
    BY <1>5 DEF FlushSector
  <2>2. rec \in CallType /\ rec.pc = o.pc /\ rec.s \in 1..SPC /\ rec.ie = o.ie
    BY <1>1, <1>2, <1>5 DEF CallType, SPC
  <2>3. CallOk(rec)
    <3>1. rec.buf = o.buf /\ rec.path = o.path /\ rec.c = o.c /\ rec.cl = o.cl
      BY <1>1 DEF CallType
    <3> HIDE DEF rec
    <3> QED
      BY <1>1, <2>2, <3>1 DEF CallOk, Filing
  <2>4. rec.pc \in Flushing
    BY <2>2 DEF Flushing
  <2> HIDE DEF rec
  <2> QED
    BY <1>4, <2>1, <2>2, <2>3, <2>4, StepTyped
<1>6. CASE ~(o.s < SPC)
  <2>1. Step(p, next) /\ lock' = Nobody /\ Nobody # p
    BY <1>6, NoProcess DEF FlushSector
  <2> QED
    BY <1>4, <2>1, StepTyped
<1> QED
  BY <1>5, <1>6

\* The call that is over.
LEMMA IdleOk ==
    CallOk(Idle) /\ Idle.ie = FALSE /\ Idle.pc = "idle"
BY DEF CallOk, Idle, Filing

\* A step of a call outside a write, which leaves the disk alone.
LEMMA QuietStep ==
    ASSUME Base, NEW p \in Procs, Disk(p), op[p].pc \notin Flushing, NEW rec, CallOk(rec),
           rec.ie => op[p].ie, Step(p, rec), UNCHANGED <<disk, fat, lock, file, overlap, loaded>>
    PROVE  Base'
<1>1. lock = Nobody /\ Nobody # p
  BY LockFree, NoProcess
<1>2. DiskTypes'
  BY DEF Base, TypeInv, DiskTypes
<1> QED
  BY <1>1, <1>2, StepTyped

\* What find returns.
LEMMA FindIs ==
    ASSUME DiskTypes, NEW path, Len(path) \in Nat, NEW type
    PROVE  LET e == find(path, type)
           IN  Reached(e) /\ (e # NoEntry => e = Walk(path)[Len(path)]
                                            /\ (e.type = type \/ e = RootEntry))
<1>1. Reached(Walk(path)[Len(path)])
  BY WalkIs
<1> QED
  BY <1>1 DEF find, OfType, Reached

\* The paths of calls.
LEMMA PathTyped ==
    ASSUME NEW path \in Paths
    PROVE  /\ path \in Seq(Name) /\ Len(path) \in Nat /\ Len(Dirname(path)) \in Nat
           /\ path # <<>> => /\ Dirname(path) \in Seq(Name) /\ Len(Dirname(path)) = Len(path) - 1
                            /\ Len(path) \in Nat \ {0} /\ Basename(path) \in Name
                            /\ \A n \in 1..(Len(path) - 1) : Dirname(path)[n] = path[n]
<1>1. path \in Seq(Name) /\ Len(path) \in Nat
  BY FatAssumption DEF Name
<1>2. ASSUME path # <<>>
      PROVE  /\ Dirname(path) \in Seq(Name) /\ Len(Dirname(path)) = Len(path) - 1
             /\ Len(path) \in Nat \ {0} /\ Basename(path) \in Name
             /\ \A n \in 1..(Len(path) - 1) : Dirname(path)[n] = path[n]
  <2>1. Len(path) # 0
    BY <1>1, <1>2, EmptySeq
  <2>2. Dirname(path) = SubSeq(path, 1, Len(path) - 1)
    BY DEF Dirname
  <2> DEFINE n == Len(path)
  <2>3. n \in Nat \ {0} /\ n - 1 <= n /\ 1 \in Int /\ n - 1 \in Int
    BY <1>1, <2>1
  <2>4. /\ SubSeq(path, 1, n - 1) \in Seq(Name) /\ Len(SubSeq(path, 1, n - 1)) = n - 1
        /\ \A k \in 1..(n - 1) : SubSeq(path, 1, n - 1)[k] = path[k]
    <3>1. \A i \in 1..(n - 1) : path[i] \in Name
      BY <1>1, <2>3
    <3> HIDE DEF n
    <3> QED
      BY <2>3, <3>1, SubSeqProperties
  <2>5. path[n] \in Name
    BY <1>1, <2>3
  <2> QED
    BY <2>2, <2>3, <2>4, <2>5 DEF Basename
<1>3. CASE path = <<>>
  <2>1. Dirname(path) = SubSeq(path, 1, -1)
    BY <1>3 DEF Dirname
  <2>2. Dirname(path) = <<>>
    BY <2>1, SubSeqEmpty
  <2> QED
    BY <1>1, <1>3, <2>2
<1>4. CASE path # <<>>
  BY <1>1, <1>2, <1>4
<1> QED
  BY <1>3, <1>4

\* The paths that are created.
LEMMA CreatableTyped ==
    ASSUME NEW path, NEW t, <<path, t>> \in Creatable
    PROVE  path \in Paths /\ path # <<>> /\ Basename(path) # <<>> /\ t \in {"file", "directory"}
<1> DEFINE new == <<path, t>>
<1>1. new \in Creatable /\ new[1] = path /\ new[2] = t
  OBVIOUS
<1>2. new \in Paths \X {"file", "directory"} /\ new[1] # <<>> /\ new[1][Len(new[1])] # <<>>
  BY <1>1, FatAssumption
<1> QED
  BY <1>1, <1>2 DEF Basename

\* A call begins.
LEMMA BeginTyped ==
    ASSUME Base, NEW p \in Procs, NEW call, call \in CallType, call.pc \in {"slot", "parent"},
           call.pc = "slot" => \E t \in {"file", "directory"} : <<call.path, t>> \in Creatable,
           call.s = 1, Begin(p, call), file' \in [Procs -> {NoFile} \cup FileType]
    PROVE  Base' /\ \E ie \in BOOLEAN : op' = [op EXCEPT ![p] = [call EXCEPT !.ie = ie]]
<1>1. PICK ie \in BOOLEAN :
         /\ (lock = Nobody /\ \A q \in Procs : ~Changing(q)) => ~ie
         /\ op' = [op EXCEPT ![p] = [call EXCEPT !.ie = ie]]
  BY DEF Begin
<1> DEFINE rec == [call EXCEPT !.ie = ie]
<1>2. /\ op \in [Procs -> {Idle} \cup CallType] /\ \A q \in Procs : CallOk(op[q])
      /\ op[p].pc = "idle" /\ Runs(p) /\ UNCHANGED <<disk, fat, lock>>
      /\ overlap' = (overlap \/ \E q \in Procs : Changing(q)) /\ loaded' = (loaded \/ lock = Loader)
  BY DEF Base, TypeInv, Begin
<1>3. rec \in CallType /\ rec.pc = call.pc /\ rec.path = call.path /\ rec.s = 1 /\ rec.ie = ie
  BY DEF CallType
<1>4. CallOk(rec)
  <2> HIDE DEF rec
  <2>1. rec.pc \in Filing => rec.pc = "slot"
    BY <1>3 DEF Filing
  <2> QED
    BY <1>3, <2>1 DEF CallOk
<1>5. op' = [op EXCEPT ![p] = rec]
  BY <1>1
<1> HIDE DEF rec
<1>6. /\ op' \in [Procs -> {Idle} \cup CallType] /\ op'[p] = rec
      /\ \A q \in Procs \ {p} : op'[q] = op[q]
  BY <1>2, <1>3, <1>5
<1>7. TypeInv'
  <2>1. (\A q \in Procs : CallOk(op[q]))'
    BY <1>2, <1>4, <1>6 DEF CallOk
  <2>2. DiskTypes'
    BY <1>2 DEF Base, TypeInv, DiskTypes
  <2>3. lock' \in Procs \cup {Nobody, Loader} /\ {overlap', loaded'} \subseteq BOOLEAN
    BY <1>2 DEF Base, TypeInv
  <2> QED
    BY <1>6, <2>1, <2>2, <2>3 DEF TypeInv
<1>8. ASSUME NEW q \in Procs, Changing(q)
      PROVE  loaded
  <2>1. op[q].pc # "idle" /\ q # p
    BY <1>2, <1>8 DEF Changing
  <2>2. op[q].ie
    BY <1>2, <2>1 DEF Runs
  <2> QED
    BY <2>2 DEF Base, LoadedFirst
<1>9. lock \in Procs => Changing(lock) /\ lock # p
  BY <1>2 DEF Base, LoadedFirst, Changing, Flushing
<1>10. LoadedFirst'
  <2>1. overlap' => loaded'
    BY <1>2, <1>8 DEF Base, LoadedFirst
  <2>2. ie => loaded'
    <3>1. CASE \E q \in Procs : Changing(q)
      BY <1>2, <1>8, <3>1
    <3>2. CASE lock = Loader
      BY <1>2, <3>2
    <3>3. CASE lock # Loader /\ \A q \in Procs : ~Changing(q)
      <4>1. lock \in Procs \cup {Nobody, Loader}
        BY DEF Base, TypeInv
      <4>2. lock = Nobody
        BY <1>9, <3>3, <4>1
      <4> QED
        BY <1>1, <3>3, <4>2
    <3> QED
      BY <3>1, <3>2, <3>3
  <2>3. \A q \in Procs : op'[q].ie => loaded'
    <3>1. ASSUME NEW q \in Procs \ {p}, op'[q].ie
          PROVE  loaded'
      BY <1>2, <1>6, <3>1 DEF Base, LoadedFirst
    <3> QED
      BY <1>3, <1>6, <2>2, <3>1
  <2>4. lock' \in Procs => op'[lock'].pc \in Flushing
    BY <1>2, <1>6, <1>9 DEF Base, LoadedFirst
  <2> QED
    BY <2>1, <2>3, <2>4 DEF LoadedFirst
<1> QED
  BY <1>1, <1>7, <1>10 DEF Base

\* The first step of create_entry: it stops the kernel, gives up, or takes the
\* first empty slot of a directory.
LEMMA CreateSlotIs ==
    ASSUME Base, NEW p \in Procs, CreateSlot(p)
    PROVE  LET path == Dirname(op[p].path)
               dir  == Walk(path)[Len(path)].cluster
           IN  \/ UNCHANGED <<disk, fat, lock, op, file, seen>>
               \/ Step(p, Idle) /\ UNCHANGED <<disk, fat, lock, file, seen>>
               \/ /\ op' = [op EXCEPT ![p] = [op[p] EXCEPT !.pc = "cluster", !.c = dir,
                                                       !.at = EndSlot(Held(dir))]]
                  /\ named' = named \cup {<<dir, Basename(op[p].path)>>}
                  /\ UNCHANGED <<disk, fat, lock, file, torn, overlap, loaded>>
                  /\ Reached(Walk(path)[Len(path)]) /\ Walk(path)[Len(path)].type = "directory"
                  /\ dir \in Clusters \ {0, 3} /\ fat[dir] = EOF /\ Whole(disk[dir])
<1> DEFINE path == Dirname(op[p].path)
           e == find(path, "directory")
           dir == Walk(path)[Len(path)].cluster
<1>1. op[p] \in CallType /\ CallOk(op[p]) /\ op[p].pc = "slot"
  BY InCall DEF CreateSlot, Pc
<1>2. op[p].path \in Paths /\ op[p].path # <<>>
  BY <1>1, CreatableTyped DEF CallOk, Filing
<1>3. DiskTypes /\ path \in Seq(Name) /\ Len(path) \in Nat
  BY <1>2, PathTyped DEF Base, TypeInv
<1>4. CASE FindPanics(path)
  BY <1>4 DEF CreateSlot, Panic
<1>5. CASE ~FindPanics(path) /\ e = NoEntry
  <2>1. CreateIn(p, e)
    BY <1>5 DEF CreateSlot
  <2>2. ~Stuck(NoEntry)
    BY DEF Stuck, NoEntry
  <2> HIDE DEF e
  <2>3. Step(p, Idle) /\ UNCHANGED <<disk, fat, lock, file, panic, seen, calls, crashes>>
    BY <1>5, <2>1, <2>2 DEF CreateIn
  <2> QED
    BY <2>3
<1>6. CASE ~FindPanics(path) /\ e # NoEntry /\ Stuck(e)
  BY <1>6 DEF CreateSlot, CreateIn, Panic
<1>7. CASE ~FindPanics(path) /\ e # NoEntry /\ ~Stuck(e)
  <2>1. TakeSlot(p, e.cluster, EndSlot(DirectorySlots(e.cluster)))
    BY <1>7 DEF CreateSlot, CreateIn
  <2>2. Reached(e) /\ e = Walk(path)[Len(path)] /\ e.type = "directory"
    BY <1>3, <1>7, FindIs DEF RootEntry
  <2>3. dir = e.cluster
    BY <2>2
  <2>4. dir \in Clusters \ {0, 3}
    BY <1>3, <1>7, <2>2, <2>3, ReachedTyped
  <2>5. HasEnd(dir)
    BY <1>7, <2>2, <2>3 DEF Stuck
  <2>6. Chain(dir) = <<dir>> /\ fat[dir] = EOF /\ Whole(disk[dir]) /\ DirectorySlots(dir) = Held(dir)
    BY <1>3, <2>4, <2>5, OneCluster
  <2>7. Held(dir) \in Table
    BY <1>3, <2>4, SlotsTyped DEF DiskTypes, Held
  <2> DEFINE at == EndSlot(Held(dir))
  <2>8. at \in Places
    BY <2>6, <2>7, FirstEnd DEF Whole, Held
  <2>9. (at - 1) \div SlotsPerCluster + 1 = 1 /\ ((at - 1) % SlotsPerCluster) + 1 = at
    <3> HIDE DEF at
    <3>1. SlotsPerCluster \in Nat /\ SlotsPerCluster >= 8
      BY Positions, FatAssumption
    <3> QED
      BY <2>8, <3>1 DEF Places
  <2> HIDE DEF at, e
  <2>10. TakeSlot(p, dir, at)
    BY <2>1, <2>3, <2>6 DEF at
  <2>11. op' = [op EXCEPT ![p] = [op[p] EXCEPT !.pc = "cluster", !.c = dir, !.at = at]]
    <3> HIDE DEF dir
    <3>1. Chain(dir)[(at - 1) \div SlotsPerCluster + 1] = dir
      BY <2>6, <2>9
    <3> QED
      BY <2>9, <2>10, <3>1 DEF TakeSlot, Step
  <2> QED
    BY <2>2, <2>4, <2>6, <2>10, <2>11 DEF TakeSlot, at
<1> QED
  BY <1>4, <1>5, <1>6, <1>7

\* create_entry finds the directory and its first empty slot.
LEMMA CreateSlotTyped ==
    ASSUME Base, NEW p \in Procs, CreateSlot(p)
    PROVE  Base'
<1> DEFINE path == Dirname(op[p].path)
           dir == Walk(path)[Len(path)].cluster
           rec == [op[p] EXCEPT !.pc = "cluster", !.c = dir, !.at = EndSlot(Held(dir))]
<1>1. op[p] \in CallType /\ CallOk(op[p]) /\ op[p].pc = "slot" /\ Disk(p)
  BY InCall DEF CreateSlot, Pc
<1>2. op[p].pc \notin Flushing
  BY <1>1 DEF Flushing
<1>3. CASE UNCHANGED <<disk, fat, lock, op, file, seen>>
  BY <1>3, BaseSame DEF seen
<1>4. CASE Step(p, Idle) /\ UNCHANGED <<disk, fat, lock, file, seen>>
  BY <1>1, <1>2, <1>4, IdleOk, QuietStep DEF seen
<1>5. CASE /\ op' = [op EXCEPT ![p] = rec] /\ dir \in Clusters \ {0, 3} /\ Whole(disk[dir])
           /\ UNCHANGED <<disk, fat, lock, file, torn, overlap, loaded>>
  <2>1. Held(dir) \in Table
    BY <1>5, SlotsTyped DEF Base, TypeInv, DiskTypes, Held
  <2> DEFINE at == EndSlot(Held(dir))
  <2>2. at \in Nat
    <3>1. at \in Places
      BY <1>5, <2>1, FirstEnd DEF Whole, Held
    <3> QED
      BY <3>1, Positions DEF Places
  <2>3. Step(p, rec)
    BY <1>5 DEF Step
  <2> HIDE DEF dir, at
  <2>4. /\ rec \in CallType /\ rec.pc = "cluster" /\ rec.path = op[p].path /\ rec.s = op[p].s
        /\ rec.c = dir /\ rec.ie = op[p].ie
    BY <1>1, <1>5, <2>2 DEF CallType, Filing, at
  <2>5. CallOk(rec)
    <3> HIDE DEF rec
    <3> QED
      BY <1>1, <1>5, <2>4 DEF CallOk, Filing
  <2> HIDE DEF rec
  <2> QED
    BY <1>1, <1>2, <1>5, <2>3, <2>4, <2>5, QuietStep
<1> QED
  BY <1>3, <1>4, <1>5, CreateSlotIs

\* The choice of a free cluster.
LEMMA CreateClusterIs ==
    ASSUME Base, NEW p \in Procs, CreateCluster(p)
    PROVE  \/ UNCHANGED <<disk, fat, lock, op, file, seen>>
           \/ /\ UNCHANGED <<disk, fat, lock, file, seen>>
              /\ \E cl \in 5..MaxCluster : /\ fat[cl] = 0
                                           /\ Step(p, [op[p] EXCEPT !.pc = "dirr", !.cl = cl])
<1> DEFINE cl == CHOOSE c \in FreeClusters : \A k \in FreeClusters : c <= k
<1>1. CASE FreeClusters = {}
  BY <1>1 DEF CreateCluster, Panic
<1>2. CASE FreeClusters # {}
  <2>1. FreeClusters \subseteq Nat
    BY FatAssumption DEF FreeClusters
  <2>2. cl \in FreeClusters
    BY <1>2, <2>1, LeastOf
  <2> HIDE DEF cl
  <2>3. cl \in Clusters /\ fat[cl] = 0
    BY <2>2 DEF FreeClusters, Clusters
  <2>4. cl \in 5..MaxCluster
    <3>1. fat \in Fats
      BY DEF Base, TypeInv, DiskTypes
    <3>2. cl >= 5
      BY <2>3, <3>1, FatAssumption DEF Fats, EOF, Clusters
    <3> QED
      BY <2>3, <3>2 DEF Clusters
  <2>5. \/ UNCHANGED <<disk, fat, lock, op, file, seen>>
        \/ /\ UNCHANGED <<disk, fat, lock, file, seen>>
           /\ Step(p, [op[p] EXCEPT !.pc = "dirr", !.cl = cl])
    BY <1>2 DEF CreateCluster, Panic, cl
  <2> QED
    BY <2>3, <2>4, <2>5
<1> QED
  BY <1>1, <1>2

\* find_free_cluster takes a cluster from 5 on.
LEMMA CreateClusterTyped ==
    ASSUME Base, NEW p \in Procs, CreateCluster(p)
    PROVE  Base'
<1>1. op[p] \in CallType /\ CallOk(op[p]) /\ op[p].pc = "cluster" /\ Disk(p)
  BY InCall DEF CreateCluster, Pc
<1>2. CASE UNCHANGED <<disk, fat, lock, op, file, seen>>
  BY <1>2, BaseSame DEF seen
<1>3. CASE /\ UNCHANGED <<disk, fat, lock, file, seen>>
           /\ \E cl \in 5..MaxCluster : Step(p, [op[p] EXCEPT !.pc = "dirr", !.cl = cl])
  <2>1. PICK cl \in 5..MaxCluster : Step(p, [op[p] EXCEPT !.pc = "dirr", !.cl = cl])
    BY <1>3
  <2> DEFINE rec == [op[p] EXCEPT !.pc = "dirr", !.cl = cl]
  <2>2. cl \in Clusters /\ cl >= 5
    BY FatAssumption DEF Clusters
  <2>3. /\ rec \in CallType /\ rec.pc = "dirr" /\ rec.path = op[p].path /\ rec.s = op[p].s
        /\ rec.c = op[p].c /\ rec.cl = cl /\ rec.ie = op[p].ie
    BY <1>1, <2>2 DEF CallType, Filing
  <2> HIDE DEF rec
  <2>4. CallOk(rec)
    BY <1>1, <2>2, <2>3 DEF CallOk, Filing
  <2>5. op[p].pc \notin Flushing
    BY <1>1 DEF Flushing
  <2> QED
    BY <1>1, <1>3, <2>1, <2>3, <2>4, <2>5, QuietStep DEF rec, seen
<1> QED
  BY <1>2, <1>3, CreateClusterIs

\* A cluster's slots, put back together from its sectors.
LEMMA SectorsIn ==
    ASSUME NEW t \in Table
    PROVE  /\ SectorsOf(t) \in Contents /\ SlotsIn(SectorsOf(t)) = t
           /\ \A s \in 1..SPC : SectorsOf(t)[s].is = "directory"
<1> DEFINE b == SectorsOf(t)
           At(s) == [i \in 1..SlotsPerSector |-> t[(s - 1) * SlotsPerSector + i]]
<1>1. b = [s \in 1..SPC |-> [is |-> "directory", slots |-> At(s)]]
  BY DEF SectorsOf, Directory
<1>2. ASSUME NEW s \in 1..SPC
      PROVE  At(s) \in [1..SlotsPerSector -> Slot]
  BY PlaceIn DEF Table
<1>3. ASSUME NEW s \in 1..SPC
      PROVE  b[s].is = "directory" /\ b[s].slots = At(s) /\ b[s] \in SectorType
  <2> HIDE DEF At
  <2>1. b[s] = [is |-> "directory", slots |-> At(s)]
    BY <1>1
  <2> QED
    BY <1>2, <2>1 DEF SectorType
<1>4. b \in Contents
  <2> HIDE DEF At
  <2> QED
    BY <1>1, <1>3 DEF Contents
<1>5. ASSUME NEW i \in Places
      PROVE  SlotsIn(b)[i] = t[i]
  <2> DEFINE s == SectorOf(i)
             k == PlaceOf(i)
  <2>1. s \in 1..SPC /\ k \in 1..SlotsPerSector
    BY Positions
  <2>2. SlotsIn(b)[i] = Slots(b[s])[k]
    BY DEF SlotsIn
  <2>3. Slots(b[s]) = At(s)
    BY <1>3, <2>1 DEF Slots
  <2>4. (s - 1) * SlotsPerSector + k = i
    <3>1. SlotsPerSector \in Nat /\ i \in Nat
      BY FatAssumption, Positions DEF Places
    <3>2. /\ s = IF i <= SlotsPerSector THEN 1 ELSE 2
          /\ k = IF i <= SlotsPerSector THEN i ELSE i - SlotsPerSector
      BY Positions
    <3> HIDE DEF s, k
    <3>3. CASE i <= SlotsPerSector
      BY <3>1, <3>2, <3>3
    <3>4. CASE ~(i <= SlotsPerSector)
      BY <3>1, <3>2, <3>4
    <3> QED
      BY <3>3, <3>4
  <2>5. At(s)[k] = t[(s - 1) * SlotsPerSector + k]
    BY <2>1
  <2> HIDE DEF s, k, At
  <2> QED
    BY <2>2, <2>3, <2>4, <2>5
<1>6. SlotsIn(b) = t
  <2>1. SlotsIn(b) = [i \in Places |-> SlotsIn(b)[i]] /\ t = [i \in Places |-> t[i]]
    BY DEF SlotsIn, Table
  <2> HIDE DEF b
  <2> QED
    BY <1>5, <2>1
<1> QED
  BY <1>3, <1>4, <1>6

\* The slots of a new entry.
LEMMA NewTyped ==
    ASSUME NEW name \in Name, NEW type \in {"file", "directory"}, NEW cl \in 5..MaxCluster
    PROVE  LET new == NewSlots(name, type, cl)
               n   == Len(name)
           IN  /\ n \in Nat /\ new \in [1..(n + 1) -> Slot] /\ Len(new) = n + 1
               /\ \A k \in 1..n : new[k].kind = "long"
               /\ new[n + 1] = RawEntry(type, cl) /\ new[n + 1] \in RawSlot
<1> DEFINE new == NewSlots(name, type, cl)
           n == Len(name)
           Item(k) == IF k <= n THEN LongEntry(name[n + 1 - k], k = 1) ELSE RawEntry(type, cl)
<1>1. n \in Nat /\ name \in [1..n -> STRING]
  BY DEF Name
<1>2. new = [k \in 1..(n + 1) |-> Item(k)]
  BY DEF NewSlots
<1>3. RawEntry(type, cl) \in RawSlot
  BY DEF RawEntry, RawSlot
<1>4. ASSUME NEW part \in STRING, NEW last \in BOOLEAN
      PROVE  LongEntry(part, last) \in Slot /\ LongEntry(part, last).kind = "long"
  BY DEF LongEntry, Slot
<1>5. ASSUME NEW k \in 1..n
      PROVE  Item(k) \in Slot /\ Item(k).kind = "long"
  <2>1. name[n + 1 - k] \in STRING
    BY <1>1
  <2>2. (k = 1) \in BOOLEAN
    OBVIOUS
  <2>3. k <= n
    BY <1>1
  <2>4. Item(k) = LongEntry(name[n + 1 - k], k = 1)
    BY <2>3, Zenon
  <2>5. LongEntry(name[n + 1 - k], k = 1) \in Slot /\ LongEntry(name[n + 1 - k], k = 1).kind = "long"
    BY <1>4, <2>1, <2>2, Zenon
  <2> QED
    BY <2>4, <2>5, Zenon
<1>6. Item(n + 1) = RawEntry(type, cl)
  <2>1. ~(n + 1 <= n)
    BY <1>1
  <2> QED
    BY <2>1, Zenon
<1>7. n + 1 \in 1..(n + 1) /\ \A k \in 1..(n + 1) : k \in 1..n \/ k = n + 1
  BY <1>1
<1> HIDE DEF Item
<1>8. \A k \in 1..(n + 1) : Item(k) \in Slot
  BY <1>3, <1>5, <1>6, <1>7 DEF Slot
<1>9. new \in [1..(n + 1) -> Slot]
  BY <1>2, <1>8
<1>10. Len(new) = n + 1
  <2>1. n + 1 \in Nat
    BY <1>1
  <2> HIDE DEF new, n
  <2> QED
    BY <1>9, <2>1
<1>11. \A k \in 1..n : k \in 1..(n + 1) /\ new[k].kind = "long"
  BY <1>1, <1>2, <1>5
<1>12. new[n + 1] = RawEntry(type, cl)
  BY <1>2, <1>6, <1>7
<1> QED
  BY <1>1, <1>3, <1>9, <1>10, <1>11, <1>12

\* The slots that the new entry of a call takes.
Length(o) == Len(Basename(o.path)) + 1
NewIn(o)  == NewSlots(Basename(o.path), o.type, o.cl)
Filled(o) == o.at..(o.at + Length(o) - 1)
Fill(o)   == [i \in Places |-> IF i \in Filled(o) THEN NewIn(o)[i - o.at + 1] ELSE Held(o.c)[i]]

\* The new entry of a call that creates one.
LEMMA NewEntry ==
    ASSUME NEW o, o \in CallType, CallOk(o), o.pc \in {"dirr", "dirw"}
    PROVE  /\ Basename(o.path) \in Name /\ Basename(o.path) # <<>>
           /\ Len(Basename(o.path)) \in Nat \ {0} /\ Length(o) \in Nat /\ Length(o) >= 2
           /\ NewIn(o) \in [1..Length(o) -> Slot] /\ Len(NewIn(o)) = Length(o)
           /\ \A k \in 1..(Length(o) - 1) : NewIn(o)[k].kind = "long"
           /\ NewIn(o)[Length(o)] = RawEntry(o.type, o.cl) /\ RawEntry(o.type, o.cl) \in RawSlot
<1> DEFINE name == Basename(o.path)
<1>1. o.path \in Paths /\ o.path # <<>> /\ name # <<>>
  BY CreatableTyped DEF CallOk, Filing
<1>2. name \in Name
  BY <1>1, PathTyped
<1>3. o.type \in {"file", "directory"} /\ o.cl \in 5..MaxCluster
  BY FatAssumption DEF CallOk, CallType, Clusters
<1> HIDE DEF name
<1>4. Len(name) \in Nat \ {0}
  BY <1>1, <1>2, EmptySeq DEF Name
<1> DEFINE new == NewSlots(name, o.type, o.cl)
           n == Len(name)
<1>5. /\ new \in [1..(n + 1) -> Slot] /\ Len(new) = n + 1
      /\ \A k \in 1..n : new[k].kind = "long"
      /\ new[n + 1] = RawEntry(o.type, o.cl) /\ new[n + 1] \in RawSlot
  BY <1>2, <1>3, NewTyped
<1>6. NewIn(o) = new /\ Length(o) = n + 1
  BY DEF NewIn, Length, name
<1> HIDE DEF new
<1>7. (n + 1) - 1 = n /\ n + 1 >= 2 /\ n + 1 \in Nat
  BY <1>4
<1> QED
  BY <1>1, <1>2, <1>4, <1>5, <1>6, <1>7 DEF name

\* ClusterSlots, by the place in the sector.
LEMMA ClusterIs ==
    ASSUME NEW c
    PROVE  ClusterSlots(c) = Held(c)
BY DEF ClusterSlots, Held, SlotsIn, SectorOf, PlaceOf, Places

\* The new slots go into a copy of the cluster.
LEMMA CreateFillIs ==
    ASSUME Base, NEW p \in Procs, CreateFill(p)
    PROVE  \/ UNCHANGED <<disk, fat, lock, op, file, seen>>
           \/ /\ op[p].at + Length(op[p]) - 1 <= SlotsPerCluster
              /\ Fill(op[p]) \in Table
              /\ Step(p, [op[p] EXCEPT !.pc = "dirw", !.buf = SectorsOf(Fill(op[p]))])
              /\ UNCHANGED <<disk, fat, lock, file, seen>>
<1> DEFINE o == op[p]
<1>1. o \in CallType /\ CallOk(o) /\ o.pc = "dirr"
  BY InCall DEF CreateFill, Pc
<1>2. NewIn(o) \in [1..Length(o) -> Slot] /\ Len(NewIn(o)) = Length(o) /\ Length(o) \in Nat
  BY <1>1, NewEntry
<1>3. o.at \in Nat /\ o.c \in Clusters
  BY <1>1 DEF CallType
<1>4. Held(o.c) \in Table
  BY <1>3, SlotsTyped DEF Base, TypeInv, DiskTypes, Held
<1>5. ASSUME NEW i \in Places
      PROVE  Fill(o)[i] \in Slot
  <2>1. CASE i \in Filled(o)
    <3>1. i - o.at + 1 \in 1..Length(o)
      BY <1>2, <1>3, <2>1 DEF Filled
    <3> QED
      BY <1>2, <2>1, <3>1 DEF Fill
  <2>2. CASE i \notin Filled(o)
    BY <1>4, <2>2 DEF Fill, Table
  <2> QED
    BY <2>1, <2>2
<1>6. Fill(o) \in Table
  <2>1. Fill(o) = [i \in Places |-> Fill(o)[i]]
    BY DEF Fill
  <2> QED
    BY <1>5, <2>1 DEF Table
<1> DEFINE fill == [i \in 1..SlotsPerCluster |->
                     IF i \in o.at..(o.at + Len(NewIn(o)) - 1) THEN NewIn(o)[i - o.at + 1]
                     ELSE ClusterSlots(o.c)[i]]
<1>7. /\ fill = Fill(o)
      /\ o.at + Len(NewIn(o)) - 1 = o.at + Length(o) - 1
  BY <1>2, ClusterIs DEF Fill, Places, Filled
<1>8. IF o.at + Len(NewIn(o)) - 1 > SlotsPerCluster
      THEN Panic("create_entry: past the buffer")
      ELSE /\ Step(p, [o EXCEPT !.pc = "dirw", !.buf = SectorsOf(fill)])
           /\ UNCHANGED <<disk, fat, lock, file, panic, seen, calls, crashes>>
  BY DEF CreateFill, NewIn
<1> HIDE DEF fill, o
<1>9. SlotsPerCluster \in Nat /\ o.at + Length(o) - 1 \in Int
  BY <1>2, <1>3, Positions
<1> DEFINE past == o.at + Length(o) - 1
<1>10. CASE past > SlotsPerCluster
  BY <1>7, <1>8, <1>10 DEF Panic
<1>11. CASE ~(past > SlotsPerCluster)
  <2>1. past <= SlotsPerCluster
    BY <1>9, <1>11
  <2>2. /\ Step(p, [o EXCEPT !.pc = "dirw", !.buf = SectorsOf(Fill(o))])
        /\ UNCHANGED <<disk, fat, lock, file, panic, seen, calls, crashes>>
    BY <1>7, <1>8, <1>11
  <2> QED
    BY <1>6, <2>1, <2>2 DEF o
<1> QED
  BY <1>10, <1>11

\* The copy of the directory gets the new slots.
LEMMA CreateFillTyped ==
    ASSUME Base, NEW p \in Procs, CreateFill(p)
    PROVE  Base'
<1>1. op[p] \in CallType /\ CallOk(op[p]) /\ op[p].pc = "dirr" /\ Disk(p)
  BY InCall DEF CreateFill, Pc
<1>2. CASE UNCHANGED <<disk, fat, lock, op, file, seen>>
  BY <1>2, BaseSame DEF seen
<1> DEFINE buf == SectorsOf(Fill(op[p]))
           rec == [op[p] EXCEPT !.pc = "dirw", !.buf = buf]
<1>3. CASE /\ Fill(op[p]) \in Table /\ Step(p, rec)
           /\ UNCHANGED <<disk, fat, lock, file, seen>>
  <2>1. buf \in Contents
    BY <1>3, SectorsIn
  <2> HIDE DEF buf
  <2>2. /\ rec \in CallType /\ rec.pc = "dirw" /\ rec.path = op[p].path /\ rec.s = op[p].s
        /\ rec.c = op[p].c /\ rec.cl = op[p].cl /\ rec.ie = op[p].ie /\ rec.buf = buf
    BY <1>1, <2>1 DEF CallType, Filing
  <2> HIDE DEF rec
  <2>3. CallOk(rec)
    BY <1>1, <2>1, <2>2 DEF CallOk, Filing, SPC
  <2>4. op[p].pc \notin Flushing
    BY <1>1 DEF Flushing
  <2> QED
    BY <1>1, <1>3, <2>2, <2>3, <2>4, QuietStep DEF seen
<1> QED
  BY <1>2, <1>3, CreateFillIs

\* A sector of the directory goes to the disk.
LEMMA CreateWriteTyped ==
    ASSUME Base, NEW p \in Procs, CreateWrite(p)
    PROVE  Base'
<1> DEFINE o == op[p]
           next == [o EXCEPT !.pc = "fatr"]
<1>1. o \in CallType /\ CallOk(o) /\ o.pc = "dirw"
  BY InCall DEF CreateWrite, Pc
<1>2. o.c \in Clusters /\ o.c # 0
  BY <1>1 DEF CallType, CallOk
<1>3. /\ next \in CallType /\ next.pc = "fatr" /\ next.path = o.path /\ next.ie = o.ie
      /\ next.cl = o.cl
  BY <1>1 DEF CallType, Filing
<1>4. FlushSector(p, o.c, next) /\ UNCHANGED <<fat, file, overlap, loaded>>
  BY DEF CreateWrite, seen
<1> HIDE DEF next
<1>5. CallOk(next)
  BY <1>1, <1>3 DEF CallOk, Filing
<1> QED
  BY <1>1, <1>2, <1>3, <1>4, <1>5, FlushTyped

\* update_FAT reads the table.
LEMMA ReadFatTyped ==
    ASSUME Base, NEW p \in Procs, ReadFat(p)
    PROVE  Base'
<1> DEFINE o == op[p]
           rec == [o EXCEPT !.pc = "fatw", !.buf = fat]
<1>1. o \in CallType /\ CallOk(o) /\ o.pc = "fatr" /\ Disk(p)
  BY InCall DEF ReadFat, Pc
<1>2. fat \in Fats
  BY DEF Base, TypeInv, DiskTypes
<1>3. /\ rec \in CallType /\ rec.pc = "fatw" /\ rec.path = o.path /\ rec.ie = o.ie
      /\ rec.cl = o.cl /\ rec.buf = fat
  BY <1>1, <1>2 DEF CallType, Filing
<1>4. Step(p, rec) /\ UNCHANGED <<disk, fat, lock, file, overlap, loaded>>
  BY DEF ReadFat, seen
<1> HIDE DEF rec
<1>5. CallOk(rec)
  BY <1>1, <1>2, <1>3 DEF CallOk, Filing
<1>6. o.pc \notin Flushing
  BY <1>1 DEF Flushing
<1> QED
  BY <1>1, <1>3, <1>4, <1>5, <1>6, QuietStep

\* update_FAT writes the table it has read.
LEMMA WriteFatTyped ==
    ASSUME Base, NEW p \in Procs, WriteFat(p)
    PROVE  Base'
<1> DEFINE o == op[p]
           zeros == [s \in 1..SPC |-> Zero]
           rec == [o EXCEPT !.pc = "zero", !.buf = zeros, !.s = 1]
<1>1. o \in CallType /\ CallOk(o) /\ o.pc = "fatw" /\ Disk(p)
  BY InCall DEF WriteFat, Pc
<1>2. o.buf \in Fats /\ o.cl \in Clusters /\ o.cl >= 5
  BY <1>1 DEF CallOk, CallType
<1>3. zeros \in Contents
  BY DEF Contents, SectorType
<1>4. /\ fat' = [o.buf EXCEPT ![o.cl] = EOF] /\ Step(p, rec)
      /\ UNCHANGED <<disk, lock, file, overlap, loaded>>
  BY DEF WriteFat, seen
<1>5. fat' \in Fats
  BY <1>2, <1>4 DEF Fats
<1>6. DiskTypes'
  BY <1>4, <1>5 DEF Base, TypeInv, DiskTypes
<1>7. lock' = Nobody /\ Nobody # p
  <2>1. o.pc \notin Flushing
    BY <1>1 DEF Flushing
  <2> QED
    BY <1>1, <1>4, <2>1, LockFree, NoProcess
<1> HIDE DEF zeros
<1>8. /\ rec \in CallType /\ rec.pc = "zero" /\ rec.path = o.path /\ rec.ie = o.ie
      /\ rec.cl = o.cl /\ rec.buf = zeros /\ rec.s = 1
  <2> HIDE DEF o
  <2>1. rec \in CallType
    <3> DEFINE half == [o EXCEPT !.pc = "zero", !.buf = zeros]
    <3>1. half \in CallType
      BY <1>1, <1>3 DEF CallType, Filing
    <3>2. rec = [half EXCEPT !.s = 1]
      BY <1>1 DEF CallType
    <3> HIDE DEF half, rec
    <3> QED
      BY <3>1, <3>2 DEF CallType
  <2>2. /\ rec.pc = "zero" /\ rec.path = o.path /\ rec.ie = o.ie
        /\ rec.cl = o.cl /\ rec.buf = zeros /\ rec.s = 1
    BY <1>1 DEF CallType
  <2> QED
    BY <2>1, <2>2
<1> HIDE DEF rec
<1>9. CallOk(rec)
  BY <1>1, <1>2, <1>3, <1>8 DEF CallOk, Filing, SPC
<1> QED
  BY <1>4, <1>6, <1>7, <1>8, <1>9, StepTyped

\* A sector of the new cluster is zeroed.
LEMMA CreateZeroTyped ==
    ASSUME Base, NEW p \in Procs, CreateZero(p)
    PROVE  Base'
<1> DEFINE o == op[p]
<1>1. o \in CallType /\ CallOk(o) /\ o.pc = "zero"
  BY InCall DEF CreateZero, Pc
<1>2. o.cl \in Clusters /\ o.cl # 0
  BY <1>1 DEF CallType, CallOk
<1>3. CASE ~Sane(o.cl)
  BY <1>3, BaseSame DEF CreateZero, Panic, seen
<1>4. CASE Sane(o.cl)
  <2>1. FlushSector(p, o.cl, Idle) /\ UNCHANGED <<fat, file, overlap, loaded>>
    BY <1>4 DEF CreateZero, seen
  <2> QED
    BY <1>1, <1>2, <2>1, IdleOk, FlushTyped
<1> QED
  BY <1>3, <1>4

\* create_entry is called: every path has a base name.
LEMMA CreateTyped ==
    ASSUME Base, NEW p \in Procs, NEW new \in Creatable, Create(p, new[1], new[2])
    PROVE  Base'
<1> DEFINE call == Call("slot", new[1], new[2], 0, 0)
<1>1. new = <<new[1], new[2]>> /\ new[1] \in Paths /\ new[2] \in {"file", "directory"}
  BY FatAssumption
<1>2. /\ call \in CallType /\ call.pc = "slot" /\ call.path = new[1] /\ call.s = 1
  BY <1>1, FatAssumption DEF Call, CallType, Filing, Clusters
<1>3. Begin(p, call) /\ file' \in [Procs -> {NoFile} \cup FileType]
  BY DEF Create, Base, TypeInv
<1>4. \E t \in {"file", "directory"} : <<call.path, t>> \in Creatable
  BY <1>1, <1>2
<1> HIDE DEF call
<1> QED
  BY <1>2, <1>3, <1>4, BeginTyped

\* An open file.
LEMMA OpenFile ==
    ASSUME Base, NEW p \in Procs, file[p].open
    PROVE  file[p] \in FileType
<1>1. file[p] \in {NoFile} \cup FileType
  BY DEF Base, TypeInv
<1> QED
  BY <1>1 DEF NoFile

\* CharFile::write is called: only open files are written.
LEMMA WriteTyped ==
    ASSUME Base, NEW p \in Procs, NEW count \in Counts, Write(p, count)
    PROVE  Base'
<1> DEFINE call == Call("parent", file[p].path, "file", file[p].cluster, count)
<1>1. file[p] \in FileType
  BY OpenFile DEF Write
<1>2. /\ call \in CallType /\ call.pc = "parent" /\ call.s = 1
  <2>1. /\ file[p].path \in Paths /\ file[p].cluster \in Clusters /\ count \in Nat
        /\ 0 \in Clusters
    <3>1. file[p].path \in Paths /\ file[p].cluster \in Clusters
      BY <1>1 DEF FileType
    <3>2. Counts \subseteq Nat /\ MaxCluster \in Nat
      BY FatAssumption
    <3> QED
      BY <3>1, <3>2 DEF Clusters
  <2> DEFINE path == file[p].path
             c == file[p].cluster
  <2> HIDE DEF path, c
  <2>2. Call("parent", path, "file", c, count) \in CallType
    BY <2>1 DEF Call, CallType, Writing, path, c
  <2> QED
    BY <2>2 DEF Call, path, c
<1>3. Begin(p, call) /\ file' = [file EXCEPT ![p].cached = FALSE]
  BY DEF Write
<1>4. file' \in [Procs -> {NoFile} \cup FileType]
  <2>1. [file[p] EXCEPT !.cached = FALSE] \in FileType
    BY <1>1 DEF FileType
  <2> QED
    BY <1>3, <2>1 DEF Base, TypeInv
<1> HIDE DEF call
<1> QED
  BY <1>2, <1>3, <1>4, BeginTyped

\* Steps that change only what is known of the open files.
LEMMA FileTyped ==
    ASSUME Base, file' \in [Procs -> {NoFile} \cup FileType],
           UNCHANGED <<disk, fat, lock, op, overlap, loaded>>
    PROVE  Base'
BY DEF Base, TypeInv, DiskTypes, LoadedFirst

\* Fat32FS::open
LEMMA OpenIs ==
    ASSUME Base, NEW p \in Procs, NEW path \in Paths, Open(p, path)
    PROVE  \/ UNCHANGED <<disk, fat, lock, op, file, seen>>
           \/ /\ Reached(Walk(path)[Len(path)]) /\ Walk(path)[Len(path)] # NoEntry
              /\ Walk(path)[Len(path)].type = "file" \/ Walk(path)[Len(path)] = RootEntry
              /\ file' = [file EXCEPT ![p] =
                    [open |-> TRUE, path |-> path, cluster |-> Walk(path)[Len(path)].cluster,
                     size |-> Walk(path)[Len(path)].size, cached |-> FALSE]]
              /\ UNCHANGED <<disk, fat, lock, op, seen>>
<1>1. DiskTypes /\ Len(path) \in Nat
  BY PathTyped DEF Base, TypeInv
<1>2. CASE FindPanics(path)
  BY <1>2 DEF Open, Panic
<1>3. CASE ~FindPanics(path)
  <2> DEFINE e == find(path, "file")
  <2>1. /\ e # NoEntry /\ UNCHANGED <<disk, fat, lock, op, seen>>
        /\ file' = [file EXCEPT ![p] =
                    [open |-> TRUE, path |-> path, cluster |-> e.cluster, size |-> e.size,
                     cached |-> FALSE]]
    BY <1>3 DEF Open
  <2>2. Reached(e) /\ e = Walk(path)[Len(path)] /\ (e.type = "file" \/ e = RootEntry)
    BY <1>1, <2>1, FindIs
  <2> QED
    BY <2>1, <2>2
<1> QED
  BY <1>2, <1>3

\* A file is opened.
LEMMA OpenTyped ==
    ASSUME Base, NEW p \in Procs, NEW path \in Paths, Open(p, path)
    PROVE  Base'
<1> DEFINE e == Walk(path)[Len(path)]
<1>1. CASE UNCHANGED <<disk, fat, lock, op, file, seen>>
  BY <1>1, BaseSame DEF seen
<1>2. CASE /\ Reached(e) /\ e # NoEntry
           /\ file' = [file EXCEPT ![p] =
                    [open |-> TRUE, path |-> path, cluster |-> e.cluster, size |-> e.size,
                     cached |-> FALSE]]
           /\ UNCHANGED <<disk, fat, lock, op, seen>>
  <2>1. e.cluster \in Clusters /\ e.size \in Nat
    BY <1>2, ReachedTyped DEF Base, TypeInv
  <2> HIDE DEF e
  <2>2. [open |-> TRUE, path |-> path, cluster |-> e.cluster, size |-> e.size,
         cached |-> FALSE] \in FileType
    BY <2>1 DEF FileType
  <2>3. file' \in [Procs -> {NoFile} \cup FileType]
    BY <1>2, <2>2 DEF Base, TypeInv
  <2> QED
    BY <1>2, <2>3, FileTyped DEF seen
<1> QED
  BY <1>1, <1>2, OpenIs

\* The first read.
LEMMA ReadIs2 ==
    ASSUME Base, NEW p \in Procs, Read(p)
    PROVE  \/ UNCHANGED <<disk, fat, lock, op, file, seen>>
           \/ /\ file[p] \in FileType /\ file' = [file EXCEPT ![p].cached = TRUE]
              /\ UNCHANGED <<disk, fat, lock, op, seen>>
<1>1. file[p] \in FileType
  BY OpenFile DEF Read
<1>2. file[p].size \in Nat
  BY <1>1 DEF FileType
<1> DEFINE past == Len(Chain(file[p].cluster)) * ClusterSize > RoundUp(file[p].size)
<1>3. CASE file[p].size = 0
  BY <1>3 DEF Read, Panic
<1>4. CASE file[p].size > 0 /\ past
  BY <1>4 DEF Read, Panic
<1>5. CASE file[p].size > 0 /\ ~past
  BY <1>1, <1>5 DEF Read
<1> QED
  BY <1>2, <1>3, <1>4, <1>5

\* The cache of a file is filled.
LEMMA ReadTyped ==
    ASSUME Base, NEW p \in Procs, Read(p)
    PROVE  Base'
<1>1. CASE UNCHANGED <<disk, fat, lock, op, file, seen>>
  BY <1>1, BaseSame DEF seen
<1>2. CASE /\ file[p] \in FileType /\ file' = [file EXCEPT ![p].cached = TRUE]
           /\ UNCHANGED <<disk, fat, lock, op, seen>>
  <2>1. [file[p] EXCEPT !.cached = TRUE] \in FileType
    BY <1>2 DEF FileType
  <2>2. file' \in [Procs -> {NoFile} \cup FileType]
    BY <1>2, <2>1 DEF Base, TypeInv
  <2> QED
    BY <1>2, <2>2, FileTyped DEF seen
<1> QED
  BY <1>1, <1>2, ReadIs2

\* write_file finds the directory.
LEMMA WriteParentTyped ==
    ASSUME Base, NEW p \in Procs, WriteParent(p)
    PROVE  Base' /\ \/ UNCHANGED <<disk, fat, lock, op, file, seen>>
                    \/ /\ UNCHANGED <<disk, fat, lock, file, seen>>
                       /\ \E c \in Clusters : op' = [op EXCEPT ![p] = [op[p] EXCEPT !.pc = "data", !.c = c]]
<1> DEFINE o == op[p]
           path == Dirname(o.path)
           e == find(path, "directory")
<1>1. o \in CallType /\ CallOk(o) /\ o.pc = "parent" /\ Disk(p)
  BY InCall DEF WriteParent, Pc
<1>2. CASE FindPanics(path) \/ e = NoEntry
  <2>1. UNCHANGED <<disk, fat, lock, op, file, seen>>
    BY <1>2 DEF WriteParent, Panic
  <2> QED
    BY <2>1, BaseSame DEF seen
<1>3. CASE ~FindPanics(path) /\ e # NoEntry
  <2>1. /\ Step(p, [o EXCEPT !.pc = "data", !.c = e.cluster])
        /\ UNCHANGED <<disk, fat, lock, file, panic, seen, calls, crashes>>
    BY <1>3 DEF WriteParent
  <2>2. DiskTypes /\ Len(path) \in Nat
    BY <1>1, PathTyped DEF Base, TypeInv, CallType
  <2>3. e.cluster \in Clusters
    BY <1>3, <2>2, FindIs, ReachedTyped
  <2> DEFINE c == e.cluster
             rec == [o EXCEPT !.pc = "data", !.c = c]
  <2> HIDE DEF c
  <2>4. rec \in CallType /\ rec.pc = "data" /\ rec.ie = o.ie
    BY <1>1, <2>3 DEF CallType, Writing, c
  <2>5. Step(p, rec)
    BY <2>1 DEF c
  <2> HIDE DEF rec
  <2>6. CallOk(rec)
    BY <2>4 DEF CallOk, Filing
  <2>7. o.pc \notin Flushing
    BY <1>1 DEF Flushing
  <2>8. Base'
    BY <1>1, <2>1, <2>4, <2>5, <2>6, <2>7, QuietStep DEF seen
  <2> QED
    BY <2>1, <2>3, <2>5, <2>8 DEF rec, c, Step
<1> QED
  BY <1>2, <1>3

\* The clusters of a chain.
LEMMA ChainClusters ==
    ASSUME DiskTypes, NEW c \in Clusters
    PROVE  /\ Len(Chain(c)) = IF fat[c] = EOF THEN 1 ELSE 2
           /\ \A k \in 1..Len(Chain(c)) : /\ Chain(c)[k] \in Clusters
                                         /\ Chain(c)[k] \in {c} \cup ({fat[c]} \ {EOF})
<1>1. fat \in Fats /\ fat[c] \in {0, 4, EOF} /\ 0 \in Clusters /\ 4 \in Clusters
  BY FatAssumption DEF DiskTypes, Fats, Clusters
<1>2. CASE fat[c] = EOF
  <2>1. Chain(c) = <<c>>
    BY <1>1, <1>2, ChainIs
  <2> QED
    BY <1>2, <2>1
<1>3. CASE fat[c] # EOF
  <2>1. Chain(c) = <<c, fat[c]>>
    BY <1>1, <1>3, ChainIs
  <2>2. Len(<<c, fat[c]>>) = 2 /\ <<c, fat[c]>>[1] = c /\ <<c, fat[c]>>[2] = fat[c]
    OBVIOUS
  <2>3. \A k \in 1..2 : k = 1 \/ k = 2
    OBVIOUS
  <2> QED
    BY <1>1, <1>3, <2>1, <2>2, <2>3
<1> QED
  BY <1>2, <1>3

\* A whole number of sectors.
LEMMA PaddedIs ==
    ASSUME NEW count \in Nat
    PROVE  /\ Padded(count) \in Nat /\ Padded(count) \div SECTOR \in Nat \ {0}
           /\ Padded(count) = 2 * (Padded(count) \div SECTOR)
BY DEF Padded, SECTOR

\* One sector of a file is written, in a cluster of its chain.
LEMMA WriteDataIs ==
    ASSUME Base, NEW p \in Procs, WriteData(p)
    PROVE  \/ UNCHANGED <<disk, fat, lock, op, file, seen>>
           \/ LET o == op[p]
                  n == Padded(o.count) \div SECTOR
              IN  \E k \in 1..Len(Chain(o.cl)) : \E s \in 1..SPC :
                    /\ disk' = [disk EXCEPT ![Chain(o.cl)[k]][s] = Data(o.path)]
                    /\ Step(p, [o EXCEPT !.s = IF o.s = n THEN 1 ELSE o.s + 1,
                                         !.pc = IF o.s = n THEN "size" ELSE "data"])
                    /\ o.s = n => Padded(o.count) <= Len(Chain(o.cl)) * ClusterSize
                    /\ lock' = IF o.s = n \/ o.s % SPC = 0 THEN Nobody ELSE p
                    /\ UNCHANGED <<fat, file, seen>>
<1> DEFINE o == op[p]
           n == Padded(o.count) \div SECTOR
           chain == Chain(o.cl)
           k == (o.s - 1) \div SPC + 1
           s == ((o.s - 1) % SPC) + 1
<1>1. o \in CallType /\ o.pc = "data" /\ WriteSector(p, chain)
  BY InCall DEF WriteData, Pc
<1>2. o.s \in Nat \ {0} /\ o.cl \in Clusters /\ o.count \in Nat
  BY <1>1 DEF CallType
<1>3. k \in Nat \ {0} /\ s \in 1..SPC /\ o.s <= 2 * k
  <2> DEFINE x == o.s
  <2>1. x \in Nat \ {0}
    BY <1>2
  <2> HIDE DEF x
  <2>2. (x - 1) \div 2 + 1 \in Nat \ {0} /\ ((x - 1) % 2) + 1 \in 1..2 /\ x <= 2 * ((x - 1) \div 2 + 1)
    BY <2>1
  <2> QED
    BY <2>2 DEF x, SPC
<1>4. Len(chain) \in Nat
  BY <1>2, ChainClusters DEF Base, TypeInv
<1>5. n \in Nat \ {0} /\ Padded(o.count) = 2 * n
  BY <1>2, PaddedIs
<1> DEFINE rec == [o EXCEPT !.s = IF o.s = n THEN 1 ELSE o.s + 1,
                            !.pc = IF o.s = n THEN "size" ELSE "data"]
<1>6. CASE k > Len(chain)
  BY <1>1, <1>6 DEF WriteSector, Panic
<1>7. CASE k <= Len(chain) /\ ~Sane(chain[k])
  BY <1>1, <1>7 DEF WriteSector, Panic
<1>8. CASE k <= Len(chain) /\ Sane(chain[k])
  <2>1. ~(k > Len(chain))
    BY <1>3, <1>4, <1>8
  <2>2. /\ disk' = [disk EXCEPT ![chain[k]][s] = Data(o.path)]
        /\ Step(p, rec)
        /\ lock' = IF o.s = n \/ o.s % SPC = 0 THEN Nobody ELSE p
        /\ UNCHANGED <<fat, file, panic, seen, calls, crashes>>
    BY <1>1, <1>8, <2>1 DEF WriteSector
  <2>3. k \in 1..Len(chain)
    BY <1>3, <1>4, <1>8
  <2>4. o.s = n => Padded(o.count) <= Len(chain) * ClusterSize
    <3> SUFFICES ASSUME o.s = n PROVE Padded(o.count) <= Len(chain) * ClusterSize
      OBVIOUS
    <3> DEFINE len == Len(chain)
    <3>1. /\ len \in Nat /\ n \in Nat /\ k \in Nat /\ n <= 2 * k /\ k <= len
          /\ Padded(o.count) = 2 * n
      BY <1>3, <1>4, <1>5, <1>8
    <3> HIDE DEF len, n, k
    <3>2. 2 * n <= len * 4
      BY <3>1
    <3> QED
      BY <3>1, <3>2 DEF len, ClusterSize, SPC, SECTOR
  <2> HIDE DEF rec, k, s, n
  <2> QED
    BY <1>3, <2>2, <2>3, <2>4 DEF rec, n
<1>9. k > Len(chain) \/ k <= Len(chain)
  BY <1>3, <1>4
<1> QED
  BY <1>6, <1>7, <1>8, <1>9, Zenon

\* A sector of data goes to a cluster of the chain.
LEMMA WriteDataTyped ==
    ASSUME Base, NEW p \in Procs, WriteData(p)
    PROVE  Base'
<1> DEFINE o == op[p]
           n == Padded(o.count) \div SECTOR
           rec == [o EXCEPT !.s = IF o.s = n THEN 1 ELSE o.s + 1,
                            !.pc = IF o.s = n THEN "size" ELSE "data"]
<1>1. CASE UNCHANGED <<disk, fat, lock, op, file, seen>>
  BY <1>1, BaseSame DEF seen
<1>2. ASSUME NEW k \in 1..Len(Chain(o.cl)), NEW s \in 1..SPC,
             disk' = [disk EXCEPT ![Chain(o.cl)[k]][s] = Data(o.path)], Step(p, rec),
             lock' = IF o.s = n \/ o.s % SPC = 0 THEN Nobody ELSE p,
             UNCHANGED <<fat, file, seen>>
      PROVE  Base'
  <2>1. o \in CallType /\ CallOk(o) /\ o.pc = "data"
    BY InCall DEF WriteData, Pc
  <2>2. DiskTypes /\ o.cl \in Clusters /\ o.path \in Paths /\ o.s \in Nat \ {0}
    BY <2>1 DEF Base, TypeInv, CallType
  <2>3. Chain(o.cl)[k] \in Clusters
    BY <2>2, ChainClusters
  <2>4. Data(o.path) \in SectorType /\ Data(o.path).is = "data"
    BY <2>2, PathTyped DEF Data, SectorType
  <2>5. DiskTypes'
    BY <1>2, <2>2, <2>3, <2>4, Written
  <2> HIDE DEF n
  <2>6. /\ rec \in CallType /\ rec.pc = (IF o.s = n THEN "size" ELSE "data") /\ rec.ie = o.ie
        /\ rec.s = IF o.s = n THEN 1 ELSE o.s + 1
    <3> DEFINE t == IF o.s = n THEN 1 ELSE o.s + 1
               l == IF o.s = n THEN "size" ELSE "data"
               half == [o EXCEPT !.s = t]
    <3>1. t \in Nat \ {0} /\ l \in Filing \cup Writing
      BY <2>2 DEF Writing
    <3> HIDE DEF t, l
    <3>2. half \in CallType /\ half.s = t /\ half.ie = o.ie
      BY <2>1, <3>1 DEF CallType
    <3>3. rec = [half EXCEPT !.pc = l]
      BY <2>1 DEF CallType, t, l
    <3> HIDE DEF half, rec
    <3>4. rec \in CallType /\ rec.pc = l /\ rec.s = t /\ rec.ie = o.ie
      BY <3>1, <3>2, <3>3 DEF CallType
    <3> QED
      BY <3>4 DEF t, l
  <2>7. Step(p, rec)
    BY <1>2
  <2> HIDE DEF rec
  <2>8. CallOk(rec)
    BY <2>6 DEF CallOk, Filing
  <2>9. lock' \in {Nobody, p} /\ (lock' = p => rec.pc \in Flushing)
    BY <1>2, <2>6, NoProcess DEF Flushing
  <2> QED
    BY <1>2, <2>5, <2>6, <2>7, <2>8, <2>9, StepTyped DEF seen
<1> QED
  BY <1>1, <1>2, WriteDataIs

\* The contents b of a cluster with another size in slot k.
Resized(b, k, size) == [b EXCEPT ![SectorOf(k)].slots[PlaceOf(k)].size = size]

\* Only that size is another one.
LEMMA ResizedIs ==
    ASSUME NEW b \in Contents, NEW k \in Places, SlotsIn(b)[k].kind = "raw", NEW size \in Nat
    PROVE  LET r == Resized(b, k, size)
           IN  /\ r \in Contents /\ SlotsIn(r) = [SlotsIn(b) EXCEPT ![k].size = size]
               /\ \A s \in 1..SPC : r[s].is = b[s].is /\ (s # SectorOf(k) => r[s] = b[s])
               /\ b[SectorOf(k)].is = "directory"
<1> DEFINE r == Resized(b, k, size)
           s == SectorOf(k)
           j == PlaceOf(k)
<1>1. s \in 1..SPC /\ j \in 1..SlotsPerSector
  BY Positions
<1>2. b[s] \in SectorType /\ b \in [1..SPC -> SectorType] /\ SlotsIn(b)[k] = Slots(b[s])[j]
  BY <1>1 DEF Contents, SlotsIn
<1> HIDE DEF s, j
<1>3. b[s] \in [is : {"directory"}, slots : [1..SlotsPerSector -> Slot]]
  <2>1. ASSUME b[s].is # "directory"
        PROVE  FALSE
    <3>1. Slots(b[s])[j] = End
      BY <1>1, <2>1 DEF Slots, ZeroSlots
    <3> QED
      BY <1>2, <3>1 DEF End
  <2> QED
    BY <1>2, <2>1 DEF SectorType, Zero
<1>4. Slots(b[s]) = b[s].slots /\ b[s].slots[j].kind = "raw"
  BY <1>2, <1>3 DEF Slots
<1> DEFINE slots == b[s].slots
           slot == [slots[j] EXCEPT !.size = size]
           new == [slots EXCEPT ![j] = slot]
           sector == [b[s] EXCEPT !.slots = new]
<1>5. slots \in [1..SlotsPerSector -> Slot] /\ slots[j] \in RawSlot
  BY <1>1, <1>3, <1>4, Kinds
<1>6. slot \in RawSlot
  BY <1>5 DEF RawSlot
<1>7. new \in [1..SlotsPerSector -> Slot]
  BY <1>1, <1>5, <1>6 DEF Slot
<1>8. sector \in SectorType /\ sector.is = "directory" /\ sector.slots = new
  <2> HIDE DEF new
  <2> QED
    BY <1>3, <1>7 DEF SectorType
<1>9. r = [b EXCEPT ![s] = sector]
  BY DEF Resized, s, j
<1> HIDE DEF sector, r
<1>10. r \in Contents /\ r[s] = sector /\ \A t \in 1..SPC : t # s => r[t] = b[t]
  BY <1>1, <1>2, <1>8, <1>9 DEF Contents
<1>11. ASSUME NEW i \in Places
       PROVE  SlotsIn(r)[i] = IF i = k THEN [SlotsIn(b)[k] EXCEPT !.size = size] ELSE SlotsIn(b)[i]
  <2> DEFINE t == SectorOf(i)
             m == PlaceOf(i)
  <2>1. t \in 1..SPC /\ m \in 1..SlotsPerSector
    BY Positions
  <2>2. SlotsIn(r)[i] = Slots(r[t])[m] /\ SlotsIn(b)[i] = Slots(b[t])[m]
    BY DEF SlotsIn
  <2>3. i = k <=> t = s /\ m = j
    <3>1. SlotsPerSector \in Nat /\ i \in Nat /\ k \in Nat
      BY FatAssumption, Positions DEF Places
    <3>2. /\ t = IF i <= SlotsPerSector THEN 1 ELSE 2
          /\ m = IF i <= SlotsPerSector THEN i ELSE i - SlotsPerSector
          /\ s = IF k <= SlotsPerSector THEN 1 ELSE 2
          /\ j = IF k <= SlotsPerSector THEN k ELSE k - SlotsPerSector
      BY Positions DEF s, j
    <3> HIDE DEF t, m
    <3> QED
      BY <3>1, <3>2
  <2> HIDE DEF t, m
  <2>4. CASE t # s
    BY <1>10, <2>1, <2>2, <2>3, <2>4
  <2>5. CASE t = s /\ m # j
    <3>1. Slots(r[t]) = new
      BY <1>8, <1>10, <2>5 DEF Slots
    <3>2. new[m] = slots[m]
      BY <1>5, <2>1, <2>5
    <3> QED
      BY <1>4, <2>2, <2>3, <2>5, <3>1, <3>2
  <2>6. CASE t = s /\ m = j
    <3>1. Slots(r[t]) = new
      BY <1>8, <1>10, <2>6 DEF Slots
    <3>2. new[m] = slot
      BY <1>1, <1>5, <2>6
    <3> QED
      BY <1>2, <1>4, <2>2, <2>3, <2>6, <3>1, <3>2
  <2> QED
    BY <2>4, <2>5, <2>6
<1>12. SlotsIn(r) = [SlotsIn(b) EXCEPT ![k].size = size]
  <2> DEFINE u == SlotsIn(r)
             t == SlotsIn(b)
  <2>1. u = [i \in Places |-> u[i]] /\ t = [i \in Places |-> t[i]]
    BY DEF SlotsIn
  <2>2. \A i \in Places : u[i] = IF i = k THEN [t[k] EXCEPT !.size = size] ELSE t[i]
    BY <1>11
  <2> HIDE DEF u, t
  <2>3. u = [t EXCEPT ![k].size = size]
    BY <2>1, <2>2
  <2> QED
    BY <2>3 DEF u, t
<1> QED
  BY <1>3, <1>8, <1>10, <1>12 DEF r, s

\* update_file_size finds an entry with the cluster of the file.
LEMMA WriteSizeIs ==
    ASSUME Base, NEW p \in Procs, WriteSize(p)
    PROVE  \/ UNCHANGED <<disk, fat, lock, op, file, seen>>
           \/ /\ UNCHANGED <<disk, fat, lock, file, seen>>
              /\ \E c \in Clusters \ {0} : \E k \in Places :
                    /\ Cell(c, k) /\ Target(c, k) = op[p].cl
                    /\ Step(p, [op[p] EXCEPT !.pc = "sizew", !.c = c,
                                  !.buf = Resized(disk[c], k, Padded(op[p].count))])
<1> DEFINE o == op[p]
           chain == Chain(o.c)
           hits == SlotsWith(SlotsOf(chain), o.cl)
           at == CHOOSE i \in hits : \A k \in hits : i <= k
           q == (at - 1) \div SlotsPerCluster + 1
           k == ((at - 1) % SlotsPerCluster) + 1
<1>1. o \in CallType /\ WriteSizeIn(p, chain)
  BY InCall DEF WriteSize, Pc
<1>2. CASE hits = {}
  <2>1. Panic("update_file_size")
    BY <1>1, <1>2 DEF WriteSizeIn
  <2> QED
    BY <2>1 DEF Panic
<1>3. CASE hits # {}
  <2>1. SizeAt(p, chain[q], k)
    BY <1>1, <1>3 DEF WriteSizeIn
  <2>2. DiskTypes /\ o.c \in Clusters
    BY <1>1 DEF Base, TypeInv, CallType
  <2>3. Len(chain) \in {1, 2} /\ \A i \in 1..Len(chain) : chain[i] \in Clusters
    BY <2>2, ChainClusters
  <2>4. SlotsPerCluster \in Nat /\ SlotsPerCluster >= 8
    BY Positions, FatAssumption
  <2> HIDE DEF chain
  <2> DEFINE last == Len(chain) * SlotsPerCluster
  <2>5. last \in Nat /\ last <= 2 * SlotsPerCluster /\ (Len(chain) = 1 => last = SlotsPerCluster)
    BY <2>3, <2>4
  <2>6. hits \subseteq 1..last
    BY DEF SlotsWith, SlotsOf
  <2>7. at \in hits
    <3>1. hits \subseteq Nat
      BY <2>5, <2>6
    <3> HIDE DEF hits
    <3> QED
      BY <1>3, <3>1, LeastOf
  <2>8. at \in 1..last /\ SlotsOf(chain)[at].kind = "raw" /\ SlotsOf(chain)[at].cluster = o.cl
    BY <2>6, <2>7 DEF SlotsWith
  <2>9. SlotsOf(chain)[at] = ClusterSlots(chain[q])[k]
    <3> HIDE DEF at
    <3> QED
      BY <2>8 DEF SlotsOf
  <2>10. q \in 1..Len(chain) /\ k \in Places
    <3> HIDE DEF at
    <3>1. q \in 1..2 /\ (at <= SlotsPerCluster => q = 1) /\ k \in 1..SlotsPerCluster
      <4> HIDE DEF last
      <4> QED
        BY <2>4, <2>5, <2>8
    <3> HIDE DEF q, k
    <3>2. CASE Len(chain) = 1
      <4>1. at <= SlotsPerCluster
        BY <2>5, <2>8, <3>2
      <4> QED
        BY <3>1, <3>2, <4>1 DEF Places
    <3>3. CASE Len(chain) = 2
      BY <3>1, <3>3 DEF Places
    <3> QED
      BY <2>3, <3>2, <3>3
  <2> HIDE DEF q, k, at
  <2> DEFINE c == chain[q]
  <2>11. c \in Clusters /\ Cell(c, k) /\ Target(c, k) = o.cl
    BY <2>3, <2>8, <2>9, <2>10, ClusterIs DEF Cell, Target
  <2>12. c # 0
    <3> SUFFICES ASSUME c = 0 PROVE FALSE
      OBVIOUS
    <3>1. SectorOf(k) \in 1..SPC /\ PlaceOf(k) \in 1..SlotsPerSector
      BY <2>10, Positions
    <3>2. Held(c)[k] = Slots(disk[c][SectorOf(k)])[PlaceOf(k)]
      BY <2>10 DEF Held, SlotsIn
    <3>3. disk[c][SectorOf(k)].is = "data"
      BY <2>2, <3>1 DEF DiskTypes
    <3>4. Held(c)[k] = End
      BY <3>1, <3>2, <3>3 DEF Slots, ZeroSlots
    <3> QED
      BY <2>11, <3>4 DEF Cell, End
  <2>13. Step(p, [o EXCEPT !.pc = "sizew", !.c = c, !.buf = Resized(disk[c], k, Padded(o.count))])
         /\ UNCHANGED <<disk, fat, lock, file, seen>>
    BY <2>1 DEF SizeAt, Resized, SectorOf, PlaceOf
  <2> HIDE DEF c
  <2> QED
    BY <2>10, <2>11, <2>12, <2>13
<1> QED
  BY <1>2, <1>3

\* update_file_size changes its copy of the directory.
LEMMA WriteSizeTyped ==
    ASSUME Base, NEW p \in Procs, WriteSize(p)
    PROVE  Base'
<1> DEFINE o == op[p]
           Rec(c, k) == [o EXCEPT !.pc = "sizew", !.c = c, !.buf = Resized(disk[c], k, Padded(o.count))]
<1>1. CASE UNCHANGED <<disk, fat, lock, op, file, seen>>
  BY <1>1, BaseSame DEF seen
<1>2. ASSUME UNCHANGED <<disk, fat, lock, file, seen>>,
             NEW c \in Clusters \ {0}, NEW k \in Places, Cell(c, k), Step(p, Rec(c, k))
      PROVE  Base'
  <2>1. o \in CallType /\ CallOk(o) /\ o.pc = "size" /\ Disk(p)
    BY InCall DEF WriteSize, Pc
  <2>2. Padded(o.count) \in Nat /\ disk[c] \in Contents
    BY <2>1, PaddedIs DEF Base, TypeInv, DiskTypes, CallType
  <2> DEFINE buf == Resized(disk[c], k, Padded(o.count))
             rec == [o EXCEPT !.pc = "sizew", !.c = c, !.buf = buf]
  <2>3. buf \in Contents
    BY <1>2, <2>2, ResizedIs DEF Cell, Held
  <2>4. Step(p, rec)
    BY <1>2
  <2> HIDE DEF buf
  <2>5. /\ rec \in CallType /\ rec.pc = "sizew" /\ rec.ie = o.ie /\ rec.s = o.s /\ rec.c = c
        /\ rec.buf = buf
    BY <2>1, <2>3 DEF CallType, Writing
  <2> HIDE DEF rec
  <2>6. CallOk(rec)
    BY <2>1, <2>3, <2>5 DEF CallOk, Filing, SPC
  <2>7. o.pc \notin Flushing
    BY <2>1 DEF Flushing
  <2> QED
    BY <1>2, <2>1, <2>4, <2>5, <2>6, <2>7, QuietStep DEF seen
<1> QED
  BY <1>1, <1>2, WriteSizeIs

\* A sector of that copy goes to the disk.
LEMMA WriteSizeBackTyped ==
    ASSUME Base, NEW p \in Procs, WriteSizeBack(p)
    PROVE  Base'
<1> DEFINE o == op[p]
<1>1. o \in CallType /\ CallOk(o) /\ o.pc = "sizew"
  BY InCall DEF WriteSizeBack, Pc
<1>2. o.c \in Clusters /\ o.c # 0
  BY <1>1 DEF CallType, CallOk
<1>3. FlushSector(p, o.c, Idle) /\ UNCHANGED <<fat, file, overlap, loaded>>
  BY DEF WriteSizeBack, seen
<1> QED
  BY <1>1, <1>2, <1>3, IdleOk, FlushTyped

\* After a crash no call is in progress.
LEMMA CrashTyped ==
    ASSUME Base, Crash
    PROVE  Base'
<1>1. /\ lock' = Nobody /\ op' = [p \in Procs |-> Idle] /\ file' = [p \in Procs |-> NoFile]
      /\ UNCHANGED <<disk, fat, overlap, loaded>>
  BY DEF Crash
<1>2. DiskTypes' /\ {overlap', loaded'} \subseteq BOOLEAN /\ (overlap' => loaded')
  BY <1>1 DEF Base, TypeInv, DiskTypes, LoadedFirst
<1>3. \A p \in Procs : op'[p] = Idle
  BY <1>1
<1>4. (\A p \in Procs : CallOk(op[p]))'
  BY <1>3, IdleOk DEF CallOk
<1>5. TypeInv'
  <2>1. op' \in [Procs -> {Idle} \cup CallType] /\ file' \in [Procs -> {NoFile} \cup FileType]
    BY <1>1
  <2> QED
    BY <1>1, <1>2, <1>4, <2>1 DEF TypeInv
<1>6. LoadedFirst'
  BY <1>1, <1>2, <1>3, IdleOk, NoProcess DEF LoadedFirst
<1> QED
  BY <1>5, <1>6 DEF Base

\* Every step keeps the types.
LEMMA BaseNext ==
    ASSUME Base, [Next]_vars
    PROVE  Base'
<1>1. CASE UNCHANGED vars
  BY <1>1, BaseSame DEF vars
<1>2. ASSUME NEW p \in Procs, CreateEntry(p)
      PROVE  Base'
  <2>1. CASE DiskError(p)
    BY <2>1, BaseSame DEF DiskError, Panic, seen
  <2> QED
    BY <1>2, <2>1, CreateTyped, CreateSlotTyped, CreateClusterTyped, CreateFillTyped,
       CreateWriteTyped, ReadFatTyped, WriteFatTyped, CreateZeroTyped DEF CreateEntry
<1>3. ASSUME NEW p \in Users, UseFile(p)
      PROVE  Base'
  <2>1. p \in Procs
    BY FatAssumption
  <2>2. ASSUME NEW path \in Paths, List(p, path)
        PROVE  Base'
    BY <2>2, BaseSame DEF List, Panic, seen
  <2>3. ASSUME NEW n \in Counts, Lseek(p, n)
        PROVE  Base'
    BY <2>3, BaseSame DEF Lseek, Panic, seen
  <2> QED
    BY <1>3, <2>1, <2>2, <2>3, OpenTyped, WriteTyped, ReadTyped, WriteParentTyped, WriteDataTyped,
       WriteSizeTyped, WriteSizeBackTyped DEF UseFile
<1>4. CASE LoaderReads \/ LoaderDone
  <2>1. lock' \in {Nobody, Loader} /\ UNCHANGED <<disk, fat, op, file, overlap, loaded>>
    BY <1>4 DEF LoaderReads, LoaderDone, seen
  <2>2. DiskTypes'
    BY <2>1 DEF Base, TypeInv, DiskTypes
  <2> QED
    BY <2>1, <2>2, NoProcess DEF Base, TypeInv, LoadedFirst
<1>5. CASE Crash
  BY <1>5, CrashTyped
<1> QED
  BY <1>1, <1>2, <1>3, <1>4, <1>5 DEF Next

-----------------------------------------------------------------------------
(* The invariant *)

\* The path to directory d: the root, or a directory of the root that no crash
\* has made reachable by two paths.
LeadsTo(path, d) ==
    \/ d = Root /\ path = <<>>
    \/ /\ d \notin torn /\ Whole(disk[Root])
       /\ \E j \in Places : /\ Cell(Root, j) /\ Held(Root)[j].type = "directory"
                            /\ Target(Root, j) = d /\ path = <<NameIn(Root, j)>>

\* At most one call is in progress.
OneCall == \A p, q \in Procs : op[p].pc # "idle" /\ op[q].pc # "idle" => p = q

\* Clusters of entries that are on the disk, or on their way, but not in the FAT.
Entering == {op[p].cl : p \in {q \in Procs : op[q].pc \in {"dirw", "fatr", "fatw"}}}

\* No two entries have the same cluster, whole directory or not.
UniqueTargets ==
    \A c, d \in Clusters : \A i, j \in Places :
        Cell(c, i) /\ Cell(d, j) /\ Target(c, i) = Target(d, j) =>
            (c = d /\ i = j) \/ Target(c, i) \in torn

\* The cluster of an entry is not free.
Entered ==
    \A c \in Clusters : \A i \in Places :
        Cell(c, i) => Target(c, i) \in torn \cup Entering \/ fat[Target(c, i)] # 0

\* A free cluster holds no directory, and no data that was not written to an
\* entry whose creation a crash cut short.
FreeIsFresh ==
    \A c \in Clusters : fat[c] = 0 =>
        \A s \in 1..SPC : disk[c][s].is # "directory" /\ (c \notin torn => disk[c][s] = Zero)

\* A directory that can be read has nothing after its first empty slot and
\* only names that were asked for.
Directories ==
    \A c \in Clusters : Whole(disk[c]) =>
        /\ EndsAtEnd(Held(c))
        /\ \A i \in Places : Cell(c, i) => <<c, NameIn(c, i)>> \in named

\* The bytes that the clusters of a file hold.
Room(c) == IF c = 3 THEN 2 * ClusterSize ELSE ClusterSize

\* Cluster b is one of those of the file that begins at c.
PartOf(b, c) == b = c \/ (b = 4 /\ c = 3)

\* The file of slot i of directory d, to which path leads, holds its own data.
Own(d, i, path) ==
    /\ \A b \in Clusters : PartOf(b, Target(d, i)) =>
          \A s \in 1..SPC : disk[b][s] \in {Zero, Data(Append(path, NameIn(d, i)))}
    /\ Held(d)[i].size <= Room(Target(d, i))

\* Every file that one path leads to holds its own data.
OwnSectors ==
    \A d \in Clusters : \A i \in Places : \A path :
        LeadsTo(path, d) /\ Whole(disk[d]) /\ Cell(d, i) /\ Held(d)[i].type = "file"
        /\ Target(d, i) \notin torn => Own(d, i, path)

\* What a process writes to path goes to cluster c: no entry of another file,
\* and no free cluster.
Handle(path, c) ==
    /\ c \in {Root, 3} \cup 5..MaxCluster
    /\ c # Root /\ c \notin torn =>
        /\ \/ fat[c] # 0
           \/ c \in Entering /\ \E d \in Clusters : \E i \in Places : Cell(d, i) /\ Target(d, i) = c
        /\ \A d \in Clusters : \A i \in Places : Cell(d, i) /\ Target(d, i) = c =>
              /\ Held(d)[i].type = "file"
              /\ Whole(disk[d]) =>
                    \A to : LeadsTo(to, d) => path = Append(to, NameIn(d, i))

\* p has cluster c open as path, or writes to it.
Uses(p, path, c) ==
    \/ file[p] # NoFile /\ path = file[p].path /\ c = file[p].cluster
    \/ op[p].pc \in Writing /\ path = op[p].path /\ c = op[p].cl

\* Every open file and every file being written to is in order.
Handles == \A p \in Procs : \A path, c : Uses(p, path, c) => Handle(path, c)

\* c is a directory.
DirectoryAt(c) ==
    \/ c = Root
    \/ \E d \in Clusters : \E i \in Places :
          Cell(d, i) /\ Target(d, i) = c /\ Held(d)[i].type = "directory"

\* The new slots of call o are on the disk up to the sector before o.s, and at
\* most its own slot names its cluster.
Fills(o) ==
    /\ o.at \in Places /\ o.at + Length(o) - 1 <= SlotsPerCluster
    /\ SlotsIn(o.buf) = Fill(o) /\ \A t \in 1..SPC : o.buf[t].is = "directory"
    /\ \A i \in Places :
         /\ i < o.at => Held(o.c)[i] # End
         /\ i >= o.at + Length(o) => Held(o.c)[i] = End
         /\ i \in Filled(o) =>
              Held(o.c)[i] = IF SectorOf(i) < o.s THEN NewIn(o)[i - o.at + 1] ELSE End
    /\ \A d \in Clusters : \A j \in Places :
         Cell(d, j) /\ Target(d, j) = o.cl =>
            o.cl \in torn \/ (d = o.c /\ j = o.at + Length(o) - 1)

\* r is b but for the size in slot k.
Resizes(b, r, k, size) ==
    /\ \A s \in 1..SPC : r[s].is = b[s].is /\ (s # SectorOf(k) => r[s] = b[s])
    /\ \A j \in Places \ {k} : SlotsIn(r)[j] = SlotsIn(b)[j]
    /\ LET x == SlotsIn(r)[k]
           y == SlotsIn(b)[k]
       IN  x.kind = y.kind /\ x.type = y.type /\ x.cluster = y.cluster /\ x.size = size

\* What a call relies on between its steps.
CallFits(o) ==
    /\ o.pc \in {"cluster", "dirr", "dirw"} =>
         /\ Whole(disk[o.c]) /\ fat[o.c] = EOF /\ DirectoryAt(o.c)
         /\ <<o.c, Basename(o.path)>> \in named
    /\ o.pc \in {"cluster", "dirr"} =>
         /\ o.at \in Places /\ Held(o.c)[o.at] = End
         /\ \A k \in 1..(o.at - 1) : Held(o.c)[k] # End
    /\ o.pc \in {"dirr", "dirw", "fatr", "fatw"} => fat[o.cl] = 0
    /\ o.pc = "dirr" =>
         \A d \in Clusters : \A j \in Places : Cell(d, j) /\ Target(d, j) = o.cl => o.cl \in torn
    /\ o.pc = "dirw" => Fills(o)
    /\ o.pc = "fatw" => o.buf = fat
    /\ o.pc = "zero" =>
         /\ o.buf = [s \in 1..SPC |-> Zero] /\ fat[o.cl] = EOF
         /\ \A s \in 1..SPC :
              disk[o.cl][s].is # "directory" /\ (o.cl \notin torn => disk[o.cl][s] = Zero)
    /\ o.pc \in {"size", "sizew"} /\ o.cl \notin torn => Padded(o.count) <= Room(o.cl)
    /\ o.pc = "sizew" =>
         \E k \in Places : /\ Cell(o.c, k) /\ Target(o.c, k) = o.cl
                           /\ Resizes(disk[o.c], o.buf, k, Padded(o.count))

\* What lies on the disk is in order.
Tidy == UniqueTargets /\ Entered /\ FreeIsFresh /\ Directories /\ OwnSectors

\* The part of the invariant that overlapping calls break.
Sound == Tidy /\ OneCall /\ Handles /\ \A p \in Procs : \A o : o = op[p] => CallFits(o)

\* The inductive invariant.
Inv == Base /\ (~overlap => Sound)

\* No entry is new, has moved or has another name.
Kept ==
    \A d \in Clusters : \A i \in Places : Cell(d, i)' =>
        /\ Cell(d, i) /\ Target(d, i)' = Target(d, i)
        /\ (Held(d)[i].type)' = Held(d)[i].type
        /\ Whole(disk[d])' => Whole(disk[d]) /\ NameIn(d, i)' = NameIn(d, i)

\* A directory has no new path.
LEMMA PathsKept ==
    ASSUME Kept, torn' = torn, NEW path, NEW d, LeadsTo(path, d)'
    PROVE  LeadsTo(path, d)
<1>1. CASE d = Root /\ path = <<>>
  BY <1>1 DEF LeadsTo
<1>2. CASE /\ d \notin torn' /\ Whole(disk[Root])'
           /\ \E j \in Places : /\ Cell(Root, j)' /\ (Held(Root)[j].type)' = "directory"
                               /\ Target(Root, j)' = d /\ path = <<NameIn(Root, j)>>'
  <2>1. PICK j \in Places : /\ Cell(Root, j)' /\ (Held(Root)[j].type)' = "directory"
                            /\ Target(Root, j)' = d /\ path = <<NameIn(Root, j)>>'
    BY <1>2
  <2>2. Root \in Clusters
    BY FatAssumption DEF Root, Clusters
  <2>3. /\ Cell(Root, j) /\ Target(Root, j)' = Target(Root, j)
        /\ (Held(Root)[j].type)' = Held(Root)[j].type
        /\ Whole(disk[Root]) /\ NameIn(Root, j)' = NameIn(Root, j)
    BY <1>2, <2>1, <2>2 DEF Kept
  <2> QED
    BY <1>2, <2>1, <2>3 DEF LeadsTo
<1> QED
  BY <1>1, <1>2 DEF LeadsTo

\* A step that adds no entry keeps their clusters apart and not free.
LEMMA CellsKept ==
    ASSUME Kept, UNCHANGED <<fat, torn>>, Entering' = Entering, UniqueTargets, Entered
    PROVE  UniqueTargets' /\ Entered'
<1>1. UniqueTargets'
  <2> SUFFICES ASSUME NEW c \in Clusters, NEW d \in Clusters, NEW i \in Places, NEW j \in Places,
                      Cell(c, i)', Cell(d, j)', Target(c, i)' = Target(d, j)'
               PROVE  (c = d /\ i = j) \/ Target(c, i)' \in torn'
    BY DEF UniqueTargets
  <2>1. /\ Cell(c, i) /\ Target(c, i)' = Target(c, i)
        /\ Cell(d, j) /\ Target(d, j)' = Target(d, j)
    BY DEF Kept
  <2> QED
    BY <2>1 DEF UniqueTargets
<1>2. Entered'
  <2> SUFFICES ASSUME NEW c \in Clusters, NEW i \in Places, Cell(c, i)'
               PROVE  Target(c, i)' \in torn' \cup Entering' \/ fat'[Target(c, i)'] # 0
    BY DEF Entered
  <2>1. Cell(c, i) /\ Target(c, i)' = Target(c, i)
    BY DEF Kept
  <2> QED
    BY <2>1 DEF Entered
<1> QED
  BY <1>1, <1>2

\* Nor does such a step give an entry a name.
LEMMA NamesKept ==
    ASSUME Kept, Directories, UNCHANGED named, NEW c \in Clusters, NEW i \in Places,
           Whole(disk[c])', Cell(c, i)'
    PROVE  (<<c, NameIn(c, i)>> \in named)'
<1>1. Cell(c, i) /\ Whole(disk[c]) /\ NameIn(c, i)' = NameIn(c, i)
  BY DEF Kept
<1> QED
  BY <1>1 DEF Directories

\* Such a step leaves what a file in use refers to as it was.
LEMMA HandleKept ==
    ASSUME Kept, UNCHANGED <<fat, torn>>, Entering = {}, NEW path, NEW c, Handle(path, c)
    PROVE  Handle(path, c)'
<1> SUFFICES ASSUME c # Root, c \notin torn
             PROVE  /\ fat'[c] # 0
                    /\ \A d \in Clusters : \A i \in Places : Cell(d, i)' /\ Target(d, i)' = c =>
                         /\ (Held(d)[i].type)' = "file"
                         /\ Whole(disk[d])' =>
                              \A to : LeadsTo(to, d)' => path = Append(to, NameIn(d, i)')
  BY DEF Handle
<1>1. fat'[c] # 0
  BY DEF Handle
<1> SUFFICES ASSUME NEW d \in Clusters, NEW i \in Places, Cell(d, i)', Target(d, i)' = c
             PROVE  /\ (Held(d)[i].type)' = "file"
                    /\ Whole(disk[d])' =>
                         \A to : LeadsTo(to, d)' => path = Append(to, NameIn(d, i)')
  BY <1>1
<1>2. /\ Cell(d, i) /\ Target(d, i) = c /\ (Held(d)[i].type)' = Held(d)[i].type
      /\ Whole(disk[d])' => Whole(disk[d]) /\ NameIn(d, i)' = NameIn(d, i)
  BY DEF Kept
<1>3. /\ Held(d)[i].type = "file"
      /\ Whole(disk[d]) => \A to : LeadsTo(to, d) => path = Append(to, NameIn(d, i))
  BY <1>2 DEF Handle
<1>4. \A to : LeadsTo(to, d)' => LeadsTo(to, d)
  BY PathsKept
<1> QED
  BY <1>2, <1>3, <1>4

\* What a step that leaves the disk and the FAT alone keeps.
LEMMA TidySame ==
    ASSUME Tidy, UNCHANGED <<disk, fat, torn>>, named \subseteq named', Entering \subseteq Entering'
    PROVE  Tidy'
<1>1. UniqueTargets' /\ FreeIsFresh'
  BY DEF Tidy, UniqueTargets, FreeIsFresh, Cell, Target, Held
<1>2. Entered'
  BY DEF Tidy, Entered, Cell, Target, Held
<1>3. Directories'
  BY DEF Tidy, Directories, Cell, NameIn, Held
<1>4. OwnSectors'
  <2>1. ASSUME NEW d, NEW i, NEW path
        PROVE  /\ LeadsTo(path, d)' => LeadsTo(path, d)
               /\ Own(d, i, path) => Own(d, i, path)'
    BY DEF LeadsTo, Own, Cell, Target, NameIn, Held
  <2>2. OwnSectors
    BY DEF Tidy
  <2> QED
    BY <2>1, <2>2 DEF OwnSectors, Cell, Target, Held
<1> QED
  BY <1>1, <1>2, <1>3, <1>4 DEF Tidy

\* So does one that leaves the disk alone.
LEMMA HandleSame ==
    ASSUME UNCHANGED <<disk, fat, torn>>, Entering \subseteq Entering', NEW path, NEW c, Handle(path, c)
    PROVE  Handle(path, c)'
BY DEF Handle, LeadsTo, Cell, Target, NameIn, Held

\* A process that is in no call relies on nothing.
LEMMA IdleFits ==
    ASSUME NEW o, o.pc \in {"idle", "slot", "parent", "data"}
    PROVE  CallFits(o) /\ CallFits(o)'
BY DEF CallFits

\* What a call relies on does not change while the disk does not.
LEMMA FitsSame ==
    ASSUME UNCHANGED <<disk, fat, torn>>, named \subseteq named', NEW o, CallFits(o)
    PROVE  CallFits(o)'
<1>1. /\ DirectoryAt(o.c) => DirectoryAt(o.c)'
      /\ Fills(o) => Fills(o)'
  BY DEF DirectoryAt, Fills, Fill, Cell, Target, Held
<1> QED
  BY <1>1 DEF CallFits, Cell, Target, Held

\* The other processes are in no call.
LEMMA Alone ==
    ASSUME OneCall, NEW p \in Procs, op[p].pc # "idle"
    PROVE  \A q \in Procs \ {p} : op[q].pc = "idle"
BY DEF OneCall

\* Only the call in progress has an entry on its way.
LEMMA EnteringIs ==
    ASSUME OneCall, NEW p \in Procs, op[p].pc # "idle"
    PROVE  Entering = IF op[p].pc \in {"dirw", "fatr", "fatw"} THEN {op[p].cl} ELSE {}
BY DEF OneCall, Entering

\* The same after a step of that call.
LEMMA EnteringNext ==
    ASSUME Base, NEW p \in Procs, \A q \in Procs \ {p} : op[q].pc = "idle",
           NEW rec, op' = [op EXCEPT ![p] = rec]
    PROVE  Entering' = IF rec.pc \in {"dirw", "fatr", "fatw"} THEN {rec.cl} ELSE {}
<1>1. /\ op'[p] = rec /\ \A q \in Procs \ {p} : op'[q].pc = "idle"
  BY DEF Base, TypeInv
<1> QED
  BY <1>1 DEF Entering

\* One step of the only call.
LEMMA SoundStep ==
    ASSUME Base, NEW p \in Procs, \A q \in Procs \ {p} : op[q].pc = "idle",
           NEW rec, op' = [op EXCEPT ![p] = rec], Tidy', \A o : o = rec => CallFits(o)',
           \A q \in Procs : \A path, c : Uses(q, path, c)' => Handle(path, c)'
    PROVE  Sound'
<1>1. /\ op'[p] = rec /\ \A q \in Procs \ {p} : op'[q] = op[q]
  BY DEF Base, TypeInv
<1>2. OneCall'
  BY <1>1 DEF OneCall
<1>3. Handles'
  BY DEF Handles
<1>4. ASSUME NEW q \in Procs, NEW o, o = op'[q]
      PROVE  CallFits(o)'
  <2>1. CASE q = p
    BY <1>1, <1>4, <2>1
  <2>2. CASE q # p
    <3>1. o.pc = "idle"
      BY <1>1, <1>4, <2>2
    <3> QED
      BY <3>1, IdleFits
  <2> QED
    BY <2>1, <2>2
<1> QED
  BY <1>2, <1>3, <1>4 DEF Sound

\* The files in use, when a step opens none.
LEMMA UsesKept ==
    ASSUME Base, NEW p \in Procs, NEW rec, op' = [op EXCEPT ![p] = rec], UNCHANGED file,
           rec.pc \in Writing =>
              op[p].pc \in Writing /\ rec.path = op[p].path /\ rec.cl = op[p].cl
    PROVE  \A q \in Procs : \A path, c : Uses(q, path, c)' => Uses(q, path, c)
<1>1. /\ op'[p] = rec /\ \A q \in Procs \ {p} : op'[q] = op[q]
  BY DEF Base, TypeInv
<1> QED
  BY <1>1 DEF Uses

\* A step of the only call that leaves the disk and the FAT alone.
LEMMA QuietSound ==
    ASSUME Base, Sound, NEW p \in Procs, op[p].pc # "idle",
           NEW rec, op' = [op EXCEPT ![p] = rec],
           UNCHANGED <<disk, fat, torn, file>>, named \subseteq named',
           op[p].pc \in {"dirw", "fatr", "fatw"} =>
              rec.pc \in {"dirw", "fatr", "fatw"} /\ rec.cl = op[p].cl,
           rec.pc \in Writing =>
              op[p].pc \in Writing /\ rec.path = op[p].path /\ rec.cl = op[p].cl,
           \A o : o = rec => CallFits(o)'
    PROVE  Sound'
<1>1. Tidy /\ OneCall /\ Handles
  BY DEF Sound
<1>2. \A q \in Procs \ {p} : op[q].pc = "idle"
  BY <1>1, Alone
<1>3. Entering \subseteq Entering'
  <2>1. Entering = IF op[p].pc \in {"dirw", "fatr", "fatw"} THEN {op[p].cl} ELSE {}
    BY <1>1, EnteringIs
  <2>2. Entering' = IF rec.pc \in {"dirw", "fatr", "fatw"} THEN {rec.cl} ELSE {}
    BY <1>2, EnteringNext
  <2> QED
    BY <2>1, <2>2
<1>4. Tidy'
  BY <1>1, <1>3, TidySame
<1>5. ASSUME NEW q \in Procs, NEW path, NEW c, Uses(q, path, c)'
      PROVE  Handle(path, c)'
  <2>1. Uses(q, path, c)
    BY <1>5, UsesKept
  <2>2. Handle(path, c)
    BY <1>1, <2>1 DEF Handles
  <2> QED
    BY <1>3, <2>2, HandleSame
<1> QED
  BY <1>2, <1>4, <1>5, SoundStep

\* A step that changes neither what lies on the disk nor the calls in progress.
LEMMA FileSound ==
    ASSUME Sound, UNCHANGED <<disk, fat, torn, op, named>>,
           \A q \in Procs : \A path, c : Uses(q, path, c)' => Handle(path, c)
    PROVE  Sound'
<1>1. Tidy /\ OneCall /\ \A q \in Procs : \A o : o = op[q] => CallFits(o)
  BY DEF Sound
<1>2. Entering \subseteq Entering'
  BY DEF Entering
<1>3. Tidy'
  BY <1>1, <1>2, TidySame
<1>4. Handles'
  BY <1>2, HandleSame DEF Handles
<1>5. OneCall'
  BY <1>1 DEF OneCall
<1>6. \A q \in Procs : \A o : o = op'[q] => CallFits(o)'
  BY <1>1, FitsSame
<1> QED
  BY <1>3, <1>4, <1>5, <1>6 DEF Sound

\* A step that changes nothing of all that.
LEMMA SameSound ==
    ASSUME Sound, UNCHANGED <<disk, fat, torn, op, named, file>>
    PROVE  Sound'
<1>1. ASSUME NEW q \in Procs, NEW path, NEW c, Uses(q, path, c)'
      PROVE  Handle(path, c)
  <2>1. Uses(q, path, c)
    BY <1>1 DEF Uses
  <2> QED
    BY <2>1 DEF Sound, Handles
<1> QED
  BY <1>1, FileSound

\* A call at its first step.
First(o) == o.pc \in {"slot", "parent"}

\* A call begins when no other is in progress, or the calls overlap for good.
LEMMA BeginSound ==
    ASSUME Base, Sound, NEW p \in Procs, NEW call, First(call),
           op' = [op EXCEPT ![p] = call], \A q \in Procs : op[q].pc = "idle",
           UNCHANGED <<disk, fat, torn, named>>,
           \A q \in Procs : \A path, c : Uses(q, path, c)' => Handle(path, c)
    PROVE  Sound'
<1>1. Tidy
  BY DEF Sound
<1>2. Entering \subseteq Entering'
  BY DEF Entering
<1>3. Tidy'
  BY <1>1, <1>2, TidySame
<1>4. \A o : o = call => CallFits(o)'
  BY IdleFits DEF First
<1>5. \A q \in Procs : \A path, c : Uses(q, path, c)' => Handle(path, c)'
  BY <1>2, HandleSame
<1> QED
  BY <1>3, <1>4, <1>5, SoundStep

\* create_entry is called.
LEMMA CreateBegins ==
    ASSUME Base, Sound, NEW p \in Procs, NEW new \in Creatable, Create(p, new[1], new[2]), ~overlap'
    PROVE  Sound'
<1> DEFINE call == Call("slot", new[1], new[2], 0, 0)
<1>1. Begin(p, call) /\ UNCHANGED <<file, named>>
  BY DEF Create
<1>2. \A q \in Procs : op[q].pc = "idle"
  BY <1>1 DEF Begin, Changing
<1>3. PICK ie \in BOOLEAN : op' = [op EXCEPT ![p] = [call EXCEPT !.ie = ie]]
  BY <1>1 DEF Begin
<1> DEFINE rec == [call EXCEPT !.ie = ie]
<1>4. rec.pc = "slot" /\ rec.ie = ie
  BY DEF Call
<1>5. UNCHANGED <<disk, fat, torn>>
  BY <1>1 DEF Begin
<1>6. op' = [op EXCEPT ![p] = rec]
  BY <1>3
<1> HIDE DEF rec
<1>7. rec.pc \notin Writing
  BY <1>4 DEF Writing
<1>8. ASSUME NEW q \in Procs, NEW path, NEW c, Uses(q, path, c)'
      PROVE  Handle(path, c)
  <2>1. UNCHANGED file
    BY <1>1
  <2>2. \A q1 \in Procs : \A path1, c1 : Uses(q1, path1, c1)' => Uses(q1, path1, c1)
    BY <1>6, <1>7, <2>1, UsesKept
  <2>3. Uses(q, path, c)
    BY <1>8, <2>2
  <2> QED
    BY <2>3 DEF Sound, Handles
<1>9. UNCHANGED <<disk, fat, torn, named>> /\ First(rec)
  BY <1>1, <1>4, <1>5 DEF First
<1>10. \A q \in Procs : \A path, c : Uses(q, path, c)' => Handle(path, c)
  BY <1>8
<1> HIDE DEF call
<1> QED
  BY <1>2, <1>6, <1>9, <1>10, BeginSound

\* The cache of an open file is dropped or filled.
LEMMA CacheOnly ==
    ASSUME Base, NEW p \in Procs, file[p] \in FileType, NEW b \in BOOLEAN,
           file' = [file EXCEPT ![p].cached = b]
    PROVE  \A q \in Procs : file'[q] # NoFile =>
              file[q] # NoFile /\ file'[q].path = file[q].path /\ file'[q].cluster = file[q].cluster
<1>1. file \in [Procs -> {NoFile} \cup FileType]
  BY DEF Base, TypeInv
<1>2. file[p] # NoFile
  <2>1. file[p].open = TRUE /\ DOMAIN file[p] = {"open", "path", "cluster", "size", "cached"}
    BY DEF FileType
  <2>2. DOMAIN NoFile = {"open"}
    BY DEF NoFile
  <2> QED
    BY <2>1, <2>2
<1>3. /\ file'[p].path = file[p].path /\ file'[p].cluster = file[p].cluster
      /\ \A q \in Procs \ {p} : file'[q] = file[q]
  BY <1>1 DEF FileType
<1> QED
  BY <1>2, <1>3

\* CharFile::write is called.
LEMMA WriteBegins ==
    ASSUME Base, Sound, NEW p \in Procs, NEW count \in Counts, Write(p, count), ~overlap'
    PROVE  Sound'
<1> DEFINE path0 == file[p].path
           c0    == file[p].cluster
           call == Call("parent", path0, "file", c0, count)
<1>1. Begin(p, call) /\ file' = [file EXCEPT ![p].cached = FALSE] /\ UNCHANGED named
  BY DEF Write
<1>2. \A q \in Procs : op[q].pc = "idle"
  BY <1>1 DEF Begin, Changing
<1>3. PICK ie \in BOOLEAN : op' = [op EXCEPT ![p] = [call EXCEPT !.ie = ie]]
  BY <1>1 DEF Begin
<1> DEFINE rec == [call EXCEPT !.ie = ie]
<1>4. rec.pc = "parent" /\ rec.ie = ie /\ rec.path = path0 /\ rec.cl = c0
  <2> HIDE DEF path0, c0
  <2> QED
    BY DEF Call
<1>5. UNCHANGED <<disk, fat, torn>>
  BY <1>1 DEF Begin
<1>6. op' = [op EXCEPT ![p] = rec]
  BY <1>3
<1> HIDE DEF rec
<1>7. file[p] \in FileType
  BY OpenFile DEF Write
<1>8. file[p] # NoFile
  <2>1. DOMAIN file[p] = {"open", "path", "cluster", "size", "cached"}
    BY <1>7 DEF FileType
  <2> QED
    BY <2>1 DEF NoFile
<1>9. /\ op'[p] = rec /\ \A q \in Procs \ {p} : op'[q] = op[q]
  BY <1>6 DEF Base, TypeInv
<1>10. \A q \in Procs : file'[q] # NoFile =>
          file[q] # NoFile /\ file'[q].path = file[q].path /\ file'[q].cluster = file[q].cluster
  BY <1>1, <1>7, CacheOnly
<1>11. ASSUME NEW q \in Procs, NEW path, NEW c, Uses(q, path, c)'
       PROVE  Handle(path, c)
  <2>1. Uses(q, path, c)
    <3>1. CASE file'[q] # NoFile /\ path = file'[q].path /\ c = file'[q].cluster
      BY <1>10, <3>1 DEF Uses
    <3>2. CASE op'[q].pc \in Writing /\ path = op'[q].path /\ c = op'[q].cl
      <4>1. CASE q = p
        BY <1>4, <1>8, <1>9, <3>2, <4>1 DEF Uses
      <4>2. CASE q # p
        BY <1>9, <3>2, <4>2 DEF Uses
      <4> QED
        BY <4>1, <4>2
    <3> QED
      BY <1>11, <3>1, <3>2 DEF Uses
  <2> QED
    BY <2>1 DEF Sound, Handles
<1>12. UNCHANGED <<disk, fat, torn, named>> /\ First(rec)
  BY <1>1, <1>4, <1>5 DEF First
<1>13. \A q \in Procs : \A path, c : Uses(q, path, c)' => Handle(path, c)
  BY <1>11
<1> HIDE DEF call, path0, c0
<1> QED
  BY <1>2, <1>6, <1>13, <1>12, BeginSound

\* The first read changes nothing but the cache.
LEMMA ReadSound ==
    ASSUME Base, Sound, NEW p \in Procs, Read(p)
    PROVE  Sound'
<1>1. CASE UNCHANGED <<disk, fat, lock, op, file, seen>>
  BY <1>1, SameSound DEF seen
<1>2. CASE /\ file[p] \in FileType /\ file' = [file EXCEPT ![p].cached = TRUE]
           /\ UNCHANGED <<disk, fat, lock, op, seen>>
  <2>1. ASSUME NEW q \in Procs, NEW path, NEW c, Uses(q, path, c)'
        PROVE  Handle(path, c)
    <3>1. Uses(q, path, c)
      BY <1>2, <2>1, CacheOnly DEF Uses
    <3> QED
      BY <3>1 DEF Sound, Handles
  <2> QED
    BY <1>2, <2>1, FileSound DEF seen
<1> QED
  BY <1>1, <1>2, ReadIs2

\* The directory a path leads to is the root or has an entry.
LEMMA ReachedDirectory ==
    ASSUME NEW e, Reached(e), e.type = "directory", DiskTypes
    PROVE  DirectoryAt(e.cluster)
<1>1. e # NoEntry
  BY DEF NoEntry
<1>2. CASE e = RootEntry
  BY <1>2 DEF RootEntry, DirectoryAt
<1>3. ASSUME NEW c \in Clusters, NEW i \in Places, EntryIn(e, c, i)
      PROVE  DirectoryAt(e.cluster)
  <2>1. Cell(c, i) /\ e.cluster = Target(c, i) /\ e.type = Held(c)[i].type
    BY <1>3, EntryTyped DEF EntryIn
  <2> QED
    BY <2>1 DEF DirectoryAt
<1> QED
  BY <1>1, <1>2, <1>3 DEF Reached

\* The directory found is one, and its first empty slot is empty.
LEMMA CreateSlotSound ==
    ASSUME Base, Sound, NEW p \in Procs, CreateSlot(p)
    PROVE  Sound'
<1> DEFINE path == Dirname(op[p].path)
           e    == Walk(path)[Len(path)]
           dir  == e.cluster
<1>1. op[p] \in CallType /\ CallOk(op[p]) /\ op[p].pc = "slot"
  BY InCall DEF CreateSlot, Pc
<1>2. CASE UNCHANGED <<disk, fat, lock, op, file, seen>>
  BY <1>2, SameSound DEF seen
<1>3. CASE Step(p, Idle) /\ UNCHANGED <<disk, fat, lock, file, seen>>
  <2>1. op' = [op EXCEPT ![p] = Idle] /\ UNCHANGED <<disk, fat, torn, file, named>>
    BY <1>3 DEF Step, seen
  <2>2. \A o : o = Idle => CallFits(o)'
    BY IdleOk, IdleFits
  <2>3. Idle.pc \notin Writing
    BY IdleOk DEF Writing
  <2> QED
    BY <1>1, <2>1, <2>2, <2>3, QuietSound
<1>4. CASE /\ op' = [op EXCEPT ![p] = [op[p] EXCEPT !.pc = "cluster", !.c = dir,
                                               !.at = EndSlot(Held(dir))]]
           /\ named' = named \cup {<<dir, Basename(op[p].path)>>}
           /\ UNCHANGED <<disk, fat, lock, file, torn, overlap, loaded>>
           /\ Reached(e) /\ e.type = "directory"
           /\ dir \in Clusters \ {0, 3} /\ fat[dir] = EOF /\ Whole(disk[dir])
  <2>1. Held(dir) \in Table /\ \E i \in Places : Held(dir)[i] = End
    BY <1>4, SlotsTyped DEF Held, Whole, Base, TypeInv, DiskTypes
  <2> DEFINE at  == EndSlot(Held(dir))
             rec == [op[p] EXCEPT !.pc = "cluster", !.c = dir, !.at = at]
  <2>2. at \in Places /\ Held(dir)[at] = End /\ \A k \in 1..(at - 1) : Held(dir)[k] # End
    BY <2>1, FirstEnd
  <2>3. DirectoryAt(dir)
    BY <1>4, ReachedDirectory DEF Base, TypeInv
  <2>4. op' = [op EXCEPT ![p] = rec]
    BY <1>4
  <2> HIDE DEF dir, at
  <2>0. PICK d : d = dir
    OBVIOUS
  <2>5. rec.pc = "cluster" /\ rec.c = d /\ rec.at = at /\ rec.path = op[p].path
    BY <1>1, <2>0 DEF CallType
  <2> HIDE DEF rec
  <2>6. UNCHANGED <<disk, fat, torn, file>> /\ named \subseteq named'
    BY <1>4
  <2>7. ASSUME NEW o, o = rec
        PROVE  CallFits(o)'
    <3>1. DirectoryAt(d)'
      BY <2>0, <2>3, <2>6 DEF DirectoryAt, Cell, Target, Held
    <3>2. Whole(disk'[d]) /\ fat'[d] = EOF /\ <<d, Basename(op[p].path)>> \in named'
      BY <1>4, <2>0 DEF dir
    <3>3. Held(d)' = Held(d)
      BY <2>6 DEF Held
    <3> QED
      BY <2>0, <2>2, <2>5, <2>7, <3>1, <3>2, <3>3 DEF CallFits
  <2>8. rec.pc \notin Writing
    BY <2>5 DEF Writing
  <2> QED
    BY <1>1, <2>4, <2>6, <2>7, <2>8, QuietSound
<1> QED
  BY <1>2, <1>3, <1>4, CreateSlotIs

\* The cluster taken is free, so no entry has it but those of a crash.
LEMMA CreateClusterSound ==
    ASSUME Base, Sound, NEW p \in Procs, CreateCluster(p)
    PROVE  Sound'
<1>1. op[p] \in CallType /\ CallOk(op[p]) /\ op[p].pc = "cluster" /\ CallFits(op[p])
  BY InCall DEF CreateCluster, Pc, Sound
<1>2. CASE UNCHANGED <<disk, fat, lock, op, file, seen>>
  BY <1>2, SameSound DEF seen
<1>3. ASSUME UNCHANGED <<disk, fat, lock, file, seen>>,
             NEW cl \in 5..MaxCluster, fat[cl] = 0, Step(p, [op[p] EXCEPT !.pc = "dirr", !.cl = cl])
      PROVE  Sound'
  <2> DEFINE rec == [op[p] EXCEPT !.pc = "dirr", !.cl = cl]
  <2>1. op' = [op EXCEPT ![p] = rec] /\ UNCHANGED <<disk, fat, torn, file, named>>
    BY <1>3 DEF Step, seen
  <2>2. PICK o : o = op[p]
    OBVIOUS
  <2>3. /\ rec.pc = "dirr" /\ rec.cl = cl /\ rec.c = o.c /\ rec.at = o.at /\ rec.path = o.path
    BY <1>1, <2>2 DEF CallType
  <2> HIDE DEF rec
  <2>4. rec.pc \notin Writing
    BY <2>3 DEF Writing
  <2>5. ASSUME NEW d \in Clusters, NEW j \in Places, Cell(d, j), Target(d, j) = cl
        PROVE  cl \in torn
    <3>1. Entering = {}
      BY <1>1, EnteringIs DEF Sound
    <3> QED
      BY <1>3, <2>5, <3>1 DEF Sound, Tidy, Entered
  <2>6. ASSUME NEW r, r = rec
        PROVE  CallFits(r)'
    <3>1. CallFits(r)
      BY <1>1, <1>3, <2>2, <2>3, <2>5, <2>6 DEF CallFits
    <3> QED
      BY <2>1, <3>1, FitsSame
  <2> QED
    BY <1>1, <2>1, <2>4, <2>6, QuietSound
<1> QED
  BY <1>2, <1>3, CreateClusterIs

\* The copy of a directory into which the new slots are put.
LEMMA FillsFirst ==
    ASSUME Base, Sound, NEW o, NEW r, o \in CallType, CallOk(o), o.pc = "dirr", CallFits(o),
           o.at + Length(o) - 1 <= SlotsPerCluster, Fill(o) \in Table,
           r.pc = "dirw", r.buf = SectorsOf(Fill(o)), r.s = 1, r.cl = o.cl, r.c = o.c, r.at = o.at,
           r.path = o.path, r.type = o.type
    PROVE  CallFits(r)
<1>1. /\ Whole(disk[o.c]) /\ Held(o.c)[o.at] = End /\ o.at \in Places /\ o.c \in Clusters
      /\ \A k \in 1..(o.at - 1) : Held(o.c)[k] # End
  BY DEF CallFits, CallType
<1>2. EndsAtEnd(Held(o.c))
  BY <1>1 DEF Sound, Tidy, Directories
<1>3. /\ Length(r) = Length(o) /\ NewIn(r) = NewIn(o) /\ Filled(r) = Filled(o)
      /\ Fill(r) = Fill(o)
  BY DEF Length, NewIn, Filled, Fill
<1>4. Length(o) \in Nat /\ Length(o) >= 2 /\ SlotsPerCluster \in Nat
  BY NewEntry, Positions
<1>5. \A i \in Places : i >= o.at => Held(o.c)[i] = End
  BY <1>1, <1>2 DEF EndsAtEnd, Places
<1>6. \A i \in Places : i < o.at => Held(o.c)[i] # End
  BY <1>1 DEF Places
<1>7. SlotsIn(r.buf) = Fill(r) /\ \A t \in 1..SPC : r.buf[t].is = "directory"
  BY <1>3, SectorsIn
<1>8. \A i \in Places :
         /\ i < r.at => Held(r.c)[i] # End
         /\ i >= r.at + Length(r) => Held(r.c)[i] = End
         /\ i \in Filled(r) => SectorOf(i) >= r.s /\ Held(r.c)[i] = End
  <2> SUFFICES ASSUME NEW i \in Places
               PROVE  /\ i < r.at => Held(r.c)[i] # End
                      /\ i >= r.at + Length(r) => Held(r.c)[i] = End
                      /\ i \in Filled(r) => SectorOf(i) >= r.s /\ Held(r.c)[i] = End
    OBVIOUS
  <2>1. SectorOf(i) \in 1..SPC
    BY Positions
  <2>2. i \in Nat /\ o.at \in Nat
    BY <1>1 DEF Places
  <2> QED
    BY <1>3, <1>4, <1>5, <1>6, <2>1, <2>2 DEF Filled, SPC
<1>9. \A i \in Places : i \in Filled(r) =>
         Held(r.c)[i] = IF SectorOf(i) < r.s THEN NewIn(r)[i - r.at + 1] ELSE End
  <2> SUFFICES ASSUME NEW i \in Places, i \in Filled(r)
               PROVE  ~(SectorOf(i) < r.s) /\ Held(r.c)[i] = End
    OBVIOUS
  <2>1. SectorOf(i) \in 1..SPC
    BY Positions
  <2> QED
    BY <1>8, <2>1 DEF SPC
<1>10. \A d \in Clusters : \A j \in Places : Cell(d, j) /\ Target(d, j) = r.cl => r.cl \in torn
  BY DEF CallFits
<1>11. Fills(r)
  BY <1>1, <1>3, <1>7, <1>8, <1>9, <1>10 DEF Fills
<1> QED
  BY <1>11 DEF CallFits

\* The copy is the directory with the new slots put in.
LEMMA CreateFillSound ==
    ASSUME Base, Sound, NEW p \in Procs, CreateFill(p)
    PROVE  Sound'
<1>1. op[p] \in CallType /\ CallOk(op[p]) /\ op[p].pc = "dirr" /\ CallFits(op[p])
  BY InCall DEF CreateFill, Pc, Sound
<1>2. CASE UNCHANGED <<disk, fat, lock, op, file, seen>>
  BY <1>2, SameSound DEF seen
<1>3. CASE /\ op[p].at + Length(op[p]) - 1 <= SlotsPerCluster
           /\ Fill(op[p]) \in Table
           /\ Step(p, [op[p] EXCEPT !.pc = "dirw", !.buf = SectorsOf(Fill(op[p]))])
           /\ UNCHANGED <<disk, fat, lock, file, seen>>
  <2> DEFINE buf == SectorsOf(Fill(op[p]))
             rec == [op[p] EXCEPT !.pc = "dirw", !.buf = buf]
  <2>1. op' = [op EXCEPT ![p] = rec] /\ UNCHANGED <<disk, fat, torn, file, named>>
    BY <1>3 DEF Step, seen
  <2>2. buf = SectorsOf(Fill(op[p]))
    OBVIOUS
  <2> HIDE DEF buf
  <2>3. /\ rec.pc = "dirw" /\ rec.buf = buf /\ rec.s = op[p].s /\ rec.cl = op[p].cl
        /\ rec.c = op[p].c /\ rec.at = op[p].at /\ rec.path = op[p].path /\ rec.type = op[p].type
    BY <1>1 DEF CallType
  <2> HIDE DEF rec
  <2>4. op[p].s = 1 /\ rec.pc \notin Writing
    BY <1>1, <2>3 DEF CallOk, Writing
  <2>5. CallFits(rec)
    BY <1>1, <1>3, <2>2, <2>3, <2>4, FillsFirst
  <2>6. \A r : r = rec => CallFits(r)'
    BY <2>1, <2>5, FitsSame
  <2> QED
    BY <1>1, <2>1, <2>4, <2>6, QuietSound
<1> QED
  BY <1>2, <1>3, CreateFillIs

\* The copy of the table is the table: nobody else is in a call.
LEMMA ReadFatSound ==
    ASSUME Base, Sound, NEW p \in Procs, ReadFat(p)
    PROVE  Sound'
<1>1. op[p] \in CallType /\ op[p].pc = "fatr" /\ CallFits(op[p])
  BY InCall DEF ReadFat, Pc, Sound
<1> DEFINE rec == [op[p] EXCEPT !.pc = "fatw", !.buf = fat]
<1>2. op' = [op EXCEPT ![p] = rec] /\ UNCHANGED <<disk, fat, torn, file, named>>
  BY DEF ReadFat, Step, seen
<1>3. rec.pc = "fatw" /\ rec.buf = fat /\ rec.cl = op[p].cl
  BY <1>1 DEF CallType
<1> HIDE DEF rec
<1>4. CallFits(rec)
  BY <1>1, <1>3 DEF CallFits
<1>5. \A r : r = rec => CallFits(r)'
  BY <1>2, <1>4, FitsSame
<1>6. rec.pc \notin Writing
  BY <1>3 DEF Writing
<1> QED
  BY <1>1, <1>2, <1>3, <1>5, <1>6, QuietSound

\* The directory of a file is found again.
LEMMA WriteParentSound ==
    ASSUME Base, Sound, NEW p \in Procs, WriteParent(p)
    PROVE  Sound'
<1>1. op[p] \in CallType /\ op[p].pc = "parent"
  BY InCall DEF WriteParent, Pc
<1>2. CASE UNCHANGED <<disk, fat, lock, op, file, seen>>
  BY <1>2, SameSound DEF seen
<1>3. ASSUME UNCHANGED <<disk, fat, lock, file, seen>>, NEW c \in Clusters,
             op' = [op EXCEPT ![p] = [op[p] EXCEPT !.pc = "data", !.c = c]]
      PROVE  Sound'
  <2> DEFINE rec == [op[p] EXCEPT !.pc = "data", !.c = c]
  <2>1. op' = [op EXCEPT ![p] = rec] /\ UNCHANGED <<disk, fat, torn, file, named>>
    BY <1>3 DEF seen
  <2>2. rec.pc = "data" /\ rec.path = op[p].path /\ rec.cl = op[p].cl
    BY <1>1 DEF CallType
  <2> HIDE DEF rec
  <2>3. \A r : r = rec => CallFits(r)'
    BY <2>2, IdleFits
  <2>4. op[p].pc \in Writing
    BY <1>1 DEF Writing
  <2> QED
    BY <1>1, <2>1, <2>2, <2>3, <2>4, QuietSound
<1> QED
  BY <1>2, <1>3, WriteParentTyped

\* A new size in one slot of a copy of a cluster.
LEMMA ResizesIs ==
    ASSUME NEW b \in Contents, NEW k \in Places, SlotsIn(b)[k].kind = "raw", NEW size \in Nat
    PROVE  Resizes(b, Resized(b, k, size), k, size)
<1> DEFINE r == Resized(b, k, size)
           t == SlotsIn(b)
<1>1. /\ SlotsIn(r) = [t EXCEPT ![k].size = size]
      /\ \A s \in 1..SPC : r[s].is = b[s].is /\ (s # SectorOf(k) => r[s] = b[s])
  BY ResizedIs
<1>2. t \in Table /\ t[k] \in RawSlot
  BY SlotsTyped, Kinds DEF Table
<1> HIDE DEF r, t
<1>3. /\ \A j \in Places \ {k} : SlotsIn(r)[j] = t[j]
      /\ SlotsIn(r)[k] = [t[k] EXCEPT !.size = size]
  BY <1>1, <1>2 DEF Table
<1>4. LET x == [t[k] EXCEPT !.size = size]
      IN  x.kind = t[k].kind /\ x.type = t[k].type /\ x.cluster = t[k].cluster /\ x.size = size
  BY <1>2 DEF RawSlot
<1> QED
  BY <1>1, <1>3, <1>4 DEF Resizes, r, t

\* The copy is the directory but for the size of the file written to.
LEMMA WriteSizeSound ==
    ASSUME Base, Sound, NEW p \in Procs, WriteSize(p)
    PROVE  Sound'
<1>1. op[p] \in CallType /\ op[p].pc = "size" /\ CallFits(op[p])
  BY InCall DEF WriteSize, Pc, Sound
<1>2. CASE UNCHANGED <<disk, fat, lock, op, file, seen>>
  BY <1>2, SameSound DEF seen
<1>3. ASSUME UNCHANGED <<disk, fat, lock, file, seen>>, NEW c \in Clusters \ {0}, NEW k \in Places,
             Cell(c, k), Target(c, k) = op[p].cl,
             Step(p, [op[p] EXCEPT !.pc = "sizew", !.c = c,
                        !.buf = Resized(disk[c], k, Padded(op[p].count))])
      PROVE  Sound'
  <2> DEFINE buf == Resized(disk[c], k, Padded(op[p].count))
             rec == [op[p] EXCEPT !.pc = "sizew", !.c = c, !.buf = buf]
  <2>1. op' = [op EXCEPT ![p] = rec] /\ UNCHANGED <<disk, fat, torn, file, named>>
    BY <1>3 DEF Step, seen
  <2>2. buf = Resized(disk[c], k, Padded(op[p].count))
    OBVIOUS
  <2> HIDE DEF buf
  <2>3. /\ rec.pc = "sizew" /\ rec.path = op[p].path /\ rec.cl = op[p].cl /\ rec.c = c
        /\ rec.buf = buf /\ rec.count = op[p].count
    BY <1>1 DEF CallType
  <2> HIDE DEF rec
  <2>4. CallFits(rec)
    <3>1. disk[c] \in Contents /\ Padded(op[p].count) \in Nat /\ SlotsIn(disk[c])[k].kind = "raw"
      BY <1>1, <1>3, PaddedIs DEF Base, TypeInv, DiskTypes, CallType, Cell, Held
    <3>2. Resizes(disk[c], buf, k, Padded(op[p].count))
      BY <2>2, <3>1, ResizesIs
    <3> QED
      BY <1>1, <1>3, <2>3, <3>2 DEF CallFits
  <2>5. \A r : r = rec => CallFits(r)'
    BY <2>1, <2>4, FitsSame
  <2>6. op[p].pc \in Writing
    BY <1>1 DEF Writing
  <2> QED
    BY <1>1, <2>1, <2>3, <2>5, <2>6, QuietSound
<1> QED
  BY <1>2, <1>3, WriteSizeIs

\* Of what path leads through, the last directory is d: then d has no other path.
LEMMA OnePath ==
    ASSUME DiskTypes, UniqueTargets, NEW path, path \in Seq(Name), path # <<>>,
           Walk(path)[Len(path)] # NoEntry,
           NEW to, LeadsTo(to, Walk(path)[Len(path) - 1].cluster)
    PROVE  path = Append(to, path[Len(path)])
<1> DEFINE n == Len(path)
           w == Walk(path)
<1>1. n \in Nat \ {0} /\ path = [m \in 1..n |-> path[m]]
  OBVIOUS
<1>2. \A m \in 0..n : /\ Reached(w[m]) /\ (m = 0 <=> w[m] = RootEntry)
                      /\ m # 0 /\ w[m] # NoEntry =>
                           /\ w[m - 1].type = "directory" /\ w[m - 1].cluster \in Clusters
                           /\ \E i \in Places : /\ EntryIn(w[m], w[m - 1].cluster, i)
                                               /\ NameIn(w[m - 1].cluster, i) = path[m]
  BY <1>1, WalkIs
<1> HIDE DEF w
<1>3. \A m \in 0..n : w[m].type = "directory" /\ w[m].cluster = Root => m = 0
  <2> SUFFICES ASSUME NEW m \in 0..n, w[m].type = "directory", w[m].cluster = Root
               PROVE  w[m] = RootEntry
    BY <1>2
  <2>1. w[m] # NoEntry
    BY DEF NoEntry
  <2>2. ~(\E c \in Clusters : \E i \in Places : EntryIn(w[m], c, i))
    BY EntryTyped
  <2> QED
    BY <1>2, <2>1, <2>2 DEF Reached
<1>4. /\ w[n - 1].type = "directory" /\ n - 1 \in 0..n /\ w[n] # NoEntry
      /\ LeadsTo(to, w[n - 1].cluster)
  BY <1>1, <1>2 DEF w
<1>5. CASE w[n - 1].cluster = Root /\ to = <<>>
  <2>1. n = 1
    BY <1>1, <1>3, <1>4, <1>5
  <2> QED
    BY <1>1, <1>5, <2>1
<1>6. ASSUME NEW j \in Places, Cell(Root, j), Target(Root, j) = w[n - 1].cluster,
             w[n - 1].cluster \notin torn, to = <<NameIn(Root, j)>>
      PROVE  path = Append(to, path[n])
  <2>1. Root \in Clusters
    BY FatAssumption DEF Root, Clusters
  <2>2. w[n - 1].cluster # Root
    <3>1. EntryIn(EntryAt(Held(Root), j), Root, j)
      BY <1>6 DEF EntryIn
    <3>2. Target(Root, j) # Root
      BY <3>1, EntryTyped
    <3> QED
      BY <1>6, <3>2
  <2>3. n - 1 # 0
    BY <1>2, <1>4, <2>2 DEF RootEntry
  <2>4. w[n - 1] # NoEntry
    BY <1>4 DEF NoEntry
  <2>5. PICK i \in Places : /\ EntryIn(w[n - 1], w[n - 2].cluster, i)
                            /\ NameIn(w[n - 2].cluster, i) = path[n - 1]
    <3>1. (n - 1) - 1 = n - 2
      BY <1>1
    <3> QED
      BY <1>2, <1>4, <2>3, <2>4, <3>1
  <2>6. /\ Cell(w[n - 2].cluster, i) /\ Target(w[n - 2].cluster, i) = w[n - 1].cluster
        /\ w[n - 2].cluster \in Clusters
    BY <2>5, EntryTyped DEF EntryIn, Cell
  <2>7. w[n - 2].cluster = Root /\ i = j
    BY <1>6, <2>1, <2>6 DEF UniqueTargets
  <2>8. w[n - 2].type = "directory" /\ n - 2 \in 0..n
    <3>1. (n - 1) - 1 = n - 2 /\ n - 2 \in 0..n
      BY <1>1, <2>3
    <3> QED
      BY <1>2, <1>4, <2>3, <2>4, <3>1
  <2>9. n = 2
    BY <1>1, <1>3, <2>7, <2>8
  <2>10. to = <<path[1]>>
    BY <1>6, <2>5, <2>7, <2>9
  <2> QED
    BY <1>1, <2>9, <2>10
<1> QED
  BY <1>4, <1>5, <1>6 DEF LeadsTo

\* A file that was found is the only one with its cluster.
LEMMA FoundHandle ==
    ASSUME Base, Sound, NEW path \in Paths, Walk(path)[Len(path)] # NoEntry,
           Walk(path)[Len(path)].type = "file" \/ Walk(path)[Len(path)] = RootEntry
    PROVE  Handle(path, Walk(path)[Len(path)].cluster)
<1> DEFINE n == Len(path)
           e == Walk(path)[n]
           at == Walk(path)[n - 1].cluster
           c == e.cluster
<1>1. path \in Seq(Name) /\ n \in Nat /\ DiskTypes /\ UniqueTargets /\ Entered
  BY PathTyped DEF Base, TypeInv, Sound, Tidy
<1>2. /\ Reached(e) /\ (n = 0 <=> e = RootEntry)
      /\ n # 0 => /\ at \in Clusters
                  /\ \E i \in Places : EntryIn(e, at, i) /\ NameIn(at, i) = path[n]
  BY <1>1, WalkIs
<1>3. c \in {Root, 3} \cup 5..MaxCluster
  BY <1>1, <1>2, ReachedTyped
<1>4. ASSUME c # Root, c \notin torn
      PROVE  /\ \/ fat[c] # 0
                \/ c \in Entering /\ \E d \in Clusters : \E i \in Places : Cell(d, i) /\ Target(d, i) = c
             /\ \A d \in Clusters : \A i \in Places : Cell(d, i) /\ Target(d, i) = c =>
                   /\ Held(d)[i].type = "file"
                   /\ Whole(disk[d]) =>
                         \A to : LeadsTo(to, d) => path = Append(to, NameIn(d, i))
  <2>1. e # RootEntry /\ n # 0 /\ path # <<>>
    BY <1>2, <1>4 DEF RootEntry
  <2>2. PICK i0 \in Places : EntryIn(e, at, i0) /\ NameIn(at, i0) = path[n]
    BY <1>2, <2>1
  <2>3. at \in Clusters /\ Cell(at, i0) /\ Target(at, i0) = c /\ Held(at)[i0].type = "file"
    BY <1>1, <1>2, <2>1, <2>2, EntryTyped DEF EntryIn
  <2>4. c \in Entering \/ fat[c] # 0
    BY <1>1, <1>4, <2>3 DEF Entered
  <2>5. ASSUME NEW d \in Clusters, NEW i \in Places, Cell(d, i), Target(d, i) = c
        PROVE  d = at /\ i = i0
    BY <1>1, <1>4, <2>3, <2>5 DEF UniqueTargets
  <2>6. ASSUME NEW to, LeadsTo(to, at)
        PROVE  path = Append(to, path[n])
    BY <1>1, <2>1, <2>6, OnePath
  <2> HIDE DEF at, c
  <2> QED
    BY <2>2, <2>3, <2>4, <2>5, <2>6
<1> HIDE DEF c
<1>5. Handle(path, c)
  BY <1>3, <1>4 DEF Handle
<1> QED
  BY <1>5 DEF c

\* What is opened is a file of its own or the root.
LEMMA OpenSound ==
    ASSUME Base, Sound, NEW p \in Procs, NEW path \in Paths, Open(p, path)
    PROVE  Sound'
<1> DEFINE e == Walk(path)[Len(path)]
<1>1. CASE UNCHANGED <<disk, fat, lock, op, file, seen>>
  BY <1>1, SameSound DEF seen
<1>2. CASE /\ Reached(e) /\ e # NoEntry
           /\ e.type = "file" \/ e = RootEntry
           /\ file' = [file EXCEPT ![p] =
                 [open |-> TRUE, path |-> path, cluster |-> e.cluster,
                  size |-> e.size, cached |-> FALSE]]
           /\ UNCHANGED <<disk, fat, lock, op, seen>>
  <2>0. e # NoEntry /\ (e.type = "file" \/ e = RootEntry)
    BY <1>2
  <2>1. Handle(path, e.cluster)
    BY <2>0, FoundHandle
  <2> DEFINE c == e.cluster
             size == e.size
  <2>2. file' = [file EXCEPT ![p] =
                   [open |-> TRUE, path |-> path, cluster |-> c, size |-> size, cached |-> FALSE]]
    BY <1>2
  <2> HIDE DEF c, size
  <2>3. /\ file'[p].path = path /\ file'[p].cluster = c
        /\ \A q \in Procs \ {p} : file'[q] = file[q]
    BY <2>2 DEF Base, TypeInv
  <2>4. ASSUME NEW q \in Procs, NEW path1, NEW c1, Uses(q, path1, c1)'
        PROVE  Handle(path1, c1)
    <3>1. CASE q = p /\ path1 = file'[q].path /\ c1 = file'[q].cluster
      BY <2>1, <2>3, <3>1 DEF c
    <3>2. CASE ~(q = p /\ path1 = file'[q].path /\ c1 = file'[q].cluster)
      <4>1. Uses(q, path1, c1)
        BY <1>2, <2>3, <2>4, <3>2 DEF Uses
      <4> QED
        BY <4>1 DEF Sound, Handles
    <3> QED
      BY <3>1, <3>2
  <2> QED
    BY <1>2, <2>4, FileSound DEF seen
<1> QED
  BY <1>1, <1>2, OpenIs

\* A sector goes to the disk.
LEMMA Flushed ==
    ASSUME Base, NEW p \in Procs, op[p].pc \in {"dirw", "zero", "sizew"},
           NEW c \in Clusters, c # 0, NEW next, FlushSector(p, c, next), fat' = fat
    PROVE  LET s == op[p].s
           IN  /\ s \in 1..SPC /\ disk'[c] = [disk[c] EXCEPT ![s] = op[p].buf[s]]
               /\ disk[c] \in Contents /\ op[p].buf \in Contents
               /\ \A d \in Clusters \ {c} : disk'[d] = disk[d]
               /\ op' = [op EXCEPT ![p] = IF s < SPC THEN [op[p] EXCEPT !.s = s + 1] ELSE next]
<1>1. op[p] \in CallType /\ CallOk(op[p])
  BY InCall
<1>2. op[p].s \in 1..SPC /\ op[p].buf \in Contents
  BY <1>1 DEF CallOk
<1>3. disk' = [disk EXCEPT ![c][op[p].s] = op[p].buf[op[p].s]] /\ disk \in [Clusters -> Contents]
  BY DEF FlushSector, Base, TypeInv, DiskTypes
<1>4. op' = [op EXCEPT ![p] = IF op[p].s < SPC THEN [op[p] EXCEPT !.s = op[p].s + 1] ELSE next]
  BY DEF FlushSector, Step
<1> QED
  BY <1>2, <1>3, <1>4

\* x is written to sector s of cluster c.
Stores(c, s, x) ==
    s \in 1..SPC /\ disk[c] \in Contents /\ disk'[c] = [disk[c] EXCEPT ![s] = x]

\* The slots of a cluster after a sector was written.
LEMMA HeldAfter ==
    ASSUME NEW c, NEW s, NEW x, Stores(c, s, x)
    PROVE  \A i \in Places :
              Held(c)'[i] = IF SectorOf(i) = s THEN Slots(x)[PlaceOf(i)] ELSE Held(c)[i]
<1> SUFFICES ASSUME NEW i \in Places
             PROVE  Held(c)'[i] = IF SectorOf(i) = s THEN Slots(x)[PlaceOf(i)] ELSE Held(c)[i]
  OBVIOUS
<1>1. SectorOf(i) \in 1..SPC
  BY Positions
<1>2. Held(c)'[i] = Slots(disk'[c][SectorOf(i)])[PlaceOf(i)]
  BY DEF Held, SlotsIn
<1>3. Held(c)[i] = Slots(disk[c][SectorOf(i)])[PlaceOf(i)]
  BY DEF Held, SlotsIn
<1>4. disk'[c][SectorOf(i)] = IF SectorOf(i) = s THEN x ELSE disk[c][SectorOf(i)]
  BY <1>1 DEF Contents, Stores
<1> QED
  BY <1>2, <1>3, <1>4

\* A call goes on to its next sector or ends.
LEMMA FlushedCall ==
    ASSUME NEW o, NEW r, o \in CallType, r = IF o.s < SPC THEN [o EXCEPT !.s = o.s + 1] ELSE Idle
    PROVE  \/ /\ r.pc = o.pc /\ r.cl = o.cl /\ r.c = o.c /\ r.buf = o.buf /\ r.path = o.path
              /\ r.count = o.count /\ r.type = o.type /\ r.at = o.at
           \/ r.pc = "idle"
<1>1. CASE o.s < SPC
  <2>1. r = [o EXCEPT !.s = o.s + 1]
    BY <1>1
  <2> QED
    BY <2>1 DEF CallType
<1>2. CASE ~(o.s < SPC)
  BY <1>2, IdleOk
<1> QED
  BY <1>1, <1>2

\* The zeros go to a cluster that no file has yet.
LEMMA CreateZeroSound ==
    ASSUME Base, Sound, NEW p \in Procs, CreateZero(p)
    PROVE  Sound'
<1>1. op[p] \in CallType /\ CallOk(op[p]) /\ op[p].pc = "zero" /\ CallFits(op[p])
  BY InCall DEF CreateZero, Pc, Sound
<1>2. CASE UNCHANGED <<disk, fat, lock, op, file, seen>>
  BY <1>2, SameSound DEF seen
<1>3. CASE FlushSector(p, op[p].cl, Idle) /\ UNCHANGED <<fat, file, panic, seen, calls, crashes>>
  <2>1. PICK o, c, s : o = op[p] /\ c = op[p].cl /\ s = op[p].s
    OBVIOUS
  <2>2. /\ c \in 5..MaxCluster /\ c \in Clusters /\ c # 0 /\ fat[c] = EOF
        /\ \A t \in 1..SPC :
              disk[c][t].is # "directory" /\ (c \notin torn => disk[c][t] = Zero)
        /\ o.buf = [t \in 1..SPC |-> Zero]
    <3>1. op[p].cl >= 5 /\ op[p].cl \in Clusters
      BY <1>1 DEF CallOk, CallType
    <3> QED
      BY <1>1, <2>1, <3>1, FatAssumption DEF CallFits, Clusters
  <2>3. /\ s \in 1..SPC /\ disk'[c] = [disk[c] EXCEPT ![s] = o.buf[s]] /\ disk[c] \in Contents
        /\ \A d \in Clusters \ {c} : disk'[d] = disk[d]
        /\ op' = [op EXCEPT ![p] = IF o.s < SPC THEN [o EXCEPT !.s = o.s + 1] ELSE Idle]
    <3>1. FlushSector(p, c, Idle) /\ fat' = fat /\ op[p].pc \in {"dirw", "zero", "sizew"}
      BY <1>1, <1>3, <2>1
    <3>2. LET s1 == op[p].s
          IN  /\ s1 \in 1..SPC /\ disk'[c] = [disk[c] EXCEPT ![s1] = op[p].buf[s1]]
              /\ disk[c] \in Contents
              /\ \A d \in Clusters \ {c} : disk'[d] = disk[d]
              /\ op' = [op EXCEPT ![p] = IF s1 < SPC THEN [op[p] EXCEPT !.s = s1 + 1] ELSE Idle]
      BY <2>2, <3>1, Flushed
    <3> QED
      BY <2>1, <3>2
  <2>4. PICK r : r = IF o.s < SPC THEN [o EXCEPT !.s = o.s + 1] ELSE Idle
    OBVIOUS
  <2>5. (r.pc = "zero" /\ r.cl = c /\ r.buf = o.buf) \/ r.pc = "idle"
    BY <1>1, <2>1, <2>4, FlushedCall
  <2>6. op' = [op EXCEPT ![p] = r] /\ UNCHANGED <<fat, torn, file, named>>
    BY <1>3, <2>3, <2>4 DEF seen
  <2>7. disk'[c] = [disk[c] EXCEPT ![s] = Zero]
    BY <2>2, <2>3
  <2>8. \A t \in 1..SPC : disk'[c][t] \in {Zero, disk[c][t]}
    BY <2>3, <2>7 DEF Contents
  <2>9. \A i \in Places : Held(c)[i] = End /\ Held(c)'[i] = End
    <3> SUFFICES ASSUME NEW i \in Places PROVE Held(c)[i] = End /\ Held(c)'[i] = End
      OBVIOUS
    <3>1. SectorOf(i) \in 1..SPC /\ PlaceOf(i) \in 1..SlotsPerSector
      BY Positions
    <3>2. disk[c][SectorOf(i)].is # "directory" /\ disk'[c][SectorOf(i)].is # "directory"
      BY <2>2, <2>8, <3>1 DEF Zero
    <3> QED
      BY <3>1, <3>2 DEF Held, SlotsIn, Slots, ZeroSlots
  <2>10. \A d \in Clusters : \A i \in Places : Held(d)'[i] = Held(d)[i]
    <3>1. \A d \in Clusters \ {c} : Held(d)' = Held(d)
      BY <2>3 DEF Held
    <3> QED
      BY <2>9, <3>1
  <2>11. \A i \in Places : ~Cell(c, i) /\ ~Cell(c, i)'
    BY <2>9 DEF Cell, End
  <2>12. ASSUME NEW d \in Clusters, NEW i \in Places, Cell(d, i)'
         PROVE  /\ d # c /\ Cell(d, i) /\ disk'[d] = disk[d] /\ Held(d)' = Held(d)
    <3>1. d # c
      BY <2>11, <2>12
    <3>2. disk'[d] = disk[d]
      BY <2>3, <3>1
    <3> QED
      BY <2>12, <3>1, <3>2 DEF Held, Cell
  <2>13. Kept
    BY <2>12 DEF Kept, Target, NameIn
  <2>14. Tidy /\ OneCall /\ Handles
    BY DEF Sound
  <2>15. \A q \in Procs \ {p} : op[q].pc = "idle"
    BY <1>1, <2>14, Alone
  <2>16. Entering = {} /\ Entering' = {}
    <3>1. Entering = {}
      BY <1>1, <2>14, EnteringIs
    <3>2. Entering' = IF r.pc \in {"dirw", "fatr", "fatw"} THEN {r.cl} ELSE {}
      BY <2>6, <2>15, EnteringNext
    <3> QED
      BY <2>5, <3>1, <3>2
  <2>17. UniqueTargets' /\ Entered'
    BY <2>6, <2>13, <2>14, <2>16, CellsKept DEF Tidy
  <2>18. FreeIsFresh'
    <3> SUFFICES ASSUME NEW d \in Clusters, fat'[d] = 0, NEW t \in 1..SPC
                 PROVE  disk'[d][t].is # "directory" /\ (d \notin torn' => disk'[d][t] = Zero)
      BY DEF FreeIsFresh
    <3>1. d # c
      BY <2>2, <2>6, FatAssumption DEF EOF
    <3> QED
      BY <2>3, <2>6, <2>14, <3>1 DEF Tidy, FreeIsFresh
  <2>19. Directories'
    <3> SUFFICES ASSUME NEW d \in Clusters, Whole(disk[d])'
                 PROVE  /\ EndsAtEnd(Held(d)')
                        /\ \A i \in Places : Cell(d, i)' => (<<d, NameIn(d, i)>> \in named)'
      BY DEF Directories
    <3>1. \A i \in Places : Cell(d, i)' => (<<d, NameIn(d, i)>> \in named)'
      BY <2>6, <2>13, <2>14, NamesKept DEF Tidy
    <3>2. CASE d = c
      BY <2>9, <3>1, <3>2 DEF EndsAtEnd
    <3>3. CASE d # c
      <4>1. disk'[d] = disk[d]
        BY <2>3, <3>3
      <4> QED
        BY <2>14, <3>1, <4>1 DEF Tidy, Directories, Held
    <3> QED
      BY <3>2, <3>3
  <2>20. OwnSectors'
    <3> SUFFICES ASSUME NEW d \in Clusters, NEW i \in Places, NEW path,
                        LeadsTo(path, d)', Whole(disk[d])', Cell(d, i)', (Held(d)[i].type = "file")',
                        Target(d, i)' \notin torn'
                 PROVE  Own(d, i, path)'
      BY DEF OwnSectors
    <3>1. LeadsTo(path, d)
      BY <2>6, <2>13, PathsKept
    <3>2. d # c /\ Cell(d, i) /\ disk'[d] = disk[d] /\ Held(d)' = Held(d)
      BY <2>12
    <3>3. Own(d, i, path)
      BY <2>6, <2>14, <3>1, <3>2 DEF Tidy, OwnSectors, Target
    <3>4. \A b \in Clusters : \A t \in 1..SPC : disk'[b][t] \in {Zero, disk[b][t]}
      BY <2>3, <2>8
    <3> QED
      BY <3>2, <3>3, <3>4 DEF Own, Target, NameIn
  <2>21. \A o1 : o1 = r => CallFits(o1)'
    <3> SUFFICES ASSUME r.pc = "zero" PROVE CallFits(r)'
      BY <2>5, IdleFits
    <3>1. /\ r.buf = [t \in 1..SPC |-> Zero] /\ fat'[r.cl] = EOF
          /\ \A t \in 1..SPC :
               disk'[r.cl][t].is # "directory" /\ (r.cl \notin torn' => disk'[r.cl][t] = Zero)
      BY <2>2, <2>5, <2>6, <2>8 DEF Zero
    <3> QED
      BY <3>1 DEF CallFits
  <2>22. ASSUME NEW q \in Procs, NEW path1, NEW c1, Uses(q, path1, c1)'
         PROVE  Handle(path1, c1)'
    <3>1. r.pc \notin Writing
      BY <2>5 DEF Writing
    <3>2. Uses(q, path1, c1)
      BY <2>6, <2>22, <3>1, UsesKept
    <3>3. Handle(path1, c1)
      BY <2>14, <3>2 DEF Handles
    <3> QED
      BY <2>6, <2>13, <2>16, <3>3, HandleKept
  <2>23. Tidy'
    BY <2>17, <2>18, <2>19, <2>20 DEF Tidy
  <2> QED
    BY <2>6, <2>15, <2>21, <2>22, <2>23, SoundStep
<1> QED
  BY <1>2, <1>3 DEF CreateZero, Panic

\* The new cluster is no longer free.
LEMMA WriteFatSound ==
    ASSUME Base, Sound, NEW p \in Procs, WriteFat(p)
    PROVE  Sound'
<1>1. op[p] \in CallType /\ CallOk(op[p]) /\ op[p].pc = "fatw" /\ CallFits(op[p])
  BY InCall DEF WriteFat, Pc, Sound
<1>2. PICK c : c = op[p].cl
  OBVIOUS
<1> DEFINE rec == [op[p] EXCEPT !.pc = "zero", !.buf = [s \in 1..SPC |-> Zero], !.s = 1]
<1>3. /\ fat' = [op[p].buf EXCEPT ![op[p].cl] = EOF] /\ op' = [op EXCEPT ![p] = rec]
      /\ UNCHANGED <<disk, file, torn, named>>
  BY DEF WriteFat, Step, seen
<1>4. rec.pc = "zero" /\ rec.cl = c /\ rec.buf = [s \in 1..SPC |-> Zero]
  BY <1>1, <1>2 DEF CallType
<1> HIDE DEF rec
<1>5. /\ c \in Clusters /\ fat[c] = 0 /\ fat' = [fat EXCEPT ![c] = EOF] /\ EOF # 0
      /\ fat \in [Clusters -> {0, 4, EOF}]
  <2>1. op[p].buf = fat /\ fat[op[p].cl] = 0 /\ op[p].cl \in Clusters
    BY <1>1 DEF CallFits, CallType
  <2>2. fat \in [Clusters -> {0, 4, EOF}]
    BY DEF Base, TypeInv, DiskTypes, Fats
  <2>3. EOF # 0
    BY FatAssumption DEF EOF
  <2> QED
    BY <1>2, <1>3, <2>1, <2>2, <2>3
<1>6. fat'[c] = EOF /\ \A d \in Clusters : d # c => fat'[d] = fat[d]
  BY <1>5
<1>7. Tidy /\ OneCall /\ Handles
  BY DEF Sound
<1>8. \A q \in Procs \ {p} : op[q].pc = "idle"
  BY <1>1, <1>7, Alone
<1>9. Entering = {c}
  BY <1>1, <1>2, <1>7, EnteringIs
<1>10. Entering' = {}
  <2>1. Entering' = IF rec.pc \in {"dirw", "fatr", "fatw"} THEN {rec.cl} ELSE {}
    BY <1>3, <1>8, EnteringNext
  <2> QED
    BY <1>4, <2>1
<1>11. \A d, i : /\ Held(d)' = Held(d) /\ (Cell(d, i)' <=> Cell(d, i)) /\ Target(d, i)' = Target(d, i)
                 /\ NameIn(d, i)' = NameIn(d, i)
  BY <1>3 DEF Held, Cell, Target, NameIn
<1>12. \A path, d : LeadsTo(path, d)' <=> LeadsTo(path, d)
  BY <1>3, <1>11 DEF LeadsTo
<1>13. UniqueTargets'
  BY <1>3, <1>7, <1>11 DEF Tidy, UniqueTargets
<1>14. Entered'
  <2> SUFFICES ASSUME NEW d \in Clusters, NEW i \in Places, Cell(d, i)'
               PROVE  Target(d, i)' \in torn' \cup Entering' \/ fat'[Target(d, i)'] # 0
    BY DEF Entered
  <2>1. Target(d, i) \in torn \cup {c} \/ fat[Target(d, i)] # 0
    BY <1>7, <1>9, <1>11 DEF Tidy, Entered
  <2>2. Target(d, i) \in Clusters
    <3>1. EntryIn(EntryAt(Held(d), i), d, i)
      BY <1>11 DEF EntryIn
    <3> QED
      BY <3>1, EntryTyped DEF Base, TypeInv
  <2> QED
    BY <1>3, <1>5, <1>6, <1>11, <2>1, <2>2
<1>15. FreeIsFresh'
  <2> SUFFICES ASSUME NEW d \in Clusters, fat'[d] = 0, NEW t \in 1..SPC
               PROVE  disk'[d][t].is # "directory" /\ (d \notin torn' => disk'[d][t] = Zero)
    BY DEF FreeIsFresh
  <2>1. fat[d] = 0
    BY <1>5, <1>6
  <2> QED
    BY <1>3, <1>7, <2>1 DEF Tidy, FreeIsFresh
<1>16. Directories'
  BY <1>3, <1>7, <1>11 DEF Tidy, Directories
<1>17. OwnSectors'
  <2> SUFFICES ASSUME NEW d \in Clusters, NEW i \in Places, NEW path,
                      LeadsTo(path, d)', Whole(disk[d])', Cell(d, i)', (Held(d)[i].type = "file")',
                      Target(d, i)' \notin torn'
               PROVE  Own(d, i, path)'
    BY DEF OwnSectors
  <2>1. Own(d, i, path)
    BY <1>3, <1>7, <1>11, <1>12 DEF Tidy, OwnSectors
  <2> QED
    BY <1>3, <1>11, <2>1 DEF Own
<1>18. ASSUME NEW q \in Procs, NEW path, NEW b, Uses(q, path, b)'
       PROVE  Handle(path, b)'
  <2>1. rec.pc \notin Writing
    BY <1>4 DEF Writing
  <2>2. Handle(path, b)
    <3>1. Uses(q, path, b)
      BY <1>3, <1>18, <2>1, UsesKept
    <3> QED
      BY <1>7, <3>1 DEF Handles
  <2>3. b \in Clusters
    BY <2>2, FatAssumption DEF Handle, Clusters, Root
  <2>4. b # Root /\ b \notin torn => fat'[b] # 0
    BY <1>5, <1>6, <1>9, <2>2, <2>3 DEF Handle
  <2> QED
    BY <1>3, <1>11, <1>12, <2>2, <2>4 DEF Handle
<1>19. ASSUME NEW r, r = rec
       PROVE  CallFits(r)'
  <2>1. \A s \in 1..SPC : disk[c][s].is # "directory" /\ (c \notin torn => disk[c][s] = Zero)
    BY <1>5, <1>7 DEF Tidy, FreeIsFresh
  <2> QED
    BY <1>3, <1>4, <1>6, <1>19, <2>1 DEF CallFits
<1>20. Tidy'
  BY <1>13, <1>14, <1>15, <1>16, <1>17 DEF Tidy
<1> QED
  BY <1>3, <1>8, <1>18, <1>19, <1>20, SoundStep

\* A crash tears at most the entry that was on its way.
LEMMA CrashSound ==
    ASSUME Base, Sound, Crash
    PROVE  Sound'
<1>1. /\ torn' = torn \cup Entering /\ op' = [p \in Procs |-> Idle]
      /\ file' = [p \in Procs |-> NoFile] /\ UNCHANGED <<disk, fat, named>>
  BY DEF Crash, Entering
<1>2. Tidy
  BY DEF Sound
<1>3. \A p \in Procs : op'[p] = Idle /\ op'[p].pc = "idle" /\ file'[p] = NoFile
  BY <1>1, IdleOk
<1>4. Entering' = {}
  BY <1>3 DEF Entering
<1>5. \A d, i : /\ Held(d)' = Held(d) /\ (Cell(d, i)' <=> Cell(d, i)) /\ Target(d, i)' = Target(d, i)
                /\ NameIn(d, i)' = NameIn(d, i)
  BY <1>1 DEF Held, Cell, Target, NameIn
<1>6. UniqueTargets' /\ Entered' /\ FreeIsFresh' /\ Directories'
  <2>1. UniqueTargets'
    BY <1>1, <1>2, <1>5 DEF Tidy, UniqueTargets
  <2>2. Entered'
    BY <1>1, <1>2, <1>4, <1>5 DEF Tidy, Entered
  <2>3. FreeIsFresh'
    BY <1>1, <1>2 DEF Tidy, FreeIsFresh
  <2>4. Directories'
    BY <1>1, <1>2, <1>5 DEF Tidy, Directories
  <2> QED
    BY <2>1, <2>2, <2>3, <2>4
<1>7. OwnSectors'
  <2> SUFFICES ASSUME NEW d \in Clusters, NEW i \in Places, NEW path,
                      LeadsTo(path, d)', Whole(disk[d])', Cell(d, i)', (Held(d)[i].type = "file")',
                      Target(d, i)' \notin torn'
               PROVE  Own(d, i, path)'
    BY DEF OwnSectors
  <2>1. LeadsTo(path, d)
    BY <1>1, <1>5 DEF LeadsTo
  <2>2. Own(d, i, path)
    BY <1>1, <1>2, <1>5, <2>1 DEF Tidy, OwnSectors
  <2> QED
    BY <1>1, <1>5, <2>2 DEF Own
<1>8. OneCall' /\ Handles'
  <2>1. Handles'
    BY <1>3 DEF Handles, Uses, Writing
  <2> QED
    BY <1>3, <2>1 DEF OneCall
<1>9. \A p \in Procs : \A o : o = op'[p] => CallFits(o)'
  BY <1>3, IdleFits
<1> QED
  BY <1>2, <1>6, <1>7, <1>8, <1>9 DEF Sound, Tidy

\* Data goes to the file's own clusters, or to what lies before the data.
LEMMA WriteDataSound ==
    ASSUME Base, Sound, NEW p \in Procs, WriteData(p)
    PROVE  Sound'
<1>1. op[p] \in CallType /\ CallOk(op[p]) /\ op[p].pc = "data"
  BY InCall DEF WriteData, Pc
<1>2. CASE UNCHANGED <<disk, fat, lock, op, file, seen>>
  BY <1>2, SameSound DEF seen
<1>3. ASSUME NEW k \in 1..Len(Chain(op[p].cl)), NEW s \in 1..SPC,
             disk' = [disk EXCEPT ![Chain(op[p].cl)[k]][s] = Data(op[p].path)],
             LET n == Padded(op[p].count) \div SECTOR
             IN  /\ Step(p, [op[p] EXCEPT !.s = IF op[p].s = n THEN 1 ELSE op[p].s + 1,
                                          !.pc = IF op[p].s = n THEN "size" ELSE "data"])
                 /\ op[p].s = n => Padded(op[p].count) <= Len(Chain(op[p].cl)) * ClusterSize,
             UNCHANGED <<fat, file, seen>>
      PROVE  Sound'
  <2>1. PICK o, c, b, x : o = op[p] /\ c = op[p].cl /\ b = Chain(op[p].cl)[k] /\ x = Data(op[p].path)
    OBVIOUS
  <2>2. /\ DiskTypes /\ c \in Clusters /\ o.path = op[p].path /\ o.count \in Nat
    BY <1>1, <2>1 DEF Base, TypeInv, CallType
  <2>3. b \in Clusters /\ b \in {c} \cup ({fat[c]} \ {EOF})
    BY <2>1, <2>2, ChainClusters
  <2>4. disk' = [disk EXCEPT ![b][s] = x] /\ disk \in [Clusters -> Contents]
    BY <1>3, <2>1, <2>2 DEF DiskTypes
  <2>5. /\ disk'[b] = [disk[b] EXCEPT ![s] = x] /\ disk[b] \in Contents
        /\ \A d \in Clusters \ {b} : disk'[d] = disk[d]
    BY <2>3, <2>4
  <2>6. x = Data(o.path) /\ x.is = "data"
    BY <2>1 DEF Data
  <2>7. disk'[b][s] = x /\ \A t \in (1..SPC) \ {s} : disk'[b][t] = disk[b][t]
    BY <2>5 DEF Contents
  <2>8. Tidy /\ OneCall /\ Handles
    BY DEF Sound
  <2>9. \A q \in Procs \ {p} : op[q].pc = "idle"
    BY <1>1, <2>8, Alone
  <2>10. PICK r : /\ op' = [op EXCEPT ![p] = r] /\ r.cl = c /\ r.path = o.path /\ r.count = o.count
                  /\ \/ r.pc = "data"
                     \/ r.pc = "size" /\ Padded(o.count) <= Len(Chain(c)) * ClusterSize
    <3> DEFINE last == op[p].s = Padded(op[p].count) \div SECTOR
               s2   == IF last THEN 1 ELSE op[p].s + 1
               pc2  == IF last THEN "size" ELSE "data"
               r    == [op[p] EXCEPT !.s = s2, !.pc = pc2]
    <3>1. op' = [op EXCEPT ![p] = r]
      BY <1>3 DEF Step
    <3>2. pc2 = "data" \/ (pc2 = "size" /\ Padded(o.count) <= Len(Chain(c)) * ClusterSize)
      BY <1>3, <2>1
    <3> HIDE DEF s2, pc2
    <3>3. r.cl = c /\ r.path = o.path /\ r.count = o.count /\ r.pc = pc2
      BY <1>1, <2>1 DEF CallType
    <3> HIDE DEF r
    <3> QED
      BY <3>1, <3>2, <3>3
  <2>11. Handle(o.path, c)
    <3>1. Uses(p, o.path, c)
      BY <1>1, <2>1 DEF Uses, Writing
    <3> QED
      BY <2>8, <3>1 DEF Handles
  <2>12. UNCHANGED <<fat, torn, file, named>>
    BY <1>3 DEF seen
  <2>13. Entering = {} /\ Entering' = {}
    <3>1. Entering = {}
      BY <1>1, <2>8, EnteringIs
    <3>2. Entering' = IF r.pc \in {"dirw", "fatr", "fatw"} THEN {r.cl} ELSE {}
      BY <2>9, <2>10, EnteringNext
    <3> QED
      BY <2>10, <3>1, <3>2
  <2>14. /\ fat[0] = EOF /\ fat[4] = EOF /\ fat[Root] = EOF /\ fat[3] = 4 /\ EOF > 4
         /\ fat[c] \in {0, 4, EOF} /\ (fat[c] = 4 => c = 3)
    <3>1. {0, 3, 4, Root} \subseteq Clusters /\ EOF > 4 /\ c \in 0..MaxCluster
      BY <2>2, FatAssumption DEF Clusters, EOF, Root
    <3> QED
      BY <2>2, <3>1 DEF DiskTypes, Fats, Root
  <2>15. ASSUME NEW d \in Clusters, Whole(disk[d])'
         PROVE  d # b /\ disk'[d] = disk[d] /\ Held(d)' = Held(d)
    <3>1. d # b
      BY <2>6, <2>7, <2>15 DEF Whole
    <3> QED
      BY <2>5, <3>1 DEF Held
  <2>16. ASSUME NEW d \in Clusters, NEW i \in Places, Cell(d, i)'
         PROVE  Cell(d, i) /\ Held(d)'[i] = Held(d)[i]
    <3>1. CASE d # b
      BY <2>5, <2>16, <3>1 DEF Held, Cell
    <3>2. CASE d = b
      <4>1. \A j \in Places :
               Held(b)'[j] = IF SectorOf(j) = s THEN Slots(x)[PlaceOf(j)] ELSE Held(b)[j]
        <5>1. Stores(b, s, x)
          BY <2>5 DEF Stores
        <5> QED
          BY <5>1, HeldAfter
      <4>2. Slots(x)[PlaceOf(i)] = End
        BY <2>6, Positions DEF Slots, ZeroSlots
      <4> QED
        BY <2>16, <3>2, <4>1, <4>2 DEF Cell, End
    <3> QED
      BY <3>1, <3>2
  <2>17. Kept
    <3> SUFFICES ASSUME NEW d \in Clusters, NEW i \in Places, Cell(d, i)'
                 PROVE  /\ Cell(d, i) /\ Target(d, i)' = Target(d, i)
                        /\ (Held(d)[i].type)' = Held(d)[i].type
                        /\ Whole(disk[d])' => Whole(disk[d]) /\ NameIn(d, i)' = NameIn(d, i)
      BY DEF Kept
    <3>1. Cell(d, i) /\ Target(d, i)' = Target(d, i) /\ (Held(d)[i].type)' = Held(d)[i].type
      BY <2>16 DEF Target
    <3>2. Whole(disk[d])' => Whole(disk[d]) /\ NameIn(d, i)' = NameIn(d, i)
      BY <2>15 DEF NameIn
    <3> QED
      BY <3>1, <3>2
  <2>18. UniqueTargets' /\ Entered'
    BY <2>8, <2>12, <2>13, <2>17, CellsKept DEF Tidy
  <2>19. FreeIsFresh'
    <3> SUFFICES ASSUME NEW d \in Clusters, fat'[d] = 0, NEW t \in 1..SPC
                 PROVE  disk'[d][t].is # "directory" /\ (d \notin torn' => disk'[d][t] = Zero)
      BY DEF FreeIsFresh
    <3>1. disk[d][t].is # "directory" /\ (d \notin torn => disk[d][t] = Zero)
      BY <2>8, <2>12 DEF Tidy, FreeIsFresh
    <3>2. CASE d # b
      BY <2>5, <2>12, <3>1, <3>2
    <3>3. CASE d = b
      <4>1. d = c /\ c # Root
        <5>1. fat[b] = 0 /\ EOF # 0
          BY <2>12, <2>14, <3>3
        <5>2. b # 0 /\ b # 4 /\ b # Root
          BY <2>14, <5>1
        <5> QED
          BY <2>3, <2>14, <3>3, <5>2
      <4>2. c \in torn
        BY <2>11, <2>12, <2>13, <4>1 DEF Handle
      <4> QED
        BY <2>6, <2>7, <2>12, <3>1, <3>3, <4>1, <4>2
    <3> QED
      BY <3>2, <3>3
  <2>20. Directories'
    <3> SUFFICES ASSUME NEW d \in Clusters, Whole(disk[d])'
                 PROVE  /\ EndsAtEnd(Held(d)')
                        /\ \A i \in Places : Cell(d, i)' => (<<d, NameIn(d, i)>> \in named)'
      BY DEF Directories
    <3>1. \A i \in Places : Cell(d, i)' => (<<d, NameIn(d, i)>> \in named)'
      BY <2>8, <2>12, <2>17, NamesKept DEF Tidy
    <3> QED
      BY <2>8, <2>15, <3>1 DEF Tidy, Directories
  <2>21. OwnSectors'
    <3> SUFFICES ASSUME NEW d \in Clusters, NEW i \in Places, NEW path,
                        LeadsTo(path, d)', Whole(disk[d])', Cell(d, i)', (Held(d)[i].type = "file")',
                        Target(d, i)' \notin torn'
                 PROVE  Own(d, i, path)'
      BY DEF OwnSectors
    <3>1. LeadsTo(path, d)
      BY <2>12, <2>17, PathsKept
    <3>2. Cell(d, i) /\ disk'[d] = disk[d] /\ Held(d)' = Held(d) /\ Whole(disk[d])
      BY <2>15, <2>16
    <3>3. Target(d, i)' = Target(d, i) /\ NameIn(d, i)' = NameIn(d, i)
      BY <3>2 DEF Target, NameIn
    <3>4. Own(d, i, path)
      BY <2>8, <2>12, <3>1, <3>2, <3>3 DEF Tidy, OwnSectors
    <3>5. Target(d, i) \in {3} \cup 5..MaxCluster
      <4>1. EntryIn(EntryAt(Held(d), i), d, i)
        BY <3>2 DEF EntryIn
      <4> QED
        BY <2>2, <4>1, EntryTyped
    <3>6. ASSUME NEW a \in Clusters, PartOf(a, Target(d, i)), NEW t \in 1..SPC
          PROVE  disk'[a][t] \in {Zero, Data(Append(path, NameIn(d, i)))}
      <4>1. disk[a][t] \in {Zero, Data(Append(path, NameIn(d, i)))}
        BY <3>4, <3>6 DEF Own
      <4>2. CASE a = b /\ t = s
        <5>1. Target(d, i) = c /\ c # Root
          BY <2>3, <2>11, <2>14, <3>5, <3>6, <4>2 DEF PartOf, Handle, Root
        <5>2. o.path = Append(path, NameIn(d, i))
          BY <2>11, <2>12, <3>1, <3>2, <3>3, <5>1 DEF Handle
        <5> QED
          BY <2>6, <2>7, <4>2, <5>2
      <4>3. CASE ~(a = b /\ t = s)
        BY <2>5, <2>7, <4>1, <4>3
      <4> QED
        BY <4>2, <4>3
    <3> QED
      BY <3>2, <3>3, <3>4, <3>6 DEF Own
  <2>22. ASSUME NEW q \in Procs, NEW path1, NEW c1, Uses(q, path1, c1)'
         PROVE  Handle(path1, c1)'
    <3>1. op[p].pc \in Writing /\ r.path = op[p].path /\ r.cl = op[p].cl
      BY <1>1, <2>1, <2>10 DEF Writing
    <3>2. Uses(q, path1, c1)
      BY <2>10, <2>12, <2>22, <3>1, UsesKept
    <3>3. Handle(path1, c1)
      BY <2>8, <3>2 DEF Handles
    <3> QED
      BY <2>12, <2>13, <2>17, <3>3, HandleKept
  <2>23. ASSUME NEW o1, o1 = r
         PROVE  CallFits(o1)'
    <3>1. CASE r.pc = "data"
      BY <2>23, <3>1, IdleFits
    <3>2. CASE r.pc = "size" /\ Padded(o.count) <= Len(Chain(c)) * ClusterSize
      <4>1. c \notin torn => Padded(o.count) <= Room(c)
        <5> SUFFICES ASSUME c \notin torn PROVE Padded(o.count) <= Room(c)
          OBVIOUS
        <5>1. c = 3 \/ fat[c] = EOF
          BY <2>11, <2>13, <2>14 DEF Handle
        <5>2. Len(Chain(c)) = IF fat[c] = EOF THEN 1 ELSE 2
          BY <2>2, ChainClusters
        <5>3. fat[3] # EOF
          BY <2>14
        <5> QED
          BY <3>2, <5>1, <5>2, <5>3 DEF Room, ClusterSize, SPC, SECTOR
      <4> QED
        BY <2>10, <2>12, <2>23, <3>2, <4>1 DEF CallFits
    <3> QED
      BY <2>10, <3>1, <3>2
  <2>24. Tidy'
    BY <2>18, <2>19, <2>20, <2>21 DEF Tidy
  <2> QED
    BY <2>9, <2>10, <2>22, <2>23, <2>24, SoundStep
<1> QED
  BY <1>2, <1>3, WriteDataIs

\* The new size reaches the disk: no other entry and no data changes.
LEMMA WriteSizeBackSound ==
    ASSUME Base, Sound, NEW p \in Procs, WriteSizeBack(p)
    PROVE  Sound'
<1>1. op[p] \in CallType /\ CallOk(op[p]) /\ op[p].pc = "sizew" /\ CallFits(op[p])
  BY InCall DEF WriteSizeBack, Pc, Sound
<1>2. PICK o, c, s : o = op[p] /\ c = op[p].c /\ s = op[p].s
  OBVIOUS
<1>3. c \in Clusters /\ c # 0 /\ DiskTypes
  BY <1>1, <1>2 DEF CallOk, CallType, Base, TypeInv
<1>4. /\ s \in 1..SPC /\ disk'[c] = [disk[c] EXCEPT ![s] = o.buf[s]] /\ disk[c] \in Contents
      /\ \A d \in Clusters \ {c} : disk'[d] = disk[d]
      /\ op' = [op EXCEPT ![p] = IF o.s < SPC THEN [o EXCEPT !.s = o.s + 1] ELSE Idle]
      /\ UNCHANGED <<fat, file, torn, named>>
  <2>1. FlushSector(p, c, Idle) /\ fat' = fat /\ op[p].pc \in {"dirw", "zero", "sizew"}
    BY <1>1, <1>2 DEF WriteSizeBack
  <2>2. LET s1 == op[p].s
        IN  /\ s1 \in 1..SPC /\ disk'[c] = [disk[c] EXCEPT ![s1] = op[p].buf[s1]]
            /\ disk[c] \in Contents
            /\ \A d \in Clusters \ {c} : disk'[d] = disk[d]
            /\ op' = [op EXCEPT ![p] = IF s1 < SPC THEN [op[p] EXCEPT !.s = s1 + 1] ELSE Idle]
    BY <1>3, <2>1, Flushed
  <2> QED
    BY <1>2, <2>2 DEF WriteSizeBack, seen
<1>5. PICK r : r = IF o.s < SPC THEN [o EXCEPT !.s = o.s + 1] ELSE Idle
  OBVIOUS
<1>6. op' = [op EXCEPT ![p] = r]
  BY <1>4, <1>5
<1>7. \/ /\ r.pc = "sizew" /\ r.cl = o.cl /\ r.c = c /\ r.buf = o.buf /\ r.path = o.path
         /\ r.count = o.count
      \/ r.pc = "idle"
  BY <1>1, <1>2, <1>5, FlushedCall
<1>8. /\ o.cl \notin torn => Padded(o.count) <= Room(o.cl)
      /\ \E k \in Places : /\ Cell(c, k) /\ Target(c, k) = o.cl
                           /\ Resizes(disk[c], o.buf, k, Padded(o.count))
  BY <1>1, <1>2 DEF CallFits
<1>9. PICK k \in Places : /\ Cell(c, k) /\ Target(c, k) = o.cl
                          /\ Resizes(disk[c], o.buf, k, Padded(o.count))
  BY <1>8
<1>10. Tidy /\ OneCall /\ Handles
  BY DEF Sound
<1>11. \A q \in Procs \ {p} : op[q].pc = "idle"
  BY <1>1, <1>10, Alone
<1>12. Entering = {} /\ Entering' = {}
  <2>1. Entering = {}
    BY <1>1, <1>10, EnteringIs
  <2>2. Entering' = IF r.pc \in {"dirw", "fatr", "fatw"} THEN {r.cl} ELSE {}
    BY <1>6, <1>11, EnteringNext
  <2> QED
    BY <1>7, <2>1, <2>2
<1>13. \A t \in 1..SPC : disk'[c][t] = IF t = s THEN o.buf[t] ELSE disk[c][t]
  BY <1>4 DEF Contents
<1>14. disk[c][SectorOf(k)].is = "directory"
  <2>1. SectorOf(k) \in 1..SPC /\ PlaceOf(k) \in 1..SlotsPerSector
    BY Positions
  <2> QED
    BY <1>9, <2>1 DEF Cell, Held, SlotsIn, Slots, ZeroSlots, End
\* Either nothing changes or only the size in slot k.
<1>15. /\ \A t \in 1..SPC : /\ disk'[c][t].is = disk[c][t].is
                            /\ t # SectorOf(k) => disk'[c][t] = disk[c][t]
       /\ \A j \in Places \ {k} : Held(c)'[j] = Held(c)[j]
       /\ Held(c)'[k].kind = Held(c)[k].kind /\ Held(c)'[k].type = Held(c)[k].type
       /\ Held(c)'[k].cluster = Held(c)[k].cluster
       /\ Held(c)'[k].size \in {Held(c)[k].size, Padded(o.count)}
  <2>1. \A t \in 1..SPC : o.buf[t].is = disk[c][t].is /\ (t # SectorOf(k) => o.buf[t] = disk[c][t])
    BY <1>9 DEF Resizes
  <2>2. \A j \in Places :
           Held(c)'[j] = IF SectorOf(j) = s THEN Slots(o.buf[s])[PlaceOf(j)] ELSE Held(c)[j]
    <3>1. Stores(c, s, o.buf[s])
      BY <1>4 DEF Stores
    <3> QED
      BY <3>1, HeldAfter
  <2>3. \A j \in Places : Held(c)'[j] \in {SlotsIn(o.buf)[j], SlotsIn(disk[c])[j]}
    BY <2>2 DEF Held, SlotsIn
  <2>4. \A j \in Places : SlotsIn(disk[c])[j] = Held(c)[j]
    BY DEF Held
  <2>5. \A t \in 1..SPC : /\ disk'[c][t].is = disk[c][t].is
                          /\ t # SectorOf(k) => disk'[c][t] = disk[c][t]
    BY <1>13, <2>1
  <2>6. \A j \in Places \ {k} : Held(c)'[j] = Held(c)[j]
    BY <1>9, <2>3, <2>4 DEF Resizes
  <2>7. LET x == SlotsIn(o.buf)[k]
            y == SlotsIn(disk[c])[k]
        IN  x.kind = y.kind /\ x.type = y.type /\ x.cluster = y.cluster /\ x.size = Padded(o.count)
    BY <1>9 DEF Resizes
  <2>8. Held(c)'[k] \in {SlotsIn(o.buf)[k], SlotsIn(disk[c])[k]} /\ SlotsIn(disk[c])[k] = Held(c)[k]
    BY <2>3, <2>4
  <2> QED
    BY <2>5, <2>6, <2>7, <2>8
<1>16. \A d \in Clusters : \A i \in Places :
          /\ Held(d)'[i].kind = Held(d)[i].kind
          /\ ~(d = c /\ i = k) => Held(d)'[i] = Held(d)[i]
          /\ Held(d)'[i].type = Held(d)[i].type /\ Held(d)'[i].cluster = Held(d)[i].cluster
  <2>1. \A d \in Clusters \ {c} : Held(d)' = Held(d)
    BY <1>4 DEF Held
  <2> QED
    BY <1>15, <2>1
<1>17. \A d \in Clusters : Held(d)' \in Table /\ Held(d) \in Table
  <2>1. DiskTypes'
    BY WriteSizeBackTyped DEF Base, TypeInv
  <2> QED
    BY <1>3, <2>1, SlotsTyped DEF DiskTypes, Held
<1>18. \A d \in Clusters : \A i \in Places : Held(d)'[i] = End <=> Held(d)[i] = End
  <2> SUFFICES ASSUME NEW d \in Clusters, NEW i \in Places
               PROVE  Held(d)'[i] = End <=> Held(d)[i] = End
    OBVIOUS
  <2>1. Held(d)'[i] \in Slot /\ Held(d)[i] \in Slot
    BY <1>17 DEF Table
  <2> QED
    BY <1>16, <2>1, Kinds
<1>19. \A d \in Clusters : Whole(disk[d])' => Whole(disk[d])
  <2> SUFFICES ASSUME NEW d \in Clusters, Whole(disk[d])' PROVE Whole(disk[d])
    OBVIOUS
  <2>1. \A t \in 1..SPC : disk'[d][t].is = disk[d][t].is
    BY <1>4, <1>15
  <2>2. \A t \in 1..SPC : disk[d][t].is # "data"
    BY <2>1 DEF Whole
  <2>3. \E i \in Places : Held(d)'[i] = End
    BY DEF Whole, Held
  <2>4. \E i \in Places : Held(d)[i] = End
    BY <1>18, <2>3
  <2> QED
    BY <2>2, <2>4 DEF Whole, Held
<1>20. \A d \in Clusters : \A i \in Places : NameIn(d, i)' = NameIn(d, i)
  <2> SUFFICES ASSUME NEW d \in Clusters, NEW i \in Places
               PROVE  NameAt(Held(d)', i) = NameAt(Held(d), i)
    BY DEF NameIn
  <2>1. i \in Nat /\ \A j \in 1..(i - 1) : j \in Places
    BY Positions DEF Places
  <2>2. \A j \in 1..(i - 1) : /\ Held(d)'[j].kind = Held(d)[j].kind
                              /\ Held(d)'[j].kind = "long" => Held(d)'[j] = Held(d)[j]
    BY <1>9, <1>16, <2>1 DEF Cell
  <2> HIDE <1>16
  <2>3. \A t, u : (\A j \in 1..(i - 1) : t[j].kind = u[j].kind /\ (t[j].kind = "long" => t[j] = u[j]))
                     => NameAt(t, i) = NameAt(u, i)
    BY <2>1, SameName
  <2> QED
    BY <2>2, <2>3
<1>21. \A d \in Clusters : \A i \in Places : Cell(d, i)' <=> Cell(d, i)
  BY <1>16 DEF Cell
<1>22. Kept
  BY <1>16, <1>19, <1>20, <1>21 DEF Kept, Target
<1>23. UniqueTargets' /\ Entered'
  BY <1>4, <1>10, <1>12, <1>22, CellsKept DEF Tidy
<1>24. FreeIsFresh'
  <2> SUFFICES ASSUME NEW d \in Clusters, fat'[d] = 0, NEW t \in 1..SPC
               PROVE  disk'[d][t].is # "directory" /\ (d \notin torn' => disk'[d][t] = Zero)
    BY DEF FreeIsFresh
  <2>1. SectorOf(k) \in 1..SPC
    BY Positions
  <2>2. d # c
    BY <1>4, <1>10, <1>14, <2>1 DEF Tidy, FreeIsFresh
  <2> QED
    BY <1>4, <1>10, <2>2 DEF Tidy, FreeIsFresh
<1>25. Directories'
  <2> SUFFICES ASSUME NEW d \in Clusters, Whole(disk[d])'
               PROVE  /\ EndsAtEnd(Held(d)')
                      /\ \A i \in Places : Cell(d, i)' => (<<d, NameIn(d, i)>> \in named)'
    BY DEF Directories
  <2>1. \A i \in Places : Cell(d, i)' => (<<d, NameIn(d, i)>> \in named)'
    BY <1>4, <1>10, <1>22, NamesKept DEF Tidy
  <2>2. EndsAtEnd(Held(d))
    BY <1>10, <1>19 DEF Tidy, Directories
  <2> QED
    BY <1>18, <2>1, <2>2 DEF EndsAtEnd
<1>26. OwnSectors'
  <2> SUFFICES ASSUME NEW d \in Clusters, NEW i \in Places, NEW path,
                      LeadsTo(path, d)', Whole(disk[d])', Cell(d, i)', (Held(d)[i].type = "file")',
                      Target(d, i)' \notin torn'
               PROVE  Own(d, i, path)'
    BY DEF OwnSectors
  <2>1. LeadsTo(path, d)
    BY <1>4, <1>22, PathsKept
  <2>2. Cell(d, i) /\ Whole(disk[d]) /\ Target(d, i)' = Target(d, i) /\ Held(d)[i].type = "file"
    BY <1>16, <1>19, <1>21 DEF Target
  <2>3. Own(d, i, path)
    BY <1>4, <1>10, <2>1, <2>2 DEF Tidy, OwnSectors
  <2>4. \A b \in Clusters : PartOf(b, Target(d, i)) => b # c
    <3>1. SectorOf(k) \in 1..SPC
      BY Positions
    <3> QED
      BY <1>14, <2>3, <3>1 DEF Own, Zero, Data
  <2>5. (Held(d)[i].size)' <= Room(Target(d, i))
    <3>1. CASE d = c /\ i = k
      BY <1>4, <1>8, <1>9, <1>15, <2>2, <2>3, <3>1 DEF Own
    <3>2. CASE ~(d = c /\ i = k)
      BY <1>16, <2>3, <3>2 DEF Own
    <3> QED
      BY <3>1, <3>2
  <2>6. NameIn(d, i)' = NameIn(d, i)
    BY <1>20
  <2> QED
    BY <1>4, <2>2, <2>3, <2>4, <2>5, <2>6 DEF Own
<1>27. ASSUME NEW q \in Procs, NEW path1, NEW c1, Uses(q, path1, c1)'
       PROVE  Handle(path1, c1)'
  <2>1. r.pc \in Writing => op[p].pc \in Writing /\ r.path = op[p].path /\ r.cl = op[p].cl
    BY <1>1, <1>2, <1>7 DEF Writing
  <2>2. Uses(q, path1, c1)
    BY <1>4, <1>6, <1>27, <2>1, UsesKept
  <2>3. Handle(path1, c1)
    BY <1>10, <2>2 DEF Handles
  <2> QED
    BY <1>4, <1>12, <1>22, <2>3, HandleKept
<1>28. ASSUME NEW o1, o1 = r
       PROVE  CallFits(o1)'
  <2>1. CASE r.pc = "idle"
    BY <1>28, <2>1, IdleFits
  <2>2. CASE /\ r.pc = "sizew" /\ r.cl = o.cl /\ r.c = c /\ r.buf = o.buf /\ r.path = o.path
             /\ r.count = o.count
    <3>1. Resizes(disk'[c], o.buf, k, Padded(o.count))
      <4>1. \A t \in 1..SPC : /\ o.buf[t].is = disk'[c][t].is
                              /\ t # SectorOf(k) => o.buf[t] = disk'[c][t]
        BY <1>9, <1>15 DEF Resizes
      <4>2. \A j \in Places : SlotsIn(disk'[c])[j] = Held(c)'[j] /\ SlotsIn(disk[c])[j] = Held(c)[j]
        BY DEF Held
      <4>3. \A j \in Places \ {k} : SlotsIn(o.buf)[j] = SlotsIn(disk'[c])[j]
        BY <1>9, <1>15, <4>2 DEF Resizes
      <4>4. LET x == SlotsIn(o.buf)[k]
                y == SlotsIn(disk'[c])[k]
            IN  /\ x.kind = y.kind /\ x.type = y.type /\ x.cluster = y.cluster
                /\ x.size = Padded(o.count)
        BY <1>9, <1>15, <4>2 DEF Resizes
      <4> QED
        BY <4>1, <4>3, <4>4 DEF Resizes
    <3>2. Cell(c, k)' /\ Target(c, k)' = o.cl
      BY <1>3, <1>9, <1>16, <1>21 DEF Target
    <3>3. \E k1 \in Places : /\ Cell(c, k1)' /\ Target(c, k1)' = o.cl
                             /\ Resizes(disk'[c], o.buf, k1, Padded(o.count))
      BY <3>1, <3>2
    <3> QED
      BY <1>4, <1>8, <1>28, <2>2, <3>3 DEF CallFits
  <2> QED
    BY <1>7, <2>1, <2>2
<1>29. Tidy'
  BY <1>23, <1>24, <1>25, <1>26 DEF Tidy
<1> QED
  BY <1>6, <1>11, <1>27, <1>28, <1>29, SoundStep

\* One sector of the new slots reaches the disk.  o is the call, c the cluster
\* of the directory, m the slot of the entry itself.
LEMMA CreateWriteIs ==
    ASSUME Base, Sound, NEW o, o \in CallType, CallOk(o), o.pc = "dirw", CallFits(o),
           Stores(o.c, o.s, o.buf[o.s]), \A d \in Clusters \ {o.c} : disk'[d] = disk[d]
    PROVE  LET c == o.c
               m == o.at + Length(o) - 1
           IN  /\ m \in Places /\ o.at \in Places /\ o.at < m
               /\ \A i \in Places : /\ i < o.at => Held(c)'[i] = Held(c)[i] /\ Held(c)[i] # End
                                    /\ i > m => Held(c)'[i] = End /\ Held(c)[i] = End
               /\ \A i \in Filled(o) :
                     /\ Held(c)[i] = IF SectorOf(i) < o.s THEN NewIn(o)[i - o.at + 1] ELSE End
                     /\ Held(c)'[i] = IF SectorOf(i) < o.s + 1 THEN NewIn(o)[i - o.at + 1] ELSE End
               /\ \A i \in Places : Held(c)'[i] = Held(c)[i] \/ Held(c)[i] = End
               /\ \A t \in 1..SPC : disk'[c][t].is # "data"
               /\ NewIn(o)[m - o.at + 1] = RawEntry(o.type, o.cl)
               /\ \A i \in Filled(o) \ {m} : NewIn(o)[i - o.at + 1].kind = "long"
<1> DEFINE c == o.c
           m == o.at + Length(o) - 1
<1>1. /\ Length(o) \in Nat /\ Length(o) >= 2 /\ o.s \in 1..SPC /\ SlotsPerCluster \in Nat
      /\ \A n \in 1..(Length(o) - 1) : NewIn(o)[n].kind = "long"
      /\ NewIn(o)[Length(o)] = RawEntry(o.type, o.cl)
  BY NewEntry, Positions DEF CallOk
<1>2. Fills(o) /\ Whole(disk[c])
  BY DEF CallFits
<1>3. o.at \in Places /\ m <= SlotsPerCluster
  BY <1>2 DEF Fills
<1>4. m \in Places /\ o.at < m /\ m - o.at + 1 = Length(o)
  BY <1>1, <1>3 DEF Places
<1>5. Filled(o) \subseteq Places /\ \A i \in Places : i \in Filled(o) <=> o.at <= i /\ i <= m
  BY <1>1, <1>3 DEF Filled, Places
<1>6. \A i \in Places :
         /\ i < o.at => Held(c)[i] # End
         /\ i > m => Held(c)[i] = End
         /\ i \in Filled(o) =>
              Held(c)[i] = IF SectorOf(i) < o.s THEN NewIn(o)[i - o.at + 1] ELSE End
  <2> SUFFICES ASSUME NEW i \in Places
               PROVE  /\ i < o.at => Held(c)[i] # End
                      /\ i > m => Held(c)[i] = End
                      /\ i \in Filled(o) =>
                           Held(c)[i] = IF SectorOf(i) < o.s THEN NewIn(o)[i - o.at + 1] ELSE End
    OBVIOUS
  <2>1. i > m => i >= o.at + Length(o)
    BY <1>1, <1>3 DEF Places
  <2> QED
    BY <1>2, <2>1 DEF Fills
<1>7. \A i \in Places :
         Held(c)'[i] = IF SectorOf(i) = o.s THEN Slots(o.buf[o.s])[PlaceOf(i)] ELSE Held(c)[i]
  BY HeldAfter
<1>8. \A i \in Places : SectorOf(i) = o.s => Slots(o.buf[o.s])[PlaceOf(i)] = Fill(o)[i]
  <2> SUFFICES ASSUME NEW i \in Places, SectorOf(i) = o.s
               PROVE  Slots(o.buf[o.s])[PlaceOf(i)] = Fill(o)[i]
    OBVIOUS
  <2>1. SlotsIn(o.buf)[i] = Slots(o.buf[SectorOf(i)])[PlaceOf(i)]
    BY DEF SlotsIn
  <2> QED
    BY <1>2, <2>1 DEF Fills
<1>9. \A i \in Places : Fill(o)[i] = IF i \in Filled(o) THEN NewIn(o)[i - o.at + 1] ELSE Held(c)[i]
  BY DEF Fill
<1>10. \A i \in Places : i \notin Filled(o) => Held(c)'[i] = Held(c)[i]
  BY <1>7, <1>8, <1>9
<1>11. \A i \in Filled(o) :
          /\ Held(c)[i] = IF SectorOf(i) < o.s THEN NewIn(o)[i - o.at + 1] ELSE End
          /\ Held(c)'[i] = IF SectorOf(i) < o.s + 1 THEN NewIn(o)[i - o.at + 1] ELSE End
  <2> SUFFICES ASSUME NEW i \in Filled(o)
               PROVE  /\ Held(c)[i] = IF SectorOf(i) < o.s THEN NewIn(o)[i - o.at + 1] ELSE End
                      /\ Held(c)'[i] = IF SectorOf(i) < o.s + 1 THEN NewIn(o)[i - o.at + 1] ELSE End
    OBVIOUS
  <2>1. i \in Places
    BY <1>5
  <2>2. SectorOf(i) \in 1..2 /\ o.s \in 1..2
    BY <1>1, <2>1, Positions DEF SPC
  <2>3. Held(c)[i] = IF SectorOf(i) < o.s THEN NewIn(o)[i - o.at + 1] ELSE End
    BY <1>6, <2>1
  <2>4. Held(c)'[i] = IF SectorOf(i) = o.s THEN NewIn(o)[i - o.at + 1] ELSE Held(c)[i]
    BY <1>7, <1>8, <1>9, <2>1
  <2> QED
    BY <2>2, <2>3, <2>4
<1>12. \A i \in Places : Held(c)'[i] = Held(c)[i] \/ Held(c)[i] = End
  <2> SUFFICES ASSUME NEW i \in Places, i \in Filled(o)
               PROVE  Held(c)'[i] = Held(c)[i] \/ Held(c)[i] = End
    BY <1>10
  <2>1. SectorOf(i) \in 1..2 /\ o.s \in 1..2
    BY <1>1, Positions DEF SPC
  <2> QED
    BY <1>11, <2>1
<1>13. \A t \in 1..SPC : disk'[c][t].is # "data"
  <2> SUFFICES ASSUME NEW t \in 1..SPC PROVE disk'[c][t].is # "data"
    OBVIOUS
  <2>1. disk'[c][t] = IF t = o.s THEN o.buf[t] ELSE disk[c][t]
    BY DEF Stores, Contents
  <2> QED
    BY <1>2, <2>1 DEF Fills, Whole
<1>14. \A i \in Filled(o) \ {m} : NewIn(o)[i - o.at + 1].kind = "long"
  <2> SUFFICES ASSUME NEW i \in Filled(o) \ {m} PROVE NewIn(o)[i - o.at + 1].kind = "long"
    OBVIOUS
  <2>1. i - o.at + 1 \in 1..(Length(o) - 1)
    BY <1>1, <1>3, <1>5 DEF Places
  <2> QED
    BY <1>1, <2>1
<1>15. \A i \in Places : /\ i < o.at => Held(c)'[i] = Held(c)[i] /\ Held(c)[i] # End
                         /\ i > m => Held(c)'[i] = End /\ Held(c)[i] = End
  <2> SUFFICES ASSUME NEW i \in Places
               PROVE  /\ i < o.at => Held(c)'[i] = Held(c)[i] /\ Held(c)[i] # End
                      /\ i > m => Held(c)'[i] = End /\ Held(c)[i] = End
    OBVIOUS
  <2>1. i < o.at \/ i > m => i \notin Filled(o)
    <3> HIDE DEF m
    <3>1. i \in Nat /\ o.at \in Nat /\ m \in Nat
      BY <1>3, <1>4 DEF Places
    <3> QED
      BY <1>5, <3>1
  <2> QED
    BY <1>6, <1>10, <2>1
<1> QED
  BY <1>1, <1>3, <1>4, <1>11, <1>12, <1>13, <1>14, <1>15

\* A sector of the new slots of call o reaches the disk.
StoresSlots(o) ==
    /\ o \in CallType /\ CallOk(o) /\ o.pc = "dirw" /\ CallFits(o)
    /\ Stores(o.c, o.s, o.buf[o.s]) /\ \A d \in Clusters \ {o.c} : disk'[d] = disk[d]

\* The only new entry is the one asked for, and no other entry changes.
LEMMA NewCell ==
    ASSUME Base, Sound, NEW o, StoresSlots(o)
    PROVE  LET m == o.at + Length(o) - 1
           IN  /\ m \in Places /\ m - o.at + 1 = Length(o)
               /\ \A d \in Clusters : \A i \in Places :
                     /\ Cell(d, i) => Cell(d, i)' /\ Held(d)'[i] = Held(d)[i]
                     /\ Cell(d, i)' =>
                          \/ Cell(d, i) /\ Held(d)'[i] = Held(d)[i]
                          \/ /\ d = o.c /\ i = m /\ ~Cell(d, i)
                             /\ Held(d)'[i] = RawEntry(o.type, o.cl) /\ SectorOf(m) < o.s + 1
<1> DEFINE c == o.c
           m == o.at + Length(o) - 1
<1>1. /\ m \in Places /\ o.at \in Places /\ o.at < m
      /\ \A i \in Places : /\ i < o.at => Held(c)'[i] = Held(c)[i] /\ Held(c)[i] # End
                           /\ i > m => Held(c)'[i] = End /\ Held(c)[i] = End
      /\ \A i \in Filled(o) :
            /\ Held(c)[i] = IF SectorOf(i) < o.s THEN NewIn(o)[i - o.at + 1] ELSE End
            /\ Held(c)'[i] = IF SectorOf(i) < o.s + 1 THEN NewIn(o)[i - o.at + 1] ELSE End
      /\ \A i \in Places : Held(c)'[i] = Held(c)[i] \/ Held(c)[i] = End
      /\ NewIn(o)[m - o.at + 1] = RawEntry(o.type, o.cl)
      /\ \A i \in Filled(o) \ {m} : NewIn(o)[i - o.at + 1].kind = "long"
  BY CreateWriteIs DEF StoresSlots
<1>2. Length(o) \in Nat /\ m - o.at + 1 = Length(o)
  BY <1>1, NewEntry DEF StoresSlots, Places
<1>3. c \in Clusters /\ End.kind = "end"
  BY DEF StoresSlots, CallType, End
<1>4. ASSUME NEW d \in Clusters, d # c
      PROVE  Held(d)' = Held(d)
  BY <1>4 DEF StoresSlots, Held
<1>5. ASSUME NEW i \in Places, Cell(c, i)
      PROVE  Cell(c, i)' /\ Held(c)'[i] = Held(c)[i]
  BY <1>1, <1>3, <1>5 DEF Cell
<1>6. ASSUME NEW i \in Places, Cell(c, i)', ~Cell(c, i)
      PROVE  i = m /\ Held(c)'[i] = RawEntry(o.type, o.cl) /\ SectorOf(m) < o.s + 1
  <2>1. Held(c)'[i].kind = "raw" /\ Held(c)[i].kind # "raw"
    BY <1>6 DEF Cell
  <2>2. Held(c)'[i] # Held(c)[i] /\ Held(c)'[i] # End
    BY <1>3, <2>1
  <2>3. i \in Filled(o)
    <3>1. ~(i < o.at) /\ ~(i > m)
      BY <1>1, <2>2
    <3> QED
      BY <1>1, <3>1 DEF Filled, Places
  <2>4. SectorOf(i) < o.s + 1 /\ Held(c)'[i] = NewIn(o)[i - o.at + 1]
    BY <1>1, <2>2, <2>3
  <2>5. i = m
    BY <1>1, <2>1, <2>3, <2>4
  <2> QED
    BY <1>1, <2>4, <2>5
<1> HIDE DEF m
<1>7. ASSUME NEW d \in Clusters, NEW i \in Places
      PROVE  /\ Cell(d, i) => Cell(d, i)' /\ Held(d)'[i] = Held(d)[i]
             /\ Cell(d, i)' =>
                  \/ Cell(d, i) /\ Held(d)'[i] = Held(d)[i]
                  \/ /\ d = c /\ i = m /\ ~Cell(d, i)
                     /\ Held(d)'[i] = RawEntry(o.type, o.cl) /\ SectorOf(m) < o.s + 1
  <2>1. CASE d = c
    BY <1>5, <1>6, <2>1
  <2>2. CASE d # c
    BY <1>4, <2>2 DEF Cell
  <2> QED
    BY <2>1, <2>2
<1> QED
  BY <1>1, <1>2, <1>7 DEF m

\* The directory stays in order, and its entries keep their names.
LEMMA NewNames ==
    ASSUME Base, Sound, NEW o, StoresSlots(o)
    PROVE  LET c == o.c
               m == o.at + Length(o) - 1
           IN  /\ EndsAtEnd(Held(c)')
               /\ \A i \in Places : Cell(c, i) => NameIn(c, i)' = NameIn(c, i)
               /\ SectorOf(m) < o.s + 1 => NameIn(c, m)' = Basename(o.path)
               /\ o.s < SPC => Whole(disk[c])'
               /\ Fill(o)' = Fill(o)
               /\ \A i \in Places :
                    /\ i < o.at => Held(c)'[i] # End
                    /\ i > m => Held(c)'[i] = End
                    /\ i \in Filled(o) =>
                         Held(c)'[i] = IF SectorOf(i) < o.s + 1 THEN NewIn(o)[i - o.at + 1] ELSE End
<1> DEFINE c == o.c
           m == o.at + Length(o) - 1
<1>1. /\ m \in Places /\ o.at \in Places /\ o.at < m
      /\ \A i \in Places : /\ i < o.at => Held(c)'[i] = Held(c)[i] /\ Held(c)[i] # End
                           /\ i > m => Held(c)'[i] = End /\ Held(c)[i] = End
      /\ \A i \in Filled(o) :
            /\ Held(c)[i] = IF SectorOf(i) < o.s THEN NewIn(o)[i - o.at + 1] ELSE End
            /\ Held(c)'[i] = IF SectorOf(i) < o.s + 1 THEN NewIn(o)[i - o.at + 1] ELSE End
      /\ \A i \in Places : Held(c)'[i] = Held(c)[i] \/ Held(c)[i] = End
      /\ \A t \in 1..SPC : disk'[c][t].is # "data"
      /\ NewIn(o)[m - o.at + 1] = RawEntry(o.type, o.cl)
      /\ \A i \in Filled(o) \ {m} : NewIn(o)[i - o.at + 1].kind = "long"
  BY CreateWriteIs DEF StoresSlots
<1>2. /\ Length(o) \in Nat /\ Length(o) >= 2 /\ SlotsPerCluster \in Nat /\ o.s \in 1..2
      /\ Basename(o.path) \in Name /\ Basename(o.path) # <<>>
      /\ Len(Basename(o.path)) \in Nat \ {0} /\ Length(o) = Len(Basename(o.path)) + 1
      /\ c \in Clusters
  <2>1. o.s \in 1..SPC /\ o \in CallType
    BY DEF StoresSlots, CallOk
  <2> QED
    BY <2>1, NewEntry, Positions DEF StoresSlots, Length, SPC, CallType
<1>3. EndsAtEnd(Held(c))
  BY <1>2 DEF StoresSlots, CallFits, Sound, Tidy, Directories
<1>4. \A i \in Places : i \in Filled(o) <=> o.at <= i /\ i <= m
  BY <1>1, <1>2 DEF Filled, Places
<1>5. \A i, j \in Places : i < j => SectorOf(i) <= SectorOf(j) /\ SectorOf(i) \in 1..2
  <2> SUFFICES ASSUME NEW i \in Places, NEW j \in Places, i < j
               PROVE  SectorOf(i) <= SectorOf(j) /\ SectorOf(i) \in 1..2
    OBVIOUS
  <2>1. /\ SectorOf(i) = IF i <= SlotsPerSector THEN 1 ELSE 2
        /\ SectorOf(j) = IF j <= SlotsPerSector THEN 1 ELSE 2
    BY Positions
  <2> QED
    BY <2>1, FatAssumption DEF Places
<1>6. RawEntry(o.type, o.cl) # End /\ \A x : x.kind = "long" => x # End
  BY DEF RawEntry, End
<1>7. \A i \in Filled(o) : NewIn(o)[i - o.at + 1] # End
  BY <1>1, <1>6
<1> HIDE DEF m
<1>8. ASSUME NEW i \in Places, NEW j \in Places, i < j, Held(c)'[i] = End
      PROVE  Held(c)'[j] = End
  <2>1. ~(i < o.at)
    BY <1>1, <1>8
  <2>2. CASE j > m
    BY <1>1, <2>2
  <2>3. CASE ~(j > m)
    <3>1. i \in Filled(o) /\ j \in Filled(o)
      BY <1>1, <1>4, <1>8, <2>1, <2>3 DEF Places
    <3>2. ~(SectorOf(i) < o.s + 1)
      BY <1>1, <1>7, <1>8, <3>1
    <3>3. ~(SectorOf(j) < o.s + 1)
      <4>1. SectorOf(j) \in 1..2 /\ SectorOf(i) <= SectorOf(j) /\ SectorOf(i) \in 1..2
        BY <1>5, <1>8, Positions DEF SPC
      <4> QED
        BY <1>2, <3>2, <4>1
    <3> QED
      BY <1>1, <3>1, <3>3
  <2> QED
    BY <2>2, <2>3
<1>9. ASSUME NEW i \in Places, Cell(c, i)
      PROVE  NameIn(c, i)' = NameIn(c, i)
  <2>1. Held(c)[i] # End
    BY <1>9 DEF Cell, End
  <2>2. i \in Nat /\ \A j \in 1..(i - 1) : j \in Places /\ j < i
    BY <1>2 DEF Places
  <2>3. \A j \in 1..(i - 1) : Held(c)'[j] = Held(c)[j]
    BY <1>1, <1>3, <2>1, <2>2 DEF EndsAtEnd
  <2>4. \A t, u : (\A j \in 1..(i - 1) : t[j].kind = u[j].kind /\ (t[j].kind = "long" => t[j] = u[j]))
                     => NameAt(t, i) = NameAt(u, i)
    BY <2>2, SameName
  <2>5. NameAt(Held(c)', i) = NameAt(Held(c), i)
    BY <2>3, <2>4
  <2> QED
    BY <2>5 DEF NameIn
<1>10. ASSUME SectorOf(m) < o.s + 1
       PROVE  NameIn(c, m)' = Basename(o.path)
  <2> DEFINE name == Basename(o.path)
  <2>1. ASSUME NEW n \in 1..Len(name)
        PROVE  Held(c)'[o.at + n - 1] = NewSlots(name, o.type, o.cl)[n]
    <3> DEFINE i == o.at + n - 1
    <3>1. o.at \in Nat /\ Len(name) \in Nat /\ m = o.at + Len(name)
      BY <1>1, <1>2 DEF Places, m
    <3> DEFINE len == Len(name)
    <3>2. len \in Nat /\ n \in 1..len /\ m = o.at + len
      BY <3>1
    <3> HIDE DEF len, name
    <3>3. i \in Nat /\ i < m /\ i >= o.at /\ i - o.at + 1 = n
      BY <3>1, <3>2
    <3> HIDE DEF i
    <3>4. i \in Places /\ i \in Filled(o)
      <4>1. i \in Places
        <5>1. m \in 1..SlotsPerCluster /\ o.at \in 1..SlotsPerCluster /\ SlotsPerCluster \in Nat
          BY <1>1, <1>2 DEF Places
        <5>2. i \in Nat /\ i < m /\ i >= o.at
          BY <3>3
        <5> QED
          BY <5>1, <5>2 DEF Places
      <4> QED
        BY <1>4, <3>1, <3>3, <4>1
    <3>5. SectorOf(i) < o.s + 1
      <4>1. SectorOf(i) <= SectorOf(m) /\ SectorOf(i) \in 1..2 /\ SectorOf(m) \in 1..2
        BY <1>1, <1>5, <3>3, <3>4, Positions DEF SPC
      <4> QED
        BY <1>2, <1>10, <4>1
    <3>6. Held(c)'[i] = NewIn(o)[n]
      BY <1>1, <3>3, <3>4, <3>5
    <3> QED
      BY <3>6 DEF NewIn, name, i
  <2>2. o.at \in Nat \ {0} /\ m = o.at + Len(name)
    BY <1>1, <1>2 DEF Places, m
  <2> HIDE DEF name
  <2>3. ASSUME NEW t, \A n \in 1..Len(name) : t[o.at + n - 1] = NewSlots(name, o.type, o.cl)[n]
        PROVE  NameAt(t, o.at + Len(name)) = name
    <3>1. o.at \in Nat \ {0} /\ name \in Name /\ name # <<>>
      BY <1>2, <2>2 DEF name
    <3> QED
      BY <2>3, <3>1, NewName
  <2>4. NameAt(Held(c)', o.at + Len(name)) = name
    BY <2>1, <2>3
  <2> QED
    BY <2>2, <2>4 DEF NameIn, name
<1>11. ASSUME o.s < SPC
       PROVE  Whole(disk[c])'
  <2> DEFINE last == SlotsPerCluster
  <2>1. last \in Places /\ SectorOf(last) = 2
    BY Positions, FatAssumption DEF Places
  <2>2. o.s = 1
    BY <1>2, <1>11 DEF SPC
  <2>3. Held(c)'[last] = End
    <3>1. CASE last > m
      BY <1>1, <2>1, <3>1
    <3>2. CASE ~(last > m)
      <4>1. last \in Filled(o)
        BY <1>1, <1>4, <2>1, <3>2 DEF Places
      <4> QED
        BY <1>1, <2>1, <2>2, <4>1
    <3> QED
      BY <3>1, <3>2
  <2> QED
    BY <1>1, <2>1, <2>3 DEF Whole, Held
<1>12. Fill(o)' = Fill(o)
  <2>1. \A i \in Places : i \notin Filled(o) => Held(c)'[i] = Held(c)[i]
    BY <1>1, <1>4 DEF Places
  <2> QED
    BY <2>1 DEF Fill
<1>13. \A i \in Places :
         /\ i < o.at => Held(c)'[i] # End
         /\ i > m => Held(c)'[i] = End
         /\ i \in Filled(o) =>
              Held(c)'[i] = IF SectorOf(i) < o.s + 1 THEN NewIn(o)[i - o.at + 1] ELSE End
  BY <1>1
<1> QED
  BY <1>8, <1>9, <1>10, <1>11, <1>12, <1>13 DEF EndsAtEnd, m

\* A free cluster has no entries, and the directory a call works on no file's.
LEMMA NoCellIn ==
    ASSUME Base, Sound, NEW c \in Clusters, fat[c] = 0, NEW i \in Places
    PROVE  ~Cell(c, i)
<1>1. SectorOf(i) \in 1..SPC /\ PlaceOf(i) \in 1..SlotsPerSector
  BY Positions
<1>2. disk[c][SectorOf(i)].is # "directory"
  BY <1>1 DEF Sound, Tidy, FreeIsFresh
<1>3. Held(c)[i] = End
  BY <1>1, <1>2 DEF Held, SlotsIn, Slots, ZeroSlots
<1> QED
  BY <1>3 DEF Cell, End

\* A sector of the new slots: the entry is in the last one that matters.
LEMMA CreateWriteSound ==
    ASSUME Base, Sound, NEW p \in Procs, CreateWrite(p)
    PROVE  Sound'
<1>1. op[p] \in CallType /\ CallOk(op[p]) /\ op[p].pc = "dirw" /\ CallFits(op[p])
  BY InCall DEF CreateWrite, Pc, Sound
<1>2. PICK o, c, m : o = op[p] /\ c = op[p].c /\ m = op[p].at + Length(op[p]) - 1
  OBVIOUS
<1>3. PICK r : r = IF o.s < SPC THEN [o EXCEPT !.s = o.s + 1] ELSE [o EXCEPT !.pc = "fatr"]
  OBVIOUS
<1>4. c \in Clusters /\ c # 0 /\ DiskTypes /\ o.s \in 1..SPC /\ o.cl \in 5..MaxCluster /\ o.cl \in Clusters
  <2>1. o.cl \in Clusters /\ o.cl >= 5
    BY <1>1, <1>2 DEF CallOk, CallType
  <2>2. o.cl \in 5..MaxCluster
    BY <2>1 DEF Clusters
  <2> QED
    BY <1>1, <1>2, <2>1, <2>2 DEF CallOk, CallType, Base, TypeInv
<1>5. /\ Stores(c, o.s, o.buf[o.s]) /\ \A d \in Clusters \ {c} : disk'[d] = disk[d]
      /\ op' = [op EXCEPT ![p] = r] /\ UNCHANGED <<fat, file, torn, named>>
  <2> DEFINE next == [op[p] EXCEPT !.pc = "fatr"]
  <2>1. FlushSector(p, c, next) /\ fat' = fat /\ op[p].pc \in {"dirw", "zero", "sizew"}
    BY <1>1, <1>2 DEF CreateWrite
  <2> HIDE DEF next
  <2>2. LET s == op[p].s
        IN  /\ s \in 1..SPC /\ disk'[c] = [disk[c] EXCEPT ![s] = op[p].buf[s]]
            /\ disk[c] \in Contents
            /\ \A d \in Clusters \ {c} : disk'[d] = disk[d]
            /\ op' = [op EXCEPT ![p] = IF s < SPC THEN [op[p] EXCEPT !.s = s + 1] ELSE next]
    BY <1>4, <2>1, Flushed
  <2> QED
    BY <1>2, <1>3, <2>2 DEF CreateWrite, seen, Stores, next
<1>6. \/ /\ r.pc = "dirw" /\ r.s = o.s + 1 /\ o.s < SPC
      \/ /\ r.pc = "fatr" /\ ~(o.s < SPC)
  BY <1>1, <1>2, <1>3 DEF CallType
<1>7. /\ r.cl = o.cl /\ r.c = c /\ r.buf = o.buf /\ r.path = o.path /\ r.type = o.type
      /\ r.at = o.at /\ o.c = c /\ m = o.at + Length(o) - 1
  BY <1>1, <1>2, <1>3 DEF CallType
<1>8. StoresSlots(o)
  BY <1>1, <1>2, <1>5 DEF StoresSlots
<1>9. /\ m \in Places /\ m - o.at + 1 = Length(o)
      /\ \A d \in Clusters : \A i \in Places :
            /\ Cell(d, i) => Cell(d, i)' /\ Held(d)'[i] = Held(d)[i]
            /\ Cell(d, i)' =>
                 \/ Cell(d, i) /\ Held(d)'[i] = Held(d)[i]
                 \/ /\ d = c /\ i = m /\ ~Cell(d, i)
                    /\ Held(d)'[i] = RawEntry(o.type, o.cl) /\ SectorOf(m) < o.s + 1
  BY <1>7, <1>8, NewCell
<1>10. /\ EndsAtEnd(Held(c)')
       /\ \A i \in Places : Cell(c, i) => NameIn(c, i)' = NameIn(c, i)
       /\ SectorOf(m) < o.s + 1 => NameIn(c, m)' = Basename(o.path)
       /\ o.s < SPC => Whole(disk[c])'
       /\ Fill(o)' = Fill(o)
       /\ \A i \in Places :
            /\ i < o.at => Held(c)'[i] # End
            /\ i > m => Held(c)'[i] = End
            /\ i \in Filled(o) =>
                 Held(c)'[i] = IF SectorOf(i) < o.s + 1 THEN NewIn(o)[i - o.at + 1] ELSE End
  BY <1>7, <1>8, NewNames
<1>11. /\ Whole(disk[c]) /\ fat[c] = EOF /\ DirectoryAt(c) /\ fat[o.cl] = 0 /\ EOF # 0
       /\ <<c, Basename(o.path)>> \in named /\ Fills(o)
  BY <1>1, <1>2, FatAssumption DEF CallFits, EOF
<1>12. \A d \in Clusters : \A j \in Places :
          Cell(d, j) /\ Target(d, j) = o.cl => o.cl \in torn \/ (d = c /\ j = m)
  BY <1>7, <1>11 DEF Fills
<1>13. o.cl # c /\ \A i \in Places : ~Cell(o.cl, i) /\ ~Cell(o.cl, i)'
  <2>1. o.cl # c
    BY <1>11
  <2>2. \A i \in Places : ~Cell(o.cl, i)
    BY <1>4, <1>11, NoCellIn
  <2> QED
    BY <1>4, <1>9, <2>1, <2>2
<1>14. Tidy /\ OneCall /\ Handles
  BY DEF Sound
<1>15. \A q \in Procs \ {p} : op[q].pc = "idle"
  BY <1>1, <1>14, Alone
<1>16. Entering = {o.cl} /\ Entering' = {o.cl}
  <2>1. Entering = {o.cl}
    BY <1>1, <1>2, <1>14, EnteringIs
  <2>2. Entering' = IF r.pc \in {"dirw", "fatr", "fatw"} THEN {r.cl} ELSE {}
    BY <1>5, <1>15, EnteringNext
  <2> QED
    BY <1>6, <1>7, <2>1, <2>2
<1>17. ASSUME NEW d \in Clusters, NEW i \in Places, Cell(d, i)'
       PROVE  \/ /\ Cell(d, i) /\ Target(d, i)' = Target(d, i) /\ Held(d)'[i] = Held(d)[i]
                 /\ NameIn(d, i)' = NameIn(d, i)
              \/ /\ d = c /\ i = m /\ ~Cell(d, i) /\ Target(d, i)' = o.cl
                 /\ Held(d)'[i].type = o.type /\ Held(d)'[i].size = 0
                 /\ NameIn(d, i)' = Basename(o.path)
  <2>1. CASE Cell(d, i) /\ Held(d)'[i] = Held(d)[i]
    <3>1. Target(d, i)' = Target(d, i)
      BY <2>1 DEF Target
    <3>2. NameIn(d, i)' = NameIn(d, i)
      <4>1. CASE d = c
        BY <1>10, <2>1, <4>1
      <4>2. CASE d # c
        BY <1>5, <4>2 DEF NameIn, Held
      <4> QED
        BY <4>1, <4>2
    <3> QED
      BY <2>1, <3>1, <3>2
  <2>2. CASE /\ d = c /\ i = m /\ ~Cell(d, i)
             /\ Held(d)'[i] = RawEntry(o.type, o.cl) /\ SectorOf(m) < o.s + 1
    BY <1>10, <2>2 DEF Target, RawEntry
  <2> QED
    BY <1>9, <1>17, <2>1, <2>2
<1>18. ASSUME NEW path, NEW d \in Clusters, LeadsTo(path, d)', NEW i \in Places, Cell(d, i)'
       PROVE  LeadsTo(path, d)
  <2>1. CASE d = Root /\ path = <<>>
    BY <2>1 DEF LeadsTo
  <2>2. CASE /\ d \notin torn' /\ Whole(disk[Root])'
             /\ \E j \in Places : /\ Cell(Root, j)' /\ (Held(Root)[j].type)' = "directory"
                                 /\ Target(Root, j)' = d /\ path = <<NameIn(Root, j)>>'
    <3>1. PICK j \in Places : /\ Cell(Root, j)' /\ (Held(Root)[j].type)' = "directory"
                              /\ Target(Root, j)' = d /\ path = <<NameIn(Root, j)>>'
      BY <2>2
    <3>2. Root \in Clusters
      BY FatAssumption DEF Root, Clusters
    <3>3. d # o.cl
      BY <1>13, <1>18
    <3>4. /\ Cell(Root, j) /\ Target(Root, j)' = Target(Root, j)
          /\ Held(Root)'[j] = Held(Root)[j] /\ NameIn(Root, j)' = NameIn(Root, j)
      BY <1>17, <3>1, <3>2, <3>3
    <3>5. Whole(disk[Root])
      <4>1. CASE Root = c
        BY <1>11, <4>1
      <4>2. CASE Root # c
        BY <1>5, <2>2, <3>2, <4>2 DEF Whole
      <4> QED
        BY <4>1, <4>2
    <3> QED
      BY <1>5, <2>2, <3>1, <3>4, <3>5 DEF LeadsTo
  <2> QED
    BY <1>18, <2>1, <2>2 DEF LeadsTo
<1>19. UniqueTargets'
  <2> SUFFICES ASSUME NEW d \in Clusters, NEW e \in Clusters, NEW i \in Places, NEW j \in Places,
                      Cell(d, i)', Cell(e, j)', Target(d, i)' = Target(e, j)'
               PROVE  (d = e /\ i = j) \/ Target(d, i)' \in torn'
    BY DEF UniqueTargets
  <2>1. CASE Cell(d, i) /\ Cell(e, j)
    BY <1>5, <1>14, <1>17, <2>1 DEF Tidy, UniqueTargets
  <2>2. CASE ~Cell(d, i) \/ ~Cell(e, j)
    BY <1>5, <1>12, <1>17, <2>2
  <2> QED
    BY <2>1, <2>2
<1>20. Entered'
  <2> SUFFICES ASSUME NEW d \in Clusters, NEW i \in Places, Cell(d, i)'
               PROVE  Target(d, i)' \in torn' \cup Entering' \/ fat'[Target(d, i)'] # 0
    BY DEF Entered
  <2>1. CASE Cell(d, i)
    BY <1>5, <1>14, <1>16, <1>17, <2>1 DEF Tidy, Entered
  <2>2. CASE ~Cell(d, i)
    BY <1>16, <1>17, <2>2
  <2> QED
    BY <2>1, <2>2
<1>21. FreeIsFresh'
  <2> SUFFICES ASSUME NEW d \in Clusters, fat'[d] = 0, NEW t \in 1..SPC
               PROVE  disk'[d][t].is # "directory" /\ (d \notin torn' => disk'[d][t] = Zero)
    BY DEF FreeIsFresh
  <2>1. d # c
    BY <1>5, <1>11
  <2> QED
    BY <1>5, <1>14, <2>1 DEF Tidy, FreeIsFresh
<1>22. Directories'
  <2> SUFFICES ASSUME NEW d \in Clusters, Whole(disk[d])'
               PROVE  /\ EndsAtEnd(Held(d)')
                      /\ \A i \in Places : Cell(d, i)' => <<d, NameIn(d, i)'>> \in named
    BY <1>5 DEF Directories
  <2>1. CASE d = c
    <3>1. \A i \in Places : Cell(c, i) => <<c, NameIn(c, i)>> \in named
      BY <1>11, <1>14, <1>4 DEF Tidy, Directories
    <3> QED
      BY <1>10, <1>11, <1>17, <2>1, <3>1
  <2>2. CASE d # c
    <3>1. disk'[d] = disk[d] /\ Held(d)' = Held(d)
      BY <1>5, <2>2 DEF Held
    <3>2. EndsAtEnd(Held(d)) /\ \A i \in Places : Cell(d, i) => <<d, NameIn(d, i)>> \in named
      BY <1>14, <3>1 DEF Tidy, Directories
    <3> QED
      BY <1>17, <2>2, <3>1, <3>2
  <2> QED
    BY <2>1, <2>2
<1>23. OwnSectors'
  <2> SUFFICES ASSUME NEW d \in Clusters, NEW i \in Places, NEW path,
                      LeadsTo(path, d)', Whole(disk[d])', Cell(d, i)', (Held(d)[i].type = "file")',
                      Target(d, i)' \notin torn'
               PROVE  Own(d, i, path)'
    BY DEF OwnSectors
  <2>1. LeadsTo(path, d)
    BY <1>18
  <2>2. CASE ~Cell(d, i)
    <3>1. Target(d, i)' = o.cl /\ (Held(d)[i].size)' = 0
      BY <1>17, <2>2
    <3>2. \A b \in Clusters : PartOf(b, o.cl) => b = o.cl
      BY <1>4 DEF PartOf
    <3>3. \A t \in 1..SPC : disk'[o.cl][t] = Zero
      BY <1>4, <1>5, <1>11, <1>13, <1>14, <3>1 DEF Tidy, FreeIsFresh
    <3>4. 0 <= Room(o.cl)
      BY DEF Room, ClusterSize, SPC, SECTOR
    <3> QED
      BY <3>1, <3>2, <3>3, <3>4 DEF Own
  <2>3. CASE Cell(d, i)
    <3>1. /\ Target(d, i)' = Target(d, i) /\ Held(d)'[i] = Held(d)[i]
          /\ NameIn(d, i)' = NameIn(d, i)
      BY <1>17, <2>3
    <3>2. Whole(disk[d])
      <4>1. CASE d = c
        BY <1>11, <4>1
      <4>2. CASE d # c
        BY <1>5, <4>2 DEF Whole
      <4> QED
        BY <4>1, <4>2
    <3>3. Own(d, i, path) /\ Held(d)[i].type = "file" /\ Target(d, i) \notin torn
      BY <1>5, <1>14, <2>1, <2>3, <3>1, <3>2 DEF Tidy, OwnSectors
    <3>4. \A b \in Clusters : PartOf(b, Target(d, i)) => b # c
      <4> SUFFICES ASSUME PartOf(c, Target(d, i)) PROVE FALSE
        OBVIOUS
      <4>1. ASSUME NEW e \in Clusters, NEW j \in Places, Cell(e, j)
            PROVE  Target(e, j) \in {3} \cup 5..MaxCluster
        <5>1. EntryIn(EntryAt(Held(e), j), e, j)
          BY <4>1 DEF EntryIn
        <5> QED
          BY <1>4, <5>1, EntryTyped
      <4>2. c # Root /\ c # 4
        <5>1. c = Root \/ \E e \in Clusters : \E j \in Places : Cell(e, j) /\ Target(e, j) = c
          BY <1>11 DEF DirectoryAt
        <5>2. c # 4
          BY <4>1, <5>1 DEF Root
        <5>3. c # Root
          BY <2>3, <4>1 DEF PartOf, Root
        <5> QED
          BY <5>2, <5>3
      <4>3. Target(d, i) = c
        BY <4>2 DEF PartOf
      <4>4. PICK e \in Clusters, j \in Places :
               Cell(e, j) /\ Target(e, j) = c /\ Held(e)[j].type = "directory"
        BY <1>11, <4>2 DEF DirectoryAt
      <4>5. e = d /\ j = i
        BY <1>14, <2>3, <3>3, <4>3, <4>4 DEF Tidy, UniqueTargets
      <4> QED
        BY <3>3, <4>4, <4>5
    <3> QED
      BY <1>5, <3>1, <3>3, <3>4 DEF Own
  <2> QED
    BY <2>2, <2>3
<1>24. ASSUME NEW q \in Procs, NEW path, NEW b, Uses(q, path, b)'
       PROVE  Handle(path, b)'
  <2>1. r.pc \notin Writing
    BY <1>6 DEF Writing
  <2>2. Uses(q, path, b)
    BY <1>5, <1>24, <2>1, UsesKept
  <2>3. Handle(path, b)
    BY <1>14, <2>2 DEF Handles
  <2>4. ASSUME b # Root, b \notin torn
        PROVE  \/ fat'[b] # 0
               \/ /\ b \in Entering'
                  /\ \E d \in Clusters : \E i \in Places : Cell(d, i)' /\ Target(d, i)' = b
    <3>1. CASE fat[b] # 0
      BY <1>5, <3>1
    <3>2. ASSUME b \in Entering, NEW d \in Clusters, NEW i \in Places, Cell(d, i), Target(d, i) = b
          PROVE  b \in Entering' /\ Cell(d, i)' /\ Target(d, i)' = b
      BY <1>9, <1>16, <3>2 DEF Target
    <3> QED
      BY <2>3, <2>4, <3>1, <3>2 DEF Handle
  <2>5. ASSUME b # Root, b \notin torn, NEW d \in Clusters, NEW i \in Places, Cell(d, i)',
               Target(d, i)' = b
        PROVE  /\ (Held(d)[i].type)' = "file"
               /\ Whole(disk[d])' =>
                    \A to : LeadsTo(to, d)' => path = Append(to, NameIn(d, i)')
    <3>1. Cell(d, i)
      <4> SUFFICES ASSUME ~Cell(d, i) PROVE FALSE
        OBVIOUS
      <4>1. d = c /\ i = m /\ b = o.cl
        BY <1>17, <2>5
      <4>2. PICK e \in Clusters, j \in Places : Cell(e, j) /\ Target(e, j) = b
        BY <1>11, <2>3, <2>5, <4>1 DEF Handle
      <4> QED
        BY <1>12, <2>5, <4>1, <4>2
    <3>2. /\ Target(d, i) = b /\ Held(d)'[i] = Held(d)[i] /\ NameIn(d, i)' = NameIn(d, i)
      BY <1>17, <2>5, <3>1
    <3>3. Whole(disk[d])' => Whole(disk[d])
      <4>1. CASE d = c
        BY <1>11, <4>1
      <4>2. CASE d # c
        BY <1>5, <4>2 DEF Whole
      <4> QED
        BY <4>1, <4>2
    <3>4. \A to : LeadsTo(to, d)' => LeadsTo(to, d)
      BY <1>18, <2>5
    <3>5. /\ Held(d)[i].type = "file"
          /\ Whole(disk[d]) => \A to : LeadsTo(to, d) => path = Append(to, NameIn(d, i))
      BY <2>3, <2>5, <3>1, <3>2 DEF Handle
    <3> QED
      BY <3>2, <3>3, <3>4, <3>5
  <2> QED
    BY <1>5, <2>3, <2>4, <2>5 DEF Handle
<1>25. CallFits(r)'
  <2>1. fat'[r.cl] = 0
    BY <1>5, <1>7, <1>11
  <2>2. CASE r.pc = "fatr"
    BY <2>1, <2>2 DEF CallFits
  <2>3. CASE r.pc = "dirw" /\ r.s = o.s + 1 /\ o.s < SPC
    <3>1. DirectoryAt(c)'
      <4>1. CASE c = Root
        BY <4>1 DEF DirectoryAt
      <4>2. ASSUME NEW d \in Clusters, NEW i \in Places, Cell(d, i), Target(d, i) = c,
                   Held(d)[i].type = "directory"
            PROVE  DirectoryAt(c)'
        <5>1. Cell(d, i)' /\ Target(d, i)' = c /\ (Held(d)[i].type)' = "directory"
          BY <1>9, <4>2 DEF Target
        <5> QED
          BY <5>1 DEF DirectoryAt
      <4> QED
        BY <1>11, <4>1, <4>2 DEF DirectoryAt
    <3>2. /\ Length(r) = Length(o) /\ NewIn(r) = NewIn(o) /\ Filled(r) = Filled(o)
          /\ Fill(r)' = Fill(o)'
      BY <1>7 DEF Length, NewIn, Filled, Fill
    <3>3. \A d \in Clusters : \A j \in Places :
             Cell(d, j)' /\ Target(d, j)' = o.cl => o.cl \in torn' \/ (d = c /\ j = m)
      BY <1>5, <1>12, <1>17
    <3>4. \A i \in Places : i >= o.at + Length(o) => i > m
      <4>1. Length(o) \in Nat /\ o.at \in Nat
        BY <1>1, <1>2, NewEntry DEF CallType
      <4> QED
        BY <1>7, <4>1 DEF Places
    <3>5. Fills(r)'
      <4>1. /\ r.at \in Places /\ r.at + Length(r) - 1 <= SlotsPerCluster
            /\ SlotsIn(r.buf) = Fill(r)' /\ \A t \in 1..SPC : r.buf[t].is = "directory"
        BY <1>7, <1>10, <1>11, <3>2 DEF Fills
      <4>2. \A i \in Places :
              /\ i < r.at => Held(r.c)'[i] # End
              /\ i >= r.at + Length(r) => Held(r.c)'[i] = End
              /\ i \in Filled(r) =>
                   Held(r.c)'[i] = IF SectorOf(i) < r.s THEN NewIn(r)[i - r.at + 1] ELSE End
        BY <1>7, <1>10, <2>3, <3>2, <3>4
      <4>3. \A d \in Clusters : \A j \in Places :
              Cell(d, j)' /\ Target(d, j)' = r.cl =>
                 r.cl \in torn' \/ (d = r.c /\ j = r.at + Length(r) - 1)
        BY <1>7, <3>2, <3>3
      <4> QED
        BY <4>1, <4>2, <4>3 DEF Fills
    <3>6. Whole(disk[c])'
      BY <1>10, <2>3
    <3>7. fat'[c] = EOF /\ <<c, Basename(o.path)>> \in named'
      BY <1>5, <1>11
    <3> QED
      BY <1>7, <2>1, <2>3, <3>1, <3>5, <3>6, <3>7 DEF CallFits
  <2> QED
    BY <1>6, <2>2, <2>3
<1>26. \A o1 : o1 = r => CallFits(o1)'
  BY <1>25
<1>27. Tidy'
  BY <1>19, <1>20, <1>21, <1>22, <1>23 DEF Tidy
<1> QED
  BY <1>5, <1>15, <1>24, <1>26, <1>27, SoundStep

-----------------------------------------------------------------------------
(* The invariant holds at first *)

\* The image's entry, and what mkfs and mount leave on the disk.
ImageEntry == [kind |-> "raw", type |-> "file", cluster |-> 3, size |-> 2 * ClusterSize]

\* The root directory mkfs leaves.
FirstSector == Sector(<<[kind |-> "free"], LongEntry(Image[1][1], TRUE),
                        [RawEntry("file", 3) EXCEPT !.size = 2 * ClusterSize]>>)

\* The slots of that sector.
LEMMA InitSlots ==
    LET b == FirstSector
    IN     /\ b \in [is : {"directory"}, slots : [1..SlotsPerSector -> Slot]]
           /\ b.slots[1] = [kind |-> "free"] /\ b.slots[2] = LongEntry(Image[1][1], TRUE)
           /\ b.slots[3] = ImageEntry /\ \A k \in 4..SlotsPerSector : b.slots[k] = End
<1> DEFINE three == <<[kind |-> "free"], LongEntry(Image[1][1], TRUE),
                      [RawEntry("file", 3) EXCEPT !.size = 2 * ClusterSize]>>
           slots == [i \in 1..SlotsPerSector |-> IF i \in DOMAIN three THEN three[i] ELSE End]
<1>1. Image[1][1] \in STRING /\ SlotsPerSector \in Nat /\ SlotsPerSector >= 4
  BY FatAssumption
<1>2. FirstSector = [is |-> "directory", slots |-> slots]
  BY DEF FirstSector, Sector, Directory
<1>3. [RawEntry("file", 3) EXCEPT !.size = 2 * ClusterSize] = ImageEntry
  BY DEF RawEntry, ImageEntry
<1>4. /\ DOMAIN three = {1, 2, 3} /\ three[1] = [kind |-> "free"]
      /\ three[2] = LongEntry(Image[1][1], TRUE) /\ three[3] = ImageEntry
  BY <1>3
<1>5. [kind |-> "free"] \in Slot /\ End \in Slot
  BY DEF Slot
<1>6. LongEntry(Image[1][1], TRUE) \in Slot
  BY <1>1 DEF Slot, LongEntry
<1>7. ImageEntry \in Slot
  BY DEF Slot, RawSlot, ImageEntry, ClusterSize, SPC, SECTOR
<1> HIDE DEF three
<1>8. \A i \in 1..SlotsPerSector :
         slots[i] = IF i = 1 THEN [kind |-> "free"]
                    ELSE IF i = 2 THEN LongEntry(Image[1][1], TRUE)
                    ELSE IF i = 3 THEN ImageEntry ELSE End
  <2> SUFFICES ASSUME NEW i \in 1..SlotsPerSector
               PROVE  (IF i \in DOMAIN three THEN three[i] ELSE End) =
                         IF i = 1 THEN [kind |-> "free"]
                         ELSE IF i = 2 THEN LongEntry(Image[1][1], TRUE)
                         ELSE IF i = 3 THEN ImageEntry ELSE End
    OBVIOUS
  <2>1. i \in DOMAIN three <=> i = 1 \/ i = 2 \/ i = 3
    BY <1>4
  <2> QED
    BY <1>4, <2>1
<1>9. slots = [i \in 1..SlotsPerSector |-> slots[i]]
  OBVIOUS
<1> HIDE DEF slots
<1>10. slots \in [1..SlotsPerSector -> Slot]
  BY <1>5, <1>6, <1>7, <1>8, <1>9
<1>11. /\ slots[1] = [kind |-> "free"] /\ slots[2] = LongEntry(Image[1][1], TRUE)
       /\ slots[3] = ImageEntry /\ \A k \in 4..SlotsPerSector : slots[k] = End
  <2>1. 1 \in 1..SlotsPerSector /\ 2 \in 1..SlotsPerSector /\ 3 \in 1..SlotsPerSector
    BY <1>1
  <2>2. slots[1] = [kind |-> "free"]
    BY <1>8, <2>1, Zenon
  <2>3. slots[2] = LongEntry(Image[1][1], TRUE)
    <3>1. 2 # 1
      OBVIOUS
    <3> QED
      BY <1>8, <2>1, <3>1, Zenon
  <2>4. slots[3] = ImageEntry
    <3>1. 3 # 1 /\ 3 # 2
      OBVIOUS
    <3> QED
      BY <1>8, <2>1, <3>1, Zenon
  <2>5. ASSUME NEW k \in 4..SlotsPerSector
        PROVE  slots[k] = End
    <3>1. k \in 1..SlotsPerSector /\ k # 1 /\ k # 2 /\ k # 3
      BY <1>1
    <3> QED
      BY <1>8, <3>1, Zenon
  <2> QED
    BY <2>2, <2>3, <2>4, <2>5
<1>12. [is |-> "directory", slots |-> slots] \in [is : {"directory"}, slots : [1..SlotsPerSector -> Slot]]
  BY <1>10
<1>13. FirstSector.slots = slots
  BY <1>2
<1> QED
  BY <1>2, <1>11, <1>12, <1>13

\* What is on each cluster at first.
LEMMA InitDisk ==
    ASSUME Init
    PROVE  \A c \in Clusters :
             /\ disk \in [Clusters -> [1..SPC -> {FirstSector, Data(Image), BeforeData, Zero}]]
             /\ c = Root => disk[c][1] = FirstSector /\ disk[c][2] = Zero
             /\ c \in {3, 4} => \A s \in 1..SPC : disk[c][s] = Data(Image)
             /\ c < 2 => \A s \in 1..SPC : disk[c][s] = BeforeData
             /\ c > 4 => \A s \in 1..SPC : disk[c][s] = Zero
<1>1. disk = [c \in Clusters |-> [s \in 1..SPC |->
                CASE c = Root /\ s = 1 -> FirstSector
                  [] c \in {3, 4} -> Data(Image)
                  [] c < 2 -> BeforeData
                  [] OTHER -> Zero]]
  BY Zenon DEF Init, Clusters, FirstSector
<1> SUFFICES ASSUME NEW c \in Clusters
             PROVE  /\ disk \in [Clusters -> [1..SPC -> {FirstSector, Data(Image), BeforeData, Zero}]]
                    /\ c = Root => disk[c][1] = FirstSector /\ disk[c][2] = Zero
                    /\ c \in {3, 4} => \A s \in 1..SPC : disk[c][s] = Data(Image)
                    /\ c < 2 => \A s \in 1..SPC : disk[c][s] = BeforeData
                    /\ c > 4 => \A s \in 1..SPC : disk[c][s] = Zero
  OBVIOUS
<1>2. c \in Int /\ Root = 2 /\ SPC = 2
  BY FatAssumption DEF Clusters, Root, SPC
<1>3. \A s \in 1..SPC : disk[c][s] = CASE c = Root /\ s = 1 -> FirstSector
                                       [] c \in {3, 4} -> Data(Image)
                                       [] c < 2 -> BeforeData
                                       [] OTHER -> Zero
  BY <1>1
<1>4. disk \in [Clusters -> [1..SPC -> {FirstSector, Data(Image), BeforeData, Zero}]]
  BY <1>1
<1> QED
  BY <1>2, <1>3, <1>4

\* The FAT mkfs leaves: the image's file has the clusters 3 and 4.
LEMMA InitTable ==
    ASSUME Init
    PROVE  /\ fat \in Fats /\ fat[3] = 4
           /\ \A c \in Clusters : /\ c > 4 => fat[c] = 0
                                  /\ c <= 4 => fat[c] # 0
<1>1. fat = [c \in Clusters |-> CASE c = 3 -> 4 [] c \in {0, 1, Root, 4} -> EOF [] OTHER -> 0]
  BY DEF Init, Clusters
<1>2. /\ MaxCluster \in Nat /\ MaxCluster >= 4 /\ Root = 2 /\ EOF # 0 /\ 3 \in Clusters
  BY FatAssumption DEF Root, EOF, Clusters
<1>3. \A c \in Clusters : /\ c = 3 => fat[c] = 4
                          /\ c < 5 /\ c # 3 => fat[c] = EOF
                          /\ c > 4 => fat[c] = 0
  <2> SUFFICES ASSUME NEW c \in Clusters
               PROVE  /\ c = 3 => fat[c] = 4
                      /\ c < 5 /\ c # 3 => fat[c] = EOF
                      /\ c > 4 => fat[c] = 0
    OBVIOUS
  <2>1. fat[c] = CASE c = 3 -> 4 [] c \in {0, 1, Root, 4} -> EOF [] OTHER -> 0
    BY <1>1
  <2>2. c \in Nat /\ (c = 3 \/ c \in {0, 1, 2, 4} \/ c > 4)
    BY DEF Clusters
  <2> QED
    BY <1>2, <2>1, <2>2
<1>4. \A c \in Clusters : c \in Nat /\ (c < 5 \/ c > 4) /\ (c <= 4 <=> c < 5)
  BY DEF Clusters
<1>5. fat = [c \in Clusters |-> fat[c]]
  BY <1>1
<1>6. \A c \in Clusters : fat[c] \in {0, 4, EOF}
  BY <1>3, <1>4
<1>7. fat \in [Clusters -> {0, 4, EOF}]
  BY <1>5, <1>6
<1>8. fat \in Fats
  BY <1>3, <1>4, <1>7 DEF Fats
<1> QED
  BY <1>2, <1>3, <1>4, <1>8

\* What Init says of the rest.
LEMMA InitBase ==
    ASSUME Init
    PROVE  Base
<1>1. DiskTypes
  <2>1. Root = 2 /\ 2 \in Clusters /\ 0 \in Clusters /\ Root \in Clusters
    BY FatAssumption DEF Clusters, Root
  <2>2. /\ disk \in [Clusters -> [1..SPC -> {FirstSector, Data(Image), BeforeData, Zero}]]
        /\ \A s \in 1..SPC : disk[0][s] = BeforeData
    BY <2>1, InitDisk
  <2>3. {FirstSector, Data(Image), BeforeData, Zero} \subseteq SectorType
    <3>1. FirstSector \in SectorType
      BY InitSlots DEF SectorType
    <3>2. Image \in Seq(Name) /\ <<>> \in Seq(Name)
      BY FatAssumption DEF Name
    <3>3. Data(Image) \in SectorType /\ BeforeData \in SectorType /\ Zero \in SectorType
      BY <3>2 DEF SectorType, Data, BeforeData
    <3> QED
      BY <3>1, <3>3
  <2>4. disk \in [Clusters -> Contents]
    BY <2>2, <2>3 DEF Contents
  <2>5. \A s \in 1..SPC : disk[0][s].is = "data"
    BY <2>2 DEF BeforeData
  <2> QED
    BY <2>4, <2>5, InitTable DEF DiskTypes
<1>2. /\ file = [p \in Procs |-> NoFile] /\ op = [p \in Procs |-> Idle] /\ lock = Nobody
      /\ overlap = FALSE /\ loaded = FALSE
  BY DEF Init
<1>3. TypeInv
  BY <1>1, <1>2, IdleOk DEF TypeInv
<1>4. LoadedFirst
  BY <1>2, IdleOk, NoProcess DEF LoadedFirst
<1> QED
  BY <1>3, <1>4 DEF Base

\* The image's entry is the only one.
LEMMA InitCells ==
    ASSUME Init
    PROVE  \A c \in Clusters : \A i \in Places :
             /\ c # Root => Held(c)[i] = End
             /\ c = Root => /\ i = 1 => Held(c)[i] = [kind |-> "free"]
                            /\ i = 2 => Held(c)[i] = LongEntry(Image[1][1], TRUE)
                            /\ i = 3 => Held(c)[i] = ImageEntry
                            /\ i > 3 => Held(c)[i] = End
<1> SUFFICES ASSUME NEW c \in Clusters, NEW i \in Places
             PROVE  /\ c # Root => Held(c)[i] = End
                    /\ c = Root => /\ i = 1 => Held(c)[i] = [kind |-> "free"]
                                   /\ i = 2 => Held(c)[i] = LongEntry(Image[1][1], TRUE)
                                   /\ i = 3 => Held(c)[i] = ImageEntry
                                   /\ i > 3 => Held(c)[i] = End
  OBVIOUS
<1>1. Held(c)[i] = Slots(disk[c][SectorOf(i)])[PlaceOf(i)]
  BY DEF Held, SlotsIn
<1>2. /\ SectorOf(i) \in 1..SPC /\ PlaceOf(i) \in 1..SlotsPerSector
      /\ SectorOf(i) = IF i <= SlotsPerSector THEN 1 ELSE 2
      /\ PlaceOf(i) = IF i <= SlotsPerSector THEN i ELSE i - SlotsPerSector
      /\ SlotsPerSector \in Nat /\ SlotsPerSector >= 4 /\ i \in Nat
  BY Positions, FatAssumption DEF Places
<1>3. ASSUME NEW x \in {Data(Image), BeforeData, Zero}
      PROVE  Slots(x) = ZeroSlots
  BY DEF Slots, Data, BeforeData, Zero
<1>4. ASSUME disk[c][SectorOf(i)] \in {Data(Image), BeforeData, Zero}
      PROVE  Held(c)[i] = End
  BY <1>1, <1>2, <1>3, <1>4 DEF ZeroSlots
<1>5. CASE c # Root
  <2>1. c \in {3, 4} \/ c < 2 \/ c > 4
    BY <1>5 DEF Clusters, Root
  <2>2. disk[c][SectorOf(i)] \in {Data(Image), BeforeData, Zero}
    BY <1>2, <2>1, InitDisk
  <2> QED
    BY <1>4, <1>5, <2>2
<1>6. CASE c = Root /\ ~(i <= SlotsPerSector)
  <2>1. SectorOf(i) = 2 /\ i > 3
    BY <1>2, <1>6
  <2>2. disk[c][SectorOf(i)] = Zero
    BY <1>6, <2>1, InitDisk
  <2>3. Held(c)[i] = End
    BY <1>4, <2>2
  <2>4. i # 1 /\ i # 2 /\ i # 3
    BY <2>1
  <2> QED
    BY <1>6, <2>3, <2>4, Zenon
<1>7. CASE c = Root /\ i <= SlotsPerSector
  <2>1. SectorOf(i) = 1 /\ PlaceOf(i) = i /\ i \in 1..SlotsPerSector
    BY <1>2, <1>7
  <2>2. disk[c][SectorOf(i)] = FirstSector
    BY <1>7, <2>1, InitDisk
  <2>3. FirstSector.is = "directory"
    BY InitSlots
  <2>4. Held(c)[i] = FirstSector.slots[i]
    BY <1>1, <2>1, <2>2, <2>3 DEF Slots
  <2>5. i > 3 => i \in 4..SlotsPerSector
    BY <1>2, <1>7
  <2> QED
    BY <1>7, <2>4, <2>5, InitSlots
<1> QED
  BY <1>5, <1>6, <1>7

\* The kinds of the slots mkfs leaves.
LEMMA InitKinds ==
    ASSUME Init
    PROVE  /\ \A c \in Clusters : \A i \in Places : c # Root \/ i > 3 => Held(c)[i] = End
           /\ Held(Root)[1].kind = "free" /\ Held(Root)[2].kind = "long"
           /\ Held(Root)[3] = ImageEntry /\ Held(Root)[3].kind = "raw"
<1>1. Root \in Clusters
  BY FatAssumption DEF Root, Clusters
<1>2. 1 \in Places /\ 2 \in Places /\ 3 \in Places
  BY Positions, FatAssumption DEF Places
<1>3. Held(Root)[1] = [kind |-> "free"]
  BY <1>1, <1>2, InitCells, Zenon
<1>4. Held(Root)[2] = LongEntry(Image[1][1], TRUE)
  BY <1>1, <1>2, InitCells, Zenon
<1>5. Held(Root)[3] = ImageEntry
  BY <1>1, <1>2, InitCells, Zenon
<1>6. \A c \in Clusters : \A i \in Places : c # Root \/ i > 3 => Held(c)[i] = End
  BY <1>1, InitCells, Zenon
<1>7. Held(Root)[1].kind = "free"
  BY <1>3
<1>8. Held(Root)[2].kind = "long"
  BY <1>4 DEF LongEntry
<1>9. Held(Root)[3].kind = "raw"
  BY <1>5 DEF ImageEntry
<1> QED
  BY <1>5, <1>6, <1>7, <1>8, <1>9

\* The same, as a formula.
LEMMA AnyNewName ==
    \A t, type, cl : \A at \in Nat \ {0} : \A name \in Name :
        name # <<>> /\ (\A k \in 1..Len(name) : t[at + k - 1] = NewSlots(name, type, cl)[k])
            => NameAt(t, at + Len(name)) = name
BY NewName

\* A name of one piece.
LEMMA ShortestName ==
    ASSUME NEW name \in Name, NEW t, Len(name) = 1, t[2] = LongEntry(name[1], TRUE)
    PROVE  NameAt(t, 3) = name
<1> SUFFICES ASSUME NEW type, NEW cl PROVE NameAt(t, 3) = name
  OBVIOUS
<1>1. name # <<>>
  OBVIOUS
<1>2. NewSlots(name, type, cl)[1] = LongEntry(name[1], TRUE)
  <2>1. 1 \in 1..(Len(name) + 1) /\ 1 <= Len(name) /\ Len(name) + 1 - 1 = 1
    OBVIOUS
  <2>2. NewSlots(name, type, cl)[1] = LongEntry(name[Len(name) + 1 - 1], 1 = 1)
    BY <2>1, Zenon DEF NewSlots
  <2>3. name[Len(name) + 1 - 1] = name[1] /\ (1 = 1) = TRUE
    BY <2>1
  <2> QED
    BY <2>2, <2>3, Zenon
<1>3. PICK at \in Nat \ {0} : at = 2
  OBVIOUS
<1>4. \A k \in 1..Len(name) : t[at + k - 1] = NewSlots(name, type, cl)[k]
  <2>1. \A k \in 1..Len(name) : k = 1 /\ at + k - 1 = 2
    BY <1>3
  <2> QED
    BY <1>2, <2>1, Zenon
<1>5. NameAt(t, at + Len(name)) = name
  <2>1. \A at1 \in Nat \ {0} : \A nm \in Name :
           nm # <<>> /\ (\A k \in 1..Len(nm) : t[at1 + k - 1] = NewSlots(nm, type, cl)[k])
               => NameAt(t, at1 + Len(nm)) = nm
    BY AnyNewName
  <2>2. \A nm \in Name :
           nm # <<>> /\ (\A k \in 1..Len(nm) : t[at + k - 1] = NewSlots(nm, type, cl)[k])
               => NameAt(t, at + Len(nm)) = nm
    BY <1>3, <2>1, Zenon
  <2> QED
    BY <1>1, <1>4, <2>2, Zenon
<1>6. at + Len(name) = 3
  BY <1>3
<1> QED
  BY <1>5, <1>6, Zenon

\* It leads from the root to the image's file.
LEMMA InitOne ==
    ASSUME Init
    PROVE  /\ \A c \in Clusters : \A i \in Places : Cell(c, i) => c = Root /\ i = 3
           /\ Target(Root, 3) = 3 /\ Held(Root)[3].type = "file"
           /\ Held(Root)[3].size = 2 * ClusterSize
           /\ NameIn(Root, 3) = Image[1] /\ Append(<<>>, Image[1]) = Image
<1>1. Root \in Clusters /\ Image[1] \in Seq(STRING) /\ Len(Image[1]) = 1 /\ Image = <<Image[1]>>
  BY FatAssumption DEF Root, Clusters
<1>2. 1 \in Places /\ 2 \in Places /\ 3 \in Places
  BY Positions, FatAssumption DEF Places
<1>3. Held(Root)[2] = LongEntry(Image[1][1], TRUE) /\ Held(Root)[3] = ImageEntry
  BY <1>1, <1>2, InitCells, Zenon
<1>4. ASSUME NEW c \in Clusters, NEW i \in Places, Held(c)[i].kind = "raw"
      PROVE  c = Root /\ i = 3
  <2>1. Held(c)[i] # End
    BY <1>4 DEF End
  <2>2. c = Root /\ ~(i > 3)
    BY <2>1, InitKinds
  <2>3. i # 1 /\ i # 2
    BY <1>4, <2>2, InitKinds
  <2> QED
    BY <2>2, <2>3 DEF Places
<1>5. NameIn(Root, 3) = Image[1]
  <2>1. \A name \in Name : \A t : Len(name) = 1 /\ t[2] = LongEntry(name[1], TRUE) => NameAt(t, 3) = name
    BY ShortestName
  <2> QED
    BY <1>1, <1>3, <2>1 DEF NameIn, Name
<1>6. Append(<<>>, Image[1]) = Image
  BY <1>1
<1> QED
  BY <1>3, <1>4, <1>5, <1>6 DEF Cell, Target, ImageEntry

\* The invariant at first.
LEMMA InitSound ==
    ASSUME Init
    PROVE  Sound
<1>1. /\ named = {<<Root, Image[1]>>} /\ torn = {} /\ overlap = FALSE
      /\ \A p \in Procs : op[p] = Idle /\ op[p].pc = "idle" /\ file[p] = NoFile
  BY IdleOk DEF Init
<1>2. UniqueTargets
  BY InitOne DEF UniqueTargets
<1>3. Entered
  <2>1. 3 \in Clusters /\ fat[3] # 0
    BY InitTable, FatAssumption DEF Clusters
  <2> QED
    BY <2>1, InitOne DEF Entered
<1>4. FreeIsFresh
  <2> SUFFICES ASSUME NEW c \in Clusters, fat[c] = 0, NEW s \in 1..SPC
               PROVE  disk[c][s] = Zero
    BY DEF FreeIsFresh, Zero
  <2>1. c > 4
    BY InitTable DEF Clusters
  <2> QED
    BY <2>1, InitDisk
<1>5. Directories
  <2> SUFFICES ASSUME NEW c \in Clusters
               PROVE  /\ EndsAtEnd(Held(c))
                      /\ \A i \in Places : Cell(c, i) => <<c, NameIn(c, i)>> \in named
    BY DEF Directories
  <2>1. \A i \in Places : Cell(c, i) => <<c, NameIn(c, i)>> \in named
    BY <1>1, InitOne
  <2>2. ASSUME NEW i \in Places, NEW j \in Places, i < j, Held(c)[i] = End
        PROVE  Held(c)[j] = End
    <3>1. CASE c # Root
      BY <3>1, InitKinds
    <3>2. CASE c = Root
      <4>1. Held(c)[i].kind = "end"
        BY <2>2 DEF End
      <4>2. i # 1 /\ i # 2 /\ i # 3
        BY <3>2, <4>1, InitKinds
      <4>3. j > 3
        BY <2>2, <4>2 DEF Places
      <4> QED
        BY <3>2, <4>3, InitKinds
    <3> QED
      BY <3>1, <3>2
  <2> QED
    BY <2>1, <2>2 DEF EndsAtEnd
<1>6. OwnSectors
  <2> SUFFICES ASSUME NEW d \in Clusters, NEW i \in Places, NEW path,
                      LeadsTo(path, d), Cell(d, i)
               PROVE  Own(d, i, path)
    BY DEF OwnSectors
  <2>1. d = Root /\ i = 3 /\ Target(d, i) = 3 /\ NameIn(d, i) = Image[1]
    BY InitOne
  <2>2. path = <<>>
    <3>1. \A j \in Places : Cell(Root, j) => Held(Root)[j].type = "file"
      BY <2>1, InitOne
    <3> QED
      BY <3>1 DEF LeadsTo
  <2>3. Append(path, NameIn(d, i)) = Image
    BY <2>1, <2>2, InitOne
  <2>4. ASSUME NEW b \in Clusters, PartOf(b, 3), NEW s \in 1..SPC
        PROVE  disk[b][s] = Data(Image)
    BY <2>4, InitDisk DEF PartOf
  <2>5. Held(d)[i].size <= Room(3)
    <3>1. Held(d)[i].size = 2 * ClusterSize /\ 2 * ClusterSize \in Nat
      BY <2>1, InitOne DEF ClusterSize, SPC, SECTOR
    <3> QED
      BY <3>1 DEF Room
  <2> QED
    BY <2>1, <2>3, <2>4, <2>5 DEF Own
<1>7. OneCall /\ Handles
  BY <1>1 DEF OneCall, Handles, Uses, Writing
<1>8. \A p \in Procs : \A o : o = op[p] => CallFits(o)
  BY <1>1, IdleFits
<1> QED
  BY <1>2, <1>3, <1>4, <1>5, <1>6, <1>7, <1>8 DEF Sound, Tidy

-----------------------------------------------------------------------------
(* Every step keeps the invariant *)

\* Calls that overlapped once did so for good.
LEMMA OverlapStays ==
    ASSUME overlap, [Next]_vars
    PROVE  overlap'
<1>1. CASE UNCHANGED overlap
  BY <1>1
<1>2. ASSUME NEW p \in Procs, NEW call, Begin(p, call)
      PROVE  overlap'
  BY <1>2 DEF Begin
<1>3. ASSUME NEW why, Panic(why)
      PROVE  overlap'
  BY <1>3 DEF Panic, seen
<1>4. ASSUME NEW p \in Procs, CreateEntry(p)
      PROVE  overlap'
  <2>1. CASE \E new \in Creatable : Create(p, new[1], new[2])
    BY <1>2, <2>1 DEF Create
  <2>2. CASE CreateSlot(p)
    BY <1>3, <2>2 DEF CreateSlot, CreateIn, TakeSlot, seen
  <2>3. CASE CreateCluster(p) \/ CreateFill(p)
    BY <1>3, <2>3 DEF CreateCluster, CreateFill, seen
  <2>4. CASE CreateWrite(p) \/ ReadFat(p) \/ WriteFat(p)
    BY <2>4 DEF CreateWrite, ReadFat, WriteFat, seen
  <2>5. CASE CreateZero(p) \/ DiskError(p)
    BY <1>3, <2>5 DEF CreateZero, DiskError, seen
  <2> QED
    BY <1>4, <2>1, <2>2, <2>3, <2>4, <2>5 DEF CreateEntry
<1>5. ASSUME NEW p \in Users, UseFile(p)
      PROVE  overlap'
  <2>1. p \in Procs
    BY FatAssumption
  <2>2. CASE \E path \in Paths : Open(p, path) \/ List(p, path)
    BY <1>3, <2>2 DEF Open, List, seen
  <2>3. CASE \E n \in Counts : Write(p, n) \/ Lseek(p, n)
    BY <1>2, <1>3, <2>1, <2>3 DEF Write, Lseek
  <2>4. CASE Read(p) \/ WriteParent(p)
    BY <1>3, <2>4 DEF Read, WriteParent, seen
  <2>5. CASE WriteData(p)
    BY <1>3, <2>5 DEF WriteData, WriteSector, seen
  <2>6. CASE WriteSize(p) \/ WriteSizeBack(p)
    BY <1>3, <2>6 DEF WriteSize, WriteSizeIn, SizeAt, WriteSizeBack, seen
  <2> QED
    BY <1>5, <2>2, <2>3, <2>4, <2>5, <2>6 DEF UseFile
<1>6. CASE LoaderReads \/ LoaderDone \/ Crash
  BY <1>6 DEF LoaderReads, LoaderDone, Crash, seen
<1> QED
  BY <1>1, <1>4, <1>5, <1>6 DEF Next, vars

\* Every step keeps the invariant of calls that do not overlap.
LEMMA SoundNext ==
    ASSUME Base, Sound, [Next]_vars, ~overlap'
    PROVE  Sound'
<1>1. CASE UNCHANGED vars
  BY <1>1, SameSound DEF vars
<1>2. ASSUME NEW why, Panic(why)
      PROVE  Sound'
  BY <1>2, SameSound DEF Panic, seen
<1>3. ASSUME NEW p \in Procs, CreateEntry(p)
      PROVE  Sound'
  <2>1. CASE DiskError(p)
    BY <1>2, <2>1 DEF DiskError
  <2> QED
    BY <1>3, <2>1, CreateBegins, CreateSlotSound, CreateClusterSound, CreateFillSound,
       CreateWriteSound, ReadFatSound, WriteFatSound, CreateZeroSound DEF CreateEntry
<1>4. ASSUME NEW p \in Users, UseFile(p)
      PROVE  Sound'
  <2>1. p \in Procs
    BY FatAssumption
  <2>2. ASSUME NEW path \in Paths, List(p, path)
        PROVE  Sound'
    BY <1>2, <2>2 DEF List
  <2>3. ASSUME NEW n \in Counts, Lseek(p, n)
        PROVE  Sound'
    BY <1>2, <2>3 DEF Lseek
  <2> QED
    BY <1>4, <2>1, <2>2, <2>3, OpenSound, WriteBegins, ReadSound, WriteParentSound,
       WriteDataSound, WriteSizeSound, WriteSizeBackSound DEF UseFile
<1>5. CASE LoaderReads \/ LoaderDone
  BY <1>5, SameSound DEF LoaderReads, LoaderDone, seen
<1>6. CASE Crash
  BY <1>6, CrashSound
<1> QED
  BY <1>1, <1>3, <1>4, <1>5, <1>6 DEF Next

\* The inductive invariant.
THEOREM FatInvariance == Spec => []Inv
<1>1. Init => Inv
  BY InitBase, InitSound DEF Inv
<1>2. Inv /\ [Next]_vars => Inv'
  <2> SUFFICES ASSUME Inv, [Next]_vars PROVE Inv'
    OBVIOUS
  <2>1. Base /\ Base'
    BY BaseNext DEF Inv
  <2>2. ASSUME ~overlap'
        PROVE  Sound'
    <3>1. ~overlap
      BY <2>2, OverlapStays
    <3>2. Sound
      BY <3>1 DEF Inv
    <3> QED
      BY <2>1, <2>2, <3>2, SoundNext
  <2> QED
    BY <2>1, <2>2 DEF Inv
<1> QED
  BY <1>1, <1>2, PTL DEF Spec

-----------------------------------------------------------------------------
(* What a user of the file system sees *)

\* The entries listed for a directory are slots of its cluster.
LEMMA EntriesAre ==
    ASSUME DiskTypes, NEW dir, NEW c \in Clusters, dir.cluster = c, c # 3, HasEnd(c),
           NEW prefix, NEW t \in Entries(dir, prefix)
    PROVE  \E i \in Places : /\ t.at = <<c, i>> /\ EntryIn(t.entry, c, i)
                             /\ t.path = Append(prefix, NameIn(c, i))
<1> DEFINE es == ReadDirectory(c)
<1>1. PICK i \in DOMAIN es :
         t = [at |-> <<c, i>>, path |-> Append(prefix, es[i].name), entry |-> es[i]]
  BY DEF Entries
<1>2. i \in Places /\ EntryIn(es[i], c, i)
  BY ReadIs
<1>3. es[i].name = NameIn(c, i)
  BY <1>2, EntryTyped
<1> HIDE DEF es
<1>4. t.at = <<c, i>> /\ t.path = Append(prefix, es[i].name) /\ t.entry = es[i]
  BY <1>1
<1> QED
  BY <1>2, <1>3, <1>4

\* Slot i of cluster d is that of t, and to is a path to d.
Shows(t, d, i, to) ==
    /\ d \in Clusters /\ i \in Places /\ t.at = <<d, i>> /\ EntryIn(t.entry, d, i)
    /\ t.path = Append(to, NameIn(d, i)) /\ Whole(disk[d])
    /\ d \notin torn => LeadsTo(to, d)

\* Each entry of the tree is a slot of the root or of a directory in it.
LEMMA TreeIs ==
    ASSUME DiskTypes, NEW t \in Tree
    PROVE  \E d, i, to : Shows(t, d, i, to)
<1>1. HasEnd(Root) /\ t \in WithSubdirectories(Entries(RootEntry, <<>>))
  BY DEF Tree
<1>2. Root \in Clusters /\ Root # 3 /\ RootEntry.cluster = Root
  BY FatAssumption DEF Root, Clusters, RootEntry
<1>3. Whole(disk[Root])
  BY <1>1, <1>2, OneCluster
<1>4. CASE t \in Entries(RootEntry, <<>>)
  <2>1. PICK i \in Places : /\ t.at = <<Root, i>> /\ EntryIn(t.entry, Root, i)
                            /\ t.path = Append(<<>>, NameIn(Root, i))
    BY <1>1, <1>2, <1>4, EntriesAre
  <2>2. LeadsTo(<<>>, Root)
    BY DEF LeadsTo
  <2> QED
    BY <1>2, <1>3, <2>1, <2>2 DEF Shows
<1>5. ASSUME NEW u \in Entries(RootEntry, <<>>), Subdirectory(u), t \in Entries(u.entry, u.path)
      PROVE  \E d, i, to : Shows(t, d, i, to)
  <2>1. PICK j \in Places : /\ EntryIn(u.entry, Root, j)
                            /\ u.path = Append(<<>>, NameIn(Root, j))
    BY <1>1, <1>2, EntriesAre
  <2> DEFINE d == u.entry.cluster
  <2>2. u.entry.type = "directory" /\ d # Root /\ HasEnd(d)
    BY <1>5 DEF Subdirectory
  <2>3. /\ Cell(Root, j) /\ Target(Root, j) = d /\ Held(Root)[j].type = "directory"
        /\ d \in Clusters /\ d # 3
    BY <2>1, <2>2, EntryTyped DEF EntryIn
  <2>4. PICK i \in Places : /\ t.at = <<d, i>> /\ EntryIn(t.entry, d, i)
                            /\ t.path = Append(u.path, NameIn(d, i))
    BY <1>5, <2>2, <2>3, EntriesAre
  <2>5. Whole(disk[d])
    BY <2>2, <2>3, OneCluster
  <2>6. Append(<<>>, NameIn(Root, j)) = <<NameIn(Root, j)>>
    OBVIOUS
  <2>7. d \notin torn => LeadsTo(u.path, d)
    BY <1>3, <2>1, <2>3, <2>6 DEF LeadsTo
  <2> QED
    BY <2>3, <2>4, <2>5, <2>7 DEF Shows
<1> QED
  BY <1>1, <1>4, <1>5 DEF WithSubdirectories

\* Two entries with the same cluster: fat, disk and the names stay in step.
THEOREM NoCrossLinks == Spec => []NoCrossLink
<1>1. Inv => NoCrossLink
  <2> SUFFICES ASSUME Inv PROVE NoCrossLink
    OBVIOUS
  <2>1. overlap => loaded
    BY DEF Inv, Base, LoadedFirst
  <2>2. ASSUME ~overlap, NEW t \in Tree, NEW u \in Tree, t.at # u.at,
               t.entry.cluster = u.entry.cluster
        PROVE  t.entry.cluster \in torn
    <3>1. DiskTypes /\ UniqueTargets
      BY <2>2 DEF Inv, Base, TypeInv, Sound, Tidy
    <3>2. PICK d, i, to : Shows(t, d, i, to)
      BY <3>1, TreeIs
    <3>3. PICK e, j, from : Shows(u, e, j, from)
      BY <3>1, TreeIs
    <3>4. Cell(d, i) /\ Target(d, i) = t.entry.cluster /\ d \in Clusters /\ i \in Places
      BY <3>1, <3>2, EntryTyped DEF Shows, EntryIn
    <3>5. Cell(e, j) /\ Target(e, j) = u.entry.cluster /\ e \in Clusters /\ j \in Places
      BY <3>1, <3>3, EntryTyped DEF Shows, EntryIn
    <3>6. ~(d = e /\ i = j)
      BY <2>2, <3>2, <3>3 DEF Shows
    <3> QED
      BY <2>2, <3>1, <3>4, <3>5, <3>6 DEF UniqueTargets
  <2> QED
    BY <2>1, <2>2 DEF NoCrossLink
<1> QED
  BY <1>1, FatInvariance, PTL

\* read_directory puts together only names that were asked for.
THEOREM OnlyNamesAsked == Spec => []NamesAsked
<1>1. Inv => NamesAsked
  <2> SUFFICES ASSUME Inv, ~overlap, NEW t \in Tree
               PROVE  <<t.at[1], t.entry.name>> \in named
    BY DEF NamesAsked
  <2>1. DiskTypes /\ Directories
    BY DEF Inv, Base, TypeInv, Sound, Tidy
  <2>2. PICK d, i, to : Shows(t, d, i, to)
    BY <2>1, TreeIs
  <2>3. t.at[1] = d /\ Whole(disk[d]) /\ Cell(d, i) /\ d \in Clusters /\ i \in Places
    BY <2>2 DEF Shows, EntryIn
  <2>4. t.entry.name = NameIn(d, i)
    BY <2>1, <2>2, EntryTyped DEF Shows
  <2> QED
    BY <2>1, <2>3, <2>4 DEF Directories
<1> QED
  BY <1>1, FatInvariance, PTL

\* A file holds its own data and claims no more than its clusters hold.
THEOREM FilesOwnData == Spec => []OwnData
<1>1. Inv => OwnData
  <2> SUFFICES ASSUME Inv, ~overlap, NEW t \in Tree, t.entry.type = "file", t.at[1] \notin torn,
                      t.entry.cluster \notin torn \cup Creating
               PROVE  LET chain == Chain(t.entry.cluster)
                      IN  /\ \A k \in 1..Len(chain) : \A s \in 1..SPC :
                                disk[chain[k]][s] \in {Zero, Data(t.path)}
                          /\ t.entry.size <= Len(chain) * ClusterSize
    BY DEF OwnData
  <2>1. DiskTypes /\ Entered /\ OwnSectors
    BY DEF Inv, Base, TypeInv, Sound, Tidy
  <2>2. PICK d, i, to : Shows(t, d, i, to)
    BY <2>1, TreeIs
  <2> DEFINE c == t.entry.cluster
  <2>3. /\ d \in Clusters /\ i \in Places /\ Cell(d, i) /\ Whole(disk[d]) /\ LeadsTo(to, d)
        /\ t.path = Append(to, NameIn(d, i))
    BY <2>2 DEF Shows, EntryIn
  <2>4. /\ Target(d, i) = c /\ Held(d)[i].type = "file" /\ Held(d)[i].size = t.entry.size
        /\ c \in Clusters
    BY <2>1, <2>2, EntryTyped DEF Shows
  <2>5. Own(d, i, to)
    BY <2>1, <2>3, <2>4 DEF OwnSectors
  <2>6. fat[c] # 0
    <3>1. Entering \subseteq Creating
      BY DEF Entering, Creating
    <3> QED
      BY <2>1, <2>3, <2>4, <3>1 DEF Entered
  <2> HIDE DEF c
  <2>7. /\ c = 3 => fat[c] = 4
        /\ c # 3 => fat[c] = EOF
        /\ EOF # 4
    BY <2>1, <2>4, <2>6, FatAssumption DEF DiskTypes, Fats, EOF
  <2>8. /\ Len(Chain(c)) = IF c = 3 THEN 2 ELSE 1
        /\ \A k \in 1..Len(Chain(c)) : Chain(c)[k] \in Clusters /\ PartOf(Chain(c)[k], c)
    BY <2>1, <2>4, <2>7, ChainClusters DEF PartOf
  <2>9. \A k \in 1..Len(Chain(c)) : \A s \in 1..SPC :
           disk[Chain(c)[k]][s] \in {Zero, Data(t.path)}
    BY <2>3, <2>4, <2>5, <2>8 DEF Own
  <2>10. Room(c) = Len(Chain(c)) * ClusterSize
    BY <2>8 DEF Room, ClusterSize, SPC, SECTOR
  <2>11. t.entry.size <= Len(Chain(c)) * ClusterSize
    BY <2>4, <2>5, <2>10 DEF Own
  <2> QED
    BY <2>9, <2>11 DEF c
<1> QED
  BY <1>1, FatInvariance, PTL

=============================================================================
