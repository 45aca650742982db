---------------------------- MODULE MemoryProofs ----------------------------
(***************************************************************************)
(* Proofs about Memory, for any number of processes, frames, pages of a    *)
(* table and names of shared memory.                                       *)
(*                                                                         *)
(* The argument follows the entries of the page tables.  Sound says that a *)
(* frame is available, or a table, or what one entry maps, or shared       *)
(* memory; each operation of MemoryManager keeps that.  The one exception  *)
(* is the entry that deallocate has already made available and not yet     *)
(* cleared: there is one at a time, because of big_buffer_lock, and while  *)
(* nobody else uses the temporary mapping nobody takes its frame.          *)
(***************************************************************************)
EXTENDS Memory, FiniteSetTheorems, WellFoundedInduction, TLAPS

Fields == {"avail", "dir", "target", "used", "pde", "pt", "fault"}

Typed(m) ==
    /\ DOMAIN m = Fields
    /\ m.avail \subseteq Frames
    /\ m.dir \in Pids
    /\ m.target \in 0..NumFrames
    /\ m.used \in BOOLEAN
    /\ m.pde \in [Pids -> [Areas -> 0..NumFrames]]
    /\ m.pt \in [Frames -> [Slots -> 0..NumFrames]]

\* The frame that page i of area a has in directory p, or 0.
Entry(pde, pt, p, a, i) == IF pde[p][a] = 0 THEN 0 ELSE pt[pde[p][a]][i]

\* A table is not available, and serves one area of one directory, or the
\* same shared area of several.
TablesOnce(avail, pde) ==
    \A p \in Pids, a \in Areas : pde[p][a] # 0 =>
        /\ pde[p][a] \notin avail
        /\ \A q \in Pids, b \in Areas :
              pde[p][a] = pde[q][b] => a = b /\ (p = q \/ a \in Shared)

\* The entry of page i of area a is not one of H, the pages of the buffer
\* area that are being freed.
Settled(a, i, H) == a # "buffer" \/ i \notin H

\* What a settled entry maps is not available, is no table, and no other
\* settled entry maps it unless both are shared memory.
EntriesOnce(avail, pde, pt, H) ==
    \A p \in Pids, a \in Areas, i \in Slots :
        Entry(pde, pt, p, a, i) # 0 /\ Settled(a, i, H) =>
            /\ Entry(pde, pt, p, a, i) \notin avail
            /\ \A q \in Pids, b \in Areas : Entry(pde, pt, p, a, i) # pde[q][b]
            /\ \A q \in Pids, b \in Areas, j \in Slots :
                  Entry(pde, pt, p, a, i) = Entry(pde, pt, q, b, j) /\ Settled(b, j, H)
                  => \/ a = b /\ i = j /\ pde[p][a] = pde[q][b]
                     \/ a = "shm" /\ b = "shm"

Tidy(avail, pde, pt, H) == TablesOnce(avail, pde) /\ EntriesOnce(avail, pde, pt, H)

Sound(m, H) == Typed(m) /\ Tidy(m.avail, m.pde, m.pt, H)

\* Frame f may be mapped by a page of area a.
MayMap(avail, pde, pt, f, a, H) ==
    /\ f \in Frames
    /\ f \notin avail
    /\ \A q \in Pids, b \in Areas : f # pde[q][b]
    /\ \A q \in Pids, b \in Areas, j \in Slots :
          Entry(pde, pt, q, b, j) = f /\ Settled(b, j, H) => a = "shm" /\ b = "shm"

\* From m to g no table is lost; area a of the directory in use may get one.
TablesKept(m, g, a) ==
    /\ g.dir = m.dir
    /\ \A q \in Pids, b \in Areas :
          m.pde[q][b] # 0 \/ q # m.dir \/ b # a => g.pde[q][b] = m.pde[q][b]

\* From m to g the one change of the entries is page i of area a.
PageMapped(m, g, a, i) ==
    /\ g.fault = ""
    /\ g.target = 0
    /\ g.used = FALSE
    /\ g.pde[m.dir][a] # 0
    /\ \E f \in Frames : \A q \in Pids, b \in Areas, j \in Slots :
          Entry(g.pde, g.pt, q, b, j) =
              IF b = a /\ j = i /\ g.pde[q][b] = g.pde[m.dir][a]
              THEN f ELSE Entry(m.pde, m.pt, q, b, j)

\* From pde and pt to pde2 and pt2 directory d gets table t for area a.
TableAdded(pde, pt, pde2, pt2, d, a, t) ==
    /\ \A q \in Pids, b \in Areas : pde2[q][b] = IF q = d /\ b = a THEN t ELSE pde[q][b]
    /\ \A u \in Frames, j \in Slots : pt2[u][j] = IF u = t THEN 0 ELSE pt[u][j]

\* From pt to pt2 entry i of table t becomes f.
EntrySet(pt, pt2, t, i, f) ==
    \A u \in Frames, j \in Slots : pt2[u][j] = IF u = t /\ j = i THEN f ELSE pt[u][j]

\* From pde to pde2 directory child gets the kernel's tables of directory d.
DirectoryAdded(pde, pde2, d, child) ==
    \A q \in Pids, b \in Areas :
        pde2[q][b] = IF q # child THEN pde[q][b]
                     ELSE IF b \in Shared THEN pde[d][b] ELSE 0

\* Nothing but the avail and fault of m is different in g.
SameMappings(m, g) ==
    /\ DOMAIN g = Fields
    /\ g.pde = m.pde /\ g.pt = m.pt
    /\ g.dir = m.dir /\ g.target = m.target /\ g.used = m.used

\* What get_free_frame makes of m, with f its result.
FrameTaken(m, g, f, H) ==
    /\ Sound(g, H)
    /\ SameMappings(m, g)
    /\ \/ g.fault = "no frame" /\ g.avail = m.avail
       \/ /\ g.fault = ""
          /\ f \in m.avail
          /\ g.avail = m.avail \ {f}
          /\ \A a : MayMap(g.avail, g.pde, g.pt, f, a, H)

\* What ensure_pde makes of m.
TableThere(m, g, a, H) ==
    /\ Sound(g, H)
    /\ TablesKept(m, g, a)
    /\ g.target = m.target /\ g.used = m.used
    /\ g.fault \in {"", "no frame"}
    /\ g.fault = "" => g.pde[m.dir][a] # 0
    /\ \A q \in Pids, b \in Areas, j \in Slots :
          Entry(g.pde, g.pt, q, b, j) = Entry(m.pde, m.pt, q, b, j)
    /\ \A f, c : MayMap(m.avail, m.pde, m.pt, f, c, H) => MayMap(g.avail, g.pde, g.pt, f, c, H)

\* What temp_map makes of m.
TempMapped(m, g, t, H) ==
    /\ Sound(g, H)
    /\ g.avail = m.avail /\ g.pde = m.pde /\ g.pt = m.pt /\ g.dir = m.dir
    /\ \/ g.fault = "temp map in use" /\ m.used = TRUE
       \/ g.fault = "" /\ m.used = FALSE /\ g.target = t /\ g.used = TRUE

\* What ensure_pte makes of m.
TableMapped(m, g, a, H) ==
    /\ Sound(g, H)
    /\ TablesKept(m, g, a)
    /\ \A q \in Pids, b \in Areas, j \in Slots :
          Entry(g.pde, g.pt, q, b, j) = Entry(m.pde, m.pt, q, b, j)
    /\ \A f, c : MayMap(m.avail, m.pde, m.pt, f, c, H) => MayMap(g.avail, g.pde, g.pt, f, c, H)
    /\ \/ g.fault = "no frame"
       \/ g.fault = "temp map in use" /\ m.used = TRUE
       \/ g.fault = "" /\ g.target = g.pde[m.dir][a] /\ g.target # 0 /\ g.used = TRUE

\* Why a page was not mapped.
MapFails(m, g, a, i) ==
    \/ g.fault = "no frame"
    \/ g.fault = "temp map in use" /\ m.used = TRUE
    \/ g.fault = "taken" /\ Entry(m.pde, m.pt, m.dir, a, i) # 0

\* What map_page makes of m.
Mapped(m, g, a, i, H) ==
    /\ Sound(g, H)
    /\ TablesKept(m, g, a)
    /\ PageMapped(m, g, a, i) \/ MapFails(m, g, a, i)

\* What clone_page_directory makes of m.
Cloned(m, g, child, H) ==
    /\ Sound(g, H)
    /\ g.dir = m.dir /\ g.target = m.target /\ g.used = m.used
    /\ g.pt = m.pt
    /\ \/ g.fault = "temp map in use" /\ m.used = TRUE
       \/ /\ g.fault = ""
          /\ DirectoryAdded(m.pde, g.pde, m.dir, child)

\* What duplicate makes of m.
Duplicated(m, g, src, i, j, H) ==
    /\ Sound(g, H)
    /\ TablesKept(m, g, "shm")
    /\ \/ PageMapped(m, g, "shm", j)
       \/ MapFails(m, g, "shm", j)
       \/ g.fault \in {"no table", "not present"} /\ Entry(m.pde, m.pt, src, "shm", i) = 0

-----------------------------------------------------------------------------
(* Available frames, tables and entries *)

\* The constants are numbers.
LEMMA Numbers ==
    /\ MaxPid \in Nat /\ MaxDirs \in Nat /\ NumFrames \in Nat
    /\ PerTable \in Nat /\ BufPages \in Nat /\ MaxShm \in Nat
    /\ PerTable >= 1 /\ NumFrames > 4 /\ BufPages <= PerTable /\ MaxShm <= PerTable
    /\ 1 \in Pids /\ 1 \in Slots
BY MemoryAssumption DEF Pids, Slots

\* The lowest available frame is one of them.
LEMMA MinMember ==
    ASSUME NEW S, S \subseteq Nat, S # {}
    PROVE  Min(S) \in S
<1> DEFINE R == OpToRel(<, Nat)
<1>1. PICK m \in S : \A y \in S : ~(<<y, m>> \in R)
  <2> HIDE DEF R
  <2>1. IsWellFoundedOn(R, Nat)
    BY NatLessThanWellFounded DEF R
  <2> QED
    BY <2>1, WFMin
<1>2. \A y \in S : m <= y
  <2> SUFFICES ASSUME NEW y \in S PROVE m <= y
    OBVIOUS
  <2>1. ~(y < m)
    <3> SUFFICES ASSUME y < m PROVE FALSE
      OBVIOUS
    <3>1. <<y, m>> \in Nat \X Nat /\ <<y, m>>[1] < <<y, m>>[2]
      OBVIOUS
    <3>2. <<y, m>> \in R
      BY <3>1 DEF OpToRel
    <3> QED
      BY <1>1, <3>2
  <2> QED
    BY <2>1
<1> QED
  BY <1>1, <1>2 DEF Min

\* A frame that is taken out of the bitmap may be mapped.
LEMMA TidyTake ==
    ASSUME NEW avail, avail \subseteq Frames, NEW pde, NEW pt, NEW H,
           Tidy(avail, pde, pt, H), NEW f \in avail
    PROVE  /\ Tidy(avail \ {f}, pde, pt, H)
           /\ \A a : MayMap(avail \ {f}, pde, pt, f, a, H)
<1>1. TablesOnce(avail \ {f}, pde)
  BY DEF Tidy, TablesOnce
<1>2. EntriesOnce(avail \ {f}, pde, pt, H)
  BY DEF Tidy, EntriesOnce
<1>3. f \in Frames /\ f # 0
  BY DEF Frames
<1>4. \A q \in Pids, b \in Areas : f # pde[q][b]
  BY <1>3 DEF Tidy, TablesOnce
<1>5. \A q \in Pids, b \in Areas, j \in Slots : Entry(pde, pt, q, b, j) = f => ~Settled(b, j, H)
  BY <1>3 DEF Tidy, EntriesOnce
<1> QED
  BY <1>1, <1>2, <1>3, <1>4, <1>5 DEF Tidy, MayMap

\* A table with no entries is added to directory d.
LEMMA TidyTable ==
    ASSUME NEW avail, avail \subseteq Frames, NEW t \in avail, NEW H,
           NEW pde \in [Pids -> [Areas -> 0..NumFrames]],
           NEW pt \in [Frames -> [Slots -> 0..NumFrames]],
           Tidy(avail, pde, pt, H),
           NEW d \in Pids, NEW a \in Areas, pde[d][a] = 0,
           NEW pde2, NEW pt2,
           TableAdded(pde, pt, pde2, pt2, d, a, t)
    PROVE  /\ \A q \in Pids, b \in Areas, j \in Slots :
                 Entry(pde2, pt2, q, b, j) = Entry(pde, pt, q, b, j)
           /\ Tidy(avail \ {t}, pde2, pt2, H)
           /\ \A f, c : MayMap(avail, pde, pt, f, c, H) => MayMap(avail \ {t}, pde2, pt2, f, c, H)
<1> USE DEF TableAdded
<1>1. t \in Frames /\ t # 0
  <2>1. t \in Frames
    OBVIOUS
  <2> QED
    BY ONLY <2>1 DEF Frames
<1>2. \A q \in Pids, b \in Areas : pde[q][b] # t
  BY <1>1 DEF Tidy, TablesOnce
<1>3. \A q \in Pids, b \in Areas, j \in Slots :
         Entry(pde2, pt2, q, b, j) = Entry(pde, pt, q, b, j)
  <2> SUFFICES ASSUME NEW q \in Pids, NEW b \in Areas, NEW j \in Slots
               PROVE  Entry(pde2, pt2, q, b, j) = Entry(pde, pt, q, b, j)
    OBVIOUS
  <2>1. CASE q = d /\ b = a
    BY <1>1, <2>1 DEF Entry
  <2>2. CASE ~(q = d /\ b = a)
    <3>1. pde2[q][b] = pde[q][b] /\ pde[q][b] # t /\ pde[q][b] \in 0..NumFrames
      BY <1>2, <2>2
    <3>2. pde[q][b] # 0 => pde[q][b] \in Frames
      BY <3>1, Numbers DEF Frames
    <3> QED
      BY <3>1, <3>2 DEF Entry
  <2> QED
    BY <2>1, <2>2
<1>4. TablesOnce(avail \ {t}, pde2)
  BY <1>1, <1>2 DEF Tidy, TablesOnce
<1>5. ASSUME NEW q \in Pids, NEW b \in Areas, NEW j \in Slots,
             Entry(pde, pt, q, b, j) # 0, Settled(b, j, H)
      PROVE  Entry(pde, pt, q, b, j) # t
  BY <1>5 DEF Tidy, EntriesOnce
<1>6. EntriesOnce(avail \ {t}, pde2, pt2, H)
  <2> SUFFICES ASSUME NEW p \in Pids, NEW b \in Areas, NEW i \in Slots,
                      Entry(pde, pt, p, b, i) # 0, Settled(b, i, H)
               PROVE  /\ Entry(pde, pt, p, b, i) \notin avail \ {t}
                      /\ \A q \in Pids, c \in Areas : Entry(pde, pt, p, b, i) # pde2[q][c]
                      /\ \A q \in Pids, c \in Areas, j \in Slots :
                            Entry(pde, pt, p, b, i) = Entry(pde, pt, q, c, j) /\ Settled(c, j, H)
                            => \/ b = c /\ i = j /\ pde2[p][b] = pde2[q][c]
                               \/ b = "shm" /\ c = "shm"
    BY <1>3 DEF EntriesOnce
  <2>1. /\ Entry(pde, pt, p, b, i) \notin avail
        /\ \A q \in Pids, c \in Areas : Entry(pde, pt, p, b, i) # pde[q][c]
        /\ \A q \in Pids, c \in Areas, j \in Slots :
              Entry(pde, pt, p, b, i) = Entry(pde, pt, q, c, j) /\ Settled(c, j, H)
              => \/ b = c /\ i = j /\ pde[p][b] = pde[q][c]
                 \/ b = "shm" /\ c = "shm"
    BY DEF Tidy, EntriesOnce
  <2>2. \A q \in Pids, c \in Areas, j \in Slots : Entry(pde, pt, q, c, j) # 0 => pde[q][c] # 0
    BY DEF Entry
  <2>3. \A q \in Pids, c \in Areas : pde[q][c] # 0 => pde2[q][c] = pde[q][c]
    OBVIOUS
  <2>4. Entry(pde, pt, p, b, i) # t
    BY <1>5
  <2> QED
    BY <2>1, <2>2, <2>3, <2>4
<1>7. ASSUME NEW f, NEW c, MayMap(avail, pde, pt, f, c, H)
      PROVE  MayMap(avail \ {t}, pde2, pt2, f, c, H)
  <2>1. f # t
    BY <1>7 DEF MayMap
  <2>2. \A q \in Pids, b \in Areas : f # pde2[q][b]
    BY <1>7, <2>1 DEF MayMap
  <2> QED
    BY <1>3, <1>7, <2>2 DEF MayMap
<1> QED
  BY <1>3, <1>4, <1>6, <1>7 DEF Tidy

\* Page i of area a of directory d maps f from now on.
LEMMA TidyPage ==
    ASSUME NEW avail, avail \subseteq Frames, NEW f, NEW H,
           NEW pde \in [Pids -> [Areas -> 0..NumFrames]],
           NEW pt \in [Frames -> [Slots -> 0..NumFrames]],
           Tidy(avail, pde, pt, H),
           NEW d \in Pids, NEW a \in Areas, pde[d][a] # 0, NEW i \in Slots,
           MayMap(avail, pde, pt, f, a, H),
           NEW pt2,
           EntrySet(pt, pt2, pde[d][a], i, f)
    PROVE  /\ \A q \in Pids, b \in Areas, j \in Slots :
                 Entry(pde, pt2, q, b, j) = IF b = a /\ j = i /\ pde[q][b] = pde[d][a]
                                            THEN f ELSE Entry(pde, pt, q, b, j)
           /\ Tidy(avail, pde, pt2, H)
<1> USE DEF EntrySet
<1>1. \A q \in Pids, b \in Areas : pde[q][b] = pde[d][a] => b = a
  BY DEF Tidy, TablesOnce
<1>2. \A q \in Pids, b \in Areas : pde[q][b] # 0 => pde[q][b] \in Frames
  <2> SUFFICES ASSUME NEW q \in Pids, NEW b \in Areas, pde[q][b] # 0 PROVE pde[q][b] \in Frames
    OBVIOUS
  <2>1. pde[q][b] \in 0..NumFrames
    OBVIOUS
  <2> QED
    BY <2>1, Numbers DEF Frames
<1>3. \A q \in Pids, b \in Areas, j \in Slots :
          Entry(pde, pt2, q, b, j) = IF b = a /\ j = i /\ pde[q][b] = pde[d][a]
                                     THEN f ELSE Entry(pde, pt, q, b, j)
  BY <1>1, <1>2 DEF Entry
<1>4. EntriesOnce(avail, pde, pt2, H)
  <2> SUFFICES ASSUME NEW p \in Pids, NEW b \in Areas, NEW k \in Slots,
                      Entry(pde, pt2, p, b, k) # 0, Settled(b, k, H)
               PROVE  /\ Entry(pde, pt2, p, b, k) \notin avail
                      /\ \A q \in Pids, c \in Areas : Entry(pde, pt2, p, b, k) # pde[q][c]
                      /\ \A q \in Pids, c \in Areas, j \in Slots :
                            Entry(pde, pt2, p, b, k) = Entry(pde, pt2, q, c, j) /\ Settled(c, j, H)
                            => \/ b = c /\ k = j /\ pde[p][b] = pde[q][c]
                               \/ b = "shm" /\ c = "shm"
    BY DEF EntriesOnce
  <2>1. CASE b = a /\ k = i /\ pde[p][b] = pde[d][a]
    <3>1. Entry(pde, pt2, p, b, k) = f
      BY <1>3, <2>1
    <3>2. ASSUME NEW q \in Pids, NEW c \in Areas, NEW j \in Slots,
                 f = Entry(pde, pt2, q, c, j), Settled(c, j, H)
          PROVE  \/ b = c /\ k = j /\ pde[p][b] = pde[q][c]
                 \/ b = "shm" /\ c = "shm"
      <4>1. CASE c = a /\ j = i /\ pde[q][c] = pde[d][a]
        BY <2>1, <4>1
      <4>2. CASE ~(c = a /\ j = i /\ pde[q][c] = pde[d][a])
        BY <1>3, <2>1, <3>2, <4>2 DEF MayMap
      <4> QED
        BY <4>1, <4>2
    <3> QED
      BY <3>1, <3>2 DEF MayMap
  <2>2. CASE ~(b = a /\ k = i /\ pde[p][b] = pde[d][a])
    <3>1. Entry(pde, pt2, p, b, k) = Entry(pde, pt, p, b, k)
      BY <1>3, <2>2
    <3>2. /\ Entry(pde, pt, p, b, k) \notin avail
          /\ \A q \in Pids, c \in Areas : Entry(pde, pt, p, b, k) # pde[q][c]
          /\ \A q \in Pids, c \in Areas, j \in Slots :
                Entry(pde, pt, p, b, k) = Entry(pde, pt, q, c, j) /\ Settled(c, j, H)
                => \/ b = c /\ k = j /\ pde[p][b] = pde[q][c]
                   \/ b = "shm" /\ c = "shm"
      BY <3>1 DEF Tidy, EntriesOnce
    <3>3. ASSUME NEW q \in Pids, NEW c \in Areas, NEW j \in Slots,
                 Entry(pde, pt, p, b, k) = Entry(pde, pt2, q, c, j), Settled(c, j, H)
          PROVE  \/ b = c /\ k = j /\ pde[p][b] = pde[q][c]
                 \/ b = "shm" /\ c = "shm"
      <4>1. CASE c = a /\ j = i /\ pde[q][c] = pde[d][a]
        <5>1. Entry(pde, pt, p, b, k) = f
          BY <1>3, <3>3, <4>1
        <5> QED
          BY <4>1, <5>1 DEF MayMap
      <4>2. CASE ~(c = a /\ j = i /\ pde[q][c] = pde[d][a])
        BY <1>3, <3>2, <3>3, <4>2
      <4> QED
        BY <4>1, <4>2
    <3> QED
      BY <3>1, <3>2, <3>3
  <2> QED
    BY <2>1, <2>2
<1> QED
  BY <1>3, <1>4 DEF Tidy

-----------------------------------------------------------------------------
(* The operations of MemoryManager *)

\* What Sound says does not depend on the temporary mapping, the directory in
\* use and the fault.
LEMMA SoundSame ==
    ASSUME NEW m, NEW g, NEW H, Sound(m, H),
           g.avail = m.avail, g.pde = m.pde, g.pt = m.pt,
           DOMAIN g = Fields, g.dir \in Pids, g.target \in 0..NumFrames, g.used \in BOOLEAN
    PROVE  Sound(g, H)
BY DEF Sound, Typed

\* A fault changes nothing else.
LEMMA FaultFields ==
    ASSUME NEW m, NEW H, Sound(m, H), NEW why
    PROVE  /\ Sound(Fault(m, why), H)
           /\ SameMappings(m, Fault(m, why))
           /\ Fault(m, why).avail = m.avail
           /\ Fault(m, why).fault = why
<1>1. PICK g : g = Fault(m, why)
  OBVIOUS
<1>2. /\ g.fault = why /\ DOMAIN g = Fields
      /\ g.avail = m.avail /\ g.pde = m.pde /\ g.pt = m.pt
      /\ g.dir = m.dir /\ g.target = m.target /\ g.used = m.used
  BY <1>1 DEF Fault, Sound, Typed, Fields
<1>3. Sound(g, H)
  BY <1>2 DEF Sound, Typed
<1> QED
  BY <1>1, <1>2, <1>3 DEF SameMappings

\* Frames are numbered from 1.
LEMMA FrameNumber == \A f : f \in Frames <=> f \in 0..NumFrames /\ f # 0
BY ONLY Numbers DEF Frames

\* One value of a function of functions changes.
LEMMA Nested ==
    ASSUME NEW S, NEW T, NEW V, NEW f \in [S -> [T -> V]], NEW x \in S, NEW y \in T, NEW v \in V
    PROVE  /\ [f EXCEPT ![x][y] = v] \in [S -> [T -> V]]
           /\ \A u \in S, w \in T :
                 [f EXCEPT ![x][y] = v][u][w] = IF u = x /\ w = y THEN v ELSE f[u][w]
OBVIOUS

\* get_free_frame takes a frame that no entry maps.
LEMMA GetFreeFrame ==
    ASSUME NEW m, NEW H, Sound(m, H), m.fault = ""
    PROVE  FrameTaken(m, get_free_frame(m), Lowest(m), H)
<1>1. PICK g, f : g = get_free_frame(m) /\ f = Lowest(m)
  OBVIOUS
<1>2. Typed(m)
  BY DEF Sound
<1>3. CASE m.avail = {}
  <2>1. g = Fault(m, "no frame")
    BY <1>1, <1>3 DEF get_free_frame
  <2>2. Sound(g, H) /\ SameMappings(m, g) /\ g.avail = m.avail /\ g.fault = "no frame"
    BY <2>1, FaultFields
  <2> QED
    BY <1>1, <2>2 DEF FrameTaken
<1>4. CASE m.avail # {}
  <2>1. f \in m.avail
    <3>1. m.avail \subseteq Frames
      BY <1>2 DEF Typed
    <3>2. m.avail \subseteq Nat
      BY ONLY <3>1 DEF Frames
    <3> QED
      BY <1>1, <1>4, <3>2, MinMember DEF Lowest
  <2>2. g = [m EXCEPT !.avail = @ \ {f}]
    BY <1>1, <1>4 DEF get_free_frame, set_frame_used
  <2>3. /\ g.avail = m.avail \ {f} /\ g.dir = m.dir /\ g.target = m.target /\ g.used = m.used
        /\ g.pde = m.pde /\ g.pt = m.pt /\ g.fault = "" /\ DOMAIN g = Fields
    BY <1>2, <2>2 DEF Typed, Fields
  <2>4. Typed(g)
    BY <1>2, <2>3 DEF Typed
  <2>5. m.avail \subseteq Frames /\ Tidy(m.avail, m.pde, m.pt, H)
    BY DEF Sound, Typed
  <2>6. /\ Tidy(g.avail, g.pde, g.pt, H)
        /\ \A a : MayMap(g.avail, g.pde, g.pt, f, a, H)
    <3>1. /\ Tidy(m.avail \ {f}, m.pde, m.pt, H)
          /\ \A a : MayMap(m.avail \ {f}, m.pde, m.pt, f, a, H)
      BY ONLY <2>1, <2>5, TidyTake
    <3> QED
      BY ONLY <2>3, <3>1
  <2>7. Sound(g, H) /\ SameMappings(m, g)
    BY <2>3, <2>4, <2>6 DEF Sound, SameMappings
  <2> QED
    BY <1>1, <2>1, <2>3, <2>6, <2>7 DEF FrameTaken
<1> QED
  BY <1>3, <1>4

\* ensure_pde makes a table in the directory in use when there is none.
LEMMA EnsurePde ==
    ASSUME NEW m, NEW H, Sound(m, H), m.fault = "", NEW a \in Areas
    PROVE  TableThere(m, ensure_pde(m, a), a, H)
<1>1. PICK g : g = ensure_pde(m, a)
  OBVIOUS
<1>2. Typed(m) /\ m.dir \in Pids
  BY DEF Sound, Typed
<1>3. CASE m.pde[m.dir][a] # 0
  <2>1. g = m
    BY <1>1, <1>3 DEF ensure_pde, get_pde
  <2>2. TableThere(m, m, a, H)
    BY <1>3 DEF TablesKept, TableThere
  <2> QED
    BY <1>1, <2>1, <2>2
<1>4. CASE m.pde[m.dir][a] = 0
  <2>1. PICK t, h : t = Lowest(m) /\ h = get_free_frame(m)
    OBVIOUS
  <2>2. FrameTaken(m, h, t, H)
    BY <2>1, GetFreeFrame
  <2>3. /\ Sound(h, H)
        /\ h.dir = m.dir /\ h.target = m.target /\ h.used = m.used
        /\ h.pde = m.pde /\ h.pt = m.pt
        /\ \/ h.fault = "no frame" /\ h.avail = m.avail
           \/ h.fault = "" /\ t \in m.avail /\ h.avail = m.avail \ {t}
    BY <2>2 DEF FrameTaken, SameMappings
  <2>4. g = IF h.fault = "" THEN [h EXCEPT !.pde[m.dir][a] = t, !.pt[t] = Empty] ELSE h
    BY <1>1, <1>4, <2>1 DEF ensure_pde, get_pde, Then
  <2>5. CASE h.fault = "no frame"
    <3>1. g = h /\ h.avail = m.avail
      BY <2>3, <2>4, <2>5
    <3>2. TablesKept(m, h, a)
      BY <2>3 DEF TablesKept
    <3>3. TableThere(m, h, a, H)
      BY <2>3, <2>5, <3>1, <3>2 DEF TableThere
    <3> QED
      BY <1>1, <3>1, <3>3
  <2>6. CASE h.fault = ""
    <3>1. Typed(h) /\ t \in m.avail /\ h.avail = m.avail \ {t}
      BY <2>3, <2>6 DEF Sound
    <3>2. t \in Frames
      BY <1>2, <3>1 DEF Typed
    <3>3. g = [h EXCEPT !.pde[m.dir][a] = t, !.pt[t] = Empty]
      BY <2>4, <2>6
    <3>4. /\ DOMAIN g = Fields /\ g.avail = h.avail /\ g.dir = h.dir /\ g.target = h.target
          /\ g.used = h.used /\ g.fault = ""
      BY <2>6, <3>1, <3>3 DEF Typed, Fields
    <3>5. /\ g.pde = [m.pde EXCEPT ![m.dir][a] = t]
          /\ g.pt = [m.pt EXCEPT ![t] = Empty]
      BY <2>3, <3>1, <3>3 DEF Typed, Fields
    <3>6. /\ m.pde \in [Pids -> [Areas -> 0..NumFrames]]
          /\ m.pt \in [Frames -> [Slots -> 0..NumFrames]]
          /\ m.avail \subseteq Frames
      BY <1>2 DEF Typed
    <3>7. t \in 0..NumFrames /\ t # 0
      BY <3>2, FrameNumber
    <3>8. /\ g.pde \in [Pids -> [Areas -> 0..NumFrames]]
          /\ \A q \in Pids, b \in Areas :
                g.pde[q][b] = IF q = m.dir /\ b = a THEN t ELSE m.pde[q][b]
      BY ONLY <1>2, <3>5, <3>6, <3>7, a \in Areas, Nested
    <3>9. /\ g.pt \in [Frames -> [Slots -> 0..NumFrames]]
          /\ \A u \in Frames, j \in Slots : g.pt[u][j] = IF u = t THEN 0 ELSE m.pt[u][j]
      <4>1. 0 \in 0..NumFrames
        BY ONLY Numbers
      <4>2. Empty \in [Slots -> 0..NumFrames] /\ \A j \in Slots : Empty[j] = 0
        BY ONLY <4>1 DEF Empty
      <4> QED
        BY ONLY <3>2, <3>5, <3>6, <4>2
    <3>10. Typed(g)
      BY <2>3, <3>1, <3>4, <3>8, <3>9 DEF Typed
    <3>11. TableAdded(m.pde, m.pt, g.pde, g.pt, m.dir, a, t)
      BY <3>8, <3>9 DEF TableAdded
    <3>12. Tidy(m.avail, m.pde, m.pt, H)
      BY DEF Sound
    <3>13. /\ \A q \in Pids, b \in Areas, j \in Slots :
                 Entry(g.pde, g.pt, q, b, j) = Entry(m.pde, m.pt, q, b, j)
           /\ Tidy(g.avail, g.pde, g.pt, H)
           /\ \A f, c : MayMap(m.avail, m.pde, m.pt, f, c, H) => MayMap(g.avail, g.pde, g.pt, f, c, H)
      <4>1. g.avail = m.avail \ {t}
        BY <3>1, <3>4
      <4>2. /\ \A q \in Pids, b \in Areas, j \in Slots :
                 Entry(g.pde, g.pt, q, b, j) = Entry(m.pde, m.pt, q, b, j)
            /\ Tidy(m.avail \ {t}, g.pde, g.pt, H)
            /\ \A f, c : MayMap(m.avail, m.pde, m.pt, f, c, H)
                            => MayMap(m.avail \ {t}, g.pde, g.pt, f, c, H)
        BY ONLY <1>2, <1>4, <3>1, <3>6, <3>11, <3>12, a \in Areas, TidyTable
      <4> QED
        BY ONLY <4>1, <4>2
    <3>14. TablesKept(m, g, a) /\ g.pde[m.dir][a] # 0
      BY <1>2, <1>4, <2>3, <3>4, <3>7, <3>8 DEF TablesKept
    <3>15. Sound(g, H)
      BY <3>10, <3>13 DEF Sound
    <3> QED
      BY <1>1, <2>3, <3>4, <3>13, <3>14, <3>15 DEF TableThere
  <2> QED
    BY <2>3, <2>5, <2>6
<1> QED
  BY <1>3, <1>4

\* temp_map only changes what TEMPMAP_ADDR maps.
LEMMA TempMap ==
    ASSUME NEW m, NEW H, Sound(m, H), m.fault = "", NEW t \in 0..NumFrames
    PROVE  TempMapped(m, temp_map(m, t), t, H)
<1>1. PICK g, h : g = temp_map(m, t) /\ h = TempTarget(m, t)
  OBVIOUS
<1>2. Typed(m) /\ m.used \in BOOLEAN
  BY DEF Sound, Typed
<1>3. g = IF h.fault = "" THEN [h EXCEPT !.used = TRUE] ELSE h
  BY <1>1 DEF temp_map, Then, TempUsed
<1>4. CASE m.used = TRUE
  <2>1. h = Fault(m, "temp map in use")
    BY <1>1, <1>4 DEF TempTarget
  <2>2. Sound(h, H) /\ SameMappings(m, h) /\ h.avail = m.avail /\ h.fault = "temp map in use"
    BY <2>1, FaultFields
  <2>3. g = h
    BY <1>3, <2>2
  <2> QED
    BY <1>1, <1>4, <2>2, <2>3 DEF TempMapped, SameMappings
<1>5. CASE m.used = FALSE
  <2>1. h = [m EXCEPT !.target = t]
    BY <1>1, <1>5 DEF TempTarget
  <2>2. /\ DOMAIN h = Fields /\ h.avail = m.avail /\ h.pde = m.pde /\ h.pt = m.pt /\ h.dir = m.dir
        /\ h.target = t /\ h.fault = ""
    BY <1>2, <2>1 DEF Typed, Fields
  <2>3. g = [h EXCEPT !.used = TRUE]
    BY <1>3, <2>2
  <2>4. /\ DOMAIN g = Fields /\ g.avail = m.avail /\ g.pde = m.pde /\ g.pt = m.pt /\ g.dir = m.dir
        /\ g.target = t /\ g.fault = "" /\ g.used = TRUE
    BY <2>2, <2>3 DEF Fields
  <2>5. Sound(g, H)
    BY <1>2, <2>4 DEF Sound, Typed
  <2> QED
    BY <1>1, <1>5, <2>4, <2>5 DEF TempMapped
<1> QED
  BY <1>2, <1>4, <1>5

\* ensure_pte leaves the table it made or found at TEMPMAP_ADDR.
LEMMA EnsurePte ==
    ASSUME NEW m, NEW H, Sound(m, H), m.fault = "", NEW a \in Areas
    PROVE  TableMapped(m, ensure_pte(m, a), a, H)
<1>1. PICK g, h : g = ensure_pte(m, a) /\ h = ensure_pde(m, a)
  OBVIOUS
<1>2. TableThere(m, h, a, H)
  BY <1>1, EnsurePde
<1>3. g = IF h.fault = "" THEN temp_map(h, h.pde[h.dir][a]) ELSE h
  BY <1>1 DEF ensure_pte, get_pde, Then
<1>4. CASE h.fault # ""
  <2>1. h.fault = "no frame" /\ g = h
    BY <1>2, <1>3, <1>4 DEF TableThere
  <2>2. TableMapped(m, h, a, H)
    BY <1>2, <2>1 DEF TableThere, TableMapped
  <2> QED
    BY <1>1, <2>1, <2>2
<1>5. CASE h.fault = ""
  <2>1. PICK t : t = h.pde[m.dir][a]
    OBVIOUS
  <2>2. t \in 0..NumFrames /\ t # 0 /\ h.dir = m.dir
    <3>1. h.dir = m.dir /\ t # 0 /\ Typed(h)
      BY <1>2, <1>5, <2>1 DEF TableThere, TablesKept, Sound
    <3>2. h.pde \in [Pids -> [Areas -> 0..NumFrames]] /\ h.dir \in Pids
      BY <3>1 DEF Typed
    <3> QED
      BY ONLY <2>1, <3>1, <3>2, a \in Areas
  <2>3. g = temp_map(h, t)
    BY <1>3, <1>5, <2>1, <2>2
  <2>4. TempMapped(h, g, t, H)
    <3>1. Sound(h, H)
      BY <1>2 DEF TableThere
    <3>2. TempMapped(h, temp_map(h, t), t, H)
      BY ONLY <3>1, <1>5, <2>2, TempMap
    <3> QED
      BY <2>3, <3>2
  <2>5. /\ Sound(g, H)
        /\ g.avail = h.avail /\ g.pde = h.pde /\ g.pt = h.pt /\ g.dir = h.dir
        /\ \/ g.fault = "temp map in use" /\ h.used = TRUE
           \/ g.fault = "" /\ g.target = t /\ g.used = TRUE
    BY <2>4 DEF TempMapped
  <2>6. TablesKept(m, g, a)
    BY <1>2, <2>5 DEF TableThere, TablesKept
  <2>7. /\ h.used = m.used
        /\ \A q \in Pids, b \in Areas, j \in Slots :
              Entry(g.pde, g.pt, q, b, j) = Entry(m.pde, m.pt, q, b, j)
        /\ \A f, c : MayMap(m.avail, m.pde, m.pt, f, c, H) => MayMap(g.avail, g.pde, g.pt, f, c, H)
    BY <1>2, <2>5 DEF TableThere
  <2> QED
    BY <1>1, <2>1, <2>2, <2>5, <2>6, <2>7 DEF TableMapped
<1> QED
  BY <1>4, <1>5

\* map_page changes one entry, or stops the machine.
LEMMA MapPage ==
    ASSUME NEW m, NEW H, Sound(m, H), m.fault = "", NEW a \in Areas, NEW i \in Slots, NEW f,
           MayMap(m.avail, m.pde, m.pt, f, a, H)
    PROVE  Mapped(m, map_page(m, a, i, f), a, i, H)
<1>1. PICK g, h : g = map_page(m, a, i, f) /\ h = ensure_pte(m, a)
  OBVIOUS
<1>2. TableMapped(m, h, a, H)
  BY <1>1, EnsurePte
<1>3. g = IF h.fault # "" THEN h
          ELSE IF h.pt[h.target][i] # 0 THEN Fault(h, "taken")
          ELSE un_temp_map([h EXCEPT !.pt[h.target][i] = f])
  BY <1>1 DEF map_page, get_pte, Then
<1>4. Sound(h, H) /\ TablesKept(m, h, a) /\ Typed(h) /\ m.dir \in Pids
  BY <1>2 DEF TableMapped, Sound, Typed
<1>5. CASE h.fault # ""
  <2>1. MapFails(m, h, a, i)
    BY <1>2, <1>5 DEF TableMapped, MapFails
  <2> QED
    BY <1>1, <1>3, <1>4, <1>5, <2>1 DEF Mapped
<1>6. CASE h.fault = ""
  <2>1. /\ h.target = h.pde[m.dir][a] /\ h.target # 0
        /\ \A q \in Pids, b \in Areas, j \in Slots :
              Entry(h.pde, h.pt, q, b, j) = Entry(m.pde, m.pt, q, b, j)
        /\ MayMap(h.avail, h.pde, h.pt, f, a, H)
    BY <1>2, <1>6 DEF TableMapped
  <2>2. h.pt[h.target][i] = Entry(m.pde, m.pt, m.dir, a, i)
    <3>1. Entry(h.pde, h.pt, m.dir, a, i) = h.pt[h.target][i]
      BY <2>1 DEF Entry
    <3> QED
      BY <1>4, <2>1, <3>1
  <2>3. CASE h.pt[h.target][i] # 0
    <3>1. g = Fault(h, "taken")
      BY <1>3, <1>6, <2>3
    <3>2. Sound(g, H) /\ SameMappings(h, g) /\ g.fault = "taken"
      BY <1>4, <3>1, FaultFields
    <3>3. TablesKept(m, g, a)
      BY <1>4, <3>2 DEF TablesKept, SameMappings
    <3>4. MapFails(m, g, a, i)
      BY <2>2, <2>3, <3>2 DEF MapFails
    <3> QED
      BY <1>1, <3>2, <3>3, <3>4 DEF Mapped
  <2>4. CASE h.pt[h.target][i] = 0
    <3>1. PICK k : k = [h EXCEPT !.pt[h.target][i] = f]
      OBVIOUS
    <3>2. g = [k EXCEPT !.target = 0, !.used = FALSE]
      BY <1>3, <1>6, <2>4, <3>1 DEF un_temp_map
    <3>3. /\ DOMAIN k = Fields /\ k.pde = h.pde /\ k.avail = h.avail /\ k.dir = h.dir
          /\ k.fault = h.fault /\ k.pt = [h.pt EXCEPT ![h.target][i] = f]
      BY <1>4, <3>1 DEF Typed, Fields
    <3>4. /\ DOMAIN g = Fields /\ g.pde = h.pde /\ g.avail = h.avail /\ g.dir = h.dir
          /\ g.fault = h.fault /\ g.pt = [h.pt EXCEPT ![h.target][i] = f]
          /\ g.target = 0 /\ g.used = FALSE
      BY <3>2, <3>3 DEF Fields
    <3>5. /\ h.pde \in [Pids -> [Areas -> 0..NumFrames]]
          /\ h.pt \in [Frames -> [Slots -> 0..NumFrames]]
          /\ h.avail \subseteq Frames
          /\ h.dir \in Pids
      BY <1>4 DEF Typed
    <3>6. h.target \in Frames /\ f \in 0..NumFrames /\ f # 0 /\ f \in Frames
      <4>1. h.target \in 0..NumFrames /\ f \in Frames
        BY <1>4, <2>1 DEF Typed, MayMap
      <4>2. h.target \in Frames
        BY <4>1, <2>1, FrameNumber
      <4> QED
        BY <4>1, <4>2, FrameNumber
    <3>7. /\ g.pt \in [Frames -> [Slots -> 0..NumFrames]]
          /\ \A u \in Frames, j \in Slots : g.pt[u][j] = IF u = h.target /\ j = i THEN f ELSE h.pt[u][j]
      <4>1. g.pt = [h.pt EXCEPT ![h.target][i] = f]
        BY ONLY <3>4
      <4>2. h.pt \in [Frames -> [Slots -> 0..NumFrames]] /\ h.target \in Frames /\ f \in 0..NumFrames
        BY ONLY <3>5, <3>6
      <4> QED
        BY ONLY <4>1, <4>2, i \in Slots, Nested
    <3>8. EntrySet(h.pt, g.pt, h.pde[m.dir][a], i, f)
      BY <2>1, <3>7 DEF EntrySet
    <3>9. Tidy(h.avail, h.pde, h.pt, H) /\ h.pde[m.dir][a] # 0
      BY <1>4, <2>1 DEF Sound
    <3>10. /\ \A q \in Pids, b \in Areas, j \in Slots :
                 Entry(h.pde, g.pt, q, b, j) = IF b = a /\ j = i /\ h.pde[q][b] = h.pde[m.dir][a]
                                               THEN f ELSE Entry(h.pde, h.pt, q, b, j)
           /\ Tidy(h.avail, h.pde, g.pt, H)
      BY ONLY <1>4, <2>1, <3>5, <3>8, <3>9, a \in Areas, i \in Slots, TidyPage
    <3>11. Sound(g, H)
      <4>1. Typed(g)
        <5>1. 0 \in 0..NumFrames
          BY ONLY Numbers
        <5> QED
          BY ONLY <3>4, <3>5, <3>7, <5>1 DEF Typed
      <4>2. Tidy(g.avail, g.pde, g.pt, H)
        BY ONLY <3>4, <3>10
      <4> QED
        BY ONLY <4>1, <4>2 DEF Sound
    <3>12. TablesKept(m, g, a)
      BY <1>4, <3>4 DEF TablesKept
    <3>13. PageMapped(m, g, a, i)
      <4>1. \A q \in Pids, b \in Areas, j \in Slots :
               Entry(g.pde, g.pt, q, b, j) = IF b = a /\ j = i /\ g.pde[q][b] = g.pde[m.dir][a]
                                             THEN f ELSE Entry(m.pde, m.pt, q, b, j)
        BY ONLY <2>1, <3>4, <3>10
      <4>2. g.fault = "" /\ g.target = 0 /\ g.used = FALSE /\ g.pde[m.dir][a] # 0
        BY <1>6, <3>4, <3>9
      <4> QED
        BY ONLY <3>6, <4>1, <4>2 DEF PageMapped
    <3> QED
      BY <1>1, <3>11, <3>12, <3>13 DEF Mapped
  <2> QED
    BY <2>3, <2>4
<1> QED
  BY <1>5, <1>6

\* Mapped speaks of the tables of its first argument only, and of its use of
\* the temporary mapping.
LEMMA MappedFrom ==
    ASSUME NEW m, NEW k, NEW g, NEW a, NEW i, NEW H, Mapped(k, g, a, i, H),
           k.pde = m.pde, k.pt = m.pt, k.dir = m.dir, k.used = m.used \/ k.used = FALSE
    PROVE  Mapped(m, g, a, i, H)
<1>1. TablesKept(m, g, a)
  BY DEF Mapped, TablesKept
<1>2. ASSUME PageMapped(k, g, a, i) PROVE PageMapped(m, g, a, i)
  <2>1. PICK v \in Frames :
           \A q \in Pids, b \in Areas, j \in Slots :
              Entry(g.pde, g.pt, q, b, j) = IF b = a /\ j = i /\ g.pde[q][b] = g.pde[k.dir][a]
                                            THEN v ELSE Entry(k.pde, k.pt, q, b, j)
    BY ONLY <1>2 DEF PageMapped
  <2>2. \A q \in Pids, b \in Areas, j \in Slots :
              Entry(g.pde, g.pt, q, b, j) = IF b = a /\ j = i /\ g.pde[q][b] = g.pde[m.dir][a]
                                            THEN v ELSE Entry(m.pde, m.pt, q, b, j)
    BY <2>1
  <2>3. g.fault = "" /\ g.target = 0 /\ g.used = FALSE /\ g.pde[m.dir][a] # 0
    BY <1>2 DEF PageMapped
  <2> QED
    BY ONLY <2>2, <2>3 DEF PageMapped
<1>3. MapFails(k, g, a, i) => MapFails(m, g, a, i)
  BY DEF MapFails
<1> QED
  BY <1>1, <1>2, <1>3 DEF Mapped

\* allocate maps a frame that was available.
LEMMA AllocatePage ==
    ASSUME NEW m, NEW H, Sound(m, H), m.fault = "", NEW a \in Areas, NEW i \in Slots
    PROVE  Mapped(m, allocate(m, a, i), a, i, H)
<1>1. PICK g, h, f : g = allocate(m, a, i) /\ h = get_free_frame(m) /\ f = Lowest(m)
  OBVIOUS
<1>2. FrameTaken(m, h, f, H)
  BY <1>1, GetFreeFrame
<1>3. Sound(h, H) /\ h.pde = m.pde /\ h.pt = m.pt /\ h.dir = m.dir /\ h.used = m.used
  BY <1>2 DEF FrameTaken, SameMappings
<1>4. g = IF h.fault = "" THEN map_page(h, a, i, f) ELSE h
  BY <1>1 DEF allocate, Then
<1>5. CASE h.fault # ""
  <2>1. g = h /\ h.fault = "no frame"
    BY <1>2, <1>4, <1>5 DEF FrameTaken
  <2>2. TablesKept(m, h, a) /\ MapFails(m, h, a, i)
    BY <1>3, <2>1 DEF TablesKept, MapFails
  <2> QED
    BY <1>1, <1>3, <2>1, <2>2 DEF Mapped
<1>6. CASE h.fault = ""
  <2>1. MayMap(h.avail, h.pde, h.pt, f, a, H)
    BY <1>2, <1>6 DEF FrameTaken
  <2>2. Mapped(h, map_page(h, a, i, f), a, i, H)
    BY ONLY <1>3, <1>6, <2>1, a \in Areas, i \in Slots, MapPage
  <2>3. Mapped(h, g, a, i, H)
    BY <1>4, <1>6, <2>2
  <2>4. Mapped(m, g, a, i, H)
    BY ONLY <1>3, <1>6, <2>3, MappedFrom
  <2> QED
    BY <1>1, <2>4
<1> QED
  BY <1>5, <1>6

\* A new directory shares the kernel's tables.
LEMMA TidyClone ==
    ASSUME NEW avail, NEW H, NEW pde, NEW pt, Tidy(avail, pde, pt, H),
           NEW d \in Pids, NEW child \in Pids, \A a \in Areas : pde[child][a] = 0,
           NEW pde2, DirectoryAdded(pde, pde2, d, child)
    PROVE  Tidy(avail, pde2, pt, H)
<1>1. \A q \in Pids, b \in Areas : pde2[q][b] # 0 =>
         \E p \in Pids : pde2[q][b] = pde[p][b] /\ (p = q \/ b \in Shared)
  BY DEF DirectoryAdded
<1>2. \A q \in Pids, b \in Areas : pde2[q][b] # 0 => pde2[q][b] \notin avail
  BY <1>1 DEF Tidy, TablesOnce
<1>3. ASSUME NEW p \in Pids, NEW a \in Areas, NEW q \in Pids, NEW b \in Areas,
             pde2[p][a] # 0, pde2[p][a] = pde2[q][b]
      PROVE  a = b /\ (p = q \/ a \in Shared)
  <2>1. PICK p2 \in Pids : pde2[p][a] = pde[p2][a] /\ (p2 = p \/ a \in Shared)
    BY <1>1, <1>3
  <2>2. PICK q2 \in Pids : pde2[q][b] = pde[q2][b] /\ (q2 = q \/ b \in Shared)
    BY <1>1, <1>3
  <2>3. a = b /\ (p2 = q2 \/ a \in Shared)
    <3>1. pde[p2][a] # 0 /\ pde[p2][a] = pde[q2][b]
      BY <1>3, <2>1, <2>2
    <3>2. TablesOnce(avail, pde)
      BY DEF Tidy
    <3> QED
      BY ONLY <3>1, <3>2, p2 \in Pids, q2 \in Pids, a \in Areas, b \in Areas DEF TablesOnce
  <2> QED
    BY <2>1, <2>2, <2>3
<1>4. TablesOnce(avail, pde2)
  BY <1>2, <1>3 DEF TablesOnce
<1>5. ASSUME NEW q \in Pids, NEW b \in Areas, NEW j \in Slots, Entry(pde2, pt, q, b, j) # 0
      PROVE  \E p \in Pids : /\ pde2[q][b] = pde[p][b]
                             /\ Entry(pde2, pt, q, b, j) = Entry(pde, pt, p, b, j)
  <2>1. pde2[q][b] # 0
    BY <1>5 DEF Entry
  <2>2. PICK p \in Pids : pde2[q][b] = pde[p][b]
    BY <1>1, <2>1
  <2>3. Entry(pde2, pt, q, b, j) = Entry(pde, pt, p, b, j)
    BY <2>2 DEF Entry
  <2> QED
    BY <2>2, <2>3
<1>6. EntriesOnce(avail, pde2, pt, H)
  <2> SUFFICES ASSUME NEW p \in Pids, NEW b \in Areas, NEW i \in Slots,
                      Entry(pde2, pt, p, b, i) # 0, Settled(b, i, H)
               PROVE  /\ Entry(pde2, pt, p, b, i) \notin avail
                      /\ \A q \in Pids, c \in Areas : Entry(pde2, pt, p, b, i) # pde2[q][c]
                      /\ \A q \in Pids, c \in Areas, j \in Slots :
                            Entry(pde2, pt, p, b, i) = Entry(pde2, pt, q, c, j) /\ Settled(c, j, H)
                            => \/ b = c /\ i = j /\ pde2[p][b] = pde2[q][c]
                               \/ b = "shm" /\ c = "shm"
    BY DEF EntriesOnce
  <2>1. PICK p2 \in Pids : /\ pde2[p][b] = pde[p2][b]
                           /\ Entry(pde2, pt, p, b, i) = Entry(pde, pt, p2, b, i)
    BY <1>5
  <2>2. /\ Entry(pde, pt, p2, b, i) # 0
        /\ Entry(pde, pt, p2, b, i) \notin avail
        /\ \A q \in Pids, c \in Areas : Entry(pde, pt, p2, b, i) # pde[q][c]
        /\ \A q \in Pids, c \in Areas, j \in Slots :
              Entry(pde, pt, p2, b, i) = Entry(pde, pt, q, c, j) /\ Settled(c, j, H)
              => \/ b = c /\ i = j /\ pde[p2][b] = pde[q][c]
                 \/ b = "shm" /\ c = "shm"
    BY <2>1 DEF Tidy, EntriesOnce
  <2>3. \A q \in Pids, c \in Areas : Entry(pde2, pt, p, b, i) # pde2[q][c]
    BY <1>1, <2>1, <2>2
  <2>4. ASSUME NEW q \in Pids, NEW c \in Areas, NEW j \in Slots,
               Entry(pde2, pt, p, b, i) = Entry(pde2, pt, q, c, j), Settled(c, j, H)
        PROVE  \/ b = c /\ i = j /\ pde2[p][b] = pde2[q][c]
               \/ b = "shm" /\ c = "shm"
    <3>1. PICK q2 \in Pids : /\ pde2[q][c] = pde[q2][c]
                             /\ Entry(pde2, pt, q, c, j) = Entry(pde, pt, q2, c, j)
      BY <1>5, <2>1, <2>2, <2>4
    <3> QED
      BY <2>1, <2>2, <2>4, <3>1
  <2> QED
    BY <2>1, <2>2, <2>3, <2>4
<1> QED
  BY <1>4, <1>6 DEF Tidy

\* clone_page_directory fills an empty directory.
LEMMA ClonePageDirectory ==
    ASSUME NEW m, NEW H, Sound(m, H), m.fault = "",
           NEW child \in Pids, \A a \in Areas : m.pde[child][a] = 0
    PROVE  Cloned(m, clone_page_directory(m, child), child, H)
<1>1. PICK g : g = clone_page_directory(m, child)
  OBVIOUS
<1>2. Typed(m) /\ Tidy(m.avail, m.pde, m.pt, H)
  BY DEF Sound
<1>3. m.used \in BOOLEAN /\ m.dir \in Pids /\ m.pde \in [Pids -> [Areas -> 0..NumFrames]]
  BY <1>2 DEF Typed
<1>4. PICK h : h = memcpy_frames(m)
  OBVIOUS
<1>5. g = IF h.fault = ""
          THEN [h EXCEPT !.pde[child] = [a \in Areas |-> IF a \in Shared THEN h.pde[h.dir][a] ELSE 0]]
          ELSE h
  BY <1>1, <1>4 DEF clone_page_directory, get_pde, Then
<1>6. CASE m.used = TRUE
  <2>1. h = Fault(m, "temp map in use")
    BY <1>4, <1>6 DEF memcpy_frames
  <2>2. Sound(h, H) /\ SameMappings(m, h) /\ h.fault = "temp map in use"
    BY <2>1, FaultFields
  <2>3. g = h
    BY <1>5, <2>2
  <2> QED
    BY <1>1, <1>6, <2>2, <2>3 DEF Cloned, SameMappings
<1>7. CASE m.used = FALSE
  <2>1. h = m
    BY <1>4, <1>7 DEF memcpy_frames
  <2>2. PICK s : s = [a \in Areas |-> IF a \in Shared THEN m.pde[m.dir][a] ELSE 0]
    OBVIOUS
  <2>3. g = [m EXCEPT !.pde[child] = s]
    BY <1>5, <2>1, <2>2
  <2>4. /\ DOMAIN g = Fields /\ g.avail = m.avail /\ g.pt = m.pt /\ g.dir = m.dir
        /\ g.target = m.target /\ g.used = m.used /\ g.fault = ""
        /\ g.pde = [m.pde EXCEPT ![child] = s]
    BY <1>2, <2>3 DEF Typed, Fields
  <2>5. 0 \in 0..NumFrames
    BY ONLY Numbers
  <2>6. s \in [Areas -> 0..NumFrames]
    BY ONLY <1>3, <2>2, <2>5
  <2>7. g.pde \in [Pids -> [Areas -> 0..NumFrames]]
    BY ONLY <1>3, <2>4, <2>6
  <2>8. DirectoryAdded(m.pde, g.pde, m.dir, child)
    <3>1. \A q \in Pids : g.pde[q] = IF q = child THEN s ELSE m.pde[q]
      BY ONLY <1>3, <2>4, child \in Pids
    <3>2. \A b \in Areas : s[b] = IF b \in Shared THEN m.pde[m.dir][b] ELSE 0
      BY ONLY <2>2
    <3> QED
      BY ONLY <3>1, <3>2 DEF DirectoryAdded
  <2>9. Tidy(g.avail, g.pde, g.pt, H)
    <3>1. Tidy(m.avail, g.pde, m.pt, H)
      BY <1>2, <1>3, <2>8, TidyClone
    <3> QED
      BY ONLY <2>4, <3>1
  <2>10. Sound(g, H)
    BY <1>2, <2>4, <2>7, <2>9 DEF Sound, Typed
  <2> QED
    BY ONLY <1>1, <2>4, <2>8, <2>10 DEF Cloned
<1> QED
  BY <1>3, <1>6, <1>7

\* un_temp_map only changes what TEMPMAP_ADDR maps.
LEMMA UnTempMap ==
    ASSUME NEW m, NEW H, Sound(m, H)
    PROVE  /\ Sound(un_temp_map(m), H)
           /\ un_temp_map(m).avail = m.avail /\ un_temp_map(m).pde = m.pde
           /\ un_temp_map(m).pt = m.pt /\ un_temp_map(m).dir = m.dir
           /\ un_temp_map(m).fault = m.fault
           /\ un_temp_map(m).target = 0 /\ un_temp_map(m).used = FALSE
<1>1. PICK g : g = un_temp_map(m)
  OBVIOUS
<1>2. g = [m EXCEPT !.target = 0, !.used = FALSE]
  BY <1>1 DEF un_temp_map
<1>3. /\ DOMAIN g = Fields /\ g.avail = m.avail /\ g.pde = m.pde /\ g.pt = m.pt /\ g.dir = m.dir
      /\ g.fault = m.fault /\ g.target = 0 /\ g.used = FALSE
  BY <1>2 DEF Sound, Typed, Fields
<1>4. 0 \in 0..NumFrames
  BY ONLY Numbers
<1>5. Sound(g, H)
  BY <1>3, <1>4 DEF Sound, Typed
<1> QED
  BY <1>1, <1>3, <1>5

\* duplicate maps a page of shared memory once more.
LEMMA DuplicatePage ==
    ASSUME NEW m, NEW H, Sound(m, H), m.fault = "",
           NEW src \in Pids, NEW i \in Slots, NEW j \in Slots
    PROVE  Duplicated(m, duplicate(m, src, i, j), src, i, j, H)
<1>1. PICK g, t : g = duplicate(m, src, i, j) /\ t = m.pde[src]["shm"]
  OBVIOUS
<1>2. PICK h : h = temp_map(m, t)
  OBVIOUS
<1>3. g = IF t = 0 THEN Fault(m, "no table")
          ELSE IF h.fault # "" THEN h
          ELSE IF h.pt[h.target][i] = 0 THEN Fault(h, "not present")
          ELSE map_page(un_temp_map(h), "shm", j, h.pt[h.target][i])
  BY <1>1, <1>2 DEF duplicate, get_pde, get_pte, Then
<1>4. "shm" \in Areas
  BY DEF Areas
<1>5. /\ Typed(m) /\ Tidy(m.avail, m.pde, m.pt, H)
      /\ m.pde \in [Pids -> [Areas -> 0..NumFrames]]
      /\ m.pt \in [Frames -> [Slots -> 0..NumFrames]]
  BY DEF Sound, Typed
<1>6. t \in 0..NumFrames
  BY ONLY <1>1, <1>4, <1>5, src \in Pids
<1>7. TempMapped(m, h, t, H)
  <2>1. TempMapped(m, temp_map(m, t), t, H)
    BY <1>6, TempMap
  <2> QED
    BY <1>2, <2>1
<1>8. /\ Sound(h, H) /\ h.pde = m.pde /\ h.pt = m.pt /\ h.dir = m.dir /\ h.avail = m.avail
      /\ \/ h.fault = "temp map in use" /\ m.used = TRUE
         \/ h.fault = "" /\ h.target = t
  BY <1>7 DEF TempMapped
<1>9. CASE t = 0
  <2>1. g = Fault(m, "no table")
    BY <1>3, <1>9
  <2>2. Sound(g, H) /\ SameMappings(m, g) /\ g.fault = "no table"
    BY <2>1, FaultFields
  <2>3. TablesKept(m, g, "shm")
    BY <2>2 DEF TablesKept, SameMappings
  <2>4. Entry(m.pde, m.pt, src, "shm", i) = 0
    BY <1>1, <1>9 DEF Entry
  <2> QED
    BY <1>1, <2>2, <2>3, <2>4 DEF Duplicated
<1>10. CASE t # 0 /\ h.fault # ""
  <2>1. g = h /\ h.fault = "temp map in use" /\ m.used = TRUE
    BY <1>3, <1>8, <1>10
  <2>2. TablesKept(m, h, "shm") /\ MapFails(m, h, "shm", j)
    BY <1>8, <2>1 DEF TablesKept, MapFails
  <2> QED
    BY <1>1, <1>8, <2>1, <2>2 DEF Duplicated
<1>11. CASE t # 0 /\ h.fault = ""
  <2>1. PICK f : f = h.pt[h.target][i]
    OBVIOUS
  <2>2. f = Entry(m.pde, m.pt, src, "shm", i)
    BY <1>1, <1>8, <1>11, <2>1 DEF Entry
  <2>3. CASE f = 0
    <3>1. g = Fault(h, "not present")
      BY <1>3, <1>11, <2>1, <2>3
    <3>2. Sound(g, H) /\ SameMappings(h, g) /\ g.fault = "not present"
      BY <1>8, <3>1, FaultFields
    <3>3. TablesKept(m, g, "shm")
      BY <1>8, <3>2 DEF TablesKept, SameMappings
    <3> QED
      BY <1>1, <2>2, <2>3, <3>2, <3>3 DEF Duplicated
  <2>4. CASE f # 0
    <3>1. PICK k : k = un_temp_map(h)
      OBVIOUS
    <3>2. /\ Sound(k, H) /\ k.avail = m.avail /\ k.pde = m.pde /\ k.pt = m.pt /\ k.dir = m.dir
          /\ k.fault = "" /\ k.used = FALSE
      BY <1>8, <1>11, <3>1, UnTempMap
    <3>3. g = map_page(k, "shm", j, f)
      BY <1>3, <1>11, <2>1, <2>4, <3>1
    <3>4. MayMap(m.avail, m.pde, m.pt, f, "shm", H)
      <4>1. Settled("shm", i, H)
        BY DEF Settled
      <4>2. /\ f \notin m.avail
            /\ \A q \in Pids, b \in Areas : f # m.pde[q][b]
            /\ \A q \in Pids, b \in Areas, c \in Slots :
                  f = Entry(m.pde, m.pt, q, b, c) /\ Settled(b, c, H) => b = "shm"
        <5>1. EntriesOnce(m.avail, m.pde, m.pt, H) /\ Entry(m.pde, m.pt, src, "shm", i) # 0
          BY <1>5, <2>2, <2>4 DEF Tidy
        <5> QED
          BY ONLY <1>4, <2>2, <4>1, <5>1, src \in Pids, i \in Slots DEF EntriesOnce
      <4>3. f \in Frames
        <5>1. t \in Frames
          BY <1>6, <1>11, FrameNumber
        <5>2. f \in 0..NumFrames
          BY ONLY <1>1, <1>5, <1>8, <1>11, <2>1, <5>1, i \in Slots
        <5> QED
          BY <2>4, <5>2, FrameNumber
      <4> QED
        BY <4>2, <4>3 DEF MayMap
    <3>5. MayMap(k.avail, k.pde, k.pt, f, "shm", H)
      BY ONLY <3>2, <3>4
    <3>6. Mapped(k, map_page(k, "shm", j, f), "shm", j, H)
      BY ONLY <1>4, <3>2, <3>5, j \in Slots, MapPage
    <3>7. Mapped(k, g, "shm", j, H)
      BY <3>3, <3>6
    <3>8. Mapped(m, g, "shm", j, H)
      BY ONLY <3>2, <3>7, MappedFrom
    <3> QED
      BY <1>1, <3>8 DEF Mapped, Duplicated
  <2> QED
    BY <2>3, <2>4
<1> QED
  BY <1>9, <1>10, <1>11

-----------------------------------------------------------------------------
(* The inductive invariant *)

\* p is between making a frame available and clearing its entry.
Half(p) == op[p].k = "free" /\ op[p].at = 3

Halves == {op[p].page : p \in {q \in Pids : Half(q)}}

\* p holds big_buffer_lock.
BufferOp(p) == op[p].k = "free" \/ (op[p].k = "alloc" /\ op[p].area = "buffer")

LoaderOp(p) == op[p].k = "alloc" /\ op[p].area = "user"

OpType == [k : {"idle", "alloc", "free", "look"}, at : 0..4, area : Areas,
           page : 0..PerTable, frame : {0}]

TypeInv ==
    /\ life \in [Pids -> {"none", "kernel", "user", "gone"}]
    /\ op \in [Pids -> OpType]
    /\ kpages \in Nat \ {0}
    /\ upages \in [Pids -> 0..PerTable]
    /\ bits \subseteq Slots
    /\ big_lock \in 0..MaxPid
    /\ bufs \subseteq Slots
    /\ \A e \in shm : e.pid \in Pids /\ e.page \in Slots
    /\ next_shm \in [Pids -> 1..(PerTable + 1)]
    /\ raced \in BOOLEAN /\ astray \in BOOLEAN /\ clashed \in BOOLEAN

\* What a process can be in the middle of.
Ops ==
    \A p \in Pids :
       /\ life[p] # "kernel" => op[p] = Idle
       /\ op[p].k = "idle" => op[p] = Idle
       /\ op[p].k \in {"free", "look"} => op[p].area = "buffer" /\ op[p].page \in Slots
       /\ op[p].k = "alloc" => op[p].at = 0 /\ op[p].page \in Slots /\ (LoaderOp(p) \/ BufferOp(p))
       /\ LoaderOp(p) => op[p].page = 1 /\ upages[p] = 1
       /\ BufferOp(p) => big_lock = p

\* Directories that exist have the tables of the boot, the others nothing.
Directories(m, l) ==
    /\ l[1] # "none" /\ l[m.dir] # "none"
    /\ m.pde[1]["kernel"] # 0 /\ m.pde[1]["buffer"] # 0
    /\ \A p \in Pids :
          /\ l[p] = "none" => \A a \in Areas : m.pde[p][a] = 0
          /\ l[p] # "none" => /\ m.pde[p]["kernel"] = m.pde[1]["kernel"]
                              /\ m.pde[p]["buffer"] = m.pde[1]["buffer"]

\* The frame of a page of the buffer area, the same in all directories.
BufferPage(m, i) == Entry(m.pde, m.pt, 1, "buffer", i)

\* Only p has the frame of the page it frees.
OnlyMine(p) ==
    \A q \in Pids, a \in Areas :
       /\ mm.pde[q][a] # BufferPage(mm, op[p].page)
       /\ \A i \in Slots : Entry(mm.pde, mm.pt, q, a, i) = BufferPage(mm, op[p].page)
                           => a = "buffer" /\ i = op[p].page

\* The temporary mapping belongs to the one process that is using it.
TempMapping ==
    /\ mm.target \in {0, mm.pde[1]["buffer"]}
    /\ ~raced =>
         /\ \A p, q \in Pids : InTempMap(p) /\ InTempMap(q) => p = q
         /\ \A p \in Pids : InTempMap(p) => /\ mm.target = mm.pde[1]["buffer"]
                                            /\ op[p].at >= 2 <=> mm.used = TRUE
         /\ (\A p \in Pids : ~InTempMap(p)) => mm.target = 0 /\ mm.used = FALSE
         /\ \A p \in Pids : Half(p) /\ BufferPage(mm, op[p].page) # 0 => OnlyMine(p)

\* The bitmap, the buffers and the pages of the buffer area.
Buffers ==
    /\ \A i \in Slots : BufferPage(mm, i) # 0 =>
          i \in bits \/ \E p \in Pids : op[p].k = "free" /\ op[p].page = i /\ op[p].at <= 3
    /\ \A i \in bufs : BufferPage(mm, i) # 0
    /\ \A p \in Pids :
          /\ op[p].k = "alloc" /\ op[p].area = "buffer" =>
                BufferPage(mm, op[p].page) = 0 /\ op[p].page \in bits
          /\ op[p].k = "free" => op[p].page \notin bufs
          /\ op[p].k = "free" /\ op[p].at <= 3 => BufferPage(mm, op[p].page) # 0

\* Nobody asked for a page that is there already.
PagesInOrder ==
    /\ \A i \in Slots : Entry(mm.pde, mm.pt, 1, "kernel", i) # 0 => i <= kpages
    /\ \A p \in Pids, i \in Slots :
          /\ Entry(mm.pde, mm.pt, p, "user", i) # 0 => i <= upages[p] /\ ~LoaderOp(p)
          /\ Entry(mm.pde, mm.pt, p, "shm", i) # 0 => i < next_shm[p]
    /\ \A e \in shm : Entry(mm.pde, mm.pt, e.pid, "shm", e.page) # 0

PrivateTables ==
    \A p, q \in Pids : p # q =>
       \A a \in Areas \ Shared : mm.pde[p][a] # 0 => mm.pde[p][a] # mm.pde[q][a]

\* Nothing happened after which the assertions do not hold.
Quiet == ~raced /\ ~astray /\ ~clashed /\ kpages <= PerTable

Stops == {"", "no frame", "no directory"}

Up == /\ Sound(mm, Halves)
      /\ TypeInv
      /\ Ops
      /\ Directories(mm, life)
      /\ TempMapping
      /\ Buffers

MemInv ==
    /\ PrivateTables
    /\ Running => Up
    /\ Quiet => mm.fault \in Stops
    /\ Quiet /\ Running => PagesInOrder

-----------------------------------------------------------------------------
(* What steps have in common *)

\* the only changes the directory in use.
LEMMA TheFields ==
    ASSUME NEW m, NEW H, Sound(m, H), NEW p \in Pids
    PROVE  /\ Sound(the(m, p), H)
           /\ the(m, p).dir = p
           /\ the(m, p).avail = m.avail /\ the(m, p).pde = m.pde /\ the(m, p).pt = m.pt
           /\ the(m, p).target = m.target /\ the(m, p).used = m.used /\ the(m, p).fault = m.fault
<1>1. PICK g : g = the(m, p)
  OBVIOUS
<1>2. /\ DOMAIN g = Fields /\ g.dir = p /\ g.avail = m.avail /\ g.pde = m.pde /\ g.pt = m.pt
      /\ g.target = m.target /\ g.used = m.used /\ g.fault = m.fault
  BY <1>1 DEF the, Sound, Typed, Fields
<1>3. Sound(g, H)
  BY <1>2 DEF Sound, Typed
<1> QED
  BY <1>1, <1>2, <1>3

\* Tables of private areas belong to one directory.
LEMMA TablesArePrivate ==
    ASSUME NEW H, Sound(mm, H)
    PROVE  PrivateTables
BY DEF Sound, Tidy, TablesOnce, PrivateTables

\* The pages being freed are the same when nobody comes or goes.
LEMMA SameHalves ==
    ASSUME \A q \in Pids : op'[q] = op[q] \/ (~Half(q) /\ ~Half(q)')
    PROVE  Halves' = Halves
<1>1. \A q \in Pids : Half(q)' <=> Half(q)
  BY DEF Half
<1>2. \A q \in Pids : Half(q) => op'[q].page = op[q].page
  BY DEF Half
<1> QED
  BY <1>1, <1>2 DEF Halves

\* mm' is mm but for the directory in use, which is one that exists.
Walked ==
    /\ DOMAIN mm' = Fields
    /\ mm'.dir \in Pids /\ life[mm'.dir] # "none"
    /\ mm'.avail = mm.avail /\ mm'.pde = mm.pde /\ mm'.pt = mm.pt
    /\ mm'.target = mm.target /\ mm'.used = mm.used /\ mm'.fault = mm.fault
    /\ raced' = raced

\* Nobody is created, and only a process outside a temporary mapping changes
\* what it is doing, to something that is outside as well.
Outside ==
    /\ \A q \in Pids : life'[q] = "none" <=> life[q] = "none"
    /\ \A q \in Pids : op'[q] = op[q] \/ (op[q].at = 0 /\ op'[q].at = 0)

\* A step that does not change the page tables.
LEMMA WalkedKeeps ==
    ASSUME Up, Walked, Outside
    PROVE  /\ PrivateTables'
           /\ Sound(mm, Halves)'
           /\ Directories(mm, life)'
           /\ TempMapping'
           /\ \A i : BufferPage(mm', i) = BufferPage(mm, i)
<1>1. Sound(mm, Halves) /\ Directories(mm, life) /\ TempMapping
  BY DEF Up
<1>2. Halves' = Halves
  BY SameHalves DEF Outside, Half
<1>3. PICK g, H : g = mm' /\ H = Halves
  OBVIOUS
<1>4. /\ DOMAIN g = Fields
      /\ g.dir \in Pids /\ life[g.dir] # "none"
      /\ g.avail = mm.avail /\ g.pde = mm.pde /\ g.pt = mm.pt
      /\ g.target = mm.target /\ g.used = mm.used /\ g.fault = mm.fault
  BY <1>3 DEF Walked
<1>5. Sound(g, H)
  BY <1>1, <1>3, <1>4 DEF Sound, Typed
<1>6. Sound(mm, Halves)'
  BY <1>2, <1>3, <1>5
<1>7. PrivateTables'
  <2>1. PrivateTables
    BY <1>1, TablesArePrivate
  <2> QED
    BY <1>3, <1>4, <2>1 DEF PrivateTables
<1>8. Directories(mm, life)'
  <2>1. Directories(g, life')
    BY <1>1, <1>4, Numbers DEF Directories, Outside
  <2> QED
    BY <1>3, <2>1
<1>9. \A i : BufferPage(mm', i) = BufferPage(mm, i)
  <2>1. \A i : BufferPage(g, i) = BufferPage(mm, i)
    BY <1>4 DEF BufferPage, Entry
  <2> QED
    BY <1>3, <2>1
<1>10. TempMapping'
  <2>1. \A q \in Pids : /\ InTempMap(q)' <=> InTempMap(q)
                        /\ Half(q)' <=> Half(q)
                        /\ InTempMap(q) => op'[q] = op[q]
                        /\ Half(q) => op'[q] = op[q]
    BY DEF Outside, InTempMap, Half
  <2>2. /\ mm'.target \in {0, mm'.pde[1]["buffer"]}
        /\ ~raced' => \A p, q \in Pids : InTempMap(p)' /\ InTempMap(q)' => p = q
    BY <1>1, <1>3, <1>4, <2>1 DEF TempMapping, Walked
  <2>3. ~raced' /\ (\A p \in Pids : ~InTempMap(p)') => mm'.target = 0 /\ mm'.used = FALSE
    BY <1>1, <1>3, <1>4, <2>1 DEF TempMapping, Walked
  <2>4. ASSUME ~raced', NEW p \in Pids, InTempMap(p)'
        PROVE  mm'.target = mm'.pde[1]["buffer"] /\ (op'[p].at >= 2 <=> mm'.used = TRUE)
    BY <1>1, <1>3, <1>4, <2>1, <2>4 DEF TempMapping, Walked
  <2>5. ASSUME ~raced', NEW p \in Pids, Half(p)', BufferPage(mm', op'[p].page) # 0
        PROVE  OnlyMine(p)'
    <3>1. OnlyMine(p)
      BY <1>1, <1>9, <2>1, <2>5 DEF TempMapping, Walked
    <3>2. op'[p].page = op[p].page /\ BufferPage(mm', op'[p].page) = BufferPage(mm, op[p].page)
      BY <1>9, <2>1, <2>5
    <3>3. mm'.pde = mm.pde /\ mm'.pt = mm.pt
      BY <1>3, <1>4
    <3> QED
      BY <3>1, <3>2, <3>3 DEF OnlyMine
  <2> QED
    BY <2>2, <2>3, <2>4, <2>5 DEF TempMapping
<1> QED
  BY <1>6, <1>7, <1>8, <1>9, <1>10

\* A step that has nothing to do with buffers.
LEMMA BuffersSame ==
    ASSUME Ops, Buffers,
           \A i \in Slots : BufferPage(mm', i) = BufferPage(mm, i),
           bits' = bits, bufs' = bufs, bufs \subseteq Slots,
           \A q \in Pids : op'[q] = op[q] \/ (~BufferOp(q) /\ ~BufferOp(q)')
    PROVE  Buffers'
<1>1. \A q \in Pids : BufferOp(q)' <=> BufferOp(q)
  BY DEF BufferOp
<1>2. \A q \in Pids : BufferOp(q) => op'[q] = op[q] /\ op[q].page \in Slots
  BY DEF BufferOp, Ops
<1>3. \A q \in Pids : op'[q].k = "free" => op'[q] = op[q]
  BY <1>1, <1>2 DEF BufferOp
<1>4. ASSUME NEW i \in Slots, BufferPage(mm', i) # 0
      PROVE  i \in bits' \/ \E q \in Pids : op'[q].k = "free" /\ op'[q].page = i /\ op'[q].at <= 3
  <2>1. i \in bits \/ \E q \in Pids : op[q].k = "free" /\ op[q].page = i /\ op[q].at <= 3
    BY <1>4 DEF Buffers
  <2> QED
    BY <1>2, <2>1 DEF BufferOp
<1>5. \A i \in bufs' : BufferPage(mm', i) # 0
  BY DEF Buffers
<1>6. ASSUME NEW q \in Pids
      PROVE  /\ op'[q].k = "alloc" /\ op'[q].area = "buffer" =>
                   BufferPage(mm', op'[q].page) = 0 /\ op'[q].page \in bits'
             /\ op'[q].k = "free" => op'[q].page \notin bufs'
             /\ op'[q].k = "free" /\ op'[q].at <= 3 => BufferPage(mm', op'[q].page) # 0
  <2>1. CASE BufferOp(q)
    <3>1. op'[q] = op[q] /\ BufferPage(mm', op[q].page) = BufferPage(mm, op[q].page)
      BY <1>2, <2>1
    <3> QED
      BY <3>1 DEF Buffers
  <2>2. CASE ~BufferOp(q)
    BY <1>1, <2>2 DEF BufferOp
  <2> QED
    BY <2>1, <2>2
<1> QED
  BY <1>4, <1>5, <1>6 DEF Buffers

\* A step after which every page of the kernel, the programs and shared memory
\* is as before.
LEMMA PagesSame ==
    ASSUME PagesInOrder, TypeInv, kpages' >= kpages, kpages' \in Nat, upages' = upages,
           next_shm' = next_shm, shm' = shm,
           \A q \in Pids, b \in Areas \ {"buffer"}, i \in Slots :
              Entry(mm'.pde, mm'.pt, q, b, i) = Entry(mm.pde, mm.pt, q, b, i),
           \A q \in Pids : LoaderOp(q)' => LoaderOp(q)
    PROVE  PagesInOrder'
<1>1. {"kernel", "user", "shm"} \subseteq Areas \ {"buffer"} /\ 1 \in Pids
  BY Numbers DEF Areas, Shared
<1>2. ASSUME NEW i \in Slots, Entry(mm'.pde, mm'.pt, 1, "kernel", i) # 0
      PROVE  i <= kpages'
  <2>1. i <= kpages
    BY <1>1, <1>2 DEF PagesInOrder
  <2>2. i \in Nat /\ kpages \in Nat
    BY Numbers DEF TypeInv, Slots
  <2> QED
    BY ONLY <2>1, <2>2, kpages' >= kpages, kpages' \in Nat
<1>3. \A q \in Pids, i \in Slots :
         /\ Entry(mm'.pde, mm'.pt, q, "user", i) # 0 => i <= upages'[q] /\ ~LoaderOp(q)'
         /\ Entry(mm'.pde, mm'.pt, q, "shm", i) # 0 => i < next_shm'[q]
  BY <1>1 DEF PagesInOrder
<1>4. \A e \in shm' : Entry(mm'.pde, mm'.pt, e.pid, "shm", e.page) # 0
  BY <1>1 DEF PagesInOrder, TypeInv
<1> QED
  BY <1>2, <1>3, <1>4 DEF PagesInOrder

\* A step that does not change the page tables keeps the invariant.
LEMMA WalkedStep ==
    ASSUME MemInv, Running, Walked, Outside, UNCHANGED <<kpages, astray, clashed>>,
           Up => TypeInv' /\ Ops' /\ Buffers', Up /\ PagesInOrder => PagesInOrder'
    PROVE  MemInv'
<1>1. Up
  BY DEF MemInv
<1>2. /\ PrivateTables' /\ Sound(mm, Halves)' /\ Directories(mm, life)' /\ TempMapping'
  BY <1>1, WalkedKeeps
<1>3. Up'
  BY <1>1, <1>2 DEF Up
<1>4. Quiet' <=> Quiet
  BY DEF Quiet, Walked
<1>5. mm'.fault = ""
  BY DEF Walked, Running
<1> QED
  BY <1>1, <1>2, <1>3, <1>4, <1>5 DEF MemInv, Running, Stops

\* mm itself is a mm that was walked to, and so is the(mm, p).
LEMMA WalkedOrThe ==
    ASSUME Up, NEW p \in Pids, life[p] # "none", mm' = mm \/ mm' = the(mm, p), raced' = raced
    PROVE  Walked
<1>1. Sound(mm, Halves) /\ Typed(mm) /\ mm.dir \in Pids /\ life[mm.dir] # "none"
  BY DEF Up, Sound, Typed, Directories
<1>2. CASE mm' = mm
  BY <1>1, <1>2 DEF Walked, Typed
<1>3. CASE mm' = the(mm, p)
  <2>1. PICK g : g = the(mm, p)
    OBVIOUS
  <2>2. /\ Sound(g, Halves) /\ g.dir = p /\ g.avail = mm.avail /\ g.pde = mm.pde /\ g.pt = mm.pt
        /\ g.target = mm.target /\ g.used = mm.used /\ g.fault = mm.fault
    BY <1>1, <2>1, TheFields
  <2> QED
    BY <1>3, <2>1, <2>2 DEF Walked, Sound, Typed
<1> QED
  BY <1>2, <1>3

\* The steps that only change what a process is: Exit, Blocks, Returns.
LEMMA LifeStep ==
    ASSUME MemInv, Running, NEW p \in Pids, life[p] \in {"user", "kernel"}, op[p] = Idle,
           NEW l \in {"gone", "kernel", "user"}, life' = [life EXCEPT ![p] = l],
           UNCHANGED <<mm, op, kpages, upages, dirs, bits, big_lock, bufs, shm, next_shm,
                       raced, astray, clashed>>
    PROVE  MemInv'
<1>1. Up
  BY DEF MemInv
<1>2. life \in [Pids -> {"none", "kernel", "user", "gone"}]
  BY <1>1 DEF Up, TypeInv
<1>3. \A q \in Pids : life'[q] = IF q = p THEN l ELSE life[q]
  BY <1>2
<1>4. life' \in [Pids -> {"none", "kernel", "user", "gone"}]
  BY <1>2
<1>5. Walked
  BY <1>1, WalkedOrThe
<1>6. Outside
  BY <1>3 DEF Outside
<1>7. TypeInv'
  BY <1>1, <1>4 DEF Up, TypeInv
<1>8. Ops'
  BY <1>1, <1>3 DEF Up, Ops, LoaderOp, BufferOp
<1>9. Buffers'
  BY <1>1 DEF Up, Buffers, BufferPage
<1>10. PagesInOrder => PagesInOrder'
  BY DEF PagesInOrder, LoaderOp
<1> QED
  BY <1>5, <1>6, <1>7, <1>8, <1>9, <1>10, WalkedStep

\* What p starts to do.
LEMMA Started ==
    ASSUME Up, NEW p \in Pids, NEW o \in OpType, o.at = 0, Start(p, o),
           \A q \in Pids : life'[q] = life[q]
    PROVE  /\ Outside
           /\ op[p] = Idle
           /\ op' \in [Pids -> OpType]
           /\ \A q \in Pids : op'[q] = IF q = p THEN o ELSE op[q]
<1>1. op[p] = Idle /\ op' = [op EXCEPT ![p] = o] /\ op \in [Pids -> OpType]
  BY DEF Start, Up, TypeInv
<1>2. op' \in [Pids -> OpType] /\ \A q \in Pids : op'[q] = IF q = p THEN o ELSE op[q]
  BY <1>1
<1>3. Idle.at = 0
  BY DEF Idle
<1> QED
  BY <1>1, <1>2, <1>3 DEF Outside

\* A process has nothing in hand when it starts something.
LEMMA IdleFields ==
    /\ Idle \in OpType
    /\ Idle.k = "idle" /\ Idle.at = 0 /\ Idle.area = "user"
<1>1. 0 \in 0..PerTable
  BY ONLY Numbers
<1> QED
  BY <1>1 DEF Idle, OpType, Areas

IsBufferOp(o, k, n) == o \in OpType /\ o.k = k /\ o.at = 0 /\ o.area = "buffer" /\ o.page = n

\* A buffer operation as it starts.
LEMMA BufferOpFields ==
    ASSUME NEW k \in {"alloc", "free", "look"}, NEW n \in Slots
    PROVE  IsBufferOp([Idle EXCEPT !.k = k, !.area = "buffer", !.page = n], k, n)
<1> PICK o : o = [Idle EXCEPT !.k = k, !.area = "buffer", !.page = n]
  OBVIOUS
<1>1. n \in 0..PerTable
  BY Numbers DEF Slots
<1>2. o.k = k /\ o.at = 0 /\ o.area = "buffer" /\ o.page = n
  BY DEF Idle
<1>3. "buffer" \in Areas
  BY DEF Areas, Shared
<1>4. o \in OpType
  BY <1>1, <1>3, IdleFields DEF Idle, OpType
<1> QED
  BY <1>2, <1>4 DEF IsBufferOp

\* The loader's the().
LEMMA LoadTheStep ==
    ASSUME MemInv, NEW p \in Pids, LoadThe(p)
    PROVE  MemInv'
<1>1. Up /\ Running /\ life[p] = "kernel"
  BY DEF MemInv, LoadThe, InKernel
<1>2. PICK o : o = [Idle EXCEPT !.k = "alloc", !.page = 1]
  OBVIOUS
<1>3. o \in OpType /\ o.k = "alloc" /\ o.at = 0 /\ o.area = "user" /\ o.page = 1
  <2>1. 1 \in 0..PerTable
    BY ONLY Numbers
  <2>2. o.k = "alloc" /\ o.at = 0 /\ o.area = "user" /\ o.page = 1
    BY <1>2 DEF Idle
  <2>3. o \in OpType
    BY <1>2, <2>1, IdleFields DEF Idle, OpType
  <2> QED
    BY <2>2, <2>3
<1>4. Start(p, o) /\ upages[p] = 0 /\ upages' = [upages EXCEPT ![p] = 1]
  BY <1>2 DEF LoadThe
<1>5. UNCHANGED <<life, kpages, dirs, bits, big_lock, bufs, shm, next_shm, raced, astray, clashed>>
  BY DEF LoadThe
<1>6. /\ Outside /\ op[p] = Idle /\ op' \in [Pids -> OpType]
      /\ \A q \in Pids : op'[q] = IF q = p THEN o ELSE op[q]
  BY <1>1, <1>3, <1>4, <1>5, Started
<1>7. Walked
  BY <1>1, <1>5, WalkedOrThe DEF LoadThe
<1>8. upages \in [Pids -> 0..PerTable] /\ 1 \in 0..PerTable
  BY <1>1, Numbers DEF Up, TypeInv
<1>9. /\ upages' \in [Pids -> 0..PerTable]
      /\ \A q \in Pids : upages'[q] = IF q = p THEN 1 ELSE upages[q]
  BY ONLY <1>4, <1>8
<1>10. TypeInv'
  BY <1>1, <1>5, <1>6, <1>9 DEF Up, TypeInv
<1>11. Ops'
  BY <1>1, <1>3, <1>5, <1>6, <1>9, Numbers DEF Up, Ops, LoaderOp, BufferOp
<1>12. mm'.pde = mm.pde /\ mm'.pt = mm.pt /\ \A i : BufferPage(mm', i) = BufferPage(mm, i)
  BY <1>1, <1>6, <1>7, WalkedKeeps DEF Walked
<1>13. Buffers'
  <2>1. \A q \in Pids : op'[q] = op[q] \/ (~BufferOp(q) /\ ~BufferOp(q)')
    BY <1>3, <1>6 DEF BufferOp, Idle
  <2> QED
    BY <1>1, <1>5, <1>12, <2>1, BuffersSame DEF Up, TypeInv
<1>14. ASSUME PagesInOrder PROVE PagesInOrder'
  <2>1. ASSUME NEW i \in Slots PROVE Entry(mm.pde, mm.pt, p, "user", i) = 0
    <3>1. ~(i <= upages[p])
      BY <1>4, Numbers DEF Slots
    <3> QED
      BY <1>14, <3>1 DEF PagesInOrder
  <2>2. \A q \in Pids, i \in Slots :
           /\ Entry(mm.pde, mm.pt, q, "user", i) # 0 => i <= upages'[q] /\ ~LoaderOp(q)'
           /\ Entry(mm.pde, mm.pt, q, "shm", i) # 0 => i < next_shm'[q]
    BY <1>5, <1>6, <1>9, <1>14, <2>1 DEF PagesInOrder, LoaderOp
  <2> QED
    BY <1>5, <1>12, <1>14, <2>2 DEF PagesInOrder
<1> QED
  BY <1>1, <1>5, <1>6, <1>7, <1>10, <1>11, <1>13, <1>14, WalkedStep

\* BigBuffer::allocate up to its the().
LEMMA BufferTheStep ==
    ASSUME MemInv, NEW p \in Pids, BufferThe(p)
    PROVE  MemInv'
<1>1. Up /\ Running /\ life[p] = "kernel" /\ big_lock = 0
  BY DEF MemInv, BufferThe, InKernel
<1>2. PICK n : n = Min(FindBuffer)
  OBVIOUS
<1>3. n \in Slots /\ n \notin bits
  <2>1. FindBuffer \subseteq Slots /\ FindBuffer \cap bits = {}
    BY Numbers DEF FindBuffer, Slots
  <2>2. Slots \subseteq Nat
    BY DEF Slots
  <2>3. FindBuffer \subseteq Nat /\ FindBuffer # {}
    BY <2>1, <2>2 DEF BufferThe
  <2>4. n \in FindBuffer
    BY ONLY <1>2, <2>3, MinMember
  <2> QED
    BY <2>1, <2>4
<1>4. PICK o : o = [Idle EXCEPT !.k = "alloc", !.area = "buffer", !.page = n]
  OBVIOUS
<1>5. o \in OpType /\ o.k = "alloc" /\ o.at = 0 /\ o.area = "buffer" /\ o.page = n
  BY <1>3, <1>4, BufferOpFields DEF IsBufferOp
<1>6. Start(p, o) /\ bits' = bits \cup {n} /\ big_lock' = p
  BY <1>2, <1>4 DEF BufferThe
<1>7. UNCHANGED <<life, kpages, upages, dirs, bufs, shm, next_shm, raced, astray, clashed>>
  BY DEF BufferThe
<1>8. /\ Outside /\ op[p] = Idle /\ op' \in [Pids -> OpType]
      /\ \A q \in Pids : op'[q] = IF q = p THEN o ELSE op[q]
  BY <1>1, <1>5, <1>6, <1>7, Started
<1>9. Walked
  BY <1>1, <1>7, WalkedOrThe DEF BufferThe
<1>10. \A q \in Pids : ~BufferOp(q)
  BY <1>1, Numbers DEF Up, Ops, Pids
<1>11. TypeInv'
  <2>1. bits' \subseteq Slots /\ big_lock' \in 0..MaxPid
    BY <1>1, <1>3, <1>6 DEF Up, TypeInv, Pids
  <2> QED
    BY <1>1, <1>7, <1>8, <2>1 DEF Up, TypeInv
<1>12. Ops'
  <2>1. ASSUME NEW q \in Pids, q # p
        PROVE  /\ life'[q] # "kernel" => op'[q] = Idle
               /\ op'[q].k = "idle" => op'[q] = Idle
               /\ op'[q].k \in {"free", "look"} => op'[q].area = "buffer" /\ op'[q].page \in Slots
               /\ op'[q].k = "alloc" => op'[q].at = 0 /\ op'[q].page \in Slots /\ (LoaderOp(q)' \/ BufferOp(q)')
               /\ LoaderOp(q)' => op'[q].page = 1 /\ upages'[q] = 1
               /\ ~BufferOp(q)'
    BY <1>1, <1>7, <1>8, <1>10, <2>1 DEF Up, Ops, LoaderOp, BufferOp
  <2>2. /\ life'[p] = "kernel" /\ op'[p] = o /\ big_lock' = p
    BY <1>1, <1>6, <1>7, <1>8
  <2>3. BufferOp(p)' /\ ~LoaderOp(p)'
    BY <1>5, <2>2 DEF BufferOp, LoaderOp
  <2> QED
    BY <1>3, <1>5, <2>1, <2>2, <2>3 DEF Ops
<1>13. mm'.pde = mm.pde /\ mm'.pt = mm.pt /\ \A i : BufferPage(mm', i) = BufferPage(mm, i)
  BY <1>1, <1>8, <1>9, WalkedKeeps DEF Walked
<1>14. Buffers'
  <2>1. \A q \in Pids : op[q].k # "free" /\ op'[q].k # "free"
    BY <1>5, <1>8, <1>10 DEF BufferOp
  <2>2. BufferPage(mm', n) = 0
    BY <1>1, <1>3, <1>13, <2>1 DEF Up, Buffers
  <2>3. \A i \in Slots : BufferPage(mm', i) # 0 => i \in bits'
    BY <1>1, <1>6, <1>13, <2>1 DEF Up, Buffers
  <2>4. \A i \in bufs' : BufferPage(mm', i) # 0
    BY <1>1, <1>7, <1>13 DEF Up, Buffers
  <2>5. \A q \in Pids : op'[q].k = "alloc" /\ op'[q].area = "buffer" => op'[q].page = n
    BY <1>5, <1>8, <1>10 DEF BufferOp
  <2> QED
    BY <1>6, <2>1, <2>2, <2>3, <2>4, <2>5 DEF Buffers
<1>15. ASSUME PagesInOrder PROVE PagesInOrder'
  <2>1. \A q \in Pids : LoaderOp(q)' => LoaderOp(q)
    BY <1>5, <1>8 DEF LoaderOp
  <2> QED
    BY <1>7, <1>13, <1>15, <2>1 DEF PagesInOrder
<1> QED
  BY <1>1, <1>7, <1>8, <1>9, <1>11, <1>12, <1>14, <1>15, WalkedStep

\* ~BigBuffer up to its the().
LEMMA FreeTheStep ==
    ASSUME MemInv, NEW p \in Pids, FreeThe(p)
    PROVE  MemInv'
<1>1. Up /\ Running /\ life[p] = "kernel" /\ big_lock = 0
  BY DEF MemInv, FreeThe, InKernel
<1>2. PICK n \in bufs : /\ Start(p, [Idle EXCEPT !.k = "free", !.area = "buffer", !.page = n])
                        /\ bits' = bits \ {n}
                        /\ bufs' = bufs \ {n}
  BY DEF FreeThe
<1>3. n \in Slots
  BY <1>1 DEF Up, TypeInv
<1>4. PICK o : o = [Idle EXCEPT !.k = "free", !.area = "buffer", !.page = n]
  OBVIOUS
<1>5. o \in OpType /\ o.k = "free" /\ o.at = 0 /\ o.area = "buffer" /\ o.page = n
  BY <1>3, <1>4, BufferOpFields DEF IsBufferOp
<1>6. Start(p, o) /\ big_lock' = p
  BY <1>2, <1>4 DEF FreeThe
<1>7. UNCHANGED <<life, kpages, upages, dirs, shm, next_shm, raced, astray, clashed>>
  BY DEF FreeThe
<1>8. /\ Outside /\ op[p] = Idle /\ op' \in [Pids -> OpType]
      /\ \A q \in Pids : op'[q] = IF q = p THEN o ELSE op[q]
  BY <1>1, <1>5, <1>6, <1>7, Started
<1>9. Walked
  BY <1>1, <1>7, WalkedOrThe DEF FreeThe
<1>10. \A q \in Pids : ~BufferOp(q)
  BY <1>1, Numbers DEF Up, Ops, Pids
<1>11. TypeInv'
  <2>1. bits' \subseteq Slots /\ bufs' \subseteq Slots /\ big_lock' \in 0..MaxPid
    BY <1>1, <1>2, <1>6 DEF Up, TypeInv, Pids
  <2> QED
    BY <1>1, <1>7, <1>8, <2>1 DEF Up, TypeInv
<1>12. Ops'
  <2>1. ASSUME NEW q \in Pids, q # p
        PROVE  /\ life'[q] # "kernel" => op'[q] = Idle
               /\ op'[q].k = "idle" => op'[q] = Idle
               /\ op'[q].k \in {"free", "look"} => op'[q].area = "buffer" /\ op'[q].page \in Slots
               /\ op'[q].k = "alloc" => op'[q].at = 0 /\ op'[q].page \in Slots /\ (LoaderOp(q)' \/ BufferOp(q)')
               /\ LoaderOp(q)' => op'[q].page = 1 /\ upages'[q] = 1
               /\ ~BufferOp(q)'
    BY <1>1, <1>7, <1>8, <1>10, <2>1 DEF Up, Ops, LoaderOp, BufferOp
  <2>2. /\ life'[p] = "kernel" /\ op'[p] = o /\ big_lock' = p
    BY <1>1, <1>6, <1>7, <1>8
  <2>3. BufferOp(p)' /\ ~LoaderOp(p)'
    BY <1>5, <2>2 DEF BufferOp, LoaderOp
  <2> QED
    BY <1>3, <1>5, <2>1, <2>2, <2>3 DEF Ops
<1>13. mm'.pde = mm.pde /\ mm'.pt = mm.pt /\ \A i : BufferPage(mm', i) = BufferPage(mm, i)
  BY <1>1, <1>8, <1>9, WalkedKeeps DEF Walked
<1>14. Buffers'
  <2>1. \A q \in Pids : op[q].k # "free" /\ (op'[q].k = "free" <=> q = p)
    BY <1>5, <1>8, <1>10 DEF BufferOp
  <2>2. \A i \in Slots : BufferPage(mm', i) # 0 => i \in bits' \/ i = n
    BY <1>1, <1>2, <1>13, <2>1 DEF Up, Buffers
  <2>3. BufferPage(mm', n) # 0 /\ \A i \in bufs' : BufferPage(mm', i) # 0
    BY <1>1, <1>2, <1>13 DEF Up, Buffers
  <2>4. \A q \in Pids : ~(op'[q].k = "alloc" /\ op'[q].area = "buffer")
    BY <1>5, <1>8, <1>10 DEF BufferOp
  <2>5. op'[p].page = n /\ op'[p].at <= 3
    BY <1>5, <1>8
  <2> QED
    BY <1>2, <2>1, <2>2, <2>3, <2>4, <2>5 DEF Buffers
<1>15. ASSUME PagesInOrder PROVE PagesInOrder'
  <2>1. \A q \in Pids : LoaderOp(q)' => LoaderOp(q)
    BY <1>5, <1>8 DEF LoaderOp
  <2> QED
    BY <1>7, <1>13, <1>15, <2>1 DEF PagesInOrder
<1> QED
  BY <1>1, <1>7, <1>8, <1>9, <1>11, <1>12, <1>14, <1>15, WalkedStep

\* The network card's the().
LEMMA LookupTheStep ==
    ASSUME MemInv, NEW p \in Pids, LookupThe(p)
    PROVE  MemInv'
<1>1. Up /\ Running /\ life[p] = "kernel"
  BY DEF MemInv, LookupThe, InKernel
<1>2. PICK n \in bufs : Start(p, [Idle EXCEPT !.k = "look", !.area = "buffer", !.page = n])
  BY DEF LookupThe
<1>3. n \in Slots
  BY <1>1 DEF Up, TypeInv
<1>4. PICK o : o = [Idle EXCEPT !.k = "look", !.area = "buffer", !.page = n]
  OBVIOUS
<1>5. o \in OpType /\ o.k = "look" /\ o.at = 0 /\ o.area = "buffer" /\ o.page = n
  BY <1>3, <1>4, BufferOpFields DEF IsBufferOp
<1>6. Start(p, o)
  BY <1>2, <1>4
<1>7. UNCHANGED <<life, kpages, upages, dirs, bits, big_lock, bufs, shm, next_shm, raced, astray, clashed>>
  BY DEF LookupThe
<1>8. /\ Outside /\ op[p] = Idle /\ op' \in [Pids -> OpType]
      /\ \A q \in Pids : op'[q] = IF q = p THEN o ELSE op[q]
  BY <1>1, <1>5, <1>6, <1>7, Started
<1>9. Walked
  BY <1>1, <1>7, WalkedOrThe DEF LookupThe
<1>10. TypeInv'
  BY <1>1, <1>7, <1>8 DEF Up, TypeInv
<1>11. \A q \in Pids : /\ op'[q] = op[q] \/ (~BufferOp(q) /\ ~BufferOp(q)')
                       /\ LoaderOp(q)' => LoaderOp(q)
  BY <1>5, <1>8 DEF BufferOp, LoaderOp, Idle
<1>12. Ops'
  BY <1>1, <1>3, <1>5, <1>7, <1>8 DEF Up, Ops, LoaderOp, BufferOp
<1>13. mm'.pde = mm.pde /\ mm'.pt = mm.pt /\ \A i : BufferPage(mm', i) = BufferPage(mm, i)
  BY <1>1, <1>8, <1>9, WalkedKeeps DEF Walked
<1>14. Buffers'
  BY <1>1, <1>7, <1>11, <1>13, BuffersSame DEF Up, TypeInv
<1>15. ASSUME PagesInOrder PROVE PagesInOrder'
  BY <1>7, <1>11, <1>13, <1>15 DEF PagesInOrder
<1> QED
  BY <1>1, <1>7, <1>8, <1>9, <1>10, <1>12, <1>14, <1>15, WalkedStep

-----------------------------------------------------------------------------
(* Steps that map a page *)

\* In g page i of area a of directory d is there, and nothing else changed.
PageAdded(g, d, a, i) ==
    /\ Directories(g, life)
    /\ Entry(g.pde, g.pt, d, a, i) # 0
    /\ \A q \in Pids, b \in Areas, j \in Slots :
          /\ Entry(mm.pde, mm.pt, q, b, j) # 0 => Entry(g.pde, g.pt, q, b, j) # 0
          /\ \/ Entry(g.pde, g.pt, q, b, j) = Entry(mm.pde, mm.pt, q, b, j)
             \/ b = a /\ j = i /\ (q = d \/ a \in Shared)

\* What a mapped page means for the directories and the entries.
LEMMA MappedAdds ==
    ASSUME Up, NEW m, m.pde = mm.pde, m.pt = mm.pt, m.dir \in Pids, life[m.dir] # "none",
           NEW a \in Areas, NEW i \in Slots, NEW g, NEW H, Sound(g, H),
           TablesKept(m, g, a), PageMapped(m, g, a, i)
    PROVE  PageAdded(g, m.dir, a, i)
<1>1. PICK f \in Frames : \A q \in Pids, b \in Areas, j \in Slots :
          Entry(g.pde, g.pt, q, b, j) =
              IF b = a /\ j = i /\ g.pde[q][b] = g.pde[m.dir][a]
              THEN f ELSE Entry(mm.pde, mm.pt, q, b, j)
  <2>1. PICK f \in Frames : \A q \in Pids, b \in Areas, j \in Slots :
           Entry(g.pde, g.pt, q, b, j) =
               IF b = a /\ j = i /\ g.pde[q][b] = g.pde[m.dir][a]
               THEN f ELSE Entry(m.pde, m.pt, q, b, j)
    BY DEF PageMapped
  <2> QED
    BY <2>1
<1>2. f # 0 /\ g.pde[m.dir][a] # 0
  BY FrameNumber DEF PageMapped
<1>3. Entry(g.pde, g.pt, m.dir, a, i) # 0
  BY <1>1, <1>2
<1>4. ASSUME NEW q \in Pids, NEW b \in Areas, NEW j \in Slots
      PROVE  /\ Entry(mm.pde, mm.pt, q, b, j) # 0 => Entry(g.pde, g.pt, q, b, j) # 0
             /\ \/ Entry(g.pde, g.pt, q, b, j) = Entry(mm.pde, mm.pt, q, b, j)
                \/ b = a /\ j = i /\ (q = m.dir \/ a \in Shared)
  <2>1. CASE b = a /\ j = i /\ g.pde[q][b] = g.pde[m.dir][a]
    <3>1. q = m.dir \/ a \in Shared
      BY <1>2, <2>1 DEF Sound, Tidy, TablesOnce
    <3> QED
      BY <1>1, <1>2, <2>1, <3>1
  <2>2. CASE ~(b = a /\ j = i /\ g.pde[q][b] = g.pde[m.dir][a])
    BY <1>1, <2>2
  <2> QED
    BY <2>1, <2>2
<1>5. Directories(g, life)
  <2>1. Directories(mm, life) /\ {"kernel", "buffer"} \subseteq Areas
    BY DEF Up, Areas, Shared
  <2>2. /\ g.dir = m.dir
        /\ \A q \in Pids, b \in Areas :
              mm.pde[q][b] # 0 \/ q # m.dir \/ b # a => g.pde[q][b] = mm.pde[q][b]
    BY DEF TablesKept
  <2>3. \A q \in Pids : life[q] = "none" => \A b \in Areas : g.pde[q][b] = 0
    BY <2>1, <2>2 DEF Directories
  <2>4. \A q \in Pids : life[q] # "none" => /\ g.pde[q]["kernel"] = mm.pde[q]["kernel"]
                                            /\ g.pde[q]["buffer"] = mm.pde[q]["buffer"]
    BY <2>1, <2>2 DEF Directories
  <2> QED
    BY <2>1, <2>2, <2>3, <2>4, Numbers DEF Directories
<1> QED
  BY <1>3, <1>4, <1>5 DEF PageAdded

\* While there was no race, a process outside a temporary mapping that is about
\* to use it finds it free.
LEMMA TempMapIsFree ==
    ASSUME TempMapping, NEW p \in Pids, op[p].at = 0, NoteRace(p), ~raced'
    PROVE  /\ ~raced
           /\ \A q \in Pids : ~InTempMap(q)
           /\ mm.target = 0 /\ mm.used = FALSE
<1>1. ~raced /\ \A q \in Pids \ {p} : ~InTempMap(q)
  BY DEF NoteRace
<1>2. ~InTempMap(p)
  BY DEF InTempMap
<1> QED
  BY <1>1, <1>2 DEF TempMapping

\* Nobody uses the temporary mapping and it is free.
LEMMA TempMapStaysFree ==
    ASSUME mm'.target = 0, mm'.used = FALSE,
           ~raced' => \A q \in Pids : ~InTempMap(q)'
    PROVE  TempMapping'
<1>1. \A q \in Pids : Half(q)' => InTempMap(q)'
  BY DEF Half, InTempMap
<1> QED
  BY <1>1 DEF TempMapping

\* A step that maps page i of area a in directory d, or fails to.
LEMMA FillStep ==
    ASSUME MemInv, Running, NEW p \in Pids, op[p].at = 0, NoteRace(p), Outside, life' = life,
           NEW m, m.pde = mm.pde, m.pt = mm.pt, m.used = mm.used,
           m.dir \in Pids, life[m.dir] # "none",
           NEW a \in Areas, NEW i \in Slots, NEW g, mm' = g, Sound(g, Halves),
           TablesKept(m, g, a),
           PageMapped(m, g, a, i) \/ MapFails(m, g, a, i) \/ (g.fault # "" /\ ~Quiet'),
           Quiet' => Quiet,
           Up /\ PagesInOrder /\ Quiet' => Entry(mm.pde, mm.pt, m.dir, a, i) = 0,
           Up => TypeInv' /\ Ops',
           Up /\ PageAdded(g, m.dir, a, i) => Buffers',
           Up /\ PageAdded(g, m.dir, a, i) /\ PagesInOrder /\ Quiet' => PagesInOrder'
    PROVE  MemInv'
<1>1. Up /\ Halves' = Halves /\ TempMapping
  <2>1. Up
    BY DEF MemInv
  <2>2. TempMapping
    BY <2>1 DEF Up
  <2>3. Halves' = Halves
    <3>1. \A q \in Pids : op'[q] = op[q] \/ (op[q].at = 0 /\ op'[q].at = 0)
      BY DEF Outside
    <3>2. \A q \in Pids : op'[q] = op[q] \/ (~Half(q) /\ ~Half(q)')
      BY ONLY <3>1 DEF Half
    <3> QED
      BY ONLY <3>2, SameHalves
  <2> QED
    BY <2>1, <2>2, <2>3
<1>2. Sound(mm, Halves)'
  BY <1>1
<1>3. PrivateTables'
  BY DEF Sound, Tidy, TablesOnce, PrivateTables
<1>4. Quiet' => mm'.fault \in Stops
  <2> SUFFICES ASSUME Quiet' PROVE g.fault \in Stops
    OBVIOUS
  <2>1. PagesInOrder /\ ~raced'
    BY DEF MemInv, Quiet
  <2>2. Entry(mm.pde, mm.pt, m.dir, a, i) = 0
    BY <1>1, <2>1
  <2>3. mm.used = FALSE
    BY <1>1, <2>1, TempMapIsFree
  <2> QED
    BY <2>2, <2>3 DEF PageMapped, MapFails, Stops
<1>5. ASSUME Running'
      PROVE  Up' /\ (Quiet' => PagesInOrder')
  <2>1. PageMapped(m, g, a, i)
    BY <1>5 DEF MapFails, Running
  <2>2. PageAdded(g, m.dir, a, i)
    BY <1>1, <2>1, MappedAdds
  <2>3. Directories(mm, life)'
    BY <2>2 DEF PageAdded
  <2>4. TempMapping'
    <3>1. mm'.target = 0 /\ mm'.used = FALSE
      BY <2>1 DEF PageMapped
    <3>2. ASSUME ~raced', NEW q \in Pids PROVE ~InTempMap(q)'
      <4>1. ~InTempMap(q)
        BY <1>1, <3>2, TempMapIsFree
      <4>2. op'[q] = op[q] \/ op'[q].at = 0
        BY DEF Outside
      <4> QED
        BY ONLY <4>1, <4>2 DEF InTempMap
    <3> QED
      BY <3>1, <3>2, TempMapStaysFree
  <2>5. Up'
    BY <1>1, <1>2, <2>2, <2>3, <2>4 DEF Up
  <2>6. ASSUME Quiet' PROVE PagesInOrder'
    BY <1>1, <2>2, <2>6 DEF MemInv
  <2> QED
    BY <2>5, <2>6
<1> QED
  BY <1>3, <1>4, <1>5 DEF MemInv

\* A page of an area that is not of buffers leaves the buffers alone.
LEMMA OtherPage ==
    ASSUME Up, NEW g, mm' = g, NEW d \in Pids, NEW a \in Areas, NEW i \in Slots,
           PageAdded(g, d, a, i), a # "buffer",
           bits' = bits, bufs' = bufs,
           \A q \in Pids : op'[q] = op[q] \/ (~BufferOp(q) /\ ~BufferOp(q)')
    PROVE  Buffers'
<1>1. "buffer" \in Areas /\ 1 \in Pids
  BY Numbers DEF Areas, Shared
<1>2. \A j \in Slots : BufferPage(g, j) = BufferPage(mm, j)
  BY <1>1 DEF PageAdded, BufferPage
<1>3. Ops /\ Buffers /\ bufs \subseteq Slots
  BY DEF Up, TypeInv
<1>4. \A j \in Slots : BufferPage(mm', j) = BufferPage(mm, j)
  BY <1>2
<1> QED
  BY <1>3, <1>4, BuffersSame

\* The processes do what they did.
LEMMA SameOps ==
    ASSUME op' = op, life' = life
    PROVE  /\ Outside
           /\ \A q \in Pids : op'[q] = op[q] \/ (~BufferOp(q) /\ ~BufferOp(q)')
           /\ \A q \in Pids : LoaderOp(q)' <=> LoaderOp(q)
BY DEF Outside, LoaderOp

\* A process in a system call, or with nothing in hand, is outside of a
\* temporary mapping.
LEMMA IdleOutside ==
    ASSUME Up, NEW p \in Pids, life[p] = "user" \/ op[p] = Idle
    PROVE  op[p] = Idle /\ op[p].at = 0 /\ ~LoaderOp(p) /\ ~BufferOp(p)
<1>1. op[p] = Idle
  BY DEF Up, Ops
<1> QED
  BY <1>1, IdleFields DEF LoaderOp, BufferOp

\* AllocatePage.
LEMMA SysAllocatePageStep ==
    ASSUME MemInv, NEW p \in Pids, SysAllocatePage(p)
    PROVE  MemInv'
<1>1. Up /\ Running /\ life[p] = "user" /\ upages[p] < PerTable /\ NoteRace(p)
  BY DEF MemInv, SysAllocatePage, InUser
<1>2. UNCHANGED <<life, op, kpages, dirs, bits, big_lock, bufs, shm, next_shm, astray, clashed>>
  BY DEF SysAllocatePage
<1>3. PICK m, g, i : m = the(mm, p) /\ g = mm' /\ i = upages[p] + 1
  OBVIOUS
<1>4. /\ Sound(m, Halves) /\ m.dir = p /\ m.pde = mm.pde /\ m.pt = mm.pt
      /\ m.used = mm.used /\ m.fault = ""
  BY <1>1, <1>3, TheFields DEF Up, Running
<1>5. /\ upages \in [Pids -> 0..PerTable] /\ i \in Slots
      /\ upages' = [upages EXCEPT ![p] = i]
  <2>1. upages \in [Pids -> 0..PerTable]
    BY <1>1 DEF Up, TypeInv
  <2>2. i \in Slots
    BY <1>1, <1>3, <2>1, Numbers DEF Slots
  <2>3. upages' = [upages EXCEPT ![p] = i]
    BY <1>3, <2>1 DEF SysAllocatePage
  <2> QED
    BY <2>1, <2>2, <2>3
<1>6. /\ upages' \in [Pids -> 0..PerTable]
      /\ \A q \in Pids : upages'[q] = IF q = p THEN i ELSE upages[q]
  <2>1. i \in 0..PerTable
    BY <1>5, Numbers DEF Slots
  <2> QED
    BY ONLY <1>5, <2>1, p \in Pids
<1>7. "user" \in Areas /\ "user" # "buffer" /\ "user" \notin Shared
  BY DEF Areas, Shared
<1>8. Mapped(m, g, "user", i, Halves)
  <2>1. g = allocate(m, "user", i)
    BY <1>3 DEF SysAllocatePage
  <2>2. Mapped(m, allocate(m, "user", i), "user", i, Halves)
    BY <1>4, <1>5, <1>7, AllocatePage
  <2> QED
    BY <2>1, <2>2
<1>9. op[p].at = 0 /\ Outside
  BY <1>1, <1>2, IdleOutside, SameOps
<1>10. Quiet' => Quiet
  BY <1>1, <1>2 DEF Quiet, NoteRace
<1>11. PagesInOrder => Entry(mm.pde, mm.pt, p, "user", i) = 0
  <2>1. ~(i <= upages[p])
    BY <1>1, <1>3, <1>5
  <2> QED
    BY <1>5, <2>1 DEF PagesInOrder
<1>12. TypeInv' /\ Ops'
  <2>1. TypeInv'
    BY <1>1, <1>2, <1>6 DEF Up, TypeInv, NoteRace
  <2>2. \A q \in Pids : LoaderOp(q) => upages'[q] = upages[q]
    BY <1>1, <1>6, IdleOutside
  <2>3. Ops'
    BY <1>1, <1>2, <2>2 DEF Up, Ops, LoaderOp, BufferOp
  <2> QED
    BY <2>1, <2>3
<1>13. PageAdded(g, p, "user", i) => Buffers'
  BY <1>1, <1>2, <1>3, <1>5, <1>7, OtherPage
<1>14. ASSUME PageAdded(g, p, "user", i), PagesInOrder
       PROVE  PagesInOrder'
  <2>1. \A j \in Slots : Entry(g.pde, g.pt, 1, "kernel", j) # 0 => j <= kpages
    <3>1. 1 \in Pids /\ "kernel" \in Areas
      BY Numbers DEF Areas, Shared
    <3> QED
      BY <1>14, <3>1 DEF PageAdded, PagesInOrder
  <2>2. \A q \in Pids, j \in Slots : Entry(g.pde, g.pt, q, "shm", j) # 0 => j < next_shm[q]
    <3>1. "shm" \in Areas
      BY DEF Areas
    <3> QED
      BY <1>14, <3>1 DEF PageAdded, PagesInOrder
  <2>3. ASSUME NEW q \in Pids, NEW j \in Slots, Entry(g.pde, g.pt, q, "user", j) # 0
        PROVE  j <= upages'[q] /\ ~LoaderOp(q)
    <3>1. CASE q = p
      <4>1. j <= upages[p] \/ j = i
        BY <1>7, <1>14, <2>3, <3>1 DEF PageAdded, PagesInOrder
      <4>2. upages[p] \in Nat /\ j \in Nat
        BY <1>5, Numbers DEF Slots
      <4>3. j <= i
        BY ONLY <1>3, <4>1, <4>2
      <4> QED
        BY <1>1, <1>6, <3>1, <4>3, IdleOutside
    <3>2. CASE q # p
      BY <1>6, <1>7, <1>14, <2>3, <3>2 DEF PageAdded, PagesInOrder
    <3> QED
      BY <3>1, <3>2
  <2>4. \A e \in shm : Entry(g.pde, g.pt, e.pid, "shm", e.page) # 0
    <3>1. "shm" \in Areas /\ \A e \in shm : e.pid \in Pids /\ e.page \in Slots
      BY <1>1 DEF Areas, Up, TypeInv
    <3> QED
      BY <1>14, <3>1 DEF PageAdded, PagesInOrder
  <2> QED
    BY <1>2, <1>3, <2>1, <2>2, <2>3, <2>4 DEF PagesInOrder, LoaderOp
<1>15. /\ Sound(g, Halves) /\ TablesKept(m, g, "user")
       /\ PageMapped(m, g, "user", i) \/ MapFails(m, g, "user", i)
  BY <1>8 DEF Mapped
<1> QED
  BY <1>1, <1>2, <1>3, <1>4, <1>5, <1>7, <1>9, <1>10, <1>11, <1>12, <1>13, <1>14, <1>15, FillStep

\* A page that was asked for in order, or a page of a buffer.
LEMMA AddedInOrder ==
    ASSUME Up, PagesInOrder, NEW g, mm' = g, NEW d \in Pids, NEW a \in Areas, NEW i \in Slots,
           PageAdded(g, d, a, i),
           kpages' \in Nat, kpages' >= kpages, upages' = upages,
           \A q \in Pids : next_shm'[q] \in Nat /\ next_shm'[q] >= next_shm[q],
           \A q \in Pids : LoaderOp(q)' => LoaderOp(q),
           a = "kernel" => i <= kpages',
           a = "user" => i <= upages[d] /\ ~LoaderOp(d)',
           a = "shm" => i < next_shm'[d],
           \A e \in shm' : e \in shm \/ (e.pid = d /\ e.page = i /\ a = "shm")
    PROVE  PagesInOrder'
<1>1. {"kernel", "user", "shm"} \subseteq Areas /\ 1 \in Pids /\ "user" \notin Shared /\ "shm" \notin Shared
  BY Numbers DEF Areas, Shared
<1>2. /\ kpages \in Nat /\ Slots \subseteq Nat
      /\ \A q \in Pids : next_shm[q] \in Nat
      /\ \A e \in shm : e.pid \in Pids /\ e.page \in Slots
  <2>1. next_shm \in [Pids -> 1..(PerTable + 1)] /\ PerTable \in Nat
    BY Numbers DEF Up, TypeInv
  <2>2. \A q \in Pids : next_shm[q] \in Nat
    BY ONLY <2>1
  <2>3. Slots \subseteq Nat
    BY ONLY DEF Slots
  <2> QED
    BY <2>2, <2>3 DEF Up, TypeInv
<1>3. \A q \in Pids, b \in Areas, j \in Slots :
         /\ Entry(mm.pde, mm.pt, q, b, j) # 0 => Entry(g.pde, g.pt, q, b, j) # 0
         /\ \/ Entry(g.pde, g.pt, q, b, j) = Entry(mm.pde, mm.pt, q, b, j)
            \/ b = a /\ j = i /\ (q = d \/ a \in Shared)
  BY DEF PageAdded
<1>4. ASSUME NEW j \in Slots, Entry(g.pde, g.pt, 1, "kernel", j) # 0
      PROVE  j <= kpages'
  <2>1. j <= kpages \/ j <= kpages'
    BY <1>1, <1>3, <1>4 DEF PagesInOrder
  <2> QED
    BY ONLY <1>2, <2>1, j \in Slots, kpages' \in Nat, kpages' >= kpages
<1>5. ASSUME NEW q \in Pids, NEW j \in Slots, Entry(g.pde, g.pt, q, "user", j) # 0
      PROVE  j <= upages'[q] /\ ~LoaderOp(q)'
  BY <1>1, <1>3, <1>5 DEF PagesInOrder
<1>6. ASSUME NEW q \in Pids, NEW j \in Slots, Entry(g.pde, g.pt, q, "shm", j) # 0
      PROVE  j < next_shm'[q]
  <2>1. j < next_shm[q] \/ j < next_shm'[q]
    BY <1>1, <1>3, <1>6 DEF PagesInOrder
  <2>2. next_shm'[q] \in Nat /\ next_shm'[q] >= next_shm[q] /\ next_shm[q] \in Nat /\ j \in Nat
    BY <1>2
  <2> QED
    BY ONLY <2>1, <2>2
<1>7. ASSUME NEW e \in shm' PROVE Entry(g.pde, g.pt, e.pid, "shm", e.page) # 0
  <2>1. CASE e \in shm
    BY <1>1, <1>2, <1>3, <2>1 DEF PagesInOrder
  <2>2. CASE e.pid = d /\ e.page = i /\ a = "shm"
    BY <2>2 DEF PageAdded
  <2> QED
    BY <2>1, <2>2
<1> QED
  BY <1>4, <1>5, <1>6, <1>7 DEF PagesInOrder

\* The kernel's next page is one of its first table, or of the late one.
LEMMA KernelPlace ==
    ASSUME kpages \in Nat, kpages <= PerTable
    PROVE  /\ KernelArea(kpages + 1) \in {"kernel", "late"}
           /\ KernelSlot(kpages + 1) \in Slots
           /\ kpages + 1 <= PerTable => /\ KernelArea(kpages + 1) = "kernel"
                                        /\ KernelSlot(kpages + 1) = kpages + 1
<1>1. CASE kpages + 1 <= PerTable
  BY <1>1, Numbers DEF KernelArea, KernelSlot, Slots
<1>2. CASE ~(kpages + 1 <= PerTable)
  <2>1. kpages + 1 - PerTable = 1
    BY <1>2, Numbers
  <2> QED
    BY <1>2, <2>1, Numbers DEF KernelArea, KernelSlot
<1> QED
  BY <1>1, <1>2

\* The kernel's pages are the same in all directories.
LEMMA KernelShared ==
    ASSUME Directories(mm, life), NEW d \in Pids, life[d] # "none", NEW b \in {"kernel", "buffer"}, NEW i
    PROVE  Entry(mm.pde, mm.pt, d, b, i) = Entry(mm.pde, mm.pt, 1, b, i)
BY DEF Directories, Entry

\* The heap grows.
LEMMA GrowHeapStep ==
    ASSUME MemInv, NEW p \in Pids, GrowHeap(p)
    PROVE  MemInv'
<1>1. /\ Up /\ Running /\ life[p] = "kernel" /\ op[p] = Idle /\ NoteRace(p)
      /\ kpages <= PerTable /\ kpages' = kpages + 1
  BY DEF MemInv, GrowHeap, InKernel
<1>2. UNCHANGED <<life, op, upages, dirs, bits, big_lock, bufs, shm, next_shm, astray, clashed>>
  BY DEF GrowHeap
<1>3. PICK m, g, a, i : /\ m = the(mm, p) /\ g = mm'
                        /\ a = KernelArea(kpages + 1) /\ i = KernelSlot(kpages + 1)
  OBVIOUS
<1>4. /\ Sound(m, Halves) /\ m.dir = p /\ m.pde = mm.pde /\ m.pt = mm.pt
      /\ m.used = mm.used /\ m.fault = ""
  BY <1>1, <1>3, TheFields DEF Up, Running
<1>5. kpages \in Nat \ {0}
  BY <1>1 DEF Up, TypeInv
<1>6. /\ a \in {"kernel", "late"} /\ i \in Slots
      /\ kpages' <= PerTable => a = "kernel" /\ i = kpages'
  BY <1>1, <1>3, <1>5, KernelPlace
<1>7. a \in Areas /\ a \notin {"buffer", "user", "shm"}
  BY <1>6 DEF Areas, Shared
<1>8. Mapped(m, g, a, i, Halves)
  <2>1. g = allocate(m, a, i)
    BY <1>3 DEF GrowHeap, KernelPage
  <2>2. Mapped(m, allocate(m, a, i), a, i, Halves)
    BY <1>4, <1>6, <1>7, AllocatePage
  <2> QED
    BY <2>1, <2>2
<1>9. op[p].at = 0 /\ Outside
  BY <1>1, <1>2, IdleOutside, SameOps
<1>10. Quiet' => Quiet /\ kpages' <= PerTable
  <2>1. kpages' <= PerTable => kpages <= PerTable
    BY <1>1
  <2> QED
    BY <1>1, <1>2, <2>1 DEF Quiet, NoteRace
<1>11. PagesInOrder /\ Quiet' => Entry(mm.pde, mm.pt, p, a, i) = 0
  <2> SUFFICES ASSUME PagesInOrder, Quiet' PROVE Entry(mm.pde, mm.pt, p, a, i) = 0
    OBVIOUS
  <2>1. a = "kernel" /\ i = kpages'
    BY <1>6, <1>10
  <2>2. ~(i <= kpages)
    BY <1>1, <1>5, <2>1
  <2>3. Entry(mm.pde, mm.pt, 1, "kernel", i) = 0
    BY <1>6, <2>2 DEF PagesInOrder
  <2> QED
    BY <1>1, <2>1, <2>3, KernelShared DEF Up
<1>12. TypeInv' /\ Ops'
  <2>1. kpages' \in Nat \ {0}
    BY <1>1, <1>5
  <2> QED
    BY <1>1, <1>2, <2>1 DEF Up, TypeInv, NoteRace, Ops, LoaderOp, BufferOp
<1>13. PageAdded(g, p, a, i) => Buffers'
  BY <1>1, <1>2, <1>3, <1>6, <1>7, OtherPage
<1>14. PageAdded(g, p, a, i) /\ PagesInOrder /\ Quiet' => PagesInOrder'
  <2> SUFFICES ASSUME PageAdded(g, p, a, i), PagesInOrder, Quiet' PROVE PagesInOrder'
    OBVIOUS
  <2>1. kpages' \in Nat /\ kpages' >= kpages /\ i <= kpages'
    BY <1>1, <1>5, <1>6, <1>10
  <2>2. \A q \in Pids : next_shm'[q] \in Nat /\ next_shm'[q] >= next_shm[q]
    <3>1. next_shm' = next_shm /\ next_shm \in [Pids -> 1..(PerTable + 1)]
      BY <1>1, <1>2 DEF Up, TypeInv
    <3> QED
      BY ONLY <3>1, Numbers
  <2>3. \A q \in Pids : LoaderOp(q)' => LoaderOp(q)
    BY <1>2 DEF LoaderOp
  <2> QED
    BY <1>1, <1>2, <1>3, <1>6, <1>7, <2>1, <2>2, <2>3, AddedInOrder
<1>15. /\ Sound(g, Halves) /\ TablesKept(m, g, a)
       /\ PageMapped(m, g, a, i) \/ MapFails(m, g, a, i)
  BY <1>8 DEF Mapped
<1> QED
  BY <1>1, <1>2, <1>3, <1>4, <1>6, <1>7, <1>9, <1>10, <1>11, <1>12, <1>13, <1>14, <1>15, FillStep

\* Numbers of pages of shared memory.
LEMMA NextShm ==
    ASSUME TypeInv, NEW p \in Pids, next_shm[p] <= PerTable
    PROVE  /\ next_shm[p] \in Slots
           /\ [next_shm EXCEPT ![p] = @ + 1] \in [Pids -> 1..(PerTable + 1)]
           /\ \A q \in Pids : /\ next_shm[q] \in Nat
                              /\ [next_shm EXCEPT ![p] = @ + 1][q] =
                                    IF q = p THEN next_shm[p] + 1 ELSE next_shm[q]
<1>1. next_shm \in [Pids -> 1..(PerTable + 1)] /\ PerTable \in Nat
  BY Numbers DEF TypeInv
<1>2. next_shm[p] \in Slots /\ next_shm[p] + 1 \in 1..(PerTable + 1)
  BY <1>1 DEF Slots
<1> QED
  BY ONLY <1>1, <1>2, p \in Pids

\* CreateSharedMemory.
LEMMA CreateSharedMemoryStep ==
    ASSUME MemInv, NEW p \in Pids, NEW guid \in Guids, CreateSharedMemory(p, guid)
    PROVE  MemInv'
<1>1. Up /\ Running /\ life[p] = "user" /\ next_shm[p] < MaxShm /\ NoteRace(p)
  BY DEF MemInv, CreateSharedMemory, InUser
<1>2. UNCHANGED <<life, op, kpages, upages, dirs, bits, big_lock, bufs, astray>>
  BY DEF CreateSharedMemory
<1>3. PICK m, g, i : m = the(mm, p) /\ g = mm' /\ i = next_shm[p]
  OBVIOUS
<1>4. /\ Sound(m, Halves) /\ m.dir = p /\ m.pde = mm.pde /\ m.pt = mm.pt
      /\ m.used = mm.used /\ m.fault = ""
  BY <1>1, <1>3, TheFields DEF Up, Running
<1>5. TypeInv /\ next_shm[p] <= PerTable
  <2>1. next_shm \in [Pids -> 1..(PerTable + 1)]
    BY <1>1 DEF Up, TypeInv
  <2>2. next_shm[p] \in Nat
    BY ONLY <2>1, Numbers, p \in Pids
  <2> QED
    BY <1>1, <2>2, Numbers DEF Up
<1>6. i \in Slots /\ \A q \in Pids : next_shm[q] \in Nat
  BY <1>3, <1>5, NextShm
<1>7. \/ clashed' = TRUE /\ shm' = shm /\ next_shm' = next_shm
      \/ /\ clashed' = clashed
         /\ shm' = shm \cup {[guid |-> guid, pid |-> p, page |-> i]}
         /\ next_shm' = [next_shm EXCEPT ![p] = @ + 1]
  <2>1. CASE register_fails(guid)
    BY <2>1 DEF CreateSharedMemory
  <2>2. CASE ~register_fails(guid)
    BY <1>3, <2>2 DEF CreateSharedMemory
  <2> QED
    BY <2>1, <2>2
<1>8. "shm" \in Areas /\ "shm" \notin Shared /\ "shm" \notin {"buffer", "kernel", "user"}
  BY DEF Areas, Shared
<1>9. Mapped(m, g, "shm", i, Halves)
  <2>1. g = allocate(m, "shm", i)
    BY <1>3 DEF CreateSharedMemory
  <2>2. Mapped(m, allocate(m, "shm", i), "shm", i, Halves)
    BY <1>4, <1>6, <1>8, AllocatePage
  <2> QED
    BY <2>1, <2>2
<1>10. op[p].at = 0 /\ Outside
  BY <1>1, <1>2, IdleOutside, SameOps
<1>11. Quiet' => Quiet /\ ~clashed'
  <2>1. clashed => clashed'
    BY <1>7
  <2>2. raced => raced'
    BY <1>1 DEF NoteRace
  <2> QED
    BY <1>2, <2>1, <2>2 DEF Quiet
<1>12. PagesInOrder => Entry(mm.pde, mm.pt, p, "shm", i) = 0
  <2>1. ~(i < next_shm[p])
    BY <1>3, <1>6
  <2> QED
    BY <1>6, <2>1 DEF PagesInOrder
<1>13. /\ next_shm' \in [Pids -> 1..(PerTable + 1)]
       /\ \A q \in Pids : next_shm'[q] \in Nat /\ next_shm'[q] >= next_shm[q]
  <2>1. CASE next_shm' = next_shm
    BY <1>5, <1>6, <2>1 DEF TypeInv
  <2>2. CASE next_shm' = [next_shm EXCEPT ![p] = @ + 1]
    <3>1. /\ next_shm' \in [Pids -> 1..(PerTable + 1)]
          /\ \A q \in Pids : /\ next_shm[q] \in Nat
                             /\ next_shm'[q] = IF q = p THEN next_shm[p] + 1 ELSE next_shm[q]
      BY <1>5, <2>2, NextShm
    <3> QED
      BY ONLY <3>1, p \in Pids
  <2> QED
    BY <1>7, <2>1, <2>2
<1>14. TypeInv' /\ Ops'
  <2>1. \A e \in shm' : e.pid \in Pids /\ e.page \in Slots
    BY <1>5, <1>6, <1>7 DEF TypeInv
  <2>2. raced' \in BOOLEAN /\ clashed' \in BOOLEAN
    BY <1>1, <1>5, <1>7 DEF TypeInv, NoteRace
  <2> QED
    BY <1>1, <1>2, <1>13, <2>1, <2>2 DEF Up, TypeInv, Ops, LoaderOp, BufferOp
<1>15. PageAdded(g, p, "shm", i) => Buffers'
  BY <1>1, <1>2, <1>3, <1>6, <1>8, OtherPage
<1>16. PageAdded(g, p, "shm", i) /\ PagesInOrder /\ Quiet' => PagesInOrder'
  <2> SUFFICES ASSUME PageAdded(g, p, "shm", i), PagesInOrder, Quiet' PROVE PagesInOrder'
    OBVIOUS
  <2>1. /\ shm' = shm \cup {[guid |-> guid, pid |-> p, page |-> i]}
        /\ next_shm' = [next_shm EXCEPT ![p] = @ + 1]
    <3>1. ~clashed'
      BY <1>11
    <3> QED
      BY <1>7, <3>1
  <2>2. i < next_shm'[p]
    <3>1. next_shm'[p] = next_shm[p] + 1 /\ next_shm[p] \in Nat
      BY <1>5, <2>1, NextShm
    <3> QED
      BY <1>3, <3>1
  <2>3. \A e \in shm' : e \in shm \/ (e.pid = p /\ e.page = i)
    BY <2>1
  <2>4. \A q \in Pids : LoaderOp(q)' => LoaderOp(q)
    BY <1>2 DEF LoaderOp
  <2>5. kpages' \in Nat /\ kpages' >= kpages
    BY <1>2, <1>5 DEF TypeInv
  <2> QED
    BY <1>1, <1>2, <1>3, <1>6, <1>8, <1>13, <2>2, <2>3, <2>4, <2>5, AddedInOrder
<1>17. /\ Sound(g, Halves) /\ TablesKept(m, g, "shm")
       /\ PageMapped(m, g, "shm", i) \/ MapFails(m, g, "shm", i)
  BY <1>9 DEF Mapped
<1> QED
  BY <1>1, <1>2, <1>3, <1>4, <1>6, <1>8, <1>10, <1>11, <1>12, <1>14, <1>15, <1>16, <1>17, FillStep

\* OpenSharedMemory.
LEMMA OpenSharedMemoryStep ==
    ASSUME MemInv, NEW p \in Pids, NEW guid \in Guids, OpenSharedMemory(p, guid)
    PROVE  MemInv'
<1>1. Up /\ Running /\ life[p] = "user" /\ NoteRace(p) /\ TypeInv
  BY DEF MemInv, OpenSharedMemory, InUser, Up
<1>2. UNCHANGED <<life, op, kpages, upages, dirs, bits, big_lock, bufs, shm, astray, clashed>>
  BY DEF OpenSharedMemory
<1>3. PICK e \in shm : /\ next_shm[p] <= PerTable
                       /\ mm' = duplicate(the(mm, p), e.pid, e.page, next_shm[p])
                       /\ next_shm' = [next_shm EXCEPT ![p] = @ + 1]
  BY DEF OpenSharedMemory, shm_get
<1>4. PICK m, g, i : m = the(mm, p) /\ g = mm' /\ i = next_shm[p]
  OBVIOUS
<1>5. /\ Sound(m, Halves) /\ m.dir = p /\ m.pde = mm.pde /\ m.pt = mm.pt
      /\ m.used = mm.used /\ m.fault = ""
  BY <1>1, <1>4, TheFields DEF Up, Running
<1>6. e.pid \in Pids /\ e.page \in Slots
  BY <1>1 DEF TypeInv
<1>7. /\ i \in Slots
      /\ next_shm' \in [Pids -> 1..(PerTable + 1)]
      /\ \A q \in Pids : /\ next_shm[q] \in Nat
                         /\ next_shm'[q] = IF q = p THEN next_shm[p] + 1 ELSE next_shm[q]
  BY <1>1, <1>3, <1>4, NextShm
<1>8. "shm" \in Areas /\ "shm" \notin Shared /\ "shm" \notin {"buffer", "kernel", "user"}
  BY DEF Areas, Shared
<1>9. Duplicated(m, g, e.pid, e.page, i, Halves)
  <2>1. g = duplicate(m, e.pid, e.page, i)
    BY <1>3, <1>4
  <2>2. Duplicated(m, duplicate(m, e.pid, e.page, i), e.pid, e.page, i, Halves)
    BY <1>5, <1>6, <1>7, DuplicatePage
  <2> QED
    BY <2>1, <2>2
<1>10. op[p].at = 0 /\ Outside
  BY <1>1, <1>2, IdleOutside, SameOps
<1>11. Quiet' => Quiet
  BY <1>1, <1>2 DEF Quiet, NoteRace
<1>12. PagesInOrder => Entry(mm.pde, mm.pt, p, "shm", i) = 0
  <2>1. ~(i < next_shm[p])
    BY <1>4, <1>7
  <2> QED
    BY <1>7, <2>1 DEF PagesInOrder
<1>13. /\ Sound(g, Halves) /\ TablesKept(m, g, "shm")
       /\ PageMapped(m, g, "shm", i) \/ MapFails(m, g, "shm", i) \/ (g.fault # "" /\ ~Quiet')
  <2>1. CASE g.fault \in {"no table", "not present"} /\ Entry(m.pde, m.pt, e.pid, "shm", e.page) = 0
    <3>1. ~PagesInOrder
      BY <1>5, <2>1 DEF PagesInOrder
    <3>2. ~Quiet'
      BY <1>1, <1>11, <3>1 DEF MemInv
    <3> QED
      BY <1>9, <2>1, <3>2 DEF Duplicated
  <2> QED
    BY <1>9, <2>1 DEF Duplicated
<1>14. TypeInv' /\ Ops'
  <2>1. raced' \in BOOLEAN
    BY <1>1 DEF TypeInv, NoteRace
  <2> QED
    BY <1>1, <1>2, <1>7, <2>1 DEF Up, TypeInv, Ops, LoaderOp, BufferOp
<1>15. PageAdded(g, p, "shm", i) => Buffers'
  BY <1>1, <1>2, <1>4, <1>7, <1>8, OtherPage
<1>16. PageAdded(g, p, "shm", i) /\ PagesInOrder => PagesInOrder'
  <2> SUFFICES ASSUME PageAdded(g, p, "shm", i), PagesInOrder PROVE PagesInOrder'
    OBVIOUS
  <2>1. i < next_shm'[p]
    BY <1>4, <1>7
  <2>2. \A q \in Pids : next_shm'[q] \in Nat /\ next_shm'[q] >= next_shm[q]
    BY <1>7
  <2>3. \A q \in Pids : LoaderOp(q)' => LoaderOp(q)
    BY <1>2 DEF LoaderOp
  <2>4. kpages' \in Nat /\ kpages' >= kpages
    BY <1>1, <1>2 DEF TypeInv
  <2> QED
    BY <1>1, <1>2, <1>4, <1>7, <1>8, <2>1, <2>2, <2>3, <2>4, AddedInOrder
<1> QED
  BY <1>1, <1>2, <1>4, <1>5, <1>7, <1>8, <1>10, <1>11, <1>12, <1>13, <1>14, <1>15, <1>16, FillStep

\* What p allocates for, when it is the loader or BigBuffer.
LEMMA AllocateOp ==
    ASSUME Up, NEW p \in Pids, op[p].k = "alloc"
    PROVE  /\ op[p].at = 0 /\ op[p].page \in Slots
           /\ \/ op[p].area = "user" /\ LoaderOp(p) /\ ~BufferOp(p) /\ op[p].page = 1 /\ upages[p] = 1
              \/ op[p].area = "buffer" /\ BufferOp(p) /\ ~LoaderOp(p)
           /\ life[p] # "none" /\ life[p] = "kernel"
<1>1. /\ op[p].at = 0 /\ op[p].page \in Slots /\ (LoaderOp(p) \/ BufferOp(p))
      /\ LoaderOp(p) => op[p].page = 1 /\ upages[p] = 1
      /\ life[p] # "kernel" => op[p] = Idle
  BY DEF Up, Ops
<1>2. op[p] # Idle
  BY IdleFields
<1> QED
  BY <1>1, <1>2 DEF LoaderOp, BufferOp

\* allocate for the loader or for a buffer.
LEMMA AllocateStep ==
    ASSUME MemInv, NEW p \in Pids, Allocate(p)
    PROVE  MemInv'
<1>1. Up /\ Running /\ NoteRace(p) /\ op[p].k = "alloc" /\ TypeInv
  BY DEF MemInv, Allocate, InKernel, Up
<1>2. UNCHANGED <<life, kpages, upages, dirs, bits, shm, next_shm, clashed>>
  BY DEF Allocate
<1>3. PICK g, a, i : g = mm' /\ a = op[p].area /\ i = op[p].page
  OBVIOUS
<1>4. /\ op[p].at = 0 /\ i \in Slots
      /\ \/ a = "user" /\ LoaderOp(p) /\ ~BufferOp(p) /\ i = 1 /\ upages[p] = 1
         \/ a = "buffer" /\ BufferOp(p) /\ ~LoaderOp(p)
  BY <1>1, <1>3, AllocateOp
<1>5. Sound(mm, Halves) /\ mm.dir \in Pids /\ life[mm.dir] # "none" /\ Directories(mm, life)
  BY <1>1 DEF Up, Sound, Typed, Directories
<1>6. a \in Areas /\ a \notin {"kernel", "shm"}
  BY <1>4 DEF Areas, Shared
<1>7. Mapped(mm, g, a, i, Halves)
  <2>1. g = allocate(mm, a, i)
    BY <1>3 DEF Allocate
  <2>2. Mapped(mm, allocate(mm, a, i), a, i, Halves)
    BY <1>1, <1>4, <1>5, <1>6, AllocatePage DEF Running
  <2> QED
    BY <2>1, <2>2
<1>8. /\ op' \in [Pids -> OpType]
      /\ \A q \in Pids : op'[q] = IF q = p THEN Idle ELSE op[q]
  <2>1. op \in [Pids -> OpType] /\ op' = [op EXCEPT ![p] = Idle]
    BY <1>1 DEF TypeInv, Allocate
  <2> QED
    BY <2>1, IdleFields
<1>9. op[p].at = 0 /\ Outside
  BY <1>2, <1>4, <1>8, IdleFields DEF Outside
<1>10. ~BufferOp(p)' /\ ~LoaderOp(p)' /\ \A q \in Pids : LoaderOp(q)' => LoaderOp(q)
  <2>1. op'[p].k = "idle"
    BY <1>8, IdleFields
  <2>2. ~BufferOp(p)' /\ ~LoaderOp(p)'
    BY ONLY <2>1 DEF BufferOp, LoaderOp
  <2>3. ASSUME NEW q \in Pids, LoaderOp(q)' PROVE LoaderOp(q)
    <3>1. q # p
      BY <2>2, <2>3
    <3>2. op'[q] = op[q]
      BY <1>8, <3>1
    <3> QED
      BY ONLY <2>3, <3>2 DEF LoaderOp
  <2> QED
    BY <2>2, <2>3
<1>11. Quiet' => Quiet /\ mm.dir = p
  <2>1. raced => raced'
    BY <1>1 DEF NoteRace
  <2>2. astray' = (astray \/ mm.dir # p)
    BY DEF Allocate
  <2>3. (astray => astray') /\ (mm.dir # p => astray')
    BY ONLY <2>2
  <2> QED
    BY <1>2, <2>1, <2>3 DEF Quiet
<1>12. PagesInOrder /\ Quiet' => Entry(mm.pde, mm.pt, mm.dir, a, i) = 0
  <2> SUFFICES ASSUME PagesInOrder, Quiet' PROVE Entry(mm.pde, mm.pt, mm.dir, a, i) = 0
    OBVIOUS
  <2>1. CASE a = "user" /\ LoaderOp(p)
    BY <1>4, <1>11, <2>1 DEF PagesInOrder
  <2>2. CASE a = "buffer"
    <3>1. BufferPage(mm, i) = 0
      BY <1>1, <1>3, <2>2 DEF Up, Buffers
    <3>2. Entry(mm.pde, mm.pt, mm.dir, "buffer", i) = Entry(mm.pde, mm.pt, 1, "buffer", i)
      BY <1>5, KernelShared
    <3> QED
      BY <2>2, <3>1, <3>2 DEF BufferPage
  <2> QED
    BY <1>4, <2>1, <2>2
<1>13. big_lock' = IF big_lock = p THEN 0 ELSE big_lock
  BY DEF Allocate
<1>14. TypeInv'
  <2>1. raced' \in BOOLEAN /\ astray' \in BOOLEAN
    BY <1>1 DEF TypeInv, NoteRace, Allocate
  <2>2. big_lock' \in 0..MaxPid
    BY <1>1, <1>13, Numbers DEF TypeInv
  <2>3. bufs' \subseteq Slots
    BY <1>1, <1>3, <1>4 DEF TypeInv, Allocate
  <2> QED
    BY <1>1, <1>2, <1>8, <2>1, <2>2, <2>3 DEF TypeInv
<1>15. Ops'
  <2>1. ASSUME NEW q \in Pids, q # p, BufferOp(q)' PROVE big_lock' = q
    <3>1. BufferOp(q)
      BY <1>8, <2>1 DEF BufferOp
    <3>2. big_lock = q
      BY <1>1, <3>1 DEF Up, Ops
    <3> QED
      BY <1>13, <2>1, <3>2
  <2>2. ASSUME NEW q \in Pids, q # p
        PROVE  /\ life'[q] # "kernel" => op'[q] = Idle
               /\ op'[q].k = "idle" => op'[q] = Idle
               /\ op'[q].k \in {"free", "look"} => op'[q].area = "buffer" /\ op'[q].page \in Slots
               /\ op'[q].k = "alloc" => op'[q].at = 0 /\ op'[q].page \in Slots /\ (LoaderOp(q)' \/ BufferOp(q)')
               /\ LoaderOp(q)' => op'[q].page = 1 /\ upages'[q] = 1
    BY <1>1, <1>2, <1>8, <2>2 DEF Up, Ops, LoaderOp, BufferOp
  <2>3. op'[p] = Idle /\ op'[p].k = "idle"
    BY <1>8, IdleFields
  <2> QED
    BY <1>10, <2>1, <2>2, <2>3 DEF Ops
<1>16. PageAdded(g, mm.dir, a, i) => Buffers'
  <2> SUFFICES ASSUME PageAdded(g, mm.dir, a, i) PROVE Buffers'
    OBVIOUS
  <2>1. CASE a = "user" /\ ~BufferOp(p)
    <3>1. bufs' = bufs
      BY <1>3, <2>1 DEF Allocate
    <3>2. \A q \in Pids : op'[q] = op[q] \/ (~BufferOp(q) /\ ~BufferOp(q)')
      BY <1>8, <1>10, <2>1
    <3> QED
      BY <1>1, <1>2, <1>3, <1>4, <1>5, <1>6, <2>1, <3>1, <3>2, OtherPage
  <2>2. CASE a = "buffer" /\ BufferOp(p)
    <3>1. bufs' = bufs \cup {i} /\ i \in bits
      BY <1>1, <1>3, <2>2 DEF Allocate, Up, Buffers
    <3>2. \A q \in Pids : q # p => ~BufferOp(q)
      BY <1>1, <2>2 DEF Up, Ops
    <3>3. \A q \in Pids : ~BufferOp(q)' /\ op[q].k # "free"
      BY <1>1, <1>8, <1>10, <3>2 DEF BufferOp
    <3>4. BufferPage(g, i) # 0
      <4>1. /\ g.pde[mm.dir]["buffer"] = g.pde[1]["buffer"]
            /\ Entry(g.pde, g.pt, mm.dir, "buffer", i) # 0
        BY <1>5, <2>2 DEF PageAdded, Directories
      <4> QED
        BY <4>1 DEF BufferPage, Entry
    <3>5. \A j \in Slots : j # i => BufferPage(g, j) = BufferPage(mm, j)
      <4>1. "buffer" \in Areas /\ 1 \in Pids
        BY Numbers DEF Areas, Shared
      <4> QED
        BY <4>1 DEF PageAdded, BufferPage
    <3>6. \A j \in Slots : BufferPage(mm, j) # 0 => j \in bits
      BY <1>1, <3>3 DEF Up, Buffers
    <3>7. \A j \in bufs : BufferPage(mm, j) # 0 /\ j \in Slots
      BY <1>1 DEF Up, Buffers, TypeInv
    <3> QED
      BY <1>2, <1>3, <3>1, <3>3, <3>4, <3>5, <3>6, <3>7 DEF Buffers, BufferOp
  <2> QED
    BY <1>4, <2>1, <2>2
<1>17. PageAdded(g, mm.dir, a, i) /\ PagesInOrder /\ Quiet' => PagesInOrder'
  <2> SUFFICES ASSUME PageAdded(g, mm.dir, a, i), PagesInOrder, Quiet' PROVE PagesInOrder'
    OBVIOUS
  <2> PICK d \in Pids : d = mm.dir
    BY <1>5
  <2>1. a = "user" => i <= upages[d] /\ ~LoaderOp(d)'
    <3>1. d = p
      BY <1>11
    <3>2. a = "user" => i = 1 /\ upages[p] = 1
      BY <1>4
    <3> QED
      BY <1>10, <3>1, <3>2
  <2>2. kpages' \in Nat /\ kpages' >= kpages
    BY <1>1, <1>2 DEF TypeInv
  <2>3. \A q \in Pids : next_shm'[q] \in Nat /\ next_shm'[q] >= next_shm[q]
    <3>1. next_shm' = next_shm /\ next_shm \in [Pids -> 1..(PerTable + 1)]
      BY <1>1, <1>2 DEF TypeInv
    <3> QED
      BY ONLY <3>1, Numbers
  <2>4. upages' = upages /\ \A e \in shm' : e \in shm
    BY <1>2
  <2> QED
    BY <1>1, <1>3, <1>4, <1>6, <1>10, <2>1, <2>2, <2>3, <2>4, AddedInOrder
<1>18. /\ Sound(g, Halves) /\ TablesKept(mm, g, a)
       /\ PageMapped(mm, g, a, i) \/ MapFails(mm, g, a, i)
  BY <1>7 DEF Mapped
<1> QED
  BY <1>1, <1>2, <1>3, <1>4, <1>5, <1>6, <1>9, <1>11, <1>12, <1>14, <1>15, <1>16, <1>17, <1>18, FillStep

\* A page of the kernel's for a process is there, and a directory of the
\* child's with the tables of the process.
LEMMA NewDirectory ==
    ASSUME NEW p \in Pids, NEW child \in Pids, life[p] # "none", life[child] = "none",
           NEW h, NEW g, Directories(h, life), h.dir = p,
           DirectoryAdded(h.pde, g.pde, p, child), g.pt = h.pt, g.dir = p,
           NEW l, \A q \in Pids : l[q] = IF q = child THEN "kernel" ELSE life[q]
    PROVE  /\ Directories(g, l)
           /\ \A q \in Pids, b \in Areas, j \in Slots :
                 q # child => Entry(g.pde, g.pt, q, b, j) = Entry(h.pde, h.pt, q, b, j)
           /\ \A b \in Areas \ Shared, j \in Slots : Entry(g.pde, g.pt, child, b, j) = 0
           /\ child # 1
<1>1. {"kernel", "buffer"} \subseteq Areas \cap Shared /\ 1 \in Pids /\ child # 1
  BY Numbers DEF Areas, Shared, Directories
<1>2. \A q \in Pids, b \in Areas :
         g.pde[q][b] = IF q # child THEN h.pde[q][b] ELSE IF b \in Shared THEN h.pde[p][b] ELSE 0
  BY DEF DirectoryAdded
<1>3. \A q \in Pids, b \in {"kernel", "buffer"} : l[q] # "none" => g.pde[q][b] = g.pde[1][b]
  <2> SUFFICES ASSUME NEW q \in Pids, NEW b \in {"kernel", "buffer"}, l[q] # "none"
               PROVE  g.pde[q][b] = g.pde[1][b]
    OBVIOUS
  <2>1. g.pde[1][b] = h.pde[1][b] /\ h.pde[p][b] = h.pde[1][b]
    BY <1>1, <1>2 DEF Directories
  <2> QED
    BY <1>1, <1>2, <2>1 DEF Directories
<1>4. Directories(g, l)
  <2>1. g.pde[1]["kernel"] # 0 /\ g.pde[1]["buffer"] # 0 /\ l[1] # "none" /\ l[g.dir] # "none"
    BY <1>1, <1>2 DEF Directories
  <2>2. \A q \in Pids : l[q] = "none" => \A b \in Areas : g.pde[q][b] = 0
    BY <1>2 DEF Directories
  <2> QED
    BY <1>3, <2>1, <2>2 DEF Directories
<1>5. ASSUME NEW q \in Pids, NEW b \in Areas, NEW j \in Slots, q # child
      PROVE  Entry(g.pde, g.pt, q, b, j) = Entry(h.pde, h.pt, q, b, j)
  BY <1>2, <1>5 DEF Entry
<1>6. ASSUME NEW b \in Areas \ Shared, NEW j \in Slots
      PROVE  Entry(g.pde, g.pt, child, b, j) = 0
  BY <1>2, <1>6 DEF Entry
<1> QED
  BY <1>1, <1>4, <1>5, <1>6

\* create_kernel_task.
LEMMA NewProcessStep ==
    ASSUME MemInv, NEW p \in Pids, NEW child \in Pids, NewProcess(p, child)
    PROVE  MemInv'
<1>1. /\ Up /\ Running /\ life[p] = "user" /\ life[child] = "none" /\ NoteRace(p)
      /\ kpages <= PerTable /\ kpages' = kpages + 1 /\ dirs' = dirs + 1
  BY DEF MemInv, NewProcess, InUser
<1>2. UNCHANGED <<op, upages, bits, big_lock, bufs, shm, next_shm, astray, clashed>>
  BY DEF NewProcess
<1>3. PICK m, h, g, a, i : /\ m = the(mm, p) /\ h = KernelPage(m) /\ g = mm'
                           /\ a = KernelArea(kpages + 1) /\ i = KernelSlot(kpages + 1)
  OBVIOUS
<1>4. /\ Sound(m, Halves) /\ m.dir = p /\ m.pde = mm.pde /\ m.pt = mm.pt
      /\ m.used = mm.used /\ m.fault = ""
  BY <1>1, <1>3, TheFields DEF Up, Running
<1>5. kpages \in Nat \ {0}
  BY <1>1 DEF Up, TypeInv
<1>6. /\ a \in {"kernel", "late"} /\ i \in Slots
      /\ kpages' <= PerTable => a = "kernel" /\ i = kpages'
  BY <1>1, <1>3, <1>5, KernelPlace
<1>7. a \in Areas /\ a \notin {"buffer", "user", "shm"}
  BY <1>6 DEF Areas, Shared
<1>8. Mapped(m, h, a, i, Halves)
  <2>1. h = allocate(m, a, i)
    BY <1>3 DEF KernelPage
  <2>2. Mapped(m, allocate(m, a, i), a, i, Halves)
    BY <1>4, <1>6, <1>7, AllocatePage
  <2> QED
    BY <2>1, <2>2
<1>9. g = IF h.fault = ""
          THEN IF dirs' > MaxDirs THEN Fault(h, "no directory") ELSE clone_page_directory(h, child)
          ELSE h
  BY <1>3 DEF NewProcess, Then
<1>10. op[p].at = 0 /\ Halves' = Halves
  BY <1>1, <1>2, IdleOutside, SameHalves
<1>11. Quiet' => Quiet /\ kpages' <= PerTable
  <2>1. kpages' <= PerTable => kpages <= PerTable
    BY <1>1
  <2>2. raced => raced'
    BY <1>1 DEF NoteRace
  <2> QED
    BY <1>1, <1>2, <2>1, <2>2 DEF Quiet
<1>12. Quiet' => h.fault \in {"", "no frame"}
  <2> SUFFICES ASSUME Quiet' PROVE h.fault \in {"", "no frame"}
    OBVIOUS
  <2>1. PagesInOrder /\ ~raced'
    BY <1>1, <1>11 DEF MemInv, Quiet
  <2>2. a = "kernel" /\ i = kpages' /\ ~(i <= kpages)
    BY <1>1, <1>5, <1>6, <1>11
  <2>3. Entry(mm.pde, mm.pt, 1, "kernel", i) = 0
    BY <1>6, <2>1, <2>2 DEF PagesInOrder
  <2>4. Entry(mm.pde, mm.pt, p, a, i) = 0
    BY <1>1, <2>2, <2>3, KernelShared DEF Up
  <2>5. mm.used = FALSE
    BY <1>1, <1>10, <2>1, TempMapIsFree DEF Up
  <2> QED
    BY <1>4, <1>8, <2>4, <2>5 DEF Mapped, PageMapped, MapFails
<1>13. ASSUME Sound(g, Halves), g.fault # "", Quiet' => g.fault \in Stops
       PROVE  MemInv'
  <2>1. PrivateTables'
    BY <1>3, <1>13 DEF Sound, Tidy, TablesOnce, PrivateTables
  <2> QED
    BY <1>3, <1>13, <2>1 DEF MemInv, Running
<1>14. CASE h.fault # ""
  <2>1. Sound(g, Halves) /\ g = h
    BY <1>8, <1>9, <1>14 DEF Mapped
  <2> QED
    BY <1>12, <1>13, <1>14, <2>1 DEF Stops
<1>15. CASE h.fault = "" /\ dirs' > MaxDirs
  <2>1. Sound(h, Halves) /\ g = Fault(h, "no directory")
    BY <1>8, <1>9, <1>15 DEF Mapped
  <2>2. Sound(g, Halves) /\ g.fault = "no directory"
    BY <2>1, FaultFields
  <2> QED
    BY <1>13, <2>2 DEF Stops
<1>16. CASE h.fault = "" /\ ~(dirs' > MaxDirs)
  <2>1. /\ Sound(h, Halves) /\ TablesKept(m, h, a) /\ PageMapped(m, h, a, i)
    BY <1>8, <1>16 DEF Mapped, MapFails
  <2>2. PageAdded(h, p, a, i) /\ h.dir = p /\ h.target = 0 /\ h.used = FALSE
    BY <1>1, <1>4, <1>6, <1>7, <2>1, MappedAdds DEF TablesKept, PageMapped
  <2>3. Directories(h, life)
    BY <2>2 DEF PageAdded
  <2>4. Cloned(h, g, child, Halves)
    <3>1. \A b \in Areas : h.pde[child][b] = 0
      BY <1>1, <2>3 DEF Directories
    <3> QED
      BY <1>9, <1>16, <2>1, <3>1, ClonePageDirectory
  <2>5. /\ Sound(g, Halves) /\ g.dir = p /\ g.target = 0 /\ g.used = FALSE /\ g.pt = h.pt
        /\ g.fault = "" /\ DirectoryAdded(h.pde, g.pde, p, child)
    BY <2>2, <2>4 DEF Cloned
  <2>6. /\ life \in [Pids -> {"none", "kernel", "user", "gone"}]
        /\ life' = [life EXCEPT ![child] = "kernel"]
    BY <1>1 DEF Up, TypeInv, NewProcess
  <2>7. /\ life' \in [Pids -> {"none", "kernel", "user", "gone"}]
        /\ \A q \in Pids : life'[q] = IF q = child THEN "kernel" ELSE life[q]
    BY <2>6
  <2>8. /\ Directories(g, life')
        /\ \A q \in Pids, b \in Areas, j \in Slots :
              q # child => Entry(g.pde, g.pt, q, b, j) = Entry(h.pde, h.pt, q, b, j)
        /\ \A b \in Areas \ Shared, j \in Slots : Entry(g.pde, g.pt, child, b, j) = 0
        /\ child # 1
    <3>1. PICK l : l = life'
      OBVIOUS
    <3>2. life[p] # "none" /\ \A q \in Pids : l[q] = IF q = child THEN "kernel" ELSE life[q]
      BY <1>1, <2>7, <3>1
    <3>3. h.dir = p /\ DirectoryAdded(h.pde, g.pde, p, child) /\ g.pt = h.pt /\ g.dir = p
      BY <2>2, <2>5
    <3>4. Directories(h, life) /\ life[child] = "none"
      BY <1>1, <2>3
    <3> QED
      BY ONLY <3>1, <3>2, <3>3, <3>4, NewDirectory, p \in Pids, child \in Pids
  <2>9. {"kernel", "buffer", "user", "shm"} \subseteq Areas /\ {"user", "shm"} \cap Shared = {} /\ 1 \in Pids
    BY Numbers DEF Areas, Shared
  <2>10. TypeInv'
    <3>1. kpages' \in Nat \ {0}
      BY <1>1, <1>5
    <3>2. raced' \in BOOLEAN
      BY <1>1 DEF Up, TypeInv, NoteRace
    <3> QED
      BY <1>1, <1>2, <2>7, <3>1, <3>2 DEF Up, TypeInv
  <2>11. Ops'
    BY <1>1, <1>2, <2>7 DEF Up, Ops, LoaderOp, BufferOp
  <2>12. TempMapping'
    <3>1. ASSUME ~raced', NEW q \in Pids PROVE ~InTempMap(q)'
      <4>1. ~InTempMap(q)
        BY <1>1, <1>10, <3>1, TempMapIsFree DEF Up
      <4> QED
        BY <1>2, <4>1 DEF InTempMap
    <3> QED
      BY <1>3, <2>5, <3>1, TempMapStaysFree
  <2>13. Buffers'
    <3>1. \A j \in Slots : BufferPage(g, j) = BufferPage(mm, j)
      BY <1>7, <2>2, <2>8, <2>9 DEF PageAdded, BufferPage
    <3>2. \A j \in Slots : BufferPage(mm', j) = BufferPage(mm, j)
      BY <1>3, <3>1
    <3>3. Ops /\ Buffers /\ bufs \subseteq Slots
      BY <1>1 DEF Up, TypeInv
    <3> QED
      BY <1>2, <3>2, <3>3, BuffersSame
  <2>14. Up'
    <3>1. Sound(mm, Halves)' /\ Directories(mm, life)'
      BY <1>3, <1>10, <2>5, <2>8
    <3> QED
      BY <2>10, <2>11, <2>12, <2>13, <3>1 DEF Up
  <2>15. ASSUME Quiet' PROVE PagesInOrder'
    <3>1. PagesInOrder /\ a = "kernel" /\ i = kpages'
      BY <1>1, <1>6, <1>11, <2>15 DEF MemInv
    <3>2. ASSUME NEW j \in Slots, Entry(g.pde, g.pt, 1, "kernel", j) # 0
          PROVE  j <= kpages'
      <4>1. j <= kpages \/ j = kpages'
        BY <2>2, <2>8, <2>9, <3>1, <3>2 DEF PageAdded, PagesInOrder
      <4>2. j \in Nat
        BY DEF Slots
      <4> QED
        BY ONLY <1>1, <1>5, <4>1, <4>2
    <3>3. \A q \in Pids, b \in {"user", "shm"}, j \in Slots : q # child =>
             Entry(g.pde, g.pt, q, b, j) = Entry(mm.pde, mm.pt, q, b, j)
      BY <1>7, <2>2, <2>8, <2>9 DEF PageAdded
    <3>4. \A b \in {"user", "shm"}, j \in Slots :
             Entry(g.pde, g.pt, child, b, j) = 0 /\ Entry(mm.pde, mm.pt, child, b, j) = 0
      BY <1>1, <2>8, <2>9 DEF Up, Directories, Entry
    <3>5. \A q \in Pids, b \in {"user", "shm"}, j \in Slots :
             Entry(g.pde, g.pt, q, b, j) = Entry(mm.pde, mm.pt, q, b, j)
      BY <3>3, <3>4
    <3>6. \A e \in shm : e.pid \in Pids /\ e.page \in Slots
      BY <1>1 DEF Up, TypeInv
    <3> QED
      BY <1>2, <1>3, <3>1, <3>2, <3>5, <3>6 DEF PagesInOrder, LoaderOp
  <2>16. PrivateTables'
    BY <1>3, <2>5 DEF Sound, Tidy, TablesOnce, PrivateTables
  <2> QED
    BY <1>3, <2>5, <2>14, <2>15, <2>16 DEF MemInv, Stops
<1> QED
  BY <1>14, <1>15, <1>16

\* The machine stops, and for one of the two reasons when nothing happened.
LEMMA StoppedStep ==
    ASSUME NEW g, mm' = g, NEW H, Sound(g, H), g.fault # "", Quiet' => g.fault \in Stops
    PROVE  MemInv'
<1>1. PrivateTables'
  BY DEF Sound, Tidy, TablesOnce, PrivateTables
<1> QED
  BY <1>1 DEF MemInv, Running

\* Kernel data that is not mapped.
LEMMA TouchHeapStep ==
    ASSUME MemInv, NEW p \in Pids, TouchHeap(p)
    PROVE  MemInv'
<1>1. Up /\ kpages > PerTable /\ kpages' = kpages /\ kpages \in Nat
  BY DEF MemInv, TouchHeap, InKernel, Up, TypeInv
<1>2. ~Quiet'
  BY <1>1, Numbers DEF Quiet
<1>3. PICK g : g = Fault(mm, "page fault")
  OBVIOUS
<1>4. Sound(g, Halves) /\ g.fault = "page fault"
  BY <1>1, <1>3, FaultFields DEF Up
<1>5. mm' = g
  BY <1>3 DEF TouchHeap
<1> QED
  BY <1>2, <1>4, <1>5, StoppedStep

\* Exit, Blocks and Returns.
LEMMA LifeSteps ==
    ASSUME MemInv, NEW p \in Pids, Exit(p) \/ Blocks(p) \/ Returns(p)
    PROVE  MemInv'
<1>1. Up
  BY DEF MemInv, Exit, Blocks, Returns, InUser, InKernel
<1>2. CASE Exit(p)
  <2>1. op[p] = Idle
    BY <1>1, <1>2, IdleOutside DEF Exit, InUser
  <2> QED
    BY <1>2, <2>1, LifeStep DEF Exit, InUser
<1>3. CASE Blocks(p)
  <2>1. op[p] = Idle
    BY <1>1, <1>3, IdleOutside DEF Blocks, InUser
  <2> QED
    BY <1>3, <2>1, LifeStep DEF Blocks, InUser
<1>4. CASE Returns(p)
  BY <1>4, LifeStep DEF Returns, InKernel
<1> QED
  BY <1>2, <1>3, <1>4

-----------------------------------------------------------------------------
(* deallocate and get_physical_address *)

\* The next stage of a process that is in one of them.
LEMMA NextStageFields ==
    ASSUME Up, NEW p \in Pids, NEW n \in 0..3, NEW m, TempStep(p, n, m), NextStage(p)
    PROVE  /\ Running /\ mm' = m /\ op[p].k \in {"look", "free"} /\ op[p].at = n
           /\ op[p].area = "buffer" /\ op[p].page \in Slots
           /\ \A q \in Pids : q # p => op'[q] = op[q]
           /\ op'[p].k = op[p].k /\ op'[p].area = "buffer" /\ op'[p].page = op[p].page
           /\ op'[p].at = n + 1
           /\ TypeInv' /\ Ops'
<1>1. /\ Running /\ life[p] = "kernel" /\ op[p].k \in {"look", "free"} /\ op[p].at = n /\ NoteRace(p)
      /\ op' = [op EXCEPT ![p].at = n + 1] /\ mm' = m
      /\ UNCHANGED <<life, kpages, upages, dirs, bits, big_lock, bufs, shm, next_shm, astray, clashed>>
  BY DEF TempStep, NextStage, InKernel
<1>2. op \in [Pids -> OpType] /\ op[p].area = "buffer" /\ op[p].page \in Slots
  BY <1>1 DEF Up, TypeInv, Ops
<1>3. n + 1 \in 0..4
  OBVIOUS
<1>4. PICK o : o = [op[p] EXCEPT !.at = n + 1]
  OBVIOUS
<1>5. op[p] \in OpType
  BY <1>2
<1>6. /\ o \in OpType /\ o.k = op[p].k /\ o.area = op[p].area /\ o.page = op[p].page
      /\ o.at = n + 1
  BY ONLY <1>3, <1>4, <1>5 DEF OpType
<1>7. op' = [op EXCEPT ![p] = o]
  BY <1>1, <1>4
<1>8. op' \in [Pids -> OpType] /\ op'[p] = o /\ \A q \in Pids : q # p => op'[q] = op[q]
  BY ONLY <1>2, <1>6, <1>7, p \in Pids
<1>9. TypeInv'
  <2>1. raced' \in BOOLEAN
    BY <1>1 DEF Up, TypeInv, NoteRace
  <2> QED
    BY <1>1, <1>8, <2>1 DEF Up, TypeInv
<1>10. Ops'
  <2>1. ASSUME NEW q \in Pids, q # p
        PROVE  /\ life'[q] # "kernel" => op'[q] = Idle
               /\ op'[q].k = "idle" => op'[q] = Idle
               /\ op'[q].k \in {"free", "look"} => op'[q].area = "buffer" /\ op'[q].page \in Slots
               /\ op'[q].k = "alloc" => op'[q].at = 0 /\ op'[q].page \in Slots /\ (LoaderOp(q)' \/ BufferOp(q)')
               /\ LoaderOp(q)' => op'[q].page = 1 /\ upages'[q] = 1
               /\ BufferOp(q)' => big_lock' = q
    BY <1>1, <1>8, <2>1 DEF Up, Ops, LoaderOp, BufferOp
  <2>2. /\ life'[p] = "kernel" /\ op'[p].k \in {"look", "free"} /\ op'[p].area = "buffer"
        /\ op'[p].page \in Slots /\ ~LoaderOp(p)' /\ (BufferOp(p)' => big_lock' = p)
    BY <1>1, <1>2, <1>6, <1>8 DEF Up, Ops, LoaderOp, BufferOp
  <2> QED
    BY <2>1, <2>2 DEF Ops
<1> QED
  BY <1>1, <1>2, <1>6, <1>8, <1>9, <1>10

\* From mm to g only pages of buffers changed.
OthersSame(g) ==
    \A q \in Pids, b \in Areas \ {"buffer"}, i \in Slots :
       Entry(g.pde, g.pt, q, b, i) = Entry(mm.pde, mm.pt, q, b, i)

\* The invariant after a step of one of them that does not stop the machine.
LEMMA TempDone ==
    ASSUME MemInv, Running, NEW p \in Pids, NEW n, NEW g, TempStep(p, n, g),
           g.fault = "", g.pde = mm.pde, g.dir = mm.dir,
           Sound(mm, Halves)', TypeInv', Ops', TempMapping', Buffers', OthersSame(g),
           \A q \in Pids : LoaderOp(q)' => LoaderOp(q)
    PROVE  MemInv'
<1>1. /\ Up /\ mm' = g /\ NoteRace(p)
      /\ UNCHANGED <<life, kpages, upages, dirs, bits, bufs, shm, next_shm, astray, clashed>>
  BY DEF MemInv, TempStep
<1>2. Directories(mm, life)'
  <2>1. Directories(g, life)
    BY <1>1 DEF Up, Directories
  <2> QED
    BY <1>1, <2>1
<1>3. PrivateTables'
  BY DEF Sound, Tidy, TablesOnce, PrivateTables
<1>4. Quiet' => Quiet
  <2>1. raced => raced'
    BY <1>1 DEF NoteRace
  <2> QED
    BY <1>1, <2>1 DEF Quiet
<1>5. ASSUME PagesInOrder PROVE PagesInOrder'
  <2>1. /\ kpages' \in Nat /\ kpages' >= kpages /\ TypeInv
        /\ upages' = upages /\ next_shm' = next_shm /\ shm' = shm
    <3>1. TypeInv
      BY <1>1 DEF Up
    <3>2. kpages \in Nat
      BY <3>1 DEF TypeInv
    <3> QED
      BY ONLY <1>1, <3>1, <3>2
  <2>2. \A q \in Pids, b \in Areas \ {"buffer"}, i \in Slots :
           Entry(mm'.pde, mm'.pt, q, b, i) = Entry(mm.pde, mm.pt, q, b, i)
    BY <1>1 DEF OthersSame
  <2>3. \A q \in Pids : LoaderOp(q)' => LoaderOp(q)
    OBVIOUS
  <2> QED
    BY ONLY <1>5, <2>1, <2>2, <2>3, PagesSame
<1>6. mm'.fault = ""
  BY <1>1
<1> QED
  BY <1>2, <1>3, <1>4, <1>5, <1>6 DEF MemInv, Up, Stops

\* While there was no race a process that uses the temporary mapping is the
\* only one, and finds there what it put there.
LEMMA MineAlone ==
    ASSUME TempMapping, NEW p \in Pids, InTempMap(p), NoteRace(p), ~raced'
    PROVE  /\ ~raced
           /\ \A q \in Pids : q # p => ~InTempMap(q)
           /\ mm.target = mm.pde[1]["buffer"]
           /\ op[p].at >= 2 <=> mm.used = TRUE
<1>1. ~raced /\ \A q \in Pids \ {p} : ~InTempMap(q)
  BY DEF NoteRace
<1> QED
  BY <1>1 DEF TempMapping

\* After a step p is the only process that uses the temporary mapping.
LEMMA StillMineAlone ==
    ASSUME NEW p \in Pids,
           mm'.target \in {0, mm'.pde[1]["buffer"]},
           ~raced' => /\ \A q \in Pids : q # p => ~InTempMap(q)'
                      /\ InTempMap(p)'
                      /\ mm'.target = mm'.pde[1]["buffer"]
                      /\ op'[p].at >= 2 <=> mm'.used = TRUE
                      /\ Half(p)' => OnlyMine(p)'
    PROVE  TempMapping'
<1>1. \A q \in Pids : Half(q)' => InTempMap(q)'
  BY DEF Half, InTempMap
<1>2. CASE raced'
  BY <1>2 DEF TempMapping
<1>3. CASE ~raced'
  BY <1>1, <1>3 DEF TempMapping
<1> QED
  BY <1>2, <1>3

\* A stage before the entry is cleared leaves the buffers alone.
LEMMA BuffersStage ==
    ASSUME Up, NEW p \in Pids, NEW n \in 0..2, NEW m, TempStep(p, n, m), NextStage(p),
           \A i \in Slots : BufferPage(mm', i) = BufferPage(mm, i)
    PROVE  Buffers'
<1>1. /\ op[p].k \in {"look", "free"} /\ op[p].at = n /\ op[p].page \in Slots
      /\ \A q \in Pids : q # p => op'[q] = op[q]
      /\ op'[p].k = op[p].k /\ op'[p].page = op[p].page /\ op'[p].at = n + 1
  BY NextStageFields
<1>2. Buffers /\ bits' = bits /\ bufs' = bufs /\ bufs \subseteq Slots /\ Ops
  BY DEF Up, TypeInv, TempStep
<1>3. op[p].at <= 3 /\ op'[p].at <= 3
  BY <1>1
<1>4. \A q \in Pids : /\ op'[q].k = op[q].k /\ op'[q].page = op[q].page
                      /\ op'[q].at <= 3 <=> op[q].at <= 3
                      /\ op[q].k = "alloc" => op'[q].area = op[q].area
  BY <1>1, <1>3
<1>5. \A i \in Slots : BufferPage(mm', i) # 0 =>
         i \in bits' \/ \E q \in Pids : op'[q].k = "free" /\ op'[q].page = i /\ op'[q].at <= 3
  BY <1>2, <1>4 DEF Buffers
<1>6. \A i \in bufs' : BufferPage(mm', i) # 0
  BY <1>2 DEF Buffers
<1>7. ASSUME NEW q \in Pids
      PROVE  /\ op'[q].k = "alloc" /\ op'[q].area = "buffer" =>
                   BufferPage(mm', op'[q].page) = 0 /\ op'[q].page \in bits'
             /\ op'[q].k = "free" => op'[q].page \notin bufs'
             /\ op'[q].k = "free" /\ op'[q].at <= 3 => BufferPage(mm', op'[q].page) # 0
  <2>1. op[q].k \in {"alloc", "free"} => op[q].page \in Slots
    BY <1>2 DEF Ops
  <2> QED
    BY <1>2, <1>4, <2>1 DEF Buffers
<1> QED
  BY <1>5, <1>6, <1>7 DEF Buffers

\* Nobody else frees a buffer while p does.
LEMMA LoneFree ==
    ASSUME Up, NEW p \in Pids, op[p].k = "free"
    PROVE  /\ \A q \in Pids : q # p => ~BufferOp(q)
           /\ Halves = IF Half(p) THEN {op[p].page} ELSE {}
<1>1. \A q \in Pids : BufferOp(q) => big_lock = q
  BY DEF Up, Ops
<1>2. \A q \in Pids : q # p => ~BufferOp(q)
  BY <1>1 DEF BufferOp
<1>3. \A q \in Pids : q # p => ~Half(q)
  BY <1>2 DEF Half, BufferOp
<1> QED
  BY <1>2, <1>3 DEF Halves

\* The table of the buffers is in every directory in use.
LEMMA BufferTable ==
    ASSUME Up
    PROVE  /\ "buffer" \in Areas
           /\ mm.pde[1]["buffer"] \in Frames
           /\ mm.pde[mm.dir]["buffer"] = mm.pde[1]["buffer"]
           /\ \A q \in Pids : mm.pde[q]["buffer"] \in {0, mm.pde[1]["buffer"]}
<1>1. Directories(mm, life) /\ Typed(mm) /\ 1 \in Pids
  BY Numbers DEF Up, Sound
<1>2. "buffer" \in Areas
  BY DEF Areas, Shared
<1>3. mm.pde[1]["buffer"] \in Frames
  BY <1>1, <1>2, FrameNumber DEF Typed, Directories
<1> QED
  BY <1>1, <1>2, <1>3 DEF Typed, Directories

\* temp_map up to its last assignment.
LEMMA TempMapTargetStep ==
    ASSUME MemInv, NEW p \in Pids, TempMapTarget(p)
    PROVE  MemInv'
<1>1. PICK m : /\ TempStep(p, 0, m) /\ NextStage(p)
               /\ m = Then(ensure_pde(mm, op[p].area),
                           LAMBDA h : TempTarget(h, get_pde(h, h.dir, op[p].area)))
  BY DEF TempMapTarget
<1>2. Up
  BY <1>1 DEF MemInv, TempStep, InKernel
<1>3. /\ Running /\ mm' = m /\ op[p].k \in {"look", "free"} /\ op[p].at = 0
      /\ op[p].area = "buffer" /\ op[p].page \in Slots
      /\ \A q \in Pids : q # p => op'[q] = op[q]
      /\ op'[p].k = op[p].k /\ op'[p].at = 1
      /\ TypeInv' /\ Ops'
  BY <1>1, <1>2, NextStageFields
<1>4. PICK t : t = mm.pde[1]["buffer"]
  OBVIOUS
<1>5. t \in Frames /\ t # 0 /\ mm.pde[mm.dir]["buffer"] = t
  BY <1>2, <1>4, BufferTable, FrameNumber
<1>6. m = TempTarget(mm, t)
  <2>1. ensure_pde(mm, "buffer") = mm
    BY <1>5 DEF ensure_pde, get_pde
  <2> QED
    BY <1>1, <1>3, <1>5, <2>1 DEF Then, get_pde, Running
<1>7. Sound(mm, Halves) /\ NoteRace(p) /\ Typed(mm)
  BY <1>1, <1>2 DEF Up, TempStep, Sound
<1>8. Quiet' => ~raced'
  BY DEF Quiet
<1>9. CASE mm.used = TRUE
  <2>1. m = Fault(mm, "temp map in use")
    BY <1>6, <1>9 DEF TempTarget
  <2>2. Sound(m, Halves) /\ m.fault = "temp map in use"
    BY <1>7, <2>1, FaultFields
  <2>3. ~Quiet'
    BY <1>2, <1>3, <1>7, <1>8, <1>9, TempMapIsFree DEF Up
  <2> QED
    BY <1>3, <2>2, <2>3, StoppedStep
<1>10. CASE mm.used = FALSE
  <2>1. m = [mm EXCEPT !.target = t]
    BY <1>6, <1>10 DEF TempTarget
  <2>2. /\ DOMAIN m = Fields /\ m.target = t /\ m.used = FALSE /\ m.avail = mm.avail
        /\ m.pde = mm.pde /\ m.pt = mm.pt /\ m.dir = mm.dir /\ m.fault = mm.fault
    BY <1>7, <1>10, <2>1 DEF Typed, Fields
  <2>3. Sound(m, Halves)
    <3>1. t \in 0..NumFrames /\ m.dir \in Pids
      BY <1>5, <1>7, <2>2, FrameNumber DEF Typed
    <3> QED
      BY <1>7, <2>2, <3>1, SoundSame
  <2>4. Sound(mm, Halves)'
    <3>1. \A q \in Pids : op'[q] = op[q] \/ (~Half(q) /\ ~Half(q)')
      BY <1>3 DEF Half
    <3>2. Halves' = Halves
      BY <3>1, SameHalves
    <3> QED
      BY <1>3, <2>3, <3>2
  <2>5. TempMapping'
    <3>1. mm'.target = mm'.pde[1]["buffer"] /\ mm'.used = FALSE
      BY <1>3, <1>4, <2>2
    <3>2. InTempMap(p)' /\ ~Half(p)'
      BY <1>3 DEF InTempMap, Half
    <3>3. ASSUME ~raced', NEW q \in Pids, q # p PROVE ~InTempMap(q)'
      <4>1. ~InTempMap(q)
        BY <1>2, <1>3, <1>7, <3>3, TempMapIsFree DEF Up
      <4> QED
        BY <1>3, <3>3, <4>1 DEF InTempMap
    <3>4. ~(op'[p].at >= 2)
      BY <1>3
    <3> QED
      BY <3>1, <3>2, <3>3, <3>4, StillMineAlone
  <2>6. Buffers'
    <3>1. \A i \in Slots : BufferPage(mm', i) = BufferPage(mm, i)
      BY <1>3, <2>2 DEF BufferPage
    <3> QED
      BY <1>1, <1>2, <3>1, BuffersStage
  <2>7. \A q \in Pids : LoaderOp(q)' => LoaderOp(q)
    BY <1>3 DEF LoaderOp
  <2>8. m.fault = "" /\ OthersSame(m)
    BY <1>3, <2>2 DEF Running, OthersSame
  <2> QED
    BY <1>1, <1>3, <2>2, <2>4, <2>5, <2>6, <2>7, <2>8, TempDone
<1> QED
  BY <1>7, <1>9, <1>10 DEF Typed

\* The last assignment of temp_map.
LEMMA TempMapUsedStep ==
    ASSUME MemInv, NEW p \in Pids, TempMapUsed(p)
    PROVE  MemInv'
<1>1. PICK m : TempStep(p, 1, m) /\ NextStage(p) /\ m = TempUsed(mm)
  BY DEF TempMapUsed
<1>2. Up
  BY <1>1 DEF MemInv, TempStep, InKernel
<1>3. /\ Running /\ mm' = m /\ op[p].k \in {"look", "free"} /\ op[p].at = 1
      /\ \A q \in Pids : q # p => op'[q] = op[q]
      /\ op'[p].k = op[p].k /\ op'[p].at = 2
      /\ TypeInv' /\ Ops'
  BY <1>1, <1>2, NextStageFields
<1>4. Sound(mm, Halves) /\ NoteRace(p) /\ Typed(mm) /\ TempMapping
  BY <1>1, <1>2 DEF Up, TempStep, Sound
<1>5. /\ DOMAIN m = Fields /\ m.target = mm.target /\ m.used = TRUE /\ m.avail = mm.avail
      /\ m.pde = mm.pde /\ m.pt = mm.pt /\ m.dir = mm.dir /\ m.fault = mm.fault
  BY <1>1, <1>4 DEF TempUsed, Typed, Fields
<1>6. Sound(mm, Halves)'
  <2>1. Sound(m, Halves)
    BY <1>4, <1>5, SoundSame DEF Typed
  <2>2. \A q \in Pids : op'[q] = op[q] \/ (~Half(q) /\ ~Half(q)')
    BY <1>3 DEF Half
  <2>3. Halves' = Halves
    BY <2>2, SameHalves
  <2> QED
    BY <1>3, <2>1, <2>3
<1>7. TempMapping'
  <2>1. InTempMap(p) /\ InTempMap(p)' /\ ~Half(p)'
    BY <1>3 DEF InTempMap, Half
  <2>2. mm'.target \in {0, mm'.pde[1]["buffer"]} /\ mm'.used = TRUE /\ op'[p].at >= 2
    BY <1>3, <1>4, <1>5 DEF TempMapping
  <2>3. ASSUME ~raced'
        PROVE  mm'.target = mm'.pde[1]["buffer"] /\ \A q \in Pids : q # p => ~InTempMap(q)'
    <3>1. mm.target = mm.pde[1]["buffer"] /\ \A q \in Pids : q # p => ~InTempMap(q)
      BY <1>4, <2>1, <2>3, MineAlone
    <3> QED
      BY <1>3, <1>5, <3>1 DEF InTempMap
  <2> QED
    BY <2>1, <2>2, <2>3, StillMineAlone
<1>8. Buffers'
  <2>1. \A i \in Slots : BufferPage(mm', i) = BufferPage(mm, i)
    BY <1>3, <1>5 DEF BufferPage
  <2> QED
    BY <1>1, <1>2, <2>1, BuffersStage
<1>9. \A q \in Pids : LoaderOp(q)' => LoaderOp(q)
  BY <1>3 DEF LoaderOp
<1>10. m.fault = "" /\ OthersSame(m)
  BY <1>3, <1>5 DEF Running, OthersSame
<1> QED
  BY <1>1, <1>3, <1>5, <1>6, <1>7, <1>8, <1>9, <1>10, TempDone

\* The frame of the buffer's page is made available before its entry is
\* cleared.
LEMMA HalfFree ==
    ASSUME Up, NEW n \in Slots, Halves = {}, BufferPage(mm, n) # 0,
           NEW m, m = set_frame_available(mm, BufferPage(mm, n))
    PROVE  /\ Sound(m, {n})
           /\ \A q \in Pids, a \in Areas :
                 /\ mm.pde[q][a] # BufferPage(mm, n)
                 /\ \A i \in Slots : Entry(mm.pde, mm.pt, q, a, i) = BufferPage(mm, n)
                                     => a = "buffer" /\ i = n
           /\ m.pde = mm.pde /\ m.pt = mm.pt /\ m.dir = mm.dir /\ m.target = mm.target
           /\ m.used = mm.used /\ m.fault = mm.fault
<1>1. PICK f : f = BufferPage(mm, n)
  OBVIOUS
<1>2. Typed(mm) /\ TablesOnce(mm.avail, mm.pde) /\ EntriesOnce(mm.avail, mm.pde, mm.pt, {})
  BY DEF Up, Sound, Tidy
<1>3. 1 \in Pids /\ "buffer" \in Areas /\ "buffer" # "shm"
  BY Numbers DEF Areas, Shared
<1>4. Entry(mm.pde, mm.pt, 1, "buffer", n) = f /\ f # 0
  BY <1>1 DEF BufferPage
<1>5. f \in Frames
  <2>1. mm.pde[1]["buffer"] \in Frames
    BY BufferTable
  <2>2. f \in 0..NumFrames
    BY <1>2, <1>4, <2>1 DEF Entry, Typed
  <2> QED
    BY <1>4, <2>2, FrameNumber
<1>6. \A a, i : Settled(a, i, {})
  BY DEF Settled
<1>7. /\ \A q \in Pids, a \in Areas : f # mm.pde[q][a]
      /\ \A q \in Pids, a \in Areas, i \in Slots :
            Entry(mm.pde, mm.pt, q, a, i) = f => a = "buffer" /\ i = n
  BY <1>2, <1>3, <1>4, <1>6 DEF EntriesOnce
<1>8. /\ m.avail = mm.avail \cup {f} /\ DOMAIN m = Fields
      /\ m.pde = mm.pde /\ m.pt = mm.pt /\ m.dir = mm.dir /\ m.target = mm.target
      /\ m.used = mm.used /\ m.fault = mm.fault
  BY <1>1, <1>2 DEF set_frame_available, Typed, Fields
<1>9. TablesOnce(mm.avail \cup {f}, mm.pde)
  BY <1>2, <1>7 DEF TablesOnce
<1>10. EntriesOnce(mm.avail \cup {f}, mm.pde, mm.pt, {n})
  <2>1. PICK A, H : A = mm.avail \cup {f} /\ H = {n}
    OBVIOUS
  <2>2. EntriesOnce(A, mm.pde, mm.pt, H)
    <3> SUFFICES ASSUME NEW p \in Pids, NEW a \in Areas, NEW i \in Slots,
                        Entry(mm.pde, mm.pt, p, a, i) # 0, Settled(a, i, H)
                 PROVE  /\ Entry(mm.pde, mm.pt, p, a, i) \notin A
                        /\ \A q \in Pids, b \in Areas : Entry(mm.pde, mm.pt, p, a, i) # mm.pde[q][b]
                        /\ \A q \in Pids, b \in Areas, j \in Slots :
                              Entry(mm.pde, mm.pt, p, a, i) = Entry(mm.pde, mm.pt, q, b, j) /\ Settled(b, j, H)
                              => \/ a = b /\ i = j /\ mm.pde[p][a] = mm.pde[q][b]
                                 \/ a = "shm" /\ b = "shm"
      BY DEF EntriesOnce
    <3>1. Entry(mm.pde, mm.pt, p, a, i) # f
      BY <1>7, <2>1 DEF Settled
    <3>2. Entry(mm.pde, mm.pt, p, a, i) \notin A
      BY <1>2, <1>6, <2>1, <3>1 DEF EntriesOnce
    <3> QED
      BY <1>2, <1>6, <3>2 DEF EntriesOnce
  <2> QED
    BY <2>1, <2>2
<1>11. Sound(m, {n})
  BY <1>2, <1>5, <1>8, <1>9, <1>10 DEF Sound, Tidy, Typed
<1> QED
  BY <1>1, <1>7, <1>8, <1>11

\* An entry is read, and its frame made available.
LEMMA ReadEntryStep ==
    ASSUME MemInv, NEW p \in Pids, ReadEntry(p)
    PROVE  MemInv'
<1>1. PICK m, f : /\ TempStep(p, 2, m) /\ NextStage(p)
                  /\ f = IF mm.target = 0 THEN 0 ELSE get_pte(mm, op[p].page)
                  /\ m = IF mm.target = 0 THEN Fault(mm, "page fault")
                         ELSE IF op[p].k = "look" THEN mm
                         ELSE IF f = 0 THEN Fault(mm, "not present")
                         ELSE set_frame_available(mm, f)
  BY DEF ReadEntry
<1>a. TempStep(p, 2, m) /\ NextStage(p)
  BY <1>1
<1>2. Up
  BY <1>a DEF MemInv, TempStep, InKernel
<1>3. /\ Running /\ mm' = m /\ op[p].k \in {"look", "free"} /\ op[p].at = 2
      /\ op[p].page \in Slots
      /\ \A q \in Pids : q # p => op'[q] = op[q]
      /\ op'[p].k = op[p].k /\ op'[p].page = op[p].page /\ op'[p].at = 3
      /\ TypeInv' /\ Ops'
  BY <1>2, <1>a, NextStageFields
<1>4. Sound(mm, Halves) /\ NoteRace(p) /\ Typed(mm) /\ TempMapping
  BY <1>2, <1>a DEF Up, TempStep, Sound
<1>5. PICK t : t = mm.pde[1]["buffer"]
  OBVIOUS
<1>6. t \in Frames /\ t # 0
  BY <1>2, <1>5, BufferTable, FrameNumber
<1>7. InTempMap(p) /\ InTempMap(p)' /\ op'[p].at >= 2 /\ op[p].at >= 2
  BY <1>3 DEF InTempMap
<1>8. ASSUME ~raced'
      PROVE  mm.target = t /\ mm.used = TRUE /\ \A q \in Pids : q # p => ~InTempMap(q)'
  <2>1. mm.target = t /\ mm.used = TRUE /\ \A q \in Pids : q # p => ~InTempMap(q)
    BY <1>4, <1>5, <1>7, <1>8, MineAlone
  <2> QED
    BY <1>3, <2>1 DEF InTempMap
<1>9. \A q \in Pids : LoaderOp(q)' => LoaderOp(q)
  BY <1>3 DEF LoaderOp
<1>10. CASE mm.target = 0
  <2>1. Sound(m, Halves) /\ m.fault = "page fault"
    BY <1>1, <1>4, <1>10, FaultFields
  <2>2. ~Quiet'
    BY <1>6, <1>8, <1>10 DEF Quiet
  <2> QED
    BY <1>3, <2>1, <2>2, StoppedStep
<1>11. ASSUME mm.target # 0, m.pde = mm.pde, m.pt = mm.pt, m.dir = mm.dir, m.target = mm.target,
              m.used = mm.used, m.fault = mm.fault, Sound(m, Halves'),
              ~raced' /\ Half(p)' => OnlyMine(p)'
       PROVE  MemInv'
  <2>1. TempMapping'
    <3>1. mm'.target \in {0, mm'.pde[1]["buffer"]}
      BY <1>3, <1>4, <1>11 DEF TempMapping
    <3>2. ~raced' => mm'.target = mm'.pde[1]["buffer"] /\ (op'[p].at >= 2 <=> mm'.used = TRUE)
      BY <1>3, <1>5, <1>7, <1>8, <1>11
    <3> QED
      BY <1>7, <1>8, <1>11, <3>1, <3>2, StillMineAlone
  <2>2. Buffers'
    <3>1. \A i \in Slots : BufferPage(mm', i) = BufferPage(mm, i)
      BY <1>3, <1>11 DEF BufferPage
    <3> QED
      BY <1>2, <1>a, <3>1, BuffersStage
  <2>3. Sound(mm, Halves)' /\ m.fault = "" /\ OthersSame(m)
    BY <1>3, <1>11 DEF Running, OthersSame
  <2> QED
    BY <1>a, <1>3, <1>9, <1>11, <2>1, <2>2, <2>3, TempDone
<1>12. CASE mm.target # 0 /\ op[p].k = "look"
  <2>1. m = mm /\ ~Half(p) /\ ~Half(p)'
    BY <1>1, <1>3, <1>12 DEF Half
  <2>2. Halves' = Halves
    BY <1>3, <2>1, SameHalves
  <2> QED
    BY <1>4, <1>11, <1>12, <2>1, <2>2
<1>13. CASE mm.target # 0 /\ op[p].k = "free"
  <2>1. Halves = {} /\ BufferPage(mm, op[p].page) # 0
    BY <1>2, <1>3, <1>13, LoneFree DEF Half, Up, Buffers
  <2>2. f = BufferPage(mm, op[p].page)
    <3>1. mm.target = t
      BY <1>4, <1>5, <1>13 DEF TempMapping
    <3> QED
      BY <1>1, <1>5, <1>6, <1>13, <3>1 DEF get_pte, BufferPage, Entry
  <2>3. m = set_frame_available(mm, f)
    BY <1>1, <1>13, <2>1, <2>2
  <2>4. /\ Sound(m, {op[p].page})
        /\ \A q \in Pids, a \in Areas :
              /\ mm.pde[q][a] # BufferPage(mm, op[p].page)
              /\ \A i \in Slots : Entry(mm.pde, mm.pt, q, a, i) = BufferPage(mm, op[p].page)
                                  => a = "buffer" /\ i = op[p].page
        /\ m.pde = mm.pde /\ m.pt = mm.pt /\ m.dir = mm.dir /\ m.target = mm.target
        /\ m.used = mm.used /\ m.fault = mm.fault
    BY <1>2, <1>3, <2>1, <2>2, <2>3, HalfFree
  <2>5. Halves' = {op[p].page}
    <3>1. \A q \in Pids : q # p => ~Half(q)'
      <4>1. \A q \in Pids : q # p => ~BufferOp(q)
        BY <1>2, <1>13, LoneFree
      <4> QED
        BY <1>3, <4>1 DEF BufferOp, Half
    <3>2. Half(p)'
      BY <1>3, <1>13 DEF Half
    <3> QED
      BY <1>3, <3>1, <3>2 DEF Halves
  <2>6. OnlyMine(p)'
    <3>1. op'[p].page = op[p].page /\ mm'.pde = mm.pde /\ mm'.pt = mm.pt
      BY <1>3, <2>4
    <3>2. BufferPage(mm', op[p].page) = BufferPage(mm, op[p].page)
      BY <3>1 DEF BufferPage
    <3> QED
      BY <2>4, <3>1, <3>2 DEF OnlyMine
  <2> QED
    BY <1>11, <1>13, <2>4, <2>5, <2>6
<1> QED
  BY <1>3, <1>10, <1>12, <1>13

\* In m page n of the buffers has no frame, and nothing else changed.
PageCleared(m, n) ==
    /\ Sound(m, {})
    /\ m.pde = mm.pde /\ m.dir = mm.dir /\ m.target = mm.target
    /\ m.used = mm.used /\ m.fault = mm.fault
    /\ \A q \in Pids, b \in Areas, j \in Slots :
          Entry(m.pde, m.pt, q, b, j) =
             IF b = "buffer" /\ j = n THEN 0 ELSE Entry(mm.pde, mm.pt, q, b, j)

\* The entry of the buffer's page is cleared.
LEMMA FullyFree ==
    ASSUME Up, NEW n \in Slots, Halves \subseteq {n}
    PROVE  PageCleared([mm EXCEPT !.pt[mm.pde[1]["buffer"]][n] = 0], n)
<1>1. PICK t, m : t = mm.pde[1]["buffer"] /\ m = [mm EXCEPT !.pt[mm.pde[1]["buffer"]][n] = 0]
  OBVIOUS
<1>2. /\ "buffer" \in Areas /\ t \in Frames /\ 1 \in Pids /\ t # 0
      /\ \A q \in Pids : mm.pde[q]["buffer"] \in {0, t}
  BY <1>1, BufferTable, Numbers, FrameNumber
<1>3. Typed(mm) /\ TablesOnce(mm.avail, mm.pde) /\ EntriesOnce(mm.avail, mm.pde, mm.pt, Halves)
  BY DEF Up, Sound, Tidy
<1>4. PICK pt2 : pt2 = [mm.pt EXCEPT ![t][n] = 0]
  OBVIOUS
<1>5. /\ m.pt = pt2 /\ DOMAIN m = Fields /\ m.avail = mm.avail
      /\ m.pde = mm.pde /\ m.dir = mm.dir /\ m.target = mm.target
      /\ m.used = mm.used /\ m.fault = mm.fault
  BY <1>1, <1>3, <1>4 DEF Typed, Fields
<1>6. /\ pt2 \in [Frames -> [Slots -> 0..NumFrames]]
      /\ \A u \in Frames, j \in Slots : pt2[u][j] = IF u = t /\ j = n THEN 0 ELSE mm.pt[u][j]
  <2>1. mm.pt \in [Frames -> [Slots -> 0..NumFrames]] /\ 0 \in 0..NumFrames
    BY <1>3, Numbers DEF Typed
  <2> QED
    BY ONLY <1>2, <1>4, <2>1, n \in Slots
<1>7. ASSUME NEW q \in Pids, NEW b \in Areas, NEW j \in Slots
      PROVE  Entry(mm.pde, pt2, q, b, j) =
                IF b = "buffer" /\ j = n THEN 0 ELSE Entry(mm.pde, mm.pt, q, b, j)
  <2>1. mm.pde[q][b] # 0 => mm.pde[q][b] \in Frames
    BY <1>3, FrameNumber DEF Typed
  <2>2. mm.pde[q][b] = t => b = "buffer"
    BY <1>1, <1>2, <1>3 DEF TablesOnce
  <2>3. b = "buffer" => mm.pde[q][b] \in {0, t}
    BY <1>2
  <2> QED
    BY <1>6, <2>1, <2>2, <2>3 DEF Entry
<1>8. EntriesOnce(mm.avail, mm.pde, pt2, {})
  <2> SUFFICES ASSUME NEW p \in Pids, NEW a \in Areas, NEW i \in Slots,
                      Entry(mm.pde, pt2, p, a, i) # 0
               PROVE  /\ Entry(mm.pde, pt2, p, a, i) \notin mm.avail
                      /\ \A q \in Pids, b \in Areas : Entry(mm.pde, pt2, p, a, i) # mm.pde[q][b]
                      /\ \A q \in Pids, b \in Areas, j \in Slots :
                            Entry(mm.pde, pt2, p, a, i) = Entry(mm.pde, pt2, q, b, j)
                            => \/ a = b /\ i = j /\ mm.pde[p][a] = mm.pde[q][b]
                               \/ a = "shm" /\ b = "shm"
    BY DEF EntriesOnce
  <2>1. \A q \in Pids, b \in Areas, j \in Slots : Entry(mm.pde, pt2, q, b, j) # 0 =>
           Settled(b, j, Halves) /\ Entry(mm.pde, pt2, q, b, j) = Entry(mm.pde, mm.pt, q, b, j)
    BY <1>7 DEF Settled
  <2>2. /\ Entry(mm.pde, mm.pt, p, a, i) \notin mm.avail
        /\ \A q \in Pids, b \in Areas : Entry(mm.pde, mm.pt, p, a, i) # mm.pde[q][b]
        /\ \A q \in Pids, b \in Areas, j \in Slots :
              Entry(mm.pde, mm.pt, p, a, i) = Entry(mm.pde, mm.pt, q, b, j) /\ Settled(b, j, Halves)
              => \/ a = b /\ i = j /\ mm.pde[p][a] = mm.pde[q][b]
                 \/ a = "shm" /\ b = "shm"
    BY <1>3, <2>1 DEF EntriesOnce
  <2> QED
    BY <2>1, <2>2
<1>9. Sound(m, {})
  BY <1>3, <1>5, <1>6, <1>8 DEF Sound, Tidy, Typed
<1>10. PageCleared(m, n)
  BY <1>5, <1>7, <1>9 DEF PageCleared
<1> QED
  BY <1>1, <1>10

\* The entry is cleared.
LEMMA ZeroEntryStep ==
    ASSUME MemInv, NEW p \in Pids, ZeroEntry(p)
    PROVE  MemInv'
<1>1. PICK m : /\ TempStep(p, 3, m) /\ NextStage(p)
               /\ m = IF op[p].k = "look" THEN mm
                      ELSE IF mm.target = 0 THEN Fault(mm, "page fault")
                      ELSE [mm EXCEPT !.pt[mm.target][op[p].page] = 0]
  BY DEF ZeroEntry
<1>a. TempStep(p, 3, m) /\ NextStage(p)
  BY <1>1
<1>2. Up
  BY <1>a DEF MemInv, TempStep, InKernel
<1>3. /\ Running /\ mm' = m /\ op[p].k \in {"look", "free"} /\ op[p].at = 3
      /\ op[p].page \in Slots
      /\ \A q \in Pids : q # p => op'[q] = op[q]
      /\ op'[p].k = op[p].k /\ op'[p].page = op[p].page /\ op'[p].at = 4
      /\ TypeInv' /\ Ops'
  BY <1>2, <1>a, NextStageFields
<1>4. Sound(mm, Halves) /\ NoteRace(p) /\ Typed(mm) /\ TempMapping
  BY <1>2, <1>a DEF Up, TempStep, Sound
<1>5. PICK t : t = mm.pde[1]["buffer"]
  OBVIOUS
<1>6. t \in Frames /\ t # 0
  BY <1>2, <1>5, BufferTable, FrameNumber
<1>7. InTempMap(p) /\ InTempMap(p)' /\ ~Half(p)' /\ op'[p].at >= 2 /\ op[p].at >= 2
  BY <1>3 DEF InTempMap, Half
<1>8. ASSUME ~raced'
      PROVE  mm.target = t /\ mm.used = TRUE /\ \A q \in Pids : q # p => ~InTempMap(q)'
  <2>1. mm.target = t /\ mm.used = TRUE /\ \A q \in Pids : q # p => ~InTempMap(q)
    BY <1>4, <1>5, <1>7, <1>8, MineAlone
  <2> QED
    BY <1>3, <2>1 DEF InTempMap
<1>9. \A q \in Pids : LoaderOp(q)' => LoaderOp(q)
  BY <1>3 DEF LoaderOp
<1>10. CASE op[p].k = "free" /\ mm.target = 0
  <2>1. Sound(m, Halves) /\ m.fault = "page fault"
    BY <1>1, <1>4, <1>10, FaultFields
  <2>2. ~Quiet'
    BY <1>6, <1>8, <1>10 DEF Quiet
  <2> QED
    BY <1>3, <2>1, <2>2, StoppedStep
<1>11. ASSUME m.pde = mm.pde, m.dir = mm.dir, m.target = mm.target,
              m.used = mm.used, m.fault = mm.fault, Sound(m, Halves'), Buffers', OthersSame(m)
       PROVE  MemInv'
  <2>1. TempMapping'
    <3>1. mm'.target \in {0, mm'.pde[1]["buffer"]}
      BY <1>3, <1>4, <1>11 DEF TempMapping
    <3>2. ~raced' => mm'.target = mm'.pde[1]["buffer"] /\ (op'[p].at >= 2 <=> mm'.used = TRUE)
      BY <1>3, <1>5, <1>7, <1>8, <1>11
    <3> QED
      BY <1>7, <1>8, <3>1, <3>2, StillMineAlone
  <2>2. Sound(mm, Halves)' /\ m.fault = ""
    BY <1>3, <1>11 DEF Running
  <2>3. Running /\ TempStep(p, 3, m) /\ TypeInv' /\ Ops'
    BY <1>3, <1>a
  <2> QED
    BY ONLY <1>9, <1>11, <2>1, <2>2, <2>3, TempDone, MemInv, p \in Pids
<1>12. CASE op[p].k = "look"
  <2>1. m = mm /\ ~Half(p)
    BY <1>1, <1>12 DEF Half
  <2>2. Halves' = Halves
    BY <1>3, <1>7, <2>1, SameHalves
  <2>3. Buffers'
    <3>1. \A q \in Pids : op'[q] = op[q] \/ (~BufferOp(q) /\ ~BufferOp(q)')
      BY <1>3, <1>12 DEF BufferOp
    <3>2. Ops /\ Buffers /\ bufs \subseteq Slots /\ bits' = bits /\ bufs' = bufs
      BY <1>2, <1>a DEF Up, TypeInv, TempStep
    <3>3. \A i \in Slots : BufferPage(mm', i) = BufferPage(mm, i)
      BY <1>3, <2>1
    <3> QED
      BY ONLY <3>1, <3>2, <3>3, BuffersSame
  <2> QED
    BY <1>4, <1>11, <2>1, <2>2, <2>3 DEF OthersSame
<1>13. CASE op[p].k = "free" /\ mm.target # 0
  <2>1. PICK n \in Slots : n = op[p].page
    BY <1>3
  <2>2. /\ \A q \in Pids : q # p => ~BufferOp(q)
        /\ Halves \subseteq {n}
    BY <1>2, <1>13, <2>1, LoneFree
  <2>3. m = [mm EXCEPT !.pt[t][n] = 0]
    <3>1. mm.target = t
      BY <1>4, <1>5, <1>13 DEF TempMapping
    <3> QED
      BY <1>1, <1>13, <2>1, <3>1
  <2>4. /\ Sound(m, {})
        /\ m.pde = mm.pde /\ m.dir = mm.dir /\ m.target = mm.target
        /\ m.used = mm.used /\ m.fault = mm.fault
        /\ \A q \in Pids, b \in Areas, j \in Slots :
              Entry(m.pde, m.pt, q, b, j) =
                 IF b = "buffer" /\ j = n THEN 0 ELSE Entry(mm.pde, mm.pt, q, b, j)
    <3>1. PageCleared([mm EXCEPT !.pt[mm.pde[1]["buffer"]][n] = 0], n)
      BY <1>2, <2>2, FullyFree
    <3>2. PageCleared(m, n)
      BY <1>5, <2>3, <3>1
    <3> QED
      BY <3>2 DEF PageCleared
  <2>5. Halves' = {}
    <3>1. \A q \in Pids : q # p => ~Half(q)'
      BY <1>3, <2>2 DEF BufferOp, Half
    <3> QED
      BY <1>7, <3>1 DEF Halves
  <2>6. \A j \in Slots : BufferPage(m, j) = IF j = n THEN 0 ELSE BufferPage(mm, j)
    <3>1. 1 \in Pids /\ "buffer" \in Areas
      BY <1>2, BufferTable, Numbers
    <3> QED
      BY <2>4, <3>1 DEF BufferPage
  <2>7. Buffers'
    <3>1. Buffers /\ bits' = bits /\ bufs' = bufs /\ bufs \subseteq Slots
      BY <1>2, <1>a DEF Up, TypeInv, TempStep
    <3>2. \A q \in Pids : q # p => op'[q].k # "free" /\ op[q].k # "free"
                                   /\ ~(op'[q].k = "alloc" /\ op'[q].area = "buffer")
      BY <1>3, <2>2 DEF BufferOp
    <3>3. n \notin bufs
      BY <1>13, <2>1, <3>1 DEF Buffers
    <3>4. \A j \in Slots : BufferPage(m, j) # 0 => j \in bits
      BY <2>1, <2>6, <3>1, <3>2 DEF Buffers
    <3>5. \A j \in bufs : BufferPage(m, j) # 0
      BY <2>6, <3>1, <3>3 DEF Buffers
    <3>6. op'[p].k = "free" /\ op'[p].page = n /\ ~(op'[p].at <= 3)
      BY <1>3, <1>13, <2>1
    <3> QED
      BY <1>3, <3>1, <3>2, <3>3, <3>4, <3>5, <3>6 DEF Buffers
  <2>8. OthersSame(m)
    BY <2>4 DEF OthersSame
  <2> QED
    BY <1>11, <2>4, <2>5, <2>7, <2>8
<1> QED
  BY <1>3, <1>10, <1>12, <1>13

\* un_temp_map.
LEMMA UntempStep ==
    ASSUME MemInv, NEW p \in Pids, Untemp(p)
    PROVE  MemInv'
<1>1. PICK m : TempStep(p, 4, m) /\ m = un_temp_map(mm)
  BY DEF Untemp
<1>2. Up /\ Running /\ mm' = m /\ NoteRace(p) /\ op[p].k \in {"look", "free"} /\ op[p].at = 4
  BY <1>1 DEF MemInv, TempStep, InKernel
<1>3. Sound(mm, Halves) /\ TypeInv /\ Ops /\ Buffers
  BY <1>2 DEF Up
<1>4. /\ Sound(m, Halves) /\ m.avail = mm.avail /\ m.pde = mm.pde /\ m.pt = mm.pt
      /\ m.dir = mm.dir /\ m.fault = mm.fault /\ m.target = 0 /\ m.used = FALSE
  BY <1>1, <1>3, UnTempMap
<1>5. /\ op' \in [Pids -> OpType] /\ op'[p] = Idle
      /\ \A q \in Pids : q # p => op'[q] = op[q]
  <2>1. op \in [Pids -> OpType] /\ op' = [op EXCEPT ![p] = Idle]
    BY <1>3 DEF TypeInv, Untemp
  <2> QED
    BY <2>1, IdleFields
<1>6. op'[p].k = "idle" /\ op'[p].at = 0 /\ ~LoaderOp(p)' /\ ~BufferOp(p)' /\ ~InTempMap(p)' /\ ~Half(p)'
  BY <1>5, IdleFields DEF LoaderOp, BufferOp, InTempMap, Half
<1>7. /\ big_lock' = IF big_lock = p THEN 0 ELSE big_lock
      /\ UNCHANGED <<life, kpages, upages, dirs, bits, bufs, shm, next_shm, astray, clashed>>
  BY <1>1 DEF Untemp, TempStep
<1>8. TypeInv'
  <2>1. big_lock' \in 0..MaxPid
    BY <1>3, <1>7, Numbers DEF TypeInv
  <2>2. raced' \in BOOLEAN
    BY <1>2, <1>3 DEF TypeInv, NoteRace
  <2> QED
    BY <1>3, <1>5, <1>7, <2>1, <2>2 DEF TypeInv
<1>9. Ops'
  <2>1. ASSUME NEW q \in Pids, q # p, BufferOp(q)' PROVE big_lock' = q
    <3>1. BufferOp(q)
      BY <1>5, <2>1 DEF BufferOp
    <3>2. big_lock = q
      BY <1>3, <3>1 DEF Ops
    <3> QED
      BY <1>7, <2>1, <3>2
  <2>2. ASSUME NEW q \in Pids, q # p
        PROVE  /\ life'[q] # "kernel" => op'[q] = Idle
               /\ op'[q].k = "idle" => op'[q] = Idle
               /\ op'[q].k \in {"free", "look"} => op'[q].area = "buffer" /\ op'[q].page \in Slots
               /\ op'[q].k = "alloc" => op'[q].at = 0 /\ op'[q].page \in Slots /\ (LoaderOp(q)' \/ BufferOp(q)')
               /\ LoaderOp(q)' => op'[q].page = 1 /\ upages'[q] = 1
    BY <1>3, <1>5, <1>7, <2>2 DEF Ops, LoaderOp, BufferOp
  <2> QED
    BY <1>5, <1>6, <2>1, <2>2 DEF Ops
<1>10. Sound(mm, Halves)'
  <2>1. \A q \in Pids : op'[q] = op[q] \/ (~Half(q) /\ ~Half(q)')
    BY <1>2, <1>5, <1>6 DEF Half
  <2>2. Halves' = Halves
    BY <2>1, SameHalves
  <2> QED
    BY <1>2, <1>4, <2>2
<1>11. TempMapping'
  <2>1. ASSUME ~raced', NEW q \in Pids, q # p PROVE ~InTempMap(q)'
    <3>1. ~InTempMap(q)
      BY <1>2, <2>1 DEF NoteRace
    <3> QED
      BY <1>5, <2>1, <3>1 DEF InTempMap
  <2>2. mm'.target = 0 /\ mm'.used = FALSE
    BY <1>2, <1>4
  <2> QED
    BY <1>6, <2>1, <2>2, TempMapStaysFree
<1>12. Buffers'
  <2>1. \A i : BufferPage(mm', i) = BufferPage(mm, i)
    BY <1>2, <1>4 DEF BufferPage
  <2>2. ~(op[p].at <= 3)
    BY <1>2
  <2>3. ASSUME NEW i \in Slots, BufferPage(mm', i) # 0
        PROVE  i \in bits' \/ \E q \in Pids : op'[q].k = "free" /\ op'[q].page = i /\ op'[q].at <= 3
    <3>1. i \in bits \/ \E q \in Pids : op[q].k = "free" /\ op[q].page = i /\ op[q].at <= 3
      BY <1>3, <2>1, <2>3 DEF Buffers
    <3> QED
      BY <1>5, <1>7, <2>2, <3>1
  <2>4. \A i \in bufs' : BufferPage(mm', i) # 0
    BY <1>3, <1>7, <2>1 DEF Buffers
  <2>5. ASSUME NEW q \in Pids
        PROVE  /\ op'[q].k = "alloc" /\ op'[q].area = "buffer" =>
                     BufferPage(mm', op'[q].page) = 0 /\ op'[q].page \in bits'
               /\ op'[q].k = "free" => op'[q].page \notin bufs'
               /\ op'[q].k = "free" /\ op'[q].at <= 3 => BufferPage(mm', op'[q].page) # 0
    <3>1. CASE q = p
      BY <1>6, <3>1
    <3>2. CASE q # p
      BY <1>3, <1>5, <1>7, <2>1, <3>2 DEF Buffers
    <3> QED
      BY <3>1, <3>2
  <2> QED
    BY <2>3, <2>4, <2>5 DEF Buffers
<1>13. \A q \in Pids : LoaderOp(q)' => LoaderOp(q)
  BY <1>5, <1>6 DEF LoaderOp
<1>14. m.fault = ""
  BY <1>2, <1>4 DEF Running
<1>15. OthersSame(m)
  BY <1>4 DEF OthersSame
<1> QED
  BY <1>1, <1>2, <1>4, <1>8, <1>9, <1>10, <1>11, <1>12, <1>13, <1>14, <1>15, TempDone

-----------------------------------------------------------------------------
(* The invariant holds *)

\* Before boot every frame is available and no table is there.
LEMMA BeforeBoot ==
    /\ Sound(MMInit, {})
    /\ MMInit.fault = "" /\ MMInit.dir = 1 /\ MMInit.used = FALSE
    /\ \A q \in Pids, b \in Areas : MMInit.pde[q][b] = 0
    /\ \A q \in Pids, b \in Areas, j \in Slots : Entry(MMInit.pde, MMInit.pt, q, b, j) = 0
<1>1. PICK m : m = MMInit
  OBVIOUS
<1>2. /\ m.avail = Frames /\ m.dir = 1 /\ m.target = 0 /\ m.used = FALSE
      /\ DOMAIN m = Fields
      /\ m.pde = [p \in Pids |-> [a \in Areas |-> 0]]
      /\ m.pt = [f \in Frames |-> [i \in Slots |-> 0]]
  BY <1>1 DEF MMInit, Fields, Empty
<1>a. m.fault = ""
  BY <1>1 DEF MMInit
<1>3. 0 \in 0..NumFrames /\ 1 \in Pids
  BY Numbers
<1>4. \A q \in Pids, b \in Areas : m.pde[q][b] = 0
  BY <1>2
<1>5. \A q \in Pids, b \in Areas, j \in Slots : Entry(m.pde, m.pt, q, b, j) = 0
  BY <1>4 DEF Entry
<1>6. Typed(m)
  <2>1. m.pde \in [Pids -> [Areas -> 0..NumFrames]]
    BY ONLY <1>2, <1>3
  <2>2. m.pt \in [Frames -> [Slots -> 0..NumFrames]]
    BY ONLY <1>2, <1>3
  <2> QED
    BY <1>2, <1>3, <2>1, <2>2 DEF Typed
<1>7. Tidy(m.avail, m.pde, m.pt, {})
  BY <1>4, <1>5 DEF Tidy, TablesOnce, EntriesOnce
<1> QED
  BY <1>1, <1>2, <1>a, <1>4, <1>5, <1>6, <1>7 DEF Sound

\* After boot pid 1 has the two tables of the boot, with a page each.
BootTables(g) ==
    /\ Sound(g, {}) /\ g.dir = 1 /\ g.target = 0 /\ g.used = FALSE
    /\ g.pde[1]["kernel"] # 0 /\ g.pde[1]["buffer"] # 0
    /\ \A q \in Pids, b \in Areas : q # 1 => g.pde[q][b] = 0
    /\ \A q \in Pids, b \in Areas, j \in Slots :
          Entry(g.pde, g.pt, q, b, j) # 0 => b \in {"kernel", "buffer"} /\ j = 1
    /\ Entry(g.pde, g.pt, 1, "buffer", 1) # 0

\* What the boot leaves, unless it ran out of frames.
LEMMA AfterBoot ==
    \/ Booted.fault = "" /\ BootTables(Booted)
    \/ Booted.fault = "no frame" /\ TablesOnce({}, Booted.pde)
<1>1. PICK k, m, g : k = MMInit /\ m = allocate(MMInit, "kernel", 1) /\ g = Booted
  OBVIOUS
<1>2. /\ Sound(k, {}) /\ k.dir = 1 /\ k.used = FALSE
      /\ \A q \in Pids, b \in Areas : k.pde[q][b] = 0
      /\ \A q \in Pids, b \in Areas, j \in Slots : Entry(k.pde, k.pt, q, b, j) = 0
  BY <1>1, BeforeBoot
<1>a. k.fault = ""
  BY <1>1, BeforeBoot
<1>3. {"kernel", "buffer"} \subseteq Areas /\ 1 \in Pids /\ 1 \in Slots
  BY Numbers DEF Areas, Shared
<1>4. Mapped(k, m, "kernel", 1, {})
  BY <1>1, <1>2, <1>3, <1>a, AllocatePage
<1>5. g = allocate(m, "buffer", 1)
  BY <1>1 DEF Booted
<1>6. CASE m.fault # ""
  <2>1. m.fault = "no frame" /\ Sound(m, {})
    BY <1>2, <1>3, <1>4, <1>6 DEF Mapped, PageMapped, MapFails
  <2>2. PICK h : h = get_free_frame(m)
    OBVIOUS
  <2>3. h.fault = "no frame" /\ h.pde = m.pde
    <3>1. CASE m.avail = {}
      <4>1. h = Fault(m, "no frame")
        BY <2>2, <3>1 DEF get_free_frame
      <4>2. SameMappings(m, h) /\ h.fault = "no frame"
        BY <2>1, <4>1, FaultFields
      <4> QED
        BY <4>2 DEF SameMappings
    <3>2. CASE m.avail # {}
      BY <2>1, <2>2, <3>2 DEF get_free_frame, set_frame_used, Sound, Typed, Fields
    <3> QED
      BY <3>1, <3>2
  <2>4. g = h
    BY <1>5, <2>2, <2>3 DEF allocate, Then
  <2>5. TablesOnce({}, m.pde)
    BY <2>1 DEF Sound, Tidy, TablesOnce
  <2> QED
    BY <1>1, <2>3, <2>4, <2>5
<1>7. CASE m.fault = ""
  <2>1. Sound(m, {}) /\ TablesKept(k, m, "kernel") /\ PageMapped(k, m, "kernel", 1)
    BY <1>4, <1>7 DEF Mapped, MapFails
  <2>2. /\ m.dir = 1 /\ m.used = FALSE /\ m.pde[1]["kernel"] # 0
        /\ \A q \in Pids, b \in Areas : q # 1 \/ b # "kernel" => m.pde[q][b] = 0
    <3>1. m.used = FALSE /\ m.pde[k.dir]["kernel"] # 0
      BY <2>1 DEF PageMapped
    <3> QED
      BY <1>2, <2>1, <3>1 DEF TablesKept
  <2>3. \A q \in Pids, b \in Areas, j \in Slots :
           Entry(m.pde, m.pt, q, b, j) # 0 => b = "kernel" /\ j = 1
    <3>1. PICK f \in Frames : \A q \in Pids, b \in Areas, j \in Slots :
             Entry(m.pde, m.pt, q, b, j) =
                IF b = "kernel" /\ j = 1 /\ m.pde[q][b] = m.pde[k.dir]["kernel"]
                THEN f ELSE Entry(k.pde, k.pt, q, b, j)
      BY <2>1 DEF PageMapped
    <3> QED
      BY <1>2, <3>1
  <2>4. Mapped(m, g, "buffer", 1, {})
    BY <1>3, <1>5, <1>7, <2>1, AllocatePage
  <2>5. Entry(m.pde, m.pt, 1, "buffer", 1) = 0
    BY <1>3, <2>3
  <2>6. CASE g.fault # ""
    <3>1. g.fault = "no frame" /\ Sound(g, {})
      BY <2>2, <2>4, <2>5, <2>6 DEF Mapped, PageMapped, MapFails
    <3>2. TablesOnce({}, g.pde)
      BY <3>1 DEF Sound, Tidy, TablesOnce
    <3> QED
      BY <1>1, <3>1, <3>2
  <2>7. CASE g.fault = ""
    <3>1. Sound(g, {}) /\ TablesKept(m, g, "buffer") /\ PageMapped(m, g, "buffer", 1)
      BY <2>4, <2>7 DEF Mapped, MapFails
    <3>2. /\ g.dir = 1 /\ g.target = 0 /\ g.used = FALSE /\ g.pde[1]["buffer"] # 0
          /\ g.pde[1]["kernel"] = m.pde[1]["kernel"]
          /\ \A q \in Pids, b \in Areas : q # 1 => g.pde[q][b] = 0
      <4>1. g.target = 0 /\ g.used = FALSE /\ g.pde[m.dir]["buffer"] # 0
        BY <3>1 DEF PageMapped
      <4> QED
        BY <1>3, <2>2, <3>1, <4>1 DEF TablesKept
    <3>3. PICK f \in Frames : \A q \in Pids, b \in Areas, j \in Slots :
             Entry(g.pde, g.pt, q, b, j) =
                IF b = "buffer" /\ j = 1 /\ g.pde[q][b] = g.pde[1]["buffer"]
                THEN f ELSE Entry(m.pde, m.pt, q, b, j)
      <4>1. PICK f \in Frames : \A q \in Pids, b \in Areas, j \in Slots :
               Entry(g.pde, g.pt, q, b, j) =
                  IF b = "buffer" /\ j = 1 /\ g.pde[q][b] = g.pde[m.dir]["buffer"]
                  THEN f ELSE Entry(m.pde, m.pt, q, b, j)
        BY <3>1 DEF PageMapped
      <4> QED
        BY <2>2, <4>1
    <3>4. f # 0
      BY FrameNumber
    <3>5. Entry(g.pde, g.pt, 1, "buffer", 1) # 0
      BY <1>3, <3>3, <3>4
    <3>6. \A q \in Pids, b \in Areas, j \in Slots :
             Entry(g.pde, g.pt, q, b, j) # 0 => b \in {"kernel", "buffer"} /\ j = 1
      BY <2>3, <3>3
    <3>7. BootTables(g)
      BY <2>2, <3>1, <3>2, <3>5, <3>6 DEF BootTables
    <3> QED
      BY <1>1, <2>7, <3>7
  <2> QED
    BY <2>6, <2>7
<1> QED
  BY <1>6, <1>7

\* The boot.
LEMMA InitInv == Init => MemInv
<1> SUFFICES ASSUME Init PROVE MemInv
  OBVIOUS
<1>1. CASE mm.fault = "no frame" /\ TablesOnce({}, mm.pde)
  BY <1>1 DEF MemInv, PrivateTables, TablesOnce, Running, Stops
<1>2. CASE mm.fault = "" /\ BootTables(mm)
  <2>1. /\ life = [p \in Pids |-> IF p = 1 THEN "kernel" ELSE "none"]
        /\ op = [p \in Pids |-> Idle] /\ kpages = 1 /\ upages = [p \in Pids |-> 0]
        /\ bits = {1} /\ bufs = {1} /\ big_lock = 0 /\ shm = {}
        /\ next_shm = [p \in Pids |-> 1] /\ raced = FALSE /\ astray = FALSE /\ clashed = FALSE
    BY DEF Init
  <2>2. \A q \in Pids : op[q] = Idle /\ op[q].k = "idle" /\ op[q].at = 0
    BY <2>1, IdleFields
  <2>3. \A q \in Pids : ~Half(q) /\ ~InTempMap(q) /\ ~LoaderOp(q) /\ ~BufferOp(q)
    BY <2>2 DEF Half, InTempMap, LoaderOp, BufferOp
  <2>4. Halves = {}
    BY <2>3 DEF Halves
  <2>5. 1 \in Pids /\ 1 \in Slots /\ PerTable \in Nat /\ PerTable >= 1 /\ MaxPid \in Nat
    BY Numbers
  <2>6. TypeInv
    <3>1. life \in [Pids -> {"none", "kernel", "user", "gone"}] /\ op \in [Pids -> OpType]
      BY <2>1, IdleFields
    <3>2. upages \in [Pids -> 0..PerTable] /\ next_shm \in [Pids -> 1..(PerTable + 1)]
      <4>1. 0 \in 0..PerTable /\ 1 \in 1..(PerTable + 1)
        BY ONLY <2>5
      <4> QED
        BY ONLY <2>1, <4>1
    <3>3. kpages \in Nat \ {0} /\ big_lock \in 0..MaxPid
      BY <2>1, <2>5
    <3>4. /\ bits \subseteq Slots /\ bufs \subseteq Slots
          /\ \A e \in shm : e.pid \in Pids /\ e.page \in Slots
          /\ raced \in BOOLEAN /\ astray \in BOOLEAN /\ clashed \in BOOLEAN
      BY <2>1, <2>5
    <3> QED
      BY <3>1, <3>2, <3>3, <3>4 DEF TypeInv
  <2>7. Ops
    BY <2>2, <2>3 DEF Ops
  <2>8. Sound(mm, Halves)
    BY <1>2, <2>4 DEF BootTables
  <2>9. Directories(mm, life)
    <3>1. \A q \in Pids : life[q] = IF q = 1 THEN "kernel" ELSE "none"
      BY <2>1
    <3> QED
      BY <1>2, <2>5, <3>1 DEF BootTables, Directories
  <2>10. TempMapping
    BY <1>2, <2>1, <2>3 DEF BootTables, TempMapping
  <2>11. Buffers
    <3>1. "buffer" \in Areas
      BY DEF Areas, Shared
    <3>2. \A i \in Slots : BufferPage(mm, i) # 0 => i = 1
      BY <1>2, <2>5, <3>1 DEF BootTables, BufferPage
    <3>3. BufferPage(mm, 1) # 0
      BY <1>2 DEF BootTables, BufferPage
    <3> QED
      BY <2>1, <2>2, <3>2, <3>3 DEF Buffers
  <2>12. PagesInOrder
    <3>1. {"kernel", "user", "shm"} \subseteq Areas
      BY DEF Areas, Shared
    <3>2. \A i \in Slots : Entry(mm.pde, mm.pt, 1, "kernel", i) # 0 => i <= kpages
      <4>1. \A i \in Slots : Entry(mm.pde, mm.pt, 1, "kernel", i) # 0 => i = 1
        BY <1>2, <2>5, <3>1 DEF BootTables
      <4> QED
        BY ONLY <2>1, <4>1
    <3>3. \A q \in Pids, i \in Slots : Entry(mm.pde, mm.pt, q, "user", i) = 0 /\ Entry(mm.pde, mm.pt, q, "shm", i) = 0
      BY <1>2, <3>1 DEF BootTables
    <3> QED
      BY <2>1, <3>2, <3>3 DEF PagesInOrder
  <2>13. PrivateTables
    BY <2>8, TablesArePrivate
  <2> QED
    BY <1>2, <2>6, <2>7, <2>8, <2>9, <2>10, <2>11, <2>12, <2>13 DEF MemInv, Up, Stops
<1> QED
  BY <1>1, <1>2, AfterBoot DEF Init

\* Every step keeps the invariant.
LEMMA NextInv == MemInv /\ [Next]_vars => MemInv'
<1> SUFFICES ASSUME MemInv, [Next]_vars PROVE MemInv'
  OBVIOUS
<1>1. CASE UNCHANGED vars
  <2>1. UNCHANGED <<mm, life, op, kpages, upages, dirs, bits, big_lock, bufs, shm, next_shm,
                    raced, astray, clashed>>
    BY <1>1 DEF vars
  <2>2. (Quiet' <=> Quiet) /\ (PrivateTables' <=> PrivateTables)
    BY <2>1 DEF Quiet, PrivateTables
  <2>3. Halves' = Halves
    BY <2>1, SameHalves
  <2>4. (TypeInv' <=> TypeInv) /\ (Ops' <=> Ops)
    BY <2>1 DEF TypeInv, Ops, LoaderOp, BufferOp
  <2>5. (Buffers' <=> Buffers) /\ (PagesInOrder' <=> PagesInOrder)
    BY <2>1 DEF Buffers, PagesInOrder, LoaderOp
  <2>6. TempMapping' <=> TempMapping
    BY <2>1 DEF TempMapping, InTempMap, OnlyMine, Half
  <2>7. Up' <=> Up
    BY <2>1, <2>3, <2>4, <2>5, <2>6 DEF Up
  <2> QED
    BY <2>1, <2>2, <2>5, <2>7 DEF MemInv, Running
<1>2. ASSUME NEW p \in Pids, SystemCall(p) PROVE MemInv'
  <2>1. CASE SysAllocatePage(p)
    BY <2>1, SysAllocatePageStep
  <2>2. ASSUME NEW child \in Pids, NewProcess(p, child) PROVE MemInv'
    BY <2>2, NewProcessStep
  <2>3. ASSUME NEW guid \in Guids, CreateSharedMemory(p, guid) PROVE MemInv'
    BY <2>3, CreateSharedMemoryStep
  <2>4. ASSUME NEW guid \in Guids, OpenSharedMemory(p, guid) PROVE MemInv'
    BY <2>4, OpenSharedMemoryStep
  <2>5. CASE Exit(p) \/ Blocks(p)
    BY <2>5, LifeSteps
  <2> QED
    BY <1>2, <2>1, <2>2, <2>3, <2>4, <2>5 DEF SystemCall
<1>3. ASSUME NEW p \in Pids, KernelStep(p) PROVE MemInv'
  <2>1. CASE GrowHeap(p)
    BY <2>1, GrowHeapStep
  <2>2. CASE TouchHeap(p)
    BY <2>2, TouchHeapStep
  <2>3. CASE LoadThe(p)
    BY <2>3, LoadTheStep
  <2>4. CASE BufferThe(p)
    BY <2>4, BufferTheStep
  <2>5. CASE Allocate(p)
    BY <2>5, AllocateStep
  <2>6. CASE FreeThe(p)
    BY <2>6, FreeTheStep
  <2>7. CASE LookupThe(p)
    BY <2>7, LookupTheStep
  <2>8. CASE TempMapTarget(p)
    BY <2>8, TempMapTargetStep
  <2>9. CASE TempMapUsed(p)
    BY <2>9, TempMapUsedStep
  <2>10. CASE ReadEntry(p)
    BY <2>10, ReadEntryStep
  <2>11. CASE ZeroEntry(p)
    BY <2>11, ZeroEntryStep
  <2>12. CASE Untemp(p)
    BY <2>12, UntempStep
  <2>13. CASE Returns(p)
    BY <2>13, LifeSteps
  <2> QED
    BY <1>3, <2>1, <2>2, <2>3, <2>4, <2>5, <2>6, <2>7, <2>8, <2>9, <2>10, <2>11, <2>12, <2>13
       DEF KernelStep, TempMapStep
<1> QED
  BY <1>1, <1>2, <1>3 DEF Next

\* MemInv holds in every state (MemoryManager, BigBuffer, the system calls and
\* the loader that change address spaces).
THEOREM MemoryInvariance == Spec => []MemInv
<1>1. Init => MemInv
  BY InitInv
<1>2. MemInv /\ [Next]_vars => MemInv'
  BY NextInv
<1> QED
  BY <1>1, <1>2, PTL DEF Spec

-----------------------------------------------------------------------------
(* The properties of Memory *)

\* The entries that map a frame.
LEMMA UsesAreEntries ==
    ASSUME NEW f \in Frames, NEW u \in Uses(f)
    PROVE  \E p \in Pids, a \in Areas, i \in Slots :
              u = <<mm.pde[p][a], i>> /\ mm.pde[p][a] # 0 /\ Entry(mm.pde, mm.pt, p, a, i) = f
<1>1. u \in Tables \X Slots /\ mm.pt[u[1]][u[2]] = f
  BY DEF Uses
<1>2. u[1] \in Tables /\ u[2] \in Slots /\ u = <<u[1], u[2]>>
  BY <1>1
<1>3. PICK p \in Pids, a \in Areas : u[1] = mm.pde[p][a]
  BY <1>2 DEF Tables
<1>4. mm.pde[p][a] # 0
  BY <1>2, <1>3 DEF Tables
<1>5. Entry(mm.pde, mm.pt, p, a, u[2]) = f
  BY <1>1, <1>3, <1>4 DEF Entry
<1> QED
  BY <1>2, <1>3, <1>4, <1>5

\* What is not settled is the page that a process has half freed.
LEMMA NotSettled ==
    ASSUME Up, ~raced, NEW p \in Pids, NEW a \in Areas, NEW i \in Slots,
           Entry(mm.pde, mm.pt, p, a, i) # 0, ~Settled(a, i, Halves)
    PROVE  \E h \in Pids :
              /\ Half(h) /\ op[h].page = i /\ a = "buffer"
              /\ mm.target = mm.pde[p][a] /\ mm.target # 0
              /\ \A q \in Pids, b \in Areas :
                    /\ mm.pde[q][b] # Entry(mm.pde, mm.pt, p, a, i)
                    /\ \A j \in Slots :
                          Entry(mm.pde, mm.pt, q, b, j) = Entry(mm.pde, mm.pt, p, a, i)
                          => b = "buffer" /\ j = i
<1>1. a = "buffer" /\ i \in Halves
  BY DEF Settled
<1>2. PICK h \in Pids : Half(h) /\ op[h].page = i
  BY <1>1 DEF Halves
<1>3. InTempMap(h)
  BY <1>2 DEF Half, InTempMap
<1>4. mm.pde[p][a] # 0
  BY DEF Entry
<1>5. mm.pde[p][a] = mm.pde[1]["buffer"] /\ mm.target = mm.pde[p][a]
  BY <1>1, <1>3, <1>4, BufferTable DEF Up, TempMapping
<1>6. BufferPage(mm, i) = Entry(mm.pde, mm.pt, p, a, i)
  BY <1>1, <1>5 DEF BufferPage, Entry
<1>7. OnlyMine(h)
  BY <1>2, <1>6 DEF Up, TempMapping
<1> QED
  BY <1>1, <1>2, <1>4, <1>5, <1>6, <1>7 DEF OnlyMine

\* A frame is available, a table, the page of one entry, or shared memory, as
\* long as nobody is preempted with a table mapped (get_free_frame, allocate,
\* deallocate, clone_page_directory, duplicate).
THEOREM FramesStayUsedOnce == Spec => []FramesUsedOnce
<1>1. MemInv => FramesUsedOnce
  <2> SUFFICES ASSUME MemInv, ~raced, Running, NEW f \in Frames
               PROVE  /\ f \in mm.avail => f \notin Tables /\ (Uses(f) = {} \/ f \in HalfFreed)
                      /\ f \in Tables => Uses(f) = {}
                      /\ Cardinality(Uses(f)) > 1 => \A u \in Uses(f) : u[1] \in SharedTables
    BY DEF FramesUsedOnce
  <2>1. /\ Up /\ f # 0 /\ TablesOnce(mm.avail, mm.pde)
        /\ EntriesOnce(mm.avail, mm.pde, mm.pt, Halves)
    BY FrameNumber DEF MemInv, Up, Sound, Tidy
  <2>2. ASSUME f \in mm.avail PROVE f \notin Tables
    BY <2>1, <2>2 DEF TablesOnce, Tables
  <2>3. ASSUME f \in mm.avail, NEW u \in Uses(f) PROVE f \in HalfFreed
    <3>1. PICK p \in Pids, a \in Areas, i \in Slots :
             u = <<mm.pde[p][a], i>> /\ mm.pde[p][a] # 0 /\ Entry(mm.pde, mm.pt, p, a, i) = f
      BY UsesAreEntries
    <3>2. ~Settled(a, i, Halves)
      BY <2>1, <2>3, <3>1 DEF EntriesOnce
    <3>3. PICK h \in Pids : Half(h) /\ op[h].page = i /\ mm.target = mm.pde[p][a] /\ mm.target # 0
      BY <2>1, <3>1, <3>2, NotSettled
    <3>4. f = mm.pt[mm.target][op[h].page]
      BY <3>1, <3>3 DEF Entry
    <3> QED
      BY <3>3, <3>4 DEF HalfFreed, Half
  <2>4. ASSUME f \in Tables, NEW u \in Uses(f) PROVE FALSE
    <3>1. PICK p \in Pids, a \in Areas, i \in Slots :
             u = <<mm.pde[p][a], i>> /\ mm.pde[p][a] # 0 /\ Entry(mm.pde, mm.pt, p, a, i) = f
      BY UsesAreEntries
    <3>2. PICK q \in Pids, b \in Areas : f = mm.pde[q][b]
      BY <2>4 DEF Tables
    <3>3. ~Settled(a, i, Halves)
      BY <2>1, <3>1, <3>2 DEF EntriesOnce
    <3> QED
      BY <2>1, <3>1, <3>2, <3>3, NotSettled
  <2>5. ASSUME Cardinality(Uses(f)) > 1, NEW u \in Uses(f) PROVE u[1] \in SharedTables
    <3> SUFFICES ASSUME u[1] \notin SharedTables PROVE FALSE
      OBVIOUS
    <3>1. PICK p \in Pids, a \in Areas, i \in Slots :
             u = <<mm.pde[p][a], i>> /\ mm.pde[p][a] # 0 /\ Entry(mm.pde, mm.pt, p, a, i) = f
      BY UsesAreEntries
    <3>2. a # "shm"
      BY <3>1 DEF SharedTables
    <3>3. ASSUME NEW v \in Uses(f) PROVE v = u
      <4>1. PICK q \in Pids, b \in Areas, j \in Slots :
               v = <<mm.pde[q][b], j>> /\ mm.pde[q][b] # 0 /\ Entry(mm.pde, mm.pt, q, b, j) = f
        BY UsesAreEntries
      <4>2. CASE Settled(a, i, Halves) /\ Settled(b, j, Halves)
        <5>1. i = j /\ mm.pde[p][a] = mm.pde[q][b]
          BY <2>1, <3>1, <3>2, <4>1, <4>2 DEF EntriesOnce
        <5> QED
          BY <3>1, <4>1, <5>1
      <4>3. CASE ~Settled(a, i, Halves)
        <5>1. a = "buffer" /\ b = "buffer" /\ j = i
          BY <2>1, <3>1, <4>1, <4>3, NotSettled
        <5>2. mm.pde[p][a] = mm.pde[q][b]
          BY <2>1, <3>1, <4>1, <5>1, BufferTable
        <5> QED
          BY <3>1, <4>1, <5>1, <5>2
      <4>4. CASE ~Settled(b, j, Halves)
        <5>1. a = "buffer" /\ b = "buffer" /\ j = i
          BY <2>1, <3>1, <4>1, <4>4, NotSettled
        <5>2. mm.pde[p][a] = mm.pde[q][b]
          BY <2>1, <3>1, <4>1, <5>1, BufferTable
        <5> QED
          BY <3>1, <4>1, <5>1, <5>2
      <4> QED
        BY <4>2, <4>3, <4>4
    <3>4. Uses(f) = {u}
      BY <3>3
    <3>5. Cardinality(Uses(f)) = 1
      BY <3>4, FS_Singleton
    <3> QED
      BY ONLY <2>5, <3>5
  <2> QED
    BY <2>2, <2>3, <2>4, <2>5
<1>2. Spec => []MemInv
  BY MemoryInvariance
<1> QED
  BY <1>1, <1>2, PTL

\* No process reaches another's private tables, and while nothing happened that
\* spoils them the assertions of MemoryManager hold, apart from running out of
\* frames or of directories (temp_map, map_page, deallocate, duplicate).
THEOREM MemoryAssertions == Spec => []MemoryAssertionsHold
<1>1. MemInv => MemoryAssertionsHold
  BY DEF MemInv, MemoryAssertionsHold, PrivateTables, Quiet, Stops
<1>2. Spec => []MemInv
  BY MemoryInvariance
<1> QED
  BY <1>1, <1>2, PTL

=============================================================================
