------------------------- MODULE HeapAllocatorProofs -------------------------
(***************************************************************************)
(* Proofs about HeapAllocator, for any page size, header size, set of      *)
(* request sizes and number of pages.                                      *)
(*                                                                         *)
(* The argument goes byte by byte.  Every byte of the heap has exactly one *)
(* owner: a block in use, the header of a free node or the region of a     *)
(* free node.  Each operation moves the bytes of one block between two     *)
(* owners: add_mem_block makes them a node of their own or the front of a  *)
(* region, Take cuts them from the front of a region.  What is left for    *)
(* the rest of the proof is that no other byte changes its owner.          *)
(***************************************************************************)
EXTENDS HeapAllocator, SequenceTheorems, WellFoundedInduction, TLAPS

NodeType  == [header : Nat, addr : Nat, size : Nat]
BlockType == {b \in [addr : Nat, size : Nat] : b.addr >= HEADER}

\* Byte x is in the header of a node, in its region, or in a block in use.
InHeader(x, node) == node.header <= x /\ x < node.header + HEADER
InRegion(x, node) == node.addr <= x /\ x < node.addr + node.size
InBlock(x, block) == block.addr - HEADER <= x /\ x < block.addr + block.size

\* Byte x has an owner among the nodes of list and the blocks of in_use.
Owned(list, in_use, x) ==
    \/ \E b \in in_use : InBlock(x, b)
    \/ \E i \in 1..Len(list) : InHeader(x, list[i]) \/ InRegion(x, list[i])

\* Byte x has at most one owner.
OneOwner(list, in_use, x) ==
    /\ \A b, c \in in_use : InBlock(x, b) /\ InBlock(x, c) => b = c
    /\ \A b \in in_use, i \in 1..Len(list) :
        InBlock(x, b) => ~InHeader(x, list[i]) /\ ~InRegion(x, list[i])
    /\ \A i, j \in 1..Len(list) :
        /\ InHeader(x, list[i]) => ~InRegion(x, list[j])
        /\ InHeader(x, list[i]) /\ InHeader(x, list[j]) => i = j
        /\ InRegion(x, list[i]) /\ InRegion(x, list[j]) => i = j

\* The owned bytes are those of B, and each has one owner.
Sound(list, in_use, B) ==
    /\ list \in Seq(NodeType)
    /\ in_use \subseteq BlockType
    /\ \A x \in Int : OneOwner(list, in_use, x) /\ (x \in B <=> Owned(list, in_use, x))

HeapInv ==
    /\ heap_end \in Nat
    /\ failed \in BOOLEAN
    /\ Sound(free_list, used, 0..(heap_end - 1))

-----------------------------------------------------------------------------
\* The first node of a set of nodes is one of them.
LEMMA MinMember ==
    ASSUME NEW S, S \subseteq Nat, S # {}
    PROVE  Min(S) \in S
<1> DEFINE R == OpToRel(<, Nat)
<1>1. PICK m \in S : \A y \in S : ~(<<y, m>> \in R)
  <2> HIDE DEF R
  <2>1. IsWellFoundedOn(R, Nat)
    BY NatLessThanWellFounded DEF R
  <2> QED
    BY <2>1, WFMin
<1>2. \A y \in S : m <= y
  <2> SUFFICES ASSUME NEW y \in S PROVE m <= y
    OBVIOUS
  <2>1. ~(y < m)
    <3> SUFFICES ASSUME y < m PROVE FALSE
      OBVIOUS
    <3>1. <<y, m>> \in Nat \X Nat /\ <<y, m>>[1] < <<y, m>>[2]
      OBVIOUS
    <3>2. <<y, m>> \in R
      BY <3>1 DEF OpToRel
    <3> QED
      BY <1>1, <3>2
  <2> QED
    BY <2>1
<1> QED
  BY <1>1, <1>2 DEF Min

-----------------------------------------------------------------------------
(* Who owns a byte after an operation *)

\* The bytes of a free block become the front of the region of node k.
LEMMA MergeOwner ==
    ASSUME NEW list, NEW merged, NEW in_use, NEW x, NEW block, NEW k \in 1..Len(list),
           Len(merged) = Len(list),
           OneOwner(list, in_use, x),
           InBlock(x, block) => ~Owned(list, in_use, x),
           \A i \in 1..Len(list) : InHeader(x, merged[i]) <=> InHeader(x, list[i]),
           \A i \in 1..Len(list) : InRegion(x, merged[i])
                                   <=> (InRegion(x, list[i]) \/ (i = k /\ InBlock(x, block)))
    PROVE  /\ OneOwner(merged, in_use, x)
           /\ Owned(merged, in_use, x) <=> (Owned(list, in_use, x) \/ InBlock(x, block))
BY DEF OneOwner, Owned

\* The bytes of a free block become a node in front of the list.
LEMMA PrependOwner ==
    ASSUME NEW list, NEW longer, NEW in_use, NEW x, NEW block,
           Len(list) \in Nat, Len(longer) = Len(list) + 1,
           OneOwner(list, in_use, x),
           InBlock(x, block) => ~Owned(list, in_use, x),
           InBlock(x, block) <=> (InHeader(x, longer[1]) \/ InRegion(x, longer[1])),
           ~(InHeader(x, longer[1]) /\ InRegion(x, longer[1])),
           \A i \in 1..Len(list) : longer[i + 1] = list[i]
    PROVE  /\ OneOwner(longer, in_use, x)
           /\ Owned(longer, in_use, x) <=> (Owned(list, in_use, x) \/ InBlock(x, block))
<1>1. \A i \in 1..Len(longer) : i = 1 \/ (i - 1 \in 1..Len(list) /\ longer[i] = list[i - 1])
  <2> SUFFICES ASSUME NEW i \in 1..Len(longer), i # 1
               PROVE  i - 1 \in 1..Len(list) /\ longer[i] = list[i - 1]
    OBVIOUS
  <2>1. i - 1 \in 1..Len(list) /\ (i - 1) + 1 = i
    OBVIOUS
  <2> QED
    BY <2>1
<1>2. 1 \in 1..Len(longer) /\ \A i \in 1..Len(list) : i + 1 \in 1..Len(longer)
  OBVIOUS
<1>3. Owned(longer, in_use, x) <=> (Owned(list, in_use, x) \/ InBlock(x, block))
  BY <1>1, <1>2 DEF Owned
<1>4. \A b \in in_use, i \in 1..Len(longer) :
        InBlock(x, b) => ~InHeader(x, longer[i]) /\ ~InRegion(x, longer[i])
  BY <1>1 DEF OneOwner, Owned
<1>5. ASSUME NEW i \in 1..Len(longer), NEW j \in 1..Len(longer)
      PROVE  /\ InHeader(x, longer[i]) => ~InRegion(x, longer[j])
             /\ InHeader(x, longer[i]) /\ InHeader(x, longer[j]) => i = j
             /\ InRegion(x, longer[i]) /\ InRegion(x, longer[j]) => i = j
  <2>1. CASE i = 1 /\ j = 1
    BY <2>1
  <2>2. CASE i = 1 /\ j # 1
    BY <1>1, <2>2 DEF Owned
  <2>3. CASE i # 1 /\ j = 1
    BY <1>1, <2>3 DEF Owned
  <2>4. CASE i # 1 /\ j # 1
    <3>1. /\ i - 1 \in 1..Len(list) /\ longer[i] = list[i - 1]
          /\ j - 1 \in 1..Len(list) /\ longer[j] = list[j - 1]
          /\ i - 1 = j - 1 => i = j
      BY <1>1, <2>4
    <3> QED
      BY <3>1 DEF OneOwner
  <2> QED
    BY <2>1, <2>2, <2>3, <2>4
<1>6. \A b, c \in in_use : InBlock(x, b) /\ InBlock(x, c) => b = c
  BY DEF OneOwner
<1> QED
  BY <1>3, <1>4, <1>5, <1>6 DEF OneOwner

\* The front of the region of node k becomes a block in use.
LEMMA TakeOwner ==
    ASSUME NEW list, NEW cut, NEW in_use, NEW x, NEW block, NEW k \in 1..Len(list),
           Len(cut) = Len(list),
           OneOwner(list, in_use, x),
           \A i \in 1..Len(list) : InHeader(x, cut[i]) <=> InHeader(x, list[i]),
           \A i \in 1..Len(list) : i # k => (InRegion(x, cut[i]) <=> InRegion(x, list[i])),
           InRegion(x, list[k]) <=> (InRegion(x, cut[k]) \/ InBlock(x, block)),
           ~(InRegion(x, cut[k]) /\ InBlock(x, block))
    PROVE  /\ OneOwner(cut, in_use \cup {block}, x)
           /\ Owned(cut, in_use \cup {block}, x) <=> Owned(list, in_use, x)
<1>1. \A i \in 1..Len(list) : InRegion(x, cut[i]) => InRegion(x, list[i])
  OBVIOUS
<1>2. \A i \in 1..Len(list) : InRegion(x, cut[i]) => ~InBlock(x, block)
  BY DEF OneOwner
<1>3. \A b \in in_use : InBlock(x, b) => ~InBlock(x, block)
  BY DEF OneOwner
<1>4. \A i \in 1..Len(list) : InHeader(x, cut[i]) => ~InBlock(x, block)
  BY DEF OneOwner
<1>5. OneOwner(cut, in_use \cup {block}, x)
  BY <1>1, <1>2, <1>3, <1>4 DEF OneOwner
<1>6. Owned(cut, in_use \cup {block}, x) <=> Owned(list, in_use, x)
  BY <1>1 DEF Owned
<1> QED
  BY <1>5, <1>6

-----------------------------------------------------------------------------
(* The operations on the list *)

\* The bytes of a block, one by one.
LEMMA BytesOfBlock ==
    ASSUME NEW block \in BlockType
    PROVE  /\ block.addr \in Nat /\ block.size \in Nat /\ block.addr >= HEADER
           /\ \A x \in Int : x \in BlockBytes(block) <=> InBlock(x, block)
BY HeapAssumption DEF BlockType, BlockBytes, InBlock

\* add_mem_block gives the bytes of a block, and no others, to the list, and
\* some node is then as large as the block.
LEMMA AddMemBlockSound ==
    ASSUME NEW list, NEW in_use, NEW B, NEW block \in BlockType,
           Sound(list, in_use, B),
           \A x \in Int : InBlock(x, block) => x \notin B,
           NEW after,
           after = add_mem_block(list, Node(block.addr - HEADER, block.addr, block.size))
    PROVE  /\ Sound(after, in_use, B \cup BlockBytes(block))
           /\ \E i \in 1..Len(after) : after[i].size >= block.size
<1> DEFINE node == Node(block.addr - HEADER, block.addr, block.size)
           merges == {i \in 1..Len(list) : node.addr + node.size = list[i].addr}
<1>1. /\ list \in Seq(NodeType) /\ Len(list) \in Nat
      /\ \A i \in 1..Len(list) : list[i] \in NodeType
  BY DEF Sound
<1>2. HEADER \in Nat \ {0}
  BY HeapAssumption
<1>3. /\ block.addr \in Nat /\ block.size \in Nat /\ block.addr >= HEADER
      /\ \A x \in Int : x \in BlockBytes(block) <=> InBlock(x, block)
  BY BytesOfBlock
<1>4. /\ node \in NodeType
      /\ node.header = block.addr - HEADER /\ node.addr = block.addr /\ node.size = block.size
  BY <1>2, <1>3 DEF Node, NodeType
<1>5. \A x \in Int : /\ OneOwner(list, in_use, x)
                     /\ x \in B <=> Owned(list, in_use, x)
                     /\ InBlock(x, block) => ~Owned(list, in_use, x)
  BY DEF Sound
<1> SUFFICES /\ after \in Seq(NodeType)
             /\ \A x \in Int :
                  /\ OneOwner(after, in_use, x)
                  /\ Owned(after, in_use, x) <=> (Owned(list, in_use, x) \/ InBlock(x, block))
             /\ \E i \in 1..Len(after) : after[i].size >= block.size
  BY <1>3, <1>5 DEF Sound
<1>6. CASE merges = {}
  <2>1. after = <<node>> \o list
    BY <1>6 DEF add_mem_block
  <2> HIDE DEF node
  <2>2. /\ after \in Seq(NodeType) /\ Len(after) = Len(list) + 1
        /\ after[1] = node
        /\ \A i \in 1..Len(list) : after[i + 1] = list[i]
    <3>1. <<node>> \in Seq(NodeType) /\ Len(<<node>>) = 1 /\ <<node>>[1] = node
      BY <1>4
    <3> DEFINE s == <<node>>
    <3> HIDE DEF s
    <3>2. /\ s \o list \in Seq(NodeType) /\ Len(s \o list) = Len(s) + Len(list)
          /\ \A i \in 1..(Len(s) + Len(list)) :
                (s \o list)[i] = IF i <= Len(s) THEN s[i] ELSE list[i - Len(s)]
      BY <1>1, <3>1, ConcatProperties DEF s
    <3>3. after = s \o list /\ Len(s) = 1 /\ s[1] = node
      BY <2>1, <3>1 DEF s
    <3>4. after[1] = node
      BY <1>1, <3>2, <3>3
    <3>5. ASSUME NEW i \in 1..Len(list)
          PROVE  after[i + 1] = list[i]
      <4>1. i + 1 \in 1..(Len(s) + Len(list)) /\ ~(i + 1 <= Len(s)) /\ (i + 1) - Len(s) = i
        BY <1>1, <3>3
      <4> QED
        BY <3>2, <3>3, <4>1
    <3>6. after \in Seq(NodeType) /\ Len(after) = Len(list) + 1
      BY ONLY <1>1, <3>2, <3>3
    <3> QED
      BY <3>4, <3>5, <3>6
  <2>3. ASSUME NEW x \in Int
        PROVE  /\ InBlock(x, block) <=> (InHeader(x, after[1]) \/ InRegion(x, after[1]))
               /\ ~(InHeader(x, after[1]) /\ InRegion(x, after[1]))
    BY <1>2, <1>3, <1>4, <2>2 DEF InBlock, InHeader, InRegion
  <2>4. 1 \in 1..Len(after) /\ after[1].size >= block.size
    BY <1>1, <1>3, <1>4, <2>2
  <2>5. ASSUME NEW x \in Int
        PROVE  /\ OneOwner(after, in_use, x)
               /\ Owned(after, in_use, x) <=> (Owned(list, in_use, x) \/ InBlock(x, block))
    BY <1>1, <1>5, <2>2, <2>3, PrependOwner
  <2> QED
    BY <2>2, <2>4, <2>5
<1>7. CASE merges # {}
  <2>1. PICK k : k = Min(merges)
    OBVIOUS
  <2>2. k \in 1..Len(list) /\ block.addr + block.size = list[k].addr
    <3>1. merges \subseteq Nat
      BY <1>1
    <3>2. k \in merges
      BY <1>7, <2>1, <3>1, MinMember
    <3> QED
      BY <1>4, <3>2
  <2> DEFINE front == Node(list[k].header, block.addr - HEADER,
                           list[k].size + block.size + HEADER)
  <2>3. after = [list EXCEPT ![k] = front]
    BY <1>4, <1>7, <2>1 DEF add_mem_block
  <2>4. /\ front \in NodeType
        /\ front.header = list[k].header
        /\ front.size = list[k].size + block.size + HEADER
        /\ front.addr = block.addr - HEADER
    <3>1. list[k] \in NodeType
      BY <1>1, <2>2
    <3> QED
      BY <1>2, <1>3, <3>1 DEF NodeType, Node
  <2> HIDE DEF front, node
  <2>5. /\ after \in Seq(NodeType) /\ Len(after) = Len(list)
        /\ after[k] = front
        /\ \A i \in 1..Len(list) : i # k => after[i] = list[i]
    BY <1>1, <2>2, <2>3, <2>4
  <2>6. ASSUME NEW x \in Int, NEW i \in 1..Len(list)
        PROVE  /\ InHeader(x, after[i]) <=> InHeader(x, list[i])
               /\ InRegion(x, after[i]) <=> (InRegion(x, list[i]) \/ (i = k /\ InBlock(x, block)))
    <3>1. CASE i = k
      <4>1. list[k].addr \in Nat /\ list[k].size \in Nat
        BY <1>1, <2>2 DEF NodeType
      <4>2. InHeader(x, after[k]) <=> InHeader(x, list[k])
        BY <2>4, <2>5 DEF InHeader
      <4>3. InRegion(x, after[k]) <=> (InRegion(x, list[k]) \/ InBlock(x, block))
        <5>1. after[k].addr = block.addr - HEADER
              /\ after[k].size = list[k].size + block.size + HEADER
          BY <2>4, <2>5
        <5>2. PICK a \in Nat, n \in Nat : a = list[k].addr /\ n = list[k].size
          BY <4>1
        <5>3. PICK b \in Nat, z \in Nat : b = block.addr /\ z = block.size
          BY <1>2, <1>3
        <5>4. b + z = a /\ HEADER \in Nat
          BY <1>2, <2>2, <5>2, <5>3, HeapAssumption
        <5>5. /\ InRegion(x, after[k]) <=> (b - HEADER <= x /\ x < (b - HEADER) + (n + z + HEADER))
              /\ InRegion(x, list[k]) <=> (a <= x /\ x < a + n)
              /\ InBlock(x, block) <=> (b - HEADER <= x /\ x < b + z)
          BY ONLY <5>1, <5>2, <5>3 DEF InRegion, InBlock
        <5>6. (b - HEADER <= x /\ x < (b - HEADER) + (n + z + HEADER))
              <=> ((a <= x /\ x < a + n) \/ (b - HEADER <= x /\ x < b + z))
          BY ONLY <5>4, a \in Nat, n \in Nat, b \in Nat, z \in Nat, x \in Int
        <5> QED
          BY ONLY <5>5, <5>6
      <4> QED
        BY <3>1, <4>2, <4>3
    <3>2. CASE i # k
      BY <2>5, <3>2
    <3> QED
      BY <3>1, <3>2
  <2>7. k \in 1..Len(after) /\ after[k].size >= block.size
    <3>1. list[k].size \in Nat
      BY <1>1, <2>2 DEF NodeType
    <3> QED
      BY <1>2, <1>3, <2>2, <2>4, <2>5, <3>1
  <2>8. ASSUME NEW x \in Int
        PROVE  /\ OneOwner(after, in_use, x)
               /\ Owned(after, in_use, x) <=> (Owned(list, in_use, x) \/ InBlock(x, block))
    <3>1. /\ \A i \in 1..Len(list) : InHeader(x, after[i]) <=> InHeader(x, list[i])
          /\ \A i \in 1..Len(list) :
                InRegion(x, after[i]) <=> (InRegion(x, list[i]) \/ (i = k /\ InBlock(x, block)))
      BY <2>6
    <3>2. OneOwner(list, in_use, x) /\ (InBlock(x, block) => ~Owned(list, in_use, x))
      BY <1>5
    <3>3. k \in 1..Len(list) /\ Len(after) = Len(list)
      BY <2>2, <2>5
    <3> QED
      BY ONLY <3>1, <3>2, <3>3, MergeOwner
  <2> QED
    BY <2>5, <2>7, <2>8
<1> QED
  BY <1>6, <1>7

\* Take moves the bytes of the new block, and no others, out of the list.
LEMMA TakeSound ==
    ASSUME NEW heap, NEW B, NEW k \in 1..Len(heap.list), NEW size \in Nat,
           Sound(heap.list, used, B), Fits(heap.list[k], size), Take(heap, k, size)
    PROVE  Sound(free_list', used', B)
<1> DEFINE list == heap.list
           block == [addr |-> list[k].addr + HEADER, size |-> size]
           rest == Node(list[k].header, list[k].addr + HEADER + size,
                        list[k].size - (HEADER + size))
<1>1. /\ list \in Seq(NodeType) /\ Len(list) \in Nat
      /\ \A i \in 1..Len(list) : list[i] \in NodeType
      /\ used \subseteq BlockType
      /\ \A x \in Int : OneOwner(list, used, x) /\ (x \in B <=> Owned(list, used, x))
  BY DEF Sound
<1>2. HEADER \in Nat \ {0}
  BY HeapAssumption
<1>3. list[k].addr \in Nat /\ list[k].size \in Nat /\ list[k].size > size + HEADER
  BY <1>1 DEF NodeType, Fits
<1>4. used' = used \cup {block} /\ free_list' = [list EXCEPT ![k] = rest]
  BY DEF Take
<1>5. block \in BlockType /\ block.addr = list[k].addr + HEADER /\ block.size = size
  BY <1>2, <1>3 DEF BlockType
<1>6. /\ rest \in NodeType /\ rest.header = list[k].header
      /\ rest.addr = list[k].addr + HEADER + size
      /\ rest.size = list[k].size - (HEADER + size)
  <2>1. list[k].header \in Nat
    BY <1>1 DEF NodeType
  <2>2. list[k].addr + HEADER + size \in Nat /\ list[k].size - (HEADER + size) \in Nat
    BY <1>2, <1>3
  <2> QED
    BY <2>1, <2>2 DEF NodeType, Node
<1>7. PICK cut : cut = free_list'
  OBVIOUS
<1> HIDE DEF block, rest
<1>8. /\ cut \in Seq(NodeType) /\ Len(cut) = Len(list)
      /\ cut[k] = rest
      /\ \A i \in 1..Len(list) : i # k => cut[i] = list[i]
  BY <1>1, <1>4, <1>6, <1>7
<1> HIDE DEF list
<1>9. ASSUME NEW x \in Int
      PROVE  /\ OneOwner(cut, used \cup {block}, x)
             /\ Owned(cut, used \cup {block}, x) <=> Owned(list, used, x)
  <2>1. \A i \in 1..Len(list) : InHeader(x, cut[i]) <=> InHeader(x, list[i])
    BY <1>6, <1>8 DEF InHeader
  <2>2. \A i \in 1..Len(list) : i # k => (InRegion(x, cut[i]) <=> InRegion(x, list[i]))
    BY <1>8
  <2>3. /\ InRegion(x, list[k]) <=> (InRegion(x, cut[k]) \/ InBlock(x, block))
        /\ ~(InRegion(x, cut[k]) /\ InBlock(x, block))
    <3>1. /\ cut[k].addr = list[k].addr + HEADER + size
          /\ cut[k].size = list[k].size - (HEADER + size)
      BY <1>6, <1>8
    <3>2. PICK a \in Nat, z \in Nat : a = list[k].addr /\ z = list[k].size /\ z > size + HEADER
      BY <1>3
    <3>3. /\ InRegion(x, list[k]) <=> (a <= x /\ x < a + z)
          /\ InRegion(x, cut[k]) <=> (a + HEADER + size <= x
                                     /\ x < (a + HEADER + size) + (z - (HEADER + size)))
          /\ InBlock(x, block) <=> ((a + HEADER) - HEADER <= x /\ x < (a + HEADER) + size)
      BY <1>5, <3>1, <3>2 DEF InRegion, InBlock
    <3>4. /\ (a <= x /\ x < a + z)
                <=> \/ a + HEADER + size <= x /\ x < (a + HEADER + size) + (z - (HEADER + size))
                    \/ (a + HEADER) - HEADER <= x /\ x < (a + HEADER) + size
          /\ ~(a + HEADER + size <= x /\ x < (a + HEADER) + size)
      <4>1. PICK h \in Nat : h = HEADER
        BY <1>2
      <4>2. z > size + h
        BY <3>2, <4>1
      <4>3. /\ (a <= x /\ x < a + z)
                <=> \/ a + h + size <= x /\ x < (a + h + size) + (z - (h + size))
                    \/ (a + h) - h <= x /\ x < (a + h) + size
            /\ ~(a + h + size <= x /\ x < (a + h) + size)
        BY ONLY a \in Nat, z \in Nat, h \in Nat, size \in Nat, x \in Int, <4>2
      <4> QED
        BY ONLY <4>1, <4>3
    <3> QED
      BY <3>3, <3>4
  <2>4. OneOwner(list, used, x) /\ k \in 1..Len(list)
    BY <1>1 DEF list
  <2> QED
    BY <1>8, <2>1, <2>2, <2>3, <2>4, TakeOwner
<1>10. used \cup {block} \subseteq BlockType
  BY <1>1, <1>5
<1>11. Sound(cut, used \cup {block}, B)
  BY <1>1, <1>8, <1>9, <1>10 DEF Sound
<1> QED
  BY <1>4, <1>7, <1>11

\* The pages for a request are at least one, and more than the request.
LEMMA PagesArithmetic ==
    ASSUME NEW size \in Nat
    PROVE  /\ PagesFor(size) * PAGE_SIZE \in Nat
           /\ PagesFor(size) * PAGE_SIZE > HEADER
           /\ PagesFor(size) * PAGE_SIZE = size - (size % PAGE_SIZE) + PAGE_SIZE
<1>1. PICK p \in Nat \ {0} : p = PAGE_SIZE /\ p > HEADER /\ HEADER \in Nat
  BY HeapAssumption
<1>2. PICK q \in Nat, r \in Nat : q = size \div p /\ r = size % p /\ size = q * p + r
  BY <1>1
<1>3. (q + 1) * p = q * p + p /\ q * p \in Nat
  BY <1>1, <1>2
<1>4. PagesFor(size) * PAGE_SIZE = (q + 1) * p
  BY <1>1, <1>2 DEF PagesFor
<1>5. size - r + p = q * p + p
  BY <1>1, <1>2, <1>3
<1> QED
  BY <1>1, <1>2, <1>3, <1>4, <1>5

\* exapnd_heap adds the bytes of the new pages, and no others, to the list.
LEMMA ExpandedSound ==
    ASSUME HeapInv, NEW size \in Nat, NEW more, more = Expanded(PagesFor(size))
    PROVE  /\ more.end \in Nat
           /\ Sound(more.list, used, 0..(more.end - 1))
           /\ \E i \in 1..Len(more.list) :
                more.list[i].size >= PagesFor(size) * PAGE_SIZE - HEADER
<1> DEFINE bytes == PagesFor(size) * PAGE_SIZE
           block == [addr |-> heap_end + HEADER, size |-> bytes - HEADER]
<1>1. bytes \in Nat /\ bytes > HEADER /\ HEADER \in Nat \ {0} /\ heap_end \in Nat
  BY PagesArithmetic, HeapAssumption DEF HeapInv
<1> HIDE DEF bytes
<1>2. /\ block \in BlockType
      /\ block.addr = heap_end + HEADER /\ block.size = bytes - HEADER
  BY <1>1 DEF BlockType
<1>3. /\ more.end = heap_end + bytes
      /\ more.list = add_mem_block(free_list, Node(heap_end, heap_end + HEADER, bytes - HEADER))
  BY DEF Expanded, bytes
<1> HIDE DEF block
<1>4. block.addr - HEADER = heap_end
  BY <1>1, <1>2
<1>5. more.list = add_mem_block(free_list, Node(block.addr - HEADER, block.addr, block.size))
  BY <1>2, <1>3, <1>4
<1>6. \A x \in Int : InBlock(x, block) <=> (heap_end <= x /\ x < heap_end + bytes)
  <2> SUFFICES ASSUME NEW x \in Int
               PROVE  InBlock(x, block) <=> (heap_end <= x /\ x < heap_end + bytes)
    OBVIOUS
  <2>1. block.addr + block.size = heap_end + bytes
    BY <1>1, <1>2
  <2> QED
    BY <1>4, <2>1 DEF InBlock
<1>7. \A x \in Int : InBlock(x, block) => x \notin 0..(heap_end - 1)
  BY <1>1, <1>6
<1>8. /\ Sound(more.list, used, (0..(heap_end - 1)) \cup BlockBytes(block))
      /\ \E i \in 1..Len(more.list) : more.list[i].size >= block.size
  BY <1>2, <1>5, <1>7, AddMemBlockSound DEF HeapInv
<1>9. (0..(heap_end - 1)) \cup BlockBytes(block) = 0..(more.end - 1)
  <2>1. \A x \in BlockBytes(block) : x \in Int
    BY DEF BlockBytes
  <2>2. ASSUME NEW x \in Int
        PROVE  x \in (0..(heap_end - 1)) \cup BlockBytes(block) <=> x \in 0..(more.end - 1)
    <3>1. x \in BlockBytes(block) <=> (heap_end <= x /\ x < heap_end + bytes)
      BY <1>2, <1>6, BytesOfBlock
    <3> QED
      BY <1>1, <1>3, <3>1
  <2> QED
    BY <2>1, <2>2
<1>10. more.end \in Nat
  BY <1>1, <1>3
<1>11. Sound(more.list, used, 0..(more.end - 1))
  BY <1>8, <1>9
<1>12. \E i \in 1..Len(more.list) : more.list[i].size >= bytes - HEADER
  BY <1>2, <1>8
<1> QED
  BY <1>10, <1>11, <1>12 DEF bytes

-----------------------------------------------------------------------------
(* The invariant *)

\* The heap starts as one page with one free node.
LEMMA HeapInitInv == Init => HeapInv /\ ~failed
<1> SUFFICES ASSUME Init PROVE HeapInv /\ ~failed
  OBVIOUS
<1> DEFINE node == Node(0, HEADER, PAGE_SIZE - HEADER)
<1>1. HEADER \in Nat \ {0} /\ PAGE_SIZE \in Nat /\ PAGE_SIZE > HEADER
  BY HeapAssumption
<1>2. node \in NodeType /\ node.header = 0 /\ node.addr = HEADER /\ node.size = PAGE_SIZE - HEADER
  BY <1>1 DEF Node, NodeType
<1>3. free_list = <<node>> /\ used = {} /\ heap_end = PAGE_SIZE /\ failed = FALSE
  BY DEF Init
<1> HIDE DEF node
<1>4. free_list \in Seq(NodeType) /\ Len(free_list) = 1 /\ free_list[1] = node
  BY <1>2, <1>3
<1>5. ASSUME NEW x \in Int
      PROVE  OneOwner(free_list, {}, x) /\ (x \in 0..(PAGE_SIZE - 1) <=> Owned(free_list, {}, x))
  <2>1. \A i \in 1..Len(free_list) : i = 1
    BY <1>4
  <2>2. ~(InHeader(x, node) /\ InRegion(x, node))
    BY <1>1, <1>2 DEF InHeader, InRegion
  <2>3. x \in 0..(PAGE_SIZE - 1) <=> (InHeader(x, node) \/ InRegion(x, node))
    BY <1>1, <1>2 DEF InHeader, InRegion
  <2>4. OneOwner(free_list, {}, x)
    BY <1>4, <2>1, <2>2 DEF OneOwner
  <2>5. Owned(free_list, {}, x) <=> (InHeader(x, node) \/ InRegion(x, node))
    <3>1. 1 \in 1..Len(free_list)
      BY <1>4
    <3> QED
      BY <1>4, <2>1, <3>1 DEF Owned
  <2> QED
    BY <2>3, <2>4, <2>5
<1>6. Sound(free_list, used, 0..(heap_end - 1))
  BY <1>3, <1>4, <1>5 DEF Sound
<1> QED
  BY <1>1, <1>3, <1>6 DEF HeapInv

\* No request ends within two headers of a page boundary.
RoomForHeaders == \A s \in Sizes : (s % PAGE_SIZE) + 2 * HEADER < PAGE_SIZE

\* allocate keeps the invariant, and with room for the headers its retry succeeds.
LEMMA AllocateInv ==
    ASSUME HeapInv, NEW size \in Sizes, allocate(size)
    PROVE  HeapInv' /\ (RoomForHeaders => ~failed')
<1>1. size \in Nat
  BY HeapAssumption
<1>2. ~failed
  BY DEF allocate
<1> DEFINE here == [list |-> free_list, end |-> heap_end]
<1>3. PICK more : more = Expanded(PagesFor(size))
  OBVIOUS
<1>4. /\ more.end \in Nat
      /\ Sound(more.list, used, 0..(more.end - 1))
      /\ \E i \in 1..Len(more.list) :
           more.list[i].size >= PagesFor(size) * PAGE_SIZE - HEADER
  BY <1>1, <1>3, ExpandedSound
<1>5. ASSUME NEW heap, heap.end \in Nat, Sound(heap.list, used, 0..(heap.end - 1)),
             Fitting(heap.list, size) # {},
             Take(heap, Min(Fitting(heap.list, size)), size)
      PROVE  HeapInv' /\ ~failed'
  <2>1. PICK k : k = Min(Fitting(heap.list, size))
    OBVIOUS
  <2>2. heap.list \in Seq(NodeType)
    BY <1>5 DEF Sound
  <2>3. Fitting(heap.list, size) \subseteq Nat
    BY <2>2 DEF Fitting
  <2>4. k \in Fitting(heap.list, size)
    BY <1>5, <2>1, <2>3, MinMember
  <2>5. k \in 1..Len(heap.list) /\ Fits(heap.list[k], size)
    BY <2>4 DEF Fitting
  <2>6. Take(heap, k, size)
    BY <1>5, <2>1
  <2>7. Sound(free_list', used', 0..(heap.end - 1))
    BY <1>1, <1>5, <2>5, <2>6, TakeSound
  <2>8. heap_end' = heap.end /\ failed' = failed
    BY <2>6 DEF Take
  <2> QED
    BY <1>2, <1>5, <2>7, <2>8 DEF HeapInv
<1>6. CASE Fitting(free_list, size) # {}
  <2>1. here.list = free_list /\ here.end = heap_end
    OBVIOUS
  <2>2. Take(here, Min(Fitting(here.list, size)), size)
    BY <1>6 DEF allocate
  <2> HIDE DEF here
  <2>3. here.end \in Nat /\ Sound(here.list, used, 0..(here.end - 1))
    BY <2>1 DEF HeapInv
  <2> QED
    BY <1>5, <1>6, <2>1, <2>2, <2>3
<1>7. CASE Fitting(free_list, size) = {} /\ Fitting(more.list, size) # {}
  <2>1. Take(more, Min(Fitting(more.list, size)), size)
    BY <1>3, <1>7 DEF allocate
  <2> QED
    BY <1>4, <1>5, <1>7, <2>1
<1>8. CASE Fitting(free_list, size) = {} /\ Fitting(more.list, size) = {}
  <2>1. failed' = TRUE /\ free_list' = more.list /\ heap_end' = more.end /\ used' = used
    BY <1>3, <1>8 DEF allocate
  <2>2. HeapInv'
    BY <1>4, <2>1 DEF HeapInv
  <2>3. ~RoomForHeaders
    <3> SUFFICES ASSUME RoomForHeaders PROVE FALSE
      OBVIOUS
    <3>1. PICK i \in 1..Len(more.list) :
             more.list[i].size >= PagesFor(size) * PAGE_SIZE - HEADER
      BY <1>4
    <3>2. more.list[i].size \in Nat
      <4>1. more.list \in Seq(NodeType)
        BY <1>4 DEF Sound
      <4>2. more.list[i] \in NodeType
        BY <3>1, <4>1
      <4> QED
        BY <4>2 DEF NodeType
    <3>3. PICK p \in Nat, h \in Nat, r \in Nat :
             p = PAGE_SIZE /\ h = HEADER /\ r = size % PAGE_SIZE /\ r + 2 * h < p
      <4>1. size % PAGE_SIZE \in Nat
        BY <1>1, HeapAssumption
      <4> QED
        BY <4>1, HeapAssumption DEF RoomForHeaders
    <3>4. PagesFor(size) * PAGE_SIZE = size - r + p
      BY <1>1, <3>3, PagesArithmetic
    <3>5. more.list[i].size > size + h
      <4>1. PICK z \in Nat : z = more.list[i].size
        BY <3>2
      <4>2. z >= size - r + p - h
        <5> DEFINE bytes == PagesFor(size) * PAGE_SIZE
        <5>1. z >= bytes - HEADER
          BY <3>1, <4>1
        <5>2. h = HEADER /\ bytes = size - r + p
          BY <3>3, <3>4
        <5> HIDE DEF bytes
        <5> QED
          BY <1>1, <5>1, <5>2
      <4>3. z > size + h
        BY ONLY <1>1, <3>3, <4>2, p \in Nat, h \in Nat, r \in Nat, z \in Nat
      <4> QED
        BY <4>1, <4>3
    <3>6. i \in Fitting(more.list, size)
      BY <3>1, <3>3, <3>5 DEF Fitting, Fits
    <3> QED
      BY <1>8, <3>6
  <2> QED
    BY <2>2, <2>3
<1> QED
  BY <1>6, <1>7, <1>8

\* free gives the bytes of the block back to the list.
LEMMA FreeInv ==
    ASSUME HeapInv, NEW block \in used, free(block)
    PROVE  HeapInv' /\ ~failed'
<1> DEFINE B == (0..(heap_end - 1)) \ BlockBytes(block)
           node == Node(block.addr - HEADER, block.addr, block.size)
<1>1. /\ Sound(free_list, used, 0..(heap_end - 1)) /\ heap_end \in Nat
      /\ used \subseteq BlockType /\ block \in BlockType
  BY DEF HeapInv, Sound
<1>2. \A x \in Int : x \in BlockBytes(block) <=> InBlock(x, block)
  BY <1>1, BytesOfBlock
<1>3. Sound(free_list, used \ {block}, B)
  <2>1. ASSUME NEW x \in Int
        PROVE  /\ OneOwner(free_list, used \ {block}, x)
               /\ x \in B <=> Owned(free_list, used \ {block}, x)
    <3>1. OneOwner(free_list, used, x) /\ (x \in 0..(heap_end - 1) <=> Owned(free_list, used, x))
      BY <1>1 DEF Sound
    <3>2. OneOwner(free_list, used \ {block}, x)
      BY <3>1 DEF OneOwner
    <3>3. Owned(free_list, used \ {block}, x) <=> (Owned(free_list, used, x) /\ ~InBlock(x, block))
      BY <3>1 DEF OneOwner, Owned
    <3> QED
      BY <1>2, <3>1, <3>2, <3>3
  <2> QED
    BY <1>1, <2>1 DEF Sound
<1>4. \A x \in Int : InBlock(x, block) => x \notin B
  BY <1>2
<1>5. /\ used' = used \ {block} /\ UNCHANGED <<heap_end, failed>> /\ ~failed
      /\ free_list' = add_mem_block(free_list, node)
  BY DEF free
<1> HIDE DEF B
<1>6. PICK after : after = add_mem_block(free_list, node)
  OBVIOUS
<1>7. Sound(after, used \ {block}, B \cup BlockBytes(block))
  BY <1>1, <1>3, <1>4, <1>6, AddMemBlockSound
<1>8. B \cup BlockBytes(block) = 0..(heap_end - 1)
  <2>1. \A x \in BlockBytes(block) : x \in Int
    BY DEF BlockBytes
  <2>2. \A x \in BlockBytes(block) : x \in 0..(heap_end - 1)
    <3> SUFFICES ASSUME NEW x \in BlockBytes(block) PROVE x \in 0..(heap_end - 1)
      OBVIOUS
    <3>1. x \in Int /\ InBlock(x, block)
      BY <1>2, <2>1
    <3>2. Owned(free_list, used, x)
      BY <3>1 DEF Owned
    <3> QED
      BY <1>1, <3>1, <3>2 DEF Sound
  <2> QED
    BY <2>2 DEF B
<1> QED
  BY <1>1, <1>5, <1>6, <1>7, <1>8 DEF HeapInv

\* Every operation keeps one owner per byte.
LEMMA HeapNextInv ==
    ASSUME HeapInv, [Next]_vars
    PROVE  HeapInv' /\ (RoomForHeaders /\ ~failed => ~failed')
<1>1. CASE UNCHANGED vars
  BY <1>1 DEF HeapInv, vars
<1>2. CASE Next
  BY <1>2, AllocateInv, FreeInv DEF Next
<1> QED
  BY <1>1, <1>2

-----------------------------------------------------------------------------
(* The theorems *)

(***************************************************************************)
(* After any sequence of allocations, frees, expansions and merges every   *)
(* byte of the heap has exactly one owner.                                 *)
(***************************************************************************)
THEOREM EveryByteHasOneOwner == Spec => []HeapInv
BY HeapInitInv, HeapNextInv, PTL DEF Spec

(***************************************************************************)
(* allocate never hands out memory that is in use, that belongs to another *)
(* free node or that holds the header of a free node, although a header    *)
(* stays behind when its region moves.                                     *)
(***************************************************************************)
THEOREM MemoryIsExclusive == Spec => []BlocksAreDisjoint
<1>1. HeapInv => BlocksAreDisjoint
  <2> SUFFICES ASSUME HeapInv PROVE BlocksAreDisjoint
    OBVIOUS
  <2>0. /\ \A x \in Int : OneOwner(free_list, used, x)
        /\ \A i \in Nodes : free_list[i] \in NodeType
        /\ \A b \in used : b \in BlockType
        /\ HEADER \in Nat
    BY HeapAssumption DEF HeapInv, Sound, Nodes
  <2>1. \A b \in used : \A x \in BlockBytes(b) : x \in Int /\ InBlock(x, b)
    <3> SUFFICES ASSUME NEW b \in used, NEW x \in BlockBytes(b) PROVE x \in Int /\ InBlock(x, b)
      OBVIOUS
    <3>1. x \in Int
      BY DEF BlockBytes
    <3> QED
      BY <2>0, <3>1, BytesOfBlock
  <2>2. \A i \in Nodes : /\ \A x \in HeaderBytes(free_list[i]) : InHeader(x, free_list[i]) /\ x \in Int
                         /\ \A x \in RegionBytes(free_list[i]) : InRegion(x, free_list[i]) /\ x \in Int
    BY <2>0 DEF HeaderBytes, RegionBytes, InHeader, InRegion, NodeType
  <2>3. \A b, c \in used : b # c => BlockBytes(b) \cap BlockBytes(c) = {}
    BY <2>0, <2>1 DEF OneOwner
  <2>4. \A b \in used, i \in Nodes :
          BlockBytes(b) \cap (HeaderBytes(free_list[i]) \cup RegionBytes(free_list[i])) = {}
    BY <2>0, <2>1, <2>2 DEF OneOwner, Nodes
  <2>5. \A i, j \in Nodes : HeaderBytes(free_list[i]) \cap RegionBytes(free_list[j]) = {}
    BY <2>0, <2>2 DEF OneOwner, Nodes
  <2>6. \A i, j \in Nodes : i # j =>
          /\ HeaderBytes(free_list[i]) \cap HeaderBytes(free_list[j]) = {}
          /\ RegionBytes(free_list[i]) \cap RegionBytes(free_list[j]) = {}
    BY <2>0, <2>2 DEF OneOwner, Nodes
  <2> QED
    BY <2>3, <2>4, <2>5, <2>6 DEF BlocksAreDisjoint
<1> QED
  BY <1>1, EveryByteHasOneOwner, PTL

(***************************************************************************)
(* No byte of the heap is lost and none outside it is used, in whatever    *)
(* order blocks are freed and merged.                                      *)
(***************************************************************************)
THEOREM NoByteIsLost == Spec => []NothingLeaks
<1>1. HeapInv => NothingLeaks
  <2> SUFFICES ASSUME HeapInv PROVE NothingLeaks
    OBVIOUS
  <2> DEFINE owned == (UNION {BlockBytes(b) : b \in used})
                      \cup (UNION {HeaderBytes(free_list[i]) \cup RegionBytes(free_list[i]) :
                                    i \in Nodes})
  <2>0. /\ \A x \in Int : x \in 0..(heap_end - 1) <=> Owned(free_list, used, x)
        /\ \A i \in Nodes : free_list[i] \in NodeType
        /\ \A b \in used : b \in BlockType
        /\ HEADER \in Nat
    BY HeapAssumption DEF HeapInv, Sound, Nodes
  <2>1. \A x \in owned : x \in Int
    <3>1. \A b \in used : BlockBytes(b) \subseteq Int
      BY DEF BlockBytes
    <3>2. \A i \in Nodes : HeaderBytes(free_list[i]) \subseteq Int
                           /\ RegionBytes(free_list[i]) \subseteq Int
      BY DEF HeaderBytes, RegionBytes
    <3> QED
      BY <3>1, <3>2, Zenon
  <2>2. ASSUME NEW x \in Int
        PROVE  x \in owned <=> Owned(free_list, used, x)
    <3>1. \A b \in used : x \in BlockBytes(b) <=> InBlock(x, b)
      BY <2>0, BytesOfBlock
    <3>2. \A i \in Nodes : /\ x \in HeaderBytes(free_list[i]) <=> InHeader(x, free_list[i])
                           /\ x \in RegionBytes(free_list[i]) <=> InRegion(x, free_list[i])
      BY <2>0 DEF HeaderBytes, RegionBytes, InHeader, InRegion, NodeType
    <3>3. x \in owned <=> \/ \E b \in used : x \in BlockBytes(b)
                          \/ \E i \in Nodes : \/ x \in HeaderBytes(free_list[i])
                                              \/ x \in RegionBytes(free_list[i])
      <4>1. x \in UNION {BlockBytes(b) : b \in used} <=> \E b \in used : x \in BlockBytes(b)
        OBVIOUS
      <4>2. x \in UNION {HeaderBytes(free_list[i]) \cup RegionBytes(free_list[i]) : i \in Nodes}
            <=> \E i \in Nodes : x \in HeaderBytes(free_list[i]) \cup RegionBytes(free_list[i])
        OBVIOUS
      <4> QED
        BY <4>1, <4>2
    <3>4. Owned(free_list, used, x) <=> \/ \E b \in used : InBlock(x, b)
                                        \/ \E i \in Nodes : \/ InHeader(x, free_list[i])
                                                            \/ InRegion(x, free_list[i])
      BY DEF Owned, Nodes
    <3> HIDE DEF owned
    <3> QED
      BY <3>1, <3>2, <3>3, <3>4
  <2>3. 0..(heap_end - 1) \subseteq Int
    OBVIOUS
  <2> HIDE DEF owned
  <2>4. 0..(heap_end - 1) = owned
    BY <2>0, <2>1, <2>2, <2>3
  <2> QED
    BY <2>4 DEF NothingLeaks, owned
<1> QED
  BY <1>1, EveryByteHasOneOwner, PTL

(***************************************************************************)
(* ASSERT(!retried) of allocate: the pages by which the heap grows have    *)
(* room for the request, for all requests that do not end within two       *)
(* headers of a page boundary.  For the others it fails, which is why the  *)
(* condition is there.                                                     *)
(***************************************************************************)
THEOREM ExpansionIsEnough == RoomForHeaders /\ Spec => []RetrySucceeds
<1> DEFINE Inv == HeapInv /\ RetrySucceeds /\ RoomForHeaders
<1>1. Init /\ RoomForHeaders => Inv
  BY HeapInitInv DEF RetrySucceeds
<1>2. Inv /\ [Next]_vars => Inv'
  <2> SUFFICES ASSUME Inv, [Next]_vars PROVE Inv'
    OBVIOUS
  <2>1. HeapInv' /\ RetrySucceeds'
    BY HeapNextInv DEF RetrySucceeds
  <2>2. RoomForHeaders'
    BY DEF RoomForHeaders
  <2> QED
    BY <2>1, <2>2
<1> QED
  BY <1>1, <1>2, PTL DEF Spec
=============================================================================
