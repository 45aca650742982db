--------------------------- MODULE HeapAllocator ----------------------------
(***************************************************************************)
(* The heap of the kernel and of programs: libc/HeapAllocator.cpp.         *)
(*                                                                         *)
(* A free block is a node of the free list: a header (MemBlock) of HEADER  *)
(* bytes and a region.  The region need not follow the header: allocation  *)
(* takes bytes from the front of the region and leaves the header where it *)
(* is.  A block in use is a header with its memory right behind it.        *)
(*                                                                         *)
(* allocate and free run with interrupts disabled in the kernel and in the *)
(* only thread of a program, so each is one action.  Addresses count from  *)
(* m_heap_start.                                                           *)
(***************************************************************************)
EXTENDS Integers, Sequences, FiniteSets, SequencesExt, FiniteSetsExt

CONSTANTS PAGE_SIZE,
          HEADER,      \* sizeof(MemBlock)
          Sizes,       \* the sizes asked for
          MaxPages     \* bound: pages the heap grows to

ASSUME HeapAssumption ==
    /\ HEADER \in Nat \ {0}
    /\ PAGE_SIZE \in Nat
    /\ PAGE_SIZE > HEADER
    /\ Sizes \subseteq Nat
    /\ MaxPages \in Nat \ {0}

VARIABLES
    free_list,  \* from m_first_free: header, addr and size of each node
    used,       \* blocks with MAGIC_USED: addr and size
    heap_end,   \* m_current_heap_end
    failed      \* an ASSERT failed

vars == <<free_list, used, heap_end, failed>>

Node(header, addr, size) == [header |-> header, addr |-> addr, size |-> size]

\* HeapAllocator::HeapAllocator, on the one page that initialize allocates.
Init ==
    /\ free_list = << Node(0, HEADER, PAGE_SIZE - HEADER) >>
    /\ used = {}
    /\ heap_end = PAGE_SIZE
    /\ failed = FALSE

-----------------------------------------------------------------------------
\* The test of allocate is >, so a region is never used up completely.
Fits(node, size) == node.size > size + HEADER

\* Mutant of add_mem_block: the header of the block is not given back.
MergeLosesHeader(list, node) ==
    LET merges == {i \in 1..Len(list) : node.addr + node.size = list[i].addr}
    IN  IF merges = {} THEN <<node>> \o list
        ELSE [list EXCEPT ![Min(merges)] = Node(@.header, node.addr, @.size + node.size)]

\* add_mem_block: the block joins the first node whose region begins where
\* the block ends, or becomes a node itself.
add_mem_block(list, node) ==
    LET merges == {i \in 1..Len(list) : node.addr + node.size = list[i].addr}
    IN  IF merges = {} THEN <<node>> \o list
        ELSE [list EXCEPT ![Min(merges)] = Node(@.header, node.addr - HEADER,
                                                @.size + node.size + HEADER)]

\* Mutant of PagesFor: the heap grows by one page whatever the request.
OnePage(size) == 1

\* The pages by which allocate expands the heap.
PagesFor(size) == (size \div PAGE_SIZE) + 1

\* The free list and the end of the heap after exapnd_heap(n).
Expanded(n) ==
    [list |-> add_mem_block(free_list,
                            Node(heap_end, heap_end + HEADER, n * PAGE_SIZE - HEADER)),
     end  |-> heap_end + n * PAGE_SIZE]

\* Mutant of Take: the node keeps the header's worth of bytes too many.
TakeWithoutHeader(heap, i, size) ==
    /\ used' = used \cup {[addr |-> heap.list[i].addr + HEADER, size |-> size]}
    /\ free_list' = [heap.list EXCEPT ![i] = Node(@.header, @.addr + size, @.size - size)]
    /\ heap_end' = heap.end
    /\ UNCHANGED failed

\* A block of size bytes is cut from the front of the region of node i.
Take(heap, i, size) ==
    /\ used' = used \cup {[addr |-> heap.list[i].addr + HEADER, size |-> size]}
    /\ free_list' = [heap.list EXCEPT ![i] = Node(@.header, @.addr + HEADER + size,
                                                  @.size - (HEADER + size))]
    /\ heap_end' = heap.end
    /\ UNCHANGED failed

\* The nodes of a list a block can be cut from.
Fitting(list, size) == {i \in 1..Len(list) : Fits(list[i], size)}

\* The first node that fits; the heap is expanded once when there is none.
allocate(size) ==
    LET heap == [list |-> free_list, end |-> heap_end]
        more == Expanded(PagesFor(size))
    IN  /\ ~failed
        /\ IF Fitting(heap.list, size) # {}
           THEN Take(heap, Min(Fitting(heap.list, size)), size)
           ELSE /\ more.end <= MaxPages * PAGE_SIZE
                /\ IF Fitting(more.list, size) # {}
                   THEN Take(more, Min(Fitting(more.list, size)), size)
                   ELSE /\ failed' = TRUE
                        /\ free_list' = more.list
                        /\ heap_end' = more.end
                        /\ UNCHANGED used

free(block) ==
    /\ ~failed
    /\ used' = used \ {block}
    /\ free_list' = add_mem_block(free_list, Node(block.addr - HEADER, block.addr, block.size))
    /\ UNCHANGED <<heap_end, failed>>

Next ==
    \/ \E size \in Sizes : allocate(size)
    \/ \E block \in used : free(block)

Spec == Init /\ [][Next]_vars

-----------------------------------------------------------------------------
(* The bytes of the heap by what they are used for *)

HeaderBytes(node) == node.header .. (node.header + HEADER - 1)
RegionBytes(node) == node.addr .. (node.addr + node.size - 1)
BlockBytes(block) == (block.addr - HEADER) .. (block.addr + block.size - 1)

Nodes == 1..Len(free_list)

(***************************************************************************)
(* Memory that was allocated is nobody else's: blocks in use overlap       *)
(* neither each other nor the headers and regions of the free list, and    *)
(* the headers of the free list lie in no region from which a block could  *)
(* be cut.                                                                 *)
(***************************************************************************)
BlocksAreDisjoint ==
    /\ \A b, c \in used : b # c => BlockBytes(b) \cap BlockBytes(c) = {}
    /\ \A b \in used, i \in Nodes :
        BlockBytes(b) \cap (HeaderBytes(free_list[i]) \cup RegionBytes(free_list[i])) = {}
    /\ \A i, j \in Nodes : HeaderBytes(free_list[i]) \cap RegionBytes(free_list[j]) = {}
    /\ \A i, j \in Nodes : i # j =>
        /\ HeaderBytes(free_list[i]) \cap HeaderBytes(free_list[j]) = {}
        /\ RegionBytes(free_list[i]) \cap RegionBytes(free_list[j]) = {}

(***************************************************************************)
(* Nothing leaks: whatever has been allocated and freed in whatever order, *)
(* every byte of the heap belongs to a block in use or to the free list,   *)
(* and nothing outside the heap does.                                      *)
(***************************************************************************)
NothingLeaks ==
    0 .. (heap_end - 1) =
        (UNION {BlockBytes(b) : b \in used})
        \cup (UNION {HeaderBytes(free_list[i]) \cup RegionBytes(free_list[i]) : i \in Nodes})

(***************************************************************************)
(* The ASSERT(!retried) of allocate: once the heap has been expanded for a *)
(* request, the request fits.                                              *)
(***************************************************************************)
RetrySucceeds == ~failed
=============================================================================
