-------------------------------- MODULE Heap --------------------------------
(***************************************************************************)
(* The kernel heap, mem/heap.rs: slabs of one page per size class, with    *)
(* the free slots of a page in a list whose links are stored in the slots  *)
(* themselves, and whole pages for what is larger.                         *)
(*                                                                         *)
(* Addresses count the smallest slots, and page f is the addresses from    *)
(* f * PAGE_SIZE.  alloc and dealloc run with interrupts masked, so each   *)
(* is one action.  Callers are Rust code: a block is freed once, with the  *)
(* layout it was allocated with, and is written while it is held, which    *)
(* destroys the link in it.                                                *)
(***************************************************************************)
EXTENDS Integers, Sequences, FiniteSets

CONSTANTS
    PAGE_SIZE,             \* in units of the smallest slot
    SIZE_CLASSES,          \* slot sizes, ascending
    MAX_SLABS_PER_CLASS,
    NFrames,               \* bound: frames of the machine, 1 .. NFrames
    Sizes                  \* sizes that are asked for

(* What is assumed of the constants.                                      *)
HeapAssumption ==
    /\ PAGE_SIZE \in Nat \ {0} /\ MAX_SLABS_PER_CLASS \in Nat /\ NFrames \in Nat
    /\ \A c \in DOMAIN SIZE_CLASSES : SIZE_CLASSES[c] \in 1 .. PAGE_SIZE
    /\ Sizes \subseteq Nat \ {0}

Classes == DOMAIN SIZE_CLASSES
Headers == Classes \X (1 .. MAX_SLABS_PER_CLASS)
Addrs == PAGE_SIZE .. (NFrames + 1) * PAGE_SIZE - 1
Null == 0
Garbage == -1

VARIABLES
    page, free_head, free_count,   \* SLABS: the headers; page 0 is none
    link,                          \* the word at the start of a slot
    frames,                        \* frames that the frame allocator has
    held                           \* blocks that callers hold: <<addr, size>>

vars == <<page, free_head, free_count, link, frames, held>>

TypeOK ==
    /\ page \in [Headers -> 0 .. NFrames]
    /\ free_head \in [Headers -> Addrs \cup {Null}]
    /\ free_count \in [Headers -> 0 .. PAGE_SIZE]
    /\ link \in [Addrs -> Addrs \cup {Null, Garbage}]
    /\ frames \subseteq 1 .. NFrames
    /\ held \subseteq Addrs \X Sizes

Init ==
    /\ page = [h \in Headers |-> 0] /\ free_head = [h \in Headers |-> Null]
    /\ free_count = [h \in Headers |-> 0]
    /\ link = [a \in Addrs |-> Garbage]
    /\ frames = 1 .. NFrames /\ held = {}

-----------------------------------------------------------------------------

Capacity(c) == PAGE_SIZE \div SIZE_CLASSES[c]
Pages(size) == (size + PAGE_SIZE - 1) \div PAGE_SIZE
InPage(a, f) == a \in f * PAGE_SIZE .. (f + 1) * PAGE_SIZE - 1

(* class_for: the first class that is large enough, if any is.             *)
IsClass(c, size) == size <= SIZE_CLASSES[c] /\ \A d \in Classes : d < c => size > SIZE_CLASSES[d]
IsLarge(size) == \A c \in Classes : size > SIZE_CLASSES[c]

(* The header that find() stops at: the first of class c with property P.  *)
First(c, P(_)) == {h \in Headers : h[1] = c /\ P(h) /\ \A g \in Headers : g[1] = c /\ g[2] < h[2] => ~ P(g)}

HasRoom(h) == page[h] # 0 /\ free_count[h] > 0
IsEmptySlot(h) == page[h] = 0
IsLowest(f, S) == f \in S /\ \A g \in S : f <= g

(* The links that new_slab writes: slots in the order of their addresses.  *)
SlotAddrs(c, f) == {f * PAGE_SIZE + i * SIZE_CLASSES[c] : i \in 0 .. Capacity(c) - 1}
Linked(c, f) ==
    [a \in Addrs |->
        CASE a \in SlotAddrs(c, f) /\ a + SIZE_CLASSES[c] \in SlotAddrs(c, f) -> a + SIZE_CLASSES[c]
          [] a \in SlotAddrs(c, f) /\ a + SIZE_CLASSES[c] \notin SlotAddrs(c, f) -> Null
          [] OTHER -> link[a]]

(* Callers write to a block: its slot no longer holds a link.              *)
Written(l, a, size) == [b \in Addrs |-> IF b \in a .. a + size - 1 THEN Garbage ELSE l[b]]

(* alloc from a slab that has room.                                        *)
alloc_slot(size) ==
    \E c \in Classes : \E h \in First(c, HasRoom) :
        /\ IsClass(c, size)
        /\ free_head' = [free_head EXCEPT ![h] = link[free_head[h]]]
        /\ free_count' = [free_count EXCEPT ![h] = @ - 1]
        /\ link' = Written(link, free_head[h], SIZE_CLASSES[c])
        /\ held' = held \cup {<<free_head[h], size>>}
        /\ UNCHANGED <<page, frames>>

(* alloc when none has: new_slab takes the first unused header and a page, *)
(* and the first slot is handed out.  Without either the caller gets null. *)
alloc_slab_Count(size) ==
    \E c \in Classes, f \in frames : \E h \in First(c, IsEmptySlot) :
        LET slots == Linked(c, f)
            a == f * PAGE_SIZE
        IN /\ IsClass(c, size) /\ First(c, HasRoom) = {}
           /\ IsLowest(f, frames)
           /\ page' = [page EXCEPT ![h] = f]
           /\ free_head' = [free_head EXCEPT ![h] = slots[a]]
           /\ free_count' = [free_count EXCEPT ![h] = Capacity(c)]
           /\ link' = Written(slots, a, SIZE_CLASSES[c])
           /\ frames' = frames \ {f}
           /\ held' = held \cup {<<a, size>>}

alloc_slab(size) ==
    \E c \in Classes, f \in frames : \E h \in First(c, IsEmptySlot) :
        LET slots == Linked(c, f)
            a == f * PAGE_SIZE
        IN /\ IsClass(c, size) /\ First(c, HasRoom) = {}
           /\ IsLowest(f, frames)
           /\ page' = [page EXCEPT ![h] = f]
           /\ free_head' = [free_head EXCEPT ![h] = slots[a]]
           /\ free_count' = [free_count EXCEPT ![h] = Capacity(c) - 1]
           /\ link' = Written(slots, a, SIZE_CLASSES[c])
           /\ frames' = frames \ {f}
           /\ held' = held \cup {<<a, size>>}

(* alloc of whole pages: alloc_frames gives a run of free frames.          *)
alloc_pages(size) ==
    /\ IsLarge(size)
    /\ LET n == Pages(size)
           Runs == {f \in frames : f .. f + n - 1 \subseteq frames}
       IN \E f \in Runs :
            /\ IsLowest(f, Runs)
            /\ frames' = frames \ (f .. f + n - 1)
            /\ link' = Written(link, f * PAGE_SIZE, n * PAGE_SIZE)
            /\ held' = held \cup {<<f * PAGE_SIZE, size>>}
    /\ UNCHANGED <<page, free_head, free_count>>

(* dealloc: the slot goes to the head of the list of the slab that its     *)
(* address is in; a slab that becomes empty gives its page back.  That an  *)
(* address is in no slab, which dealloc only logs, is excluded by          *)
(* AllComesBack.                                                           *)
Owns(h, a) == page[h] # 0 /\ InPage(a, page[h])

dealloc_slot_Keep(a, size) ==
    \E c \in Classes : \E h \in Headers :
        /\ IsClass(c, size) /\ h[1] = c /\ Owns(h, a)
        /\ page' = page /\ frames' = frames
        /\ link' = [link EXCEPT ![a] = free_head[h]]
        /\ free_head' = [free_head EXCEPT ![h] = a]
        /\ free_count' = [free_count EXCEPT ![h] = @ + 1]
        /\ held' = held \ {<<a, size>>}

dealloc_slot_Early(a, size) ==
    \E c \in Classes : \E h \in Headers :
        /\ IsClass(c, size) /\ h[1] = c /\ Owns(h, a)
        /\ link' = [link EXCEPT ![a] = free_head[h]]
        /\ LET back == free_count[h] + 1 >= Capacity(c) - 1
           IN /\ page' = [page EXCEPT ![h] = IF back THEN 0 ELSE @]
              /\ free_head' = [free_head EXCEPT ![h] = IF back THEN Null ELSE a]
              /\ free_count' = [free_count EXCEPT ![h] = IF back THEN 0 ELSE @ + 1]
              /\ frames' = IF back THEN frames \cup {page[h]} ELSE frames
        /\ held' = held \ {<<a, size>>}

dealloc_slot(a, size) ==
    \E c \in Classes : \E h \in Headers :
        /\ IsClass(c, size) /\ h[1] = c /\ Owns(h, a)
        /\ link' = [link EXCEPT ![a] = free_head[h]]
        /\ LET back == free_count[h] + 1 = Capacity(c)
           IN /\ page' = [page EXCEPT ![h] = IF back THEN 0 ELSE @]
              /\ free_head' = [free_head EXCEPT ![h] = IF back THEN Null ELSE a]
              /\ free_count' = [free_count EXCEPT ![h] = IF back THEN 0 ELSE @ + 1]
              /\ frames' = IF back THEN frames \cup {page[h]} ELSE frames
        /\ held' = held \ {<<a, size>>}

dealloc_pages_More(a, size) ==
    /\ IsLarge(size)
    /\ frames' = frames \cup (a \div PAGE_SIZE .. a \div PAGE_SIZE + Pages(size))
    /\ held' = held \ {<<a, size>>}
    /\ UNCHANGED <<page, free_head, free_count, link>>

dealloc_pages(a, size) ==
    /\ IsLarge(size)
    /\ frames' = frames \cup (a \div PAGE_SIZE .. a \div PAGE_SIZE + Pages(size) - 1)
    /\ held' = held \ {<<a, size>>}
    /\ UNCHANGED <<page, free_head, free_count, link>>

Next ==
    \/ \E size \in Sizes : alloc_slot(size) \/ alloc_slab(size) \/ alloc_pages(size)
    \/ \E b \in held : dealloc_slot(b[1], b[2]) \/ dealloc_pages(b[1], b[2])

Spec == Init /\ [][Next]_vars

-----------------------------------------------------------------------------
(* Properties.                                                             *)

Block(b) == b[1] .. b[1] + b[2] - 1
FrameOf(a) == a \div PAGE_SIZE

(* The blocks that callers hold are disjoint, and lie in frames that the   *)
(* frame allocator does not have: a slab's page is not given back while    *)
(* one of its slots is held, and no slot is handed out twice.              *)
BlocksDisjoint ==
    /\ \A b, d \in held : b # d => Block(b) \cap Block(d) = {}
    /\ \A b \in held : \A a \in Block(b) : FrameOf(a) \notin frames

(* The slots of slab h on the list from free_head, following the links.    *)
OnList(h) ==
    LET walk[n \in 0 .. PAGE_SIZE] ==
          IF n = 0 THEN free_head[h]
          ELSE IF walk[n - 1] \in Addrs THEN link[walk[n - 1]] ELSE walk[n - 1]
    IN [n \in 0 .. free_count[h] |-> walk[n]]

(* The list of a slab is as long as free_count says, ends there, and is    *)
(* made of the slots of its page that nobody holds, each once: links are   *)
(* never read from a block that a caller has written.                      *)
FreeListExact ==
    \A h \in Headers : page[h] # 0 =>
        LET list == OnList(h)
            slots == {list[n] : n \in 0 .. free_count[h] - 1}
        IN /\ list[free_count[h]] = Null
           /\ Cardinality(slots) = free_count[h]
           /\ slots = {a \in SlotAddrs(h[1], page[h]) : \A b \in held : b[1] # a}

(* Every block is found again when it is freed, and a slab that holds no   *)
(* block keeps no page, so that all memory comes back.                     *)
AllComesBack ==
    /\ \A b \in held : IsLarge(b[2]) \/ \E h \in Headers : IsClass(h[1], b[2]) /\ Owns(h, b[1])
    /\ held = {} => frames = 1 .. NFrames
=============================================================================
