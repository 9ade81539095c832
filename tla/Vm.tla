--------------------------------- MODULE Vm ---------------------------------
(***************************************************************************)
(* Address spaces: brk, mmap, munmap and mprotect (syscall/mm.rs), the     *)
(* regions of a process (proc/vm.rs), the page tables (arch/amd64/         *)
(* paging.rs) and the copy that fork makes of them.                        *)
(*                                                                         *)
(* Addresses are pages, and the program break counts half pages, so that   *)
(* rounding shows.  A call runs to its end before another starts; call is  *)
(* the one that is inside its loop over pages.  Each loop takes one frame  *)
(* per page, and one more where the page table (one per Span pages, which  *)
(* stands for the three levels) is missing.  The frame allocator is module *)
(* Pmm; here it hands out the lowest free frame.                           *)
(***************************************************************************)
EXTENDS Integers, FiniteSets

CONSTANTS
    Spaces,       \* address spaces: the first process, and one per fork
    First,        \* the space of the first process
    NPages,       \* bound: pages of an address space
    MmapBase,     \* MMAP_BASE, a page
    Span,         \* pages under one page table
    Frames,       \* physical frames, positive numbers
    MAX_VMAS,
    Prots,        \* protections
    Breaks,       \* arguments of brk, in half pages
    Lens,         \* lengths of mappings, in pages; 0: one that wrapped
    Fixed,        \* pages that MAP_FIXED is called with
    MaxCalls      \* bound: calls made

ASSUME VmAssumption ==
    /\ First \in Spaces
    /\ NPages \in Nat /\ MmapBase \in 0 .. NPages /\ Span \in Nat \ {0}
    /\ Frames \subseteq Nat \ {0} /\ MAX_VMAS \in Nat
    /\ MaxCalls \in Nat /\ "rw" \in Prots /\ Lens \subseteq 0 .. NPages
    /\ Breaks \subseteq 0 .. 2 * NPages + 1 /\ Fixed \subseteq 0 .. NPages - 1

Pages == 0 .. NPages - 1
Tables == 0 .. NPages        \* the table of page p is p \div Span
Slots == 1 .. MAX_VMAS
NoFrame == 0
Huge == 2 * NPages + 1       \* a break in the last page below 2^64

VARIABLES
    pml4, table, page,  \* the frames of an address space: root, tables, pages
    prot,               \* protection bits of the mapped pages
    vmas,               \* Process.vmas
    brk,                \* Process.program_break
    base,               \* Process.next_mmap_base
    live,               \* spaces whose process runs
    free,               \* frames that alloc_frame can return
    call,               \* the call inside its loop
    panicked,
    calls,              \* how many calls were made
    lost                \* history: frames that were mapped over

tables == <<pml4, table>>
mapping == <<page, prot>>
process == <<vmas, brk, base, live>>
vars == <<tables, mapping, process, free, call, panicked, calls, lost>>

NoVma == [in_use |-> FALSE, start |-> 0, len |-> 0, prot |-> "rw", hollow |-> FALSE]
Vma == [in_use : BOOLEAN, start : 0 .. NPages, len : 0 .. NPages, prot : Prots, hollow : BOOLEAN]
Idle == [op |-> "none", space |-> First, from |-> First, next |-> 0, end |-> 0, arg |-> 0, prot |-> "rw"]
Calls == [op : {"none", "brk", "mmap", "fork"}, space : Spaces, from : Spaces, next : 0 .. NPages,
          end : 0 .. NPages, arg : 0 .. Huge, prot : Prots]

TypeOK ==
    /\ pml4 \in [Spaces -> Frames \cup {NoFrame}]
    /\ table \in [Spaces -> [Tables -> Frames \cup {NoFrame}]]
    /\ page \in [Spaces -> [Pages -> Frames \cup {NoFrame}]]
    /\ prot \in [Spaces -> [Pages -> Prots]]
    /\ vmas \in [Spaces -> [Slots -> Vma]]
    /\ brk \in [Spaces -> 0 .. Huge] /\ base \in [Spaces -> 0 .. NPages]
    /\ live \subseteq Spaces /\ free \subseteq Frames /\ lost \subseteq Frames
    /\ call \in Calls /\ calls \in 0 .. MaxCalls /\ panicked \in BOOLEAN

Init ==
    /\ \E f \in Frames :
        /\ \A g \in Frames : f <= g
        /\ pml4 = [a \in Spaces |-> IF a = First THEN f ELSE NoFrame]
        /\ free = Frames \ {f}
    /\ table = [a \in Spaces |-> [i \in Tables |-> NoFrame]]
    /\ page = [a \in Spaces |-> [p \in Pages |-> NoFrame]]
    /\ prot = [a \in Spaces |-> [p \in Pages |-> "rw"]]
    /\ vmas = [a \in Spaces |-> [i \in Slots |-> NoVma]]
    /\ brk = [a \in Spaces |-> 0] /\ base = [a \in Spaces |-> MmapBase]
    /\ live = {First} /\ call = Idle /\ calls = 0 /\ panicked = FALSE /\ lost = {}

Runs(a) == a \in live /\ call.op = "none" /\ ~ panicked

IsLowest(f, S) == f \in S /\ \A g \in S : f <= g

-----------------------------------------------------------------------------
(* Regions, proc/vm.rs.                                                    *)

overlaps(s, n, v) == s < v.start + v.len /\ v.start < s + n

region_conflicts_Start(a, s, n) ==
    \E i \in Slots : vmas[a][i].in_use /\ overlaps(s, 1, vmas[a][i])

region_conflicts(a, s, n) == \E i \in Slots : vmas[a][i].in_use /\ overlaps(s, n, vmas[a][i])

IsFreeVma(a, i) == ~ vmas[a][i].in_use /\ \A j \in Slots : j < i => vmas[a][j].in_use

IsVma(a, i, s, n) ==
    LET Exact(j) == vmas[a][j].in_use /\ vmas[a][j].start = s /\ vmas[a][j].len = n
    IN Exact(i) /\ \A j \in Slots : j < i => ~ Exact(j)

-----------------------------------------------------------------------------
(* Page tables, arch/amd64/paging.rs.                                      *)

(* map_page_in of page p of space a with a frame for it, and with a frame  *)
(* for its table if that is missing.  What was mapped there is forgotten.  *)
map_page_in(a, p, pr) ==
    /\ \E f \in free :
        /\ IsLowest(f, free)
        /\ \/ /\ table[a][p \div Span] # NoFrame
              /\ free' = free \ {f}
              /\ UNCHANGED table
           \/ /\ table[a][p \div Span] = NoFrame
              /\ \E g \in free \ {f} :
                  /\ IsLowest(g, free \ {f})
                  /\ table' = [table EXCEPT ![a][p \div Span] = g]
                  /\ free' = free \ {f, g}
        /\ page' = [page EXCEPT ![a][p] = f]
        /\ prot' = [prot EXCEPT ![a][p] = pr]
        /\ lost' = lost \cup ({page[a][p]} \ {NoFrame})
    /\ UNCHANGED pml4

(* alloc_table panics when it gets no frame, after the page got the last.  *)
NoTable(a, p) == table[a][p \div Span] = NoFrame /\ Cardinality(free) = 1

(* unmap_page_in and free_frame for pages s .. e - 1.                      *)
unmap_KeepFrames(a, s, e) ==
    /\ page' = [page EXCEPT ![a] = [p \in Pages |-> IF p \in s .. e - 1 THEN NoFrame ELSE page[a][p]]]
    /\ UNCHANGED free

unmap(a, s, e) ==
    /\ free' = free \cup ({page[a][p] : p \in s .. e - 1} \ {NoFrame})
    /\ page' = [page EXCEPT ![a] = [p \in Pages |-> IF p \in s .. e - 1 THEN NoFrame ELSE page[a][p]]]

Panic ==
    /\ panicked' = TRUE /\ call' = Idle
    /\ UNCHANGED <<tables, mapping, process, free, lost>>

-----------------------------------------------------------------------------
(* System calls.                                                           *)

(* (b + 0xFFF) & !0xFFF, which wraps to 0 at the end of the addresses.     *)
RoundUp_Down(b) == IF b = Huge THEN 0 ELSE b \div 2

RoundUp(b) == IF b = Huge THEN 0 ELSE (b + 1) \div 2

(* brk: shrinking only moves the break; growing maps from the page after   *)
(* the current break, whatever is mapped there.                            *)
Brk(a, new) ==
    /\ Runs(a) /\ new # 0
    /\ \/ /\ new <= brk[a]
          /\ brk' = [brk EXCEPT ![a] = new]
          /\ UNCHANGED call
       \/ /\ new > brk[a]
          /\ call' = [Idle EXCEPT !.op = "brk", !.space = a, !.arg = new,
                                  !.next = RoundUp(brk[a]), !.end = RoundUp(new)]
          /\ UNCHANGED brk
    /\ UNCHANGED <<tables, mapping, vmas, base, live, free, panicked, lost>>

(* mmap after its checks of the arguments.  Without an address the base    *)
(* advances even if the call fails then; a file mapping of a bad           *)
(* descriptor fails after the region was made (hollow).  A len of 0 is one *)
(* that wrapped when it was rounded up to pages.                           *)
Map(a, s, n, pr, bad) ==
    /\ s + n <= NPages
    /\ \/ /\ region_conflicts(a, s, n) \/ \A i \in Slots : vmas[a][i].in_use
          /\ UNCHANGED <<vmas, call>>
       \/ /\ ~ region_conflicts(a, s, n)
          /\ \E i \in Slots :
              /\ IsFreeVma(a, i)
              /\ vmas' = [vmas EXCEPT ![a][i] =
                           [in_use |-> TRUE, start |-> s, len |-> n, prot |-> pr, hollow |-> bad]]
          /\ call' = IF bad THEN call
                     ELSE [Idle EXCEPT !.op = "mmap", !.space = a, !.arg = s,
                                       !.next = s, !.end = s + n, !.prot = pr]
    /\ UNCHANGED <<tables, mapping, brk, live, free, panicked, lost>>

mmap_any(a, n, pr, bad) ==
    /\ Runs(a)
    /\ Map(a, base[a], n, pr, bad)
    /\ base' = [base EXCEPT ![a] = @ + n]

mmap_fixed(a, s, n, pr, bad) ==
    /\ Runs(a)
    /\ Map(a, s, n, pr, bad)
    /\ UNCHANGED base

(* One turn of the loop of brk, of mmap, or of clone_user_address_space.   *)
MapPage ==
    /\ call.op \in {"brk", "mmap"} /\ call.next < call.end
    /\ free # {} /\ ~ NoTable(call.space, call.next)
    /\ map_page_in(call.space, call.next, call.prot)
    /\ call' = [call EXCEPT !.next = @ + 1]
    /\ UNCHANGED <<process, panicked>>

MapPanics ==
    /\ call.op \in {"brk", "mmap"} /\ call.next < call.end
    /\ free # {} /\ NoTable(call.space, call.next)
    /\ Panic

(* No frame for the page: brk keeps the pages it has mapped and the old    *)
(* break; mmap unmaps and frees what it mapped and drops the region.       *)
BrkFails ==
    /\ call.op = "brk" /\ call.next < call.end /\ free = {}
    /\ call' = Idle
    /\ UNCHANGED <<tables, mapping, process, free, panicked, lost>>

MmapFails_KeepVma ==
    /\ call.op = "mmap" /\ call.next < call.end /\ free = {}
    /\ unmap(call.space, call.arg, call.next)
    /\ call' = Idle
    /\ UNCHANGED <<tables, prot, vmas, brk, base, live, panicked, lost>>

MmapFails ==
    /\ call.op = "mmap" /\ call.next < call.end /\ free = {}
    /\ unmap(call.space, call.arg, call.next)
    /\ \E i \in Slots :
        /\ IsVma(call.space, i, call.arg, call.end - call.arg)
        /\ vmas' = [vmas EXCEPT ![call.space][i] = NoVma]
    /\ call' = Idle
    /\ UNCHANGED <<tables, prot, brk, base, live, panicked, lost>>

Returns ==
    /\ call.op \in {"brk", "mmap"} /\ call.next >= call.end
    /\ brk' = IF call.op = "brk" THEN [brk EXCEPT ![call.space] = call.arg] ELSE brk
    /\ call' = Idle
    /\ UNCHANGED <<tables, mapping, vmas, base, live, free, panicked, lost>>

(* Only a whole region can be unmapped or protected.                       *)
munmap(a, i) ==
    /\ Runs(a)
    /\ LET v == vmas[a][i]
       IN /\ IsVma(a, i, v.start, v.len)
          /\ unmap(a, v.start, v.start + v.len)
    /\ vmas' = [vmas EXCEPT ![a][i] = NoVma]
    /\ UNCHANGED <<tables, prot, brk, base, live, call, panicked, lost>>

(* mprotect stops at the first page that is not mapped; the pages before   *)
(* it have the new protection then, and the region the old.                *)
mprotect(a, i, pr) ==
    /\ Runs(a)
    /\ LET v == vmas[a][i]
           Range == v.start .. v.start + v.len - 1
           Reached == {p \in Range : \A q \in v.start .. p : page[a][q] # NoFrame}
       IN /\ IsVma(a, i, v.start, v.len)
          /\ prot' = [prot EXCEPT ![a] = [p \in Pages |-> IF p \in Reached THEN pr ELSE prot[a][p]]]
          /\ vmas' = IF Reached = Range THEN [vmas EXCEPT ![a][i].prot = pr] ELSE vmas
    /\ UNCHANGED <<tables, page, brk, base, live, free, call, panicked, lost>>

(* fork: clone_user_address_space takes a root (clone_kernel_address_space *)
(* does not look whether it got one: without a frame the next table        *)
(* panics), then copies page by page.                                      *)
fork(a, b) ==
    /\ Runs(a) /\ b \notin live /\ pml4[b] = NoFrame
    /\ \/ free = {} /\ Panic
       \/ /\ \E f \in free : /\ IsLowest(f, free)
                             /\ pml4' = [pml4 EXCEPT ![b] = f]
                             /\ free' = free \ {f}
          /\ call' = [Idle EXCEPT !.op = "fork", !.space = b, !.from = a, !.end = NPages]
          /\ prot' = [prot EXCEPT ![b] = prot[a]]
          /\ vmas' = [vmas EXCEPT ![b] = vmas[a]]
          /\ brk' = [brk EXCEPT ![b] = brk[a]] /\ base' = [base EXCEPT ![b] = base[a]]
          /\ UNCHANGED <<table, page, live, panicked, lost>>

CopyPage_Share ==
    LET a == call.from
        b == call.space
        p == call.next
    IN /\ call.op = "fork" /\ p < call.end
       /\ \/ page[a][p] = NoFrame /\ UNCHANGED <<tables, mapping, free, lost, panicked>>
          \/ /\ page[a][p] # NoFrame
             /\ page' = [page EXCEPT ![b][p] = page[a][p]]
             /\ UNCHANGED <<tables, prot, free, lost, panicked>>
       /\ call' = [call EXCEPT !.next = @ + 1]
       /\ UNCHANGED process

CopyPage ==
    LET a == call.from
        b == call.space
        p == call.next
    IN /\ call.op = "fork" /\ p < call.end
       /\ \/ /\ page[a][p] # NoFrame /\ (free = {} \/ NoTable(b, p))
             /\ Panic
          \/ /\ page[a][p] = NoFrame
             /\ call' = [call EXCEPT !.next = @ + 1]
             /\ UNCHANGED <<tables, mapping, process, free, panicked, lost>>
          \/ /\ page[a][p] # NoFrame /\ free # {} /\ ~ NoTable(b, p)
             /\ map_page_in(b, p, prot[a][p])
             /\ call' = [call EXCEPT !.next = @ + 1]
             /\ UNCHANGED <<process, panicked>>

Forked ==
    /\ call.op = "fork" /\ call.next = call.end
    /\ live' = live \cup {call.space}
    /\ call' = Idle
    /\ UNCHANGED <<tables, mapping, vmas, brk, base, free, panicked, lost>>

(* The frames of a process stay allocated when it ends and is reaped.      *)
exit(a) ==
    /\ Runs(a)
    /\ live' = live \ {a}
    /\ UNCHANGED <<tables, mapping, vmas, brk, base, free, call, panicked, lost>>

Step == MapPage \/ MapPanics \/ BrkFails \/ MmapFails \/ Returns \/ CopyPage \/ Forked

Next ==
    \/ \E a \in Spaces :
        /\ calls < MaxCalls /\ calls' = calls + 1
        /\ \/ \E new \in Breaks : Brk(a, new)
           \/ \E n \in Lens, pr \in Prots, bad \in BOOLEAN :
                \/ mmap_any(a, n, pr, bad)
                \/ \E s \in Fixed : mmap_fixed(a, s, n, pr, bad)
           \/ \E i \in Slots : munmap(a, i) \/ \E pr \in Prots : mprotect(a, i, pr)
           \/ \E b \in Spaces \ {a} : fork(a, b)
           \/ exit(a)
    \/ Step /\ UNCHANGED calls

Spec == Init /\ [][Next]_vars

-----------------------------------------------------------------------------
(* Properties.                                                             *)

PageFrames == {x \in Spaces \X Pages : page[x[1]][x[2]] # NoFrame}
TableFrames == {x \in Spaces \X Tables : table[x[1]][x[2]] # NoFrame}

(* A frame is in one place: no two pages, of one process or of parent and  *)
(* child, share a frame, no page shares one with a page table or a root,   *)
(* and no frame in use is free.  So munmap and the undo of mmap never free *)
(* a frame that something else still maps.                                 *)
Exclusive ==
    /\ \A x, y \in PageFrames : page[x[1]][x[2]] = page[y[1]][y[2]] => x = y
    /\ \A x, y \in TableFrames : table[x[1]][x[2]] = table[y[1]][y[2]] => x = y
    /\ \A x \in PageFrames, y \in TableFrames : page[x[1]][x[2]] # table[y[1]][y[2]]
    /\ \A a \in Spaces : pml4[a] # NoFrame =>
        /\ pml4[a] \notin free
        /\ \A b \in Spaces \ {a} : pml4[b] # pml4[a]
        /\ \A x \in PageFrames : page[x[1]][x[2]] # pml4[a]
        /\ \A y \in TableFrames : table[y[1]][y[2]] # pml4[a]
    /\ \A x \in PageFrames : page[x[1]][x[2]] \notin free
    /\ \A y \in TableFrames : table[y[1]][y[2]] \notin free

(* The regions of a process do not overlap, after any sequence of fixed    *)
(* and free mappings, failures and forks.                                  *)
VmasDisjoint ==
    \A a \in Spaces : \A i, j \in Slots :
        i # j /\ vmas[a][i].in_use /\ vmas[a][j].in_use =>
            ~ overlaps(vmas[a][i].start, vmas[a][i].len, vmas[a][j])

(* A frame is free, is in an address space (of a dead process too), or was *)
(* mapped over by brk or by a fixed mapping: no other way to lose one.     *)
FramesAccounted ==
    Frames = free \cup lost
                  \cup {page[x[1]][x[2]] : x \in PageFrames}
                  \cup {table[y[1]][y[2]] : y \in TableFrames}
                  \cup ({pml4[a] : a \in Spaces} \ {NoFrame})
=============================================================================
