-------------------------------- MODULE MCVm --------------------------------
(* An instance of Vm for TLC, with a history variable for the properties   *)
(* of programs that keep the heap and the mappings apart.                  *)
EXTENDS Vm

(* Inside the heap, up to the mappings, into them, and one that wraps.     *)
SomeBreaks == {1, 2 * MmapBase, 2 * MmapBase + 1, Huge}

VARIABLE apart   \* history: no break above MMAP_BASE, no region below it

Apart ==
    /\ call.op = "brk" => call.arg <= 2 * MmapBase
    /\ \A a \in Spaces : \A i \in Slots : vmas[a][i].in_use => vmas[a][i].start >= MmapBase

MCInit == Init /\ apart = TRUE

MCNext == Next /\ apart' = (apart /\ Apart')

MCSpec == MCInit /\ [][MCNext]_<<vars, apart>>

(* Between calls, every page of a region is mapped with the protection of  *)
(* the region, through failed mappings, mprotect and fork; only a mapping  *)
(* of a bad descriptor leaves a region without pages (syscall/mm.rs, of    *)
(* programs that keep heap and mappings apart).                            *)
VmaBacked ==
    apart => \A a \in Spaces : Runs(a) => \A i \in Slots :
        LET v == vmas[a][i]
        IN v.in_use /\ ~ v.hollow =>
             \A p \in v.start .. v.start + v.len - 1 :
                page[a][p] # NoFrame /\ prot[a][p] = v.prot

(* Between calls, every page below the program break is mapped, also after *)
(* the break shrank, after an out-of-memory brk and in a forked child      *)
(* (brk, of programs that keep heap and mappings apart).                   *)
HeapMapped ==
    apart => \A a \in Spaces : Runs(a) =>
        \A p \in Pages : 2 * p < brk[a] => page[a][p] # NoFrame

(* Between calls, what a program was given is mapped, regions and heap     *)
(* (mmap, mprotect, brk and fork).                                         *)
MemoryBacked == VmaBacked /\ HeapMapped
=============================================================================
