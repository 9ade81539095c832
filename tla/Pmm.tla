-------------------------------- MODULE Pmm ---------------------------------
(***************************************************************************)
(* The physical frame allocator, kernel/src/mem/pmm.rs: a bitmap, two      *)
(* counters, and the search of alloc_frames, one frame per step.           *)
(*                                                                         *)
(* Every operation runs under the lock of PMM, so pc is the place of the   *)
(* one task that holds it.  Frames are numbered; the code's addresses are  *)
(* these numbers times PAGE_SIZE.  owned and reply are history variables:  *)
(* the frames that callers hold and the last answer.                       *)
(***************************************************************************)
EXTENDS Integers, FiniteSets, Sequences

CONSTANTS
    MaxFrames,     \* MAX_FRAMES
    MaxCount,      \* bound: the largest request made
    MemoryMap,     \* the firmware's map, entries [conventional, start, pages]
    KernelStart,   \* the first frame of the kernel image
    KernelEnd      \* the frame after its last one

MapEntry == [conventional : BOOLEAN, start : Nat, pages : Nat]

ASSUME PmmAssumption ==
    /\ MaxFrames \in Nat /\ MaxFrames >= 1
    /\ MaxCount \in Nat /\ MaxCount >= 1
    /\ MemoryMap \in Seq(MapEntry)
    /\ KernelStart \in Nat /\ KernelEnd \in Nat

Frames == 0 .. MaxFrames - 1

VARIABLES
    bitmap,        \* the state of each frame
    freeFrames,    \* free_frames
    totalFrames,   \* total_frames
    pc,            \* map, zero: init.  idle.  scan: the loop of alloc_frames
    entry,         \* init's loop over the map
    f, count, consecutive, startFrame,   \* the loop of alloc_frames
    owned, reply   \* history

scanVars == <<f, count, consecutive, startFrame>>
vars == <<bitmap, freeFrames, totalFrames, pc, entry, scanVars, owned, reply>>

FreeSet == {g \in Frames : bitmap[g] = "free"}

(* The frames of a map entry that init marks free.                         *)
Conventional(e) ==
    {g \in Frames : e.conventional /\ e.start <= g /\ g < e.start + e.pages}

Kernel == {g \in Frames : KernelStart <= g /\ g < KernelEnd}

Usable ==
    {g \in Frames \ (Kernel \cup {0}) :
        \E i \in 1 .. Len(MemoryMap) : g \in Conventional(MemoryMap[i])}

SetFree(S) == [g \in Frames |-> IF g \in S THEN "free" ELSE bitmap[g]]
SetUsed(S) == [g \in Frames |-> IF g \in S THEN "used" ELSE bitmap[g]]

SaturatingSub(a, b) == IF b <= a THEN a - b ELSE 0

Run(s, n) == s .. s + n - 1

-----------------------------------------------------------------------------
(* init.                                                                   *)

Init ==
    /\ bitmap = [g \in Frames |-> "used"]
    /\ freeFrames = 0
    /\ totalFrames = 0
    /\ pc = "map"
    /\ entry = 1
    /\ f = 1 /\ count = 1 /\ consecutive = 0 /\ startFrame = 0
    /\ owned = {}
    /\ reply = [count |-> 0, frame |-> 0]

(* Variant: frames of overlapping entries are counted twice.               *)
InitEntry_CountsTwice ==
    /\ pc = "map" /\ entry <= Len(MemoryMap)
    /\ LET new == Conventional(MemoryMap[entry]) IN
         /\ bitmap' = SetFree(new)
         /\ freeFrames' = freeFrames + Cardinality(new)
         /\ totalFrames' = totalFrames + Cardinality(new)
    /\ entry' = entry + 1
    /\ UNCHANGED <<pc, scanVars, owned, reply>>

InitEntry ==
    /\ pc = "map" /\ entry <= Len(MemoryMap)
    /\ LET new == Conventional(MemoryMap[entry]) \ FreeSet IN
         /\ bitmap' = SetFree(new)
         /\ freeFrames' = freeFrames + Cardinality(new)
         /\ totalFrames' = totalFrames + Cardinality(new)
    /\ entry' = entry + 1
    /\ UNCHANGED <<pc, scanVars, owned, reply>>

InitKernel ==
    /\ pc = "map" /\ entry > Len(MemoryMap)
    /\ LET taken == Kernel \cap FreeSet IN
         /\ bitmap' = SetUsed(taken)
         /\ freeFrames' = freeFrames - Cardinality(taken)
    /\ pc' = "zero"
    /\ UNCHANGED <<totalFrames, entry, scanVars, owned, reply>>

(* Variant: frame 0 stays free, to be mistaken for a refusal.              *)
InitZero_Kept ==
    /\ pc = "zero"
    /\ pc' = "idle"
    /\ UNCHANGED <<bitmap, freeFrames, totalFrames, entry, scanVars, owned, reply>>

InitZero ==
    /\ pc = "zero"
    /\ pc' = "idle"
    /\ IF 0 \in FreeSet
         THEN /\ bitmap' = SetUsed({0})
              /\ freeFrames' = SaturatingSub(freeFrames, 1)
         ELSE UNCHANGED <<bitmap, freeFrames>>
    /\ UNCHANGED <<totalFrames, entry, scanVars, owned, reply>>

-----------------------------------------------------------------------------
(* Allocation.                                                             *)

Answer(n, s) ==
    /\ reply' = [count |-> n, frame |-> s]
    /\ pc' = "idle"

Taken(n, s) ==
    /\ bitmap' = SetUsed(Run(s, n))
    /\ freeFrames' = SaturatingSub(freeFrames, n)
    /\ owned' = owned \cup Run(s, n)
    /\ Answer(n, s)

Refused(n) == Answer(n, 0) /\ UNCHANGED <<bitmap, freeFrames, owned>>

(* The lowest free frame from 1 up.                                        *)
alloc_frame ==
    /\ pc = "idle"
    /\ \/ \E s \in FreeSet \ {0} :
            /\ \A g \in FreeSet \ {0} : s <= g
            /\ Taken(1, s)
       \/ FreeSet \ {0} = {} /\ Refused(1)
    /\ UNCHANGED <<totalFrames, entry, scanVars>>

alloc_frames(n) ==
    /\ pc = "idle"
    /\ \/ n = 0 /\ Refused(0) /\ UNCHANGED scanVars
       \/ /\ n >= 2
          /\ pc' = "scan"
          /\ f' = 1 /\ count' = n /\ consecutive' = 0 /\ startFrame' = 0
          /\ UNCHANGED <<bitmap, freeFrames, owned, reply>>
    /\ UNCHANGED <<totalFrames, entry>>

(* Variant: a used frame does not end the run.                             *)
ScanUsed_NoReset ==
    /\ pc = "scan" /\ f < MaxFrames /\ bitmap[f] = "used"
    /\ f' = f + 1
    /\ UNCHANGED <<bitmap, freeFrames, totalFrames, pc, entry, count, consecutive,
                   startFrame, owned, reply>>

ScanUsed ==
    /\ pc = "scan" /\ f < MaxFrames /\ bitmap[f] = "used"
    /\ consecutive' = 0
    /\ f' = f + 1
    /\ UNCHANGED <<bitmap, freeFrames, totalFrames, pc, entry, count, startFrame,
                   owned, reply>>

(* Variant: the run is one frame short when it is taken.                   *)
ScanFree_OneShort ==
    /\ pc = "scan" /\ f < MaxFrames /\ bitmap[f] = "free"
    /\ startFrame' = IF consecutive = 0 THEN f ELSE startFrame
    /\ consecutive' = consecutive + 1
    /\ \/ consecutive' + 1 = count /\ Taken(count, startFrame') /\ UNCHANGED f
       \/ consecutive' + 1 < count
            /\ f' = f + 1 /\ UNCHANGED <<bitmap, freeFrames, pc, owned, reply>>
    /\ UNCHANGED <<totalFrames, entry, count>>

ScanFree ==
    /\ pc = "scan" /\ f < MaxFrames /\ bitmap[f] = "free"
    /\ startFrame' = IF consecutive = 0 THEN f ELSE startFrame
    /\ consecutive' = consecutive + 1
    /\ \/ consecutive' = count /\ Taken(count, startFrame') /\ UNCHANGED f
       \/ consecutive' # count
            /\ f' = f + 1 /\ UNCHANGED <<bitmap, freeFrames, pc, owned, reply>>
    /\ UNCHANGED <<totalFrames, entry, count>>

ScanEnd ==
    /\ pc = "scan" /\ f >= MaxFrames
    /\ Refused(count)
    /\ UNCHANGED <<totalFrames, entry, scanVars>>

-----------------------------------------------------------------------------
(* Freeing.  Callers free what they hold; a frame that is free already, 0  *)
(* and a number beyond the bitmap are ignored.                             *)

(* Variant: the counter goes up whatever the frame's state.                *)
free_frame_Unchecked(g) ==
    /\ pc = "idle"
    /\ IF g = 0 \/ g >= MaxFrames
         THEN UNCHANGED <<bitmap, freeFrames, owned>>
         ELSE /\ bitmap' = SetFree({g})
              /\ freeFrames' = freeFrames + 1
              /\ owned' = owned \ {g}
    /\ UNCHANGED <<totalFrames, pc, entry, scanVars, reply>>

free_frame(g) ==
    /\ pc = "idle"
    /\ IF g = 0 \/ g >= MaxFrames \/ g \in FreeSet
         THEN UNCHANGED <<bitmap, freeFrames, owned>>
         ELSE /\ bitmap' = SetFree({g})
              /\ freeFrames' = freeFrames + 1
              /\ owned' = owned \ {g}
    /\ UNCHANGED <<totalFrames, pc, entry, scanVars, reply>>

-----------------------------------------------------------------------------
Next ==
    \/ InitEntry \/ InitKernel \/ InitZero
    \/ alloc_frame
    \/ \E n \in 0 .. MaxCount : alloc_frames(n)
    \/ ScanUsed \/ ScanFree \/ ScanEnd
    \/ \E g \in owned \cup FreeSet \cup {0, MaxFrames} : free_frame(g)

Spec == Init /\ [][Next]_vars

-----------------------------------------------------------------------------
(* Properties.                                                             *)

TypeOK ==
    /\ bitmap \in [Frames -> {"used", "free"}]
    /\ freeFrames \in Nat
    /\ totalFrames \in Nat
    /\ pc \in {"map", "zero", "idle", "scan"}
    /\ entry \in 1 .. Len(MemoryMap) + 1
    /\ f \in 1 .. MaxFrames
    /\ count \in 1 .. MaxCount
    /\ consecutive \in 0 .. MaxCount
    /\ startFrame \in Frames
    /\ owned \subseteq Frames
    /\ reply \in [count : 0 .. MaxCount, frame : Frames]

(* free_frames, which sysinfo reports, is the number of clear bits: map    *)
(* entries that overlap, a kernel image inside or outside conventional     *)
(* memory, contiguous requests and repeated frees included.                *)
CountExact == freeFrames = Cardinality(FreeSet)

(* sysinfo never reports more free memory than memory.                     *)
FreeWithinTotal == freeFrames <= totalFrames

(* Once init is done, every frame that the machine has to give is free or  *)
(* held by one caller, and no other frame is: not frame 0, which stands    *)
(* for a refusal, not the kernel image, not reserved memory.               *)
FramesConserved ==
    pc \in {"idle", "scan"} =>
        /\ FreeSet \cap owned = {}
        /\ FreeSet \cup owned = Usable

(* The bitmap and its first-fit search implement the abstract allocator:   *)
(* a request of alloc_frame or alloc_frames gets consecutive free frames,  *)
(* and is refused only when no run of that length is free.                 *)
FA == INSTANCE FrameAllocator WITH
        up <- pc \in {"idle", "scan"},
        free <- IF pc \in {"idle", "scan"} THEN FreeSet ELSE {}

ImplementsFrameAllocator == FA!Spec

(* What the search knows in the middle of its loop (pc = "scan"): the last *)
(* consecutive frames are free, the run is maximal to the left, and no run *)
(* of count free frames ends before f.                                     *)
ScanInv ==
    pc = "scan" =>
        /\ consecutive < count /\ consecutive < f
        /\ consecutive > 0 => startFrame = f - consecutive
        /\ \A g \in f - consecutive .. f - 1 : bitmap[g] = "free"
        /\ f - consecutive > 1 => bitmap[f - consecutive - 1] = "used"
        /\ \A s \in 1 .. f - count : \E g \in Run(s, count) : bitmap[g] = "used"
=============================================================================
