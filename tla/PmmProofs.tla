----------------------------- MODULE PmmProofs ------------------------------
(***************************************************************************)
(* Proofs about the frame allocator, for every number of frames, every     *)
(* memory map and every size of request: its counter is exact, no frame is *)
(* lost or handed out twice, and it implements FrameAllocator.             *)
(*                                                                         *)
(* The invariant follows init through its loop (Listed is what the entries *)
(* read so far make conventional) and alloc_frames through its (ScanInv).  *)
(* That alloc_frames refuses only what cannot be had rests on ScanInv: the *)
(* run that ends at f is maximal, so no run it has passed was long enough. *)
(***************************************************************************)
EXTENDS Pmm, TLAPS, FiniteSetTheorems

(* The frames that the first entries of the map, before e, list.           *)
Listed(e) == {g \in Frames : \E i \in 1 .. e - 1 : g \in Conventional(MemoryMap[i])}

Up == pc \in {"idle", "scan"}

(* How far init has come.                                                  *)
InitInv ==
    /\ totalFrames = Cardinality(Listed(entry))
    /\ pc = "map" => FreeSet = Listed(entry)
    /\ pc # "map" => entry = Len(MemoryMap) + 1
    /\ pc = "zero" => FreeSet = Listed(entry) \ Kernel
    /\ ~Up => owned = {} /\ reply = [count |-> 0, frame |-> 0]

IInv == TypeOK /\ CountExact /\ InitInv /\ FramesConserved /\ ScanInv

-----------------------------------------------------------------------------
(* Every set of frames is finite.                                          *)
LEMMA FiniteFrames ==
    ASSUME NEW S \in SUBSET Frames
    PROVE  IsFiniteSet(S) /\ Cardinality(S) \in Nat
<1>1. IsFiniteSet(Frames)
  BY PmmAssumption, FS_Interval DEF Frames
<1> QED
  BY <1>1, FS_Subset, FS_CardinalityType

(* set_free and set_used on a set of frames, as sets.                      *)
LEMMA BitmapSets ==
    ASSUME bitmap \in [Frames -> {"used", "free"}], NEW S
    PROVE  /\ SetFree(S) \in [Frames -> {"used", "free"}]
           /\ SetUsed(S) \in [Frames -> {"used", "free"}]
           /\ bitmap' = SetFree(S) => FreeSet' = FreeSet \cup (S \cap Frames)
           /\ bitmap' = SetUsed(S) => FreeSet' = FreeSet \ S
  BY DEF SetFree, SetUsed, FreeSet

(* Counting frames that become free, and frames that become used.          *)
LEMMA Counting ==
    ASSUME NEW A \in SUBSET Frames, NEW B \in SUBSET Frames
    PROVE  /\ A \cap B = {} => Cardinality(A \cup B) = Cardinality(A) + Cardinality(B)
           /\ B \subseteq A => /\ Cardinality(A \ B) = Cardinality(A) - Cardinality(B)
                               /\ Cardinality(B) <= Cardinality(A)
<1>1. IsFiniteSet(A) /\ IsFiniteSet(B) /\ Cardinality(A) \in Nat /\ Cardinality(B) \in Nat
  BY FiniteFrames
<1>2. ASSUME A \cap B = {}
      PROVE  Cardinality(A \cup B) = Cardinality(A) + Cardinality(B)
  BY <1>1, <1>2, FS_Union, FS_EmptySet
<1>3. ASSUME B \subseteq A
      PROVE  /\ Cardinality(A \ B) = Cardinality(A) - Cardinality(B)
             /\ Cardinality(B) <= Cardinality(A)
  <2>1. A \cap B = B
    BY <1>3
  <2> QED
    BY <1>1, <1>3, <2>1, FS_Difference, FS_Subset
<1> QED
  BY <1>2, <1>3

(* A run of n frames has n frames.                                         *)
LEMMA RunLength ==
    ASSUME NEW s \in Nat, NEW n \in Nat
    PROVE  Cardinality(Run(s, n)) = n
  BY FS_Interval DEF Run

(* Reading one more entry adds what it lists.                              *)
LEMMA ListedStep ==
    ASSUME NEW e \in Nat \ {0}
    PROVE  Listed(e + 1) = Listed(e) \cup Conventional(MemoryMap[e])
  BY DEF Listed, Conventional

-----------------------------------------------------------------------------
(* The state after init's first instructions.                              *)
LEMMA InitIInv == Init => IInv
<1> SUFFICES ASSUME Init PROVE IInv
  OBVIOUS
<1>1. FreeSet = {} /\ Listed(entry) = {}
  BY DEF Init, FreeSet, Listed
<1>2. TypeOK
  BY PmmAssumption DEF Init, TypeOK, Frames
<1> QED
  BY <1>1, <1>2, FS_EmptySet DEF Init, IInv, CountExact, InitInv, Up, FramesConserved, ScanInv

(* The steps of init.                                                      *)
LEMMA InitStep ==
    ASSUME IInv, InitEntry \/ InitKernel \/ InitZero
    PROVE  IInv'
<1> USE DEF IInv
<1>1. FreeSet \subseteq Frames /\ Kernel \subseteq Frames
  BY DEF FreeSet, Kernel
<1>2. CASE InitEntry
  <2> DEFINE new == Conventional(MemoryMap[entry]) \ FreeSet
  <2>0. /\ pc = "map" /\ entry \in 1 .. Len(MemoryMap) /\ entry' = entry + 1
        /\ bitmap' = SetFree(new)
        /\ freeFrames' = freeFrames + Cardinality(new)
        /\ totalFrames' = totalFrames + Cardinality(new)
        /\ UNCHANGED <<pc, scanVars, owned, reply>>
    BY <1>2, PmmAssumption DEF InitEntry, TypeOK
  <2>1. new \subseteq Frames
    BY DEF Conventional
  <2>2. FreeSet' = FreeSet \cup new /\ bitmap' \in [Frames -> {"used", "free"}]
    BY <2>0, <2>1, BitmapSets DEF TypeOK
  <2>3. Cardinality(new) \in Nat
    BY <2>1, FiniteFrames
  <2>4. Cardinality(FreeSet') = Cardinality(FreeSet) + Cardinality(new)
    <3> HIDE DEF new
    <3>1. FreeSet \cap new = {}
      BY DEF new
    <3> QED
      BY <3>1, <1>1, <2>1, <2>2, Counting
  <2>5. Listed(entry') = FreeSet'
    <3>1. entry \in Nat \ {0} /\ FreeSet = Listed(entry)
      BY <2>0, PmmAssumption DEF InitInv
    <3> QED
      BY <3>1, <2>0, <2>2, ListedStep
  <2>6. TypeOK'
    <3>1. entry' \in 1 .. Len(MemoryMap) + 1
      BY <2>0, PmmAssumption
    <3> HIDE DEF new
    <3>2. freeFrames' \in Nat /\ totalFrames' \in Nat
      BY <2>0, <2>3 DEF TypeOK
    <3> QED
      BY <3>1, <3>2, <2>0, <2>2 DEF TypeOK, scanVars
  <2>7. CountExact' /\ InitInv'
    BY <2>0, <2>2, <2>4, <2>5 DEF CountExact, InitInv, Up
  <2> QED
    BY <2>0, <2>6, <2>7 DEF FramesConserved, ScanInv
<1>3. CASE InitKernel
  <2> DEFINE taken == Kernel \cap FreeSet
  <2>0. /\ pc = "map" /\ pc' = "zero" /\ entry = Len(MemoryMap) + 1
        /\ bitmap' = SetUsed(taken)
        /\ freeFrames' = freeFrames - Cardinality(taken)
        /\ UNCHANGED <<totalFrames, entry, scanVars, owned, reply>>
    BY <1>3, PmmAssumption DEF InitKernel, TypeOK
  <2>1. FreeSet' = FreeSet \ taken /\ bitmap' \in [Frames -> {"used", "free"}]
    BY <2>0, BitmapSets DEF TypeOK
  <2>2. /\ Cardinality(FreeSet') = Cardinality(FreeSet) - Cardinality(taken)
        /\ Cardinality(FreeSet') \in Nat
    <3>1. taken \subseteq Frames /\ taken \subseteq FreeSet /\ FreeSet' \subseteq Frames
      BY <1>1, <2>1
    <3> HIDE DEF taken
    <3> QED
      BY <3>1, <1>1, <2>1, Counting, FiniteFrames
  <2>3. TypeOK'
    BY <2>0, <2>1, <2>2 DEF TypeOK, CountExact, scanVars
  <2>4. CountExact' /\ InitInv'
    BY <2>0, <2>1, <2>2 DEF CountExact, InitInv, Up, Listed
  <2> QED
    BY <2>0, <2>3, <2>4 DEF FramesConserved, ScanInv
<1>4. CASE InitZero
  <2>0. /\ pc = "zero" /\ pc' = "idle"
        /\ entry = Len(MemoryMap) + 1 /\ owned = {}
        /\ FreeSet = Listed(entry) \ Kernel
        /\ UNCHANGED <<totalFrames, entry, scanVars, owned, reply>>
    BY <1>4 DEF InitZero, InitInv, Up
  <2>1. /\ FreeSet' = FreeSet \ {0}
        /\ bitmap' \in [Frames -> {"used", "free"}]
        /\ freeFrames' = Cardinality(FreeSet')
        /\ freeFrames' \in Nat
    <3>1. CASE 0 \in FreeSet
      <4>1. bitmap' = SetUsed({0}) /\ freeFrames' = SaturatingSub(freeFrames, 1)
        BY <1>4, <3>1 DEF InitZero
      <4>2. FreeSet' = FreeSet \ {0} /\ bitmap' \in [Frames -> {"used", "free"}]
        BY <4>1, BitmapSets DEF TypeOK
      <4>3. /\ Cardinality(FreeSet \ {0}) = Cardinality(FreeSet) - 1
            /\ 1 <= Cardinality(FreeSet)
        BY <3>1, <1>1, FiniteFrames, FS_RemoveElement, FS_EmptySet
      <4> QED
        BY <4>1, <4>2, <4>3 DEF SaturatingSub, CountExact, TypeOK
    <3>2. CASE 0 \notin FreeSet
      BY <1>4, <3>2 DEF InitZero, CountExact, TypeOK, FreeSet
    <3> QED
      BY <3>1, <3>2
  <2>2. TypeOK' /\ CountExact' /\ InitInv'
    BY <2>0, <2>1 DEF TypeOK, CountExact, InitInv, Up, Listed, scanVars
  <2>3. FramesConserved'
    BY <2>0, <2>1 DEF FramesConserved, Listed, Usable
  <2> QED
    BY <2>0, <2>2, <2>3 DEF ScanInv
<1> QED
  BY <1>2, <1>3, <1>4

-----------------------------------------------------------------------------
(* Handing out a run of free frames.                                       *)
LEMMA TakenStep ==
    ASSUME IInv, Up, NEW n \in 1 .. MaxCount, NEW s \in Frames \ {0},
           Run(s, n) \subseteq FreeSet, Taken(n, s),
           f' \in 1 .. MaxFrames, count' \in 1 .. MaxCount,
           consecutive' \in 0 .. MaxCount, startFrame' \in Frames,
           UNCHANGED <<totalFrames, entry>>
    PROVE  IInv' /\ FA!Grant(n)
<1>1. n \in Nat /\ s \in Nat
  BY PmmAssumption DEF Frames
<1>2. /\ FreeSet' = FreeSet \ Run(s, n)
      /\ bitmap' \in [Frames -> {"used", "free"}]
      /\ FreeSet \subseteq Frames
  BY BitmapSets DEF Taken, IInv, TypeOK, FreeSet
<1>3. Cardinality(Run(s, n)) = n
  BY <1>1, RunLength
<1>4. /\ Cardinality(FreeSet') = Cardinality(FreeSet) - n
      /\ n <= Cardinality(FreeSet)
  BY <1>2, <1>3, Counting
<1>5. freeFrames' = Cardinality(FreeSet') /\ freeFrames' \in Nat
  <2>1. freeFrames = Cardinality(FreeSet) /\ freeFrames \in Nat
    BY DEF IInv, CountExact, TypeOK
  <2>2. freeFrames' = SaturatingSub(freeFrames, n)
    BY DEF Taken
  <2> QED
    BY <1>1, <1>4, <2>1, <2>2 DEF SaturatingSub
<1>6. pc' = "idle" /\ owned' = owned \cup Run(s, n) /\ reply' = [count |-> n, frame |-> s]
  BY DEF Taken, Answer
<1>7. TypeOK' /\ CountExact'
  <2>1. owned' \subseteq Frames /\ reply' \in [count : 0 .. MaxCount, frame : Frames]
    BY <1>2, <1>6 DEF IInv, TypeOK
  <2> QED
    BY <2>1, <1>2, <1>5, <1>6 DEF IInv, TypeOK, CountExact
<1>8. InitInv' /\ FramesConserved' /\ ScanInv'
  BY <1>2, <1>6 DEF IInv, InitInv, FramesConserved, ScanInv, Up
<1>9. FA!Grant(n)
  <2>1. s \in FreeSet
    BY <1>1 DEF Run
  <2>2. FA!Run(s, n) = Run(s, n)
    BY DEF Run, FA!Run
  <2> QED
    BY <2>1, <2>2, <1>2, <1>6 DEF FA!Grant, Up
<1> QED
  BY <1>7, <1>8, <1>9 DEF IInv

(* Refusing a request.                                                     *)
LEMMA RefusedStep ==
    ASSUME IInv, Up, NEW n \in 0 .. MaxCount, Refused(n),
           n = 0 \/ \A s \in FreeSet : ~ (Run(s, n) \subseteq FreeSet),
           UNCHANGED <<totalFrames, entry, scanVars>>
    PROVE  IInv' /\ FA!Refuse(n)
<1>1. pc' = "idle" /\ reply' = [count |-> n, frame |-> 0] /\ FreeSet' = FreeSet
  BY DEF Refused, Answer, FreeSet
<1>2. TypeOK' /\ CountExact'
  BY <1>1, PmmAssumption DEF Refused, IInv, TypeOK, CountExact, scanVars, Frames
<1>3. InitInv' /\ FramesConserved' /\ ScanInv'
  BY <1>1 DEF Refused, IInv, InitInv, FramesConserved, ScanInv, Up
<1>4. FA!Refuse(n)
  BY <1>1 DEF Refused, FA!Refuse, FA!Run, Run, Up
<1> QED
  BY <1>2, <1>3, <1>4 DEF IInv
-----------------------------------------------------------------------------
(* The operations, after init.                                             *)
LEMMA OperationStep ==
    ASSUME IInv,
           \/ alloc_frame
           \/ \E n \in 0 .. MaxCount : alloc_frames(n)
           \/ ScanUsed \/ ScanFree \/ ScanEnd
           \/ \E g \in owned \cup FreeSet \cup {0, MaxFrames} : free_frame(g)
    PROVE  IInv' /\ [FA!Next]_(FA!vars)
<1>0. FreeSet \subseteq Frames /\ (Up => 0 \notin FreeSet)
  BY DEF FreeSet, Up, IInv, FramesConserved, Usable
<1>1. CASE alloc_frame
  <2>1. Up /\ UNCHANGED <<totalFrames, entry, scanVars>>
    BY <1>1 DEF alloc_frame, Up
  <2>2. ASSUME NEW s \in FreeSet \ {0}, Taken(1, s)
        PROVE  IInv' /\ FA!Grant(1)
    <3>1. Run(s, 1) \subseteq FreeSet /\ s \in Frames \ {0} /\ 1 \in 1 .. MaxCount
      BY <1>0, PmmAssumption DEF Run, Frames
    <3> QED
      BY <2>1, <2>2, <3>1, TakenStep DEF IInv, TypeOK, scanVars
  <2>3. ASSUME FreeSet \ {0} = {}, Refused(1)
        PROVE  IInv' /\ FA!Refuse(1)
    <3>1. FreeSet = {} /\ 1 \in 0 .. MaxCount
      BY <1>0, <2>1, <2>3, PmmAssumption
    <3> QED
      BY <2>1, <2>3, <3>1, RefusedStep
  <2> QED
    BY <1>1, <2>2, <2>3, PmmAssumption DEF alloc_frame, FA!Next
<1>2. ASSUME NEW n \in 0 .. MaxCount, alloc_frames(n)
      PROVE  IInv' /\ [FA!Next]_(FA!vars)
  <2>1. pc = "idle" /\ Up /\ UNCHANGED <<totalFrames, entry>>
    BY <1>2 DEF alloc_frames, Up
  <2>2. CASE n = 0 /\ Refused(0) /\ UNCHANGED scanVars
    BY <2>1, <2>2, RefusedStep DEF FA!Next
  <2>3. CASE /\ n >= 2
             /\ pc' = "scan"
             /\ f' = 1 /\ count' = n /\ consecutive' = 0 /\ startFrame' = 0
             /\ UNCHANGED <<bitmap, freeFrames, owned, reply>>
    <3>1. TypeOK'
      BY <2>1, <2>3, PmmAssumption DEF IInv, TypeOK, Frames
    <3>2. FreeSet' = FreeSet /\ Up'
      BY <2>3 DEF FreeSet, Up
    <3>3. ScanInv'
      BY <2>3 DEF ScanInv
    <3>4. CountExact' /\ InitInv' /\ FramesConserved'
      BY <2>1, <2>3, <3>2 DEF IInv, CountExact, InitInv, FramesConserved, Up
    <3>5. UNCHANGED FA!vars
      BY <2>1, <2>3, <3>2 DEF FA!vars, Up
    <3> QED
      BY <3>1, <3>3, <3>4, <3>5 DEF IInv
  <2> QED
    BY <1>2, <2>2, <2>3 DEF alloc_frames
<1>3. CASE ScanUsed
  <2>0. /\ pc = "scan" /\ f \in 1 .. MaxFrames - 1 /\ bitmap[f] = "used"
        /\ consecutive' = 0 /\ f' = f + 1
        /\ UNCHANGED <<bitmap, freeFrames, totalFrames, pc, entry, count, startFrame,
                       owned, reply>>
    BY <1>3, PmmAssumption DEF ScanUsed, IInv, TypeOK
  <2>1. TypeOK'
    BY <2>0, PmmAssumption DEF IInv, TypeOK
  <2>2. FreeSet' = FreeSet
    BY <2>0 DEF FreeSet
  <2>3. ScanInv'
    <3>1. count \in Nat /\ count >= 1 /\ f \in Nat
      BY <2>0, PmmAssumption DEF IInv, TypeOK
    <3>2. ASSUME NEW s \in 1 .. f + 1 - count
          PROVE  \E g \in Run(s, count) : bitmap[g] = "used"
      <4>1. CASE s \in 1 .. f - count
        BY <4>1, <2>0 DEF IInv, ScanInv
      <4>2. CASE s = f + 1 - count
        BY <4>2, <2>0, <3>1 DEF Run
      <4> QED
        BY <4>1, <4>2, <3>1
    <3> QED
      BY <2>0, <3>1, <3>2 DEF ScanInv
  <2>4. CountExact' /\ InitInv' /\ FramesConserved'
    BY <2>0, <2>2 DEF IInv, CountExact, InitInv, FramesConserved, Up
  <2>5. UNCHANGED FA!vars
    BY <2>0, <2>2 DEF FA!vars
  <2> QED
    BY <2>1, <2>3, <2>4, <2>5 DEF IInv
<1>4. CASE ScanFree
  <2>0. /\ pc = "scan" /\ f \in 1 .. MaxFrames - 1 /\ bitmap[f] = "free"
        /\ startFrame' = IF consecutive = 0 THEN f ELSE startFrame
        /\ consecutive' = consecutive + 1
        /\ UNCHANGED <<totalFrames, entry, count>>
    BY <1>4, PmmAssumption DEF ScanFree, IInv, TypeOK
  <2>1. /\ count \in 1 .. MaxCount /\ consecutive \in Nat /\ f \in Nat
        /\ consecutive < count /\ consecutive < f
        /\ startFrame' = f - consecutive
        /\ startFrame' \in Frames \ {0} /\ f \in 1 .. MaxFrames
        /\ consecutive' \in 0 .. MaxCount
        /\ \A g \in f - consecutive .. f : bitmap[g] = "free"
    BY <2>0, PmmAssumption DEF IInv, TypeOK, ScanInv, Frames
  <2>2. CASE consecutive' = count /\ Taken(count, startFrame') /\ UNCHANGED f
    <3>1. Run(startFrame', count) \subseteq FreeSet
      <4>1. Run(startFrame', count) = f - consecutive .. f
        <5>1. count = consecutive + 1
          BY <2>0, <2>2
        <5>2. f - consecutive + (consecutive + 1) - 1 = f
          BY <2>1
        <5> QED
          BY <5>1, <5>2, <2>1 DEF Run
      <4>2. f - consecutive .. f \subseteq Frames
        BY <2>0, <2>1, PmmAssumption DEF Frames
      <4> QED
        BY <2>1, <4>1, <4>2 DEF FreeSet
    <3>2. Up
      BY <2>0 DEF Up
    <3> QED
      BY <2>0, <2>1, <2>2, <3>1, <3>2, TakenStep DEF FA!Next
  <2>3. CASE /\ consecutive' # count /\ f' = f + 1
             /\ UNCHANGED <<bitmap, freeFrames, pc, owned, reply>>
    <3>1. TypeOK'
      BY <2>0, <2>1, <2>3, PmmAssumption DEF IInv, TypeOK
    <3>2. FreeSet' = FreeSet
      BY <2>3 DEF FreeSet
    <3>3. ScanInv'
      <4>1. ASSUME NEW s \in 1 .. f + 1 - count
            PROVE  \E g \in Run(s, count) : bitmap[g] = "used"
        <5>1. CASE s \in 1 .. f - count
          BY <5>1, <2>0 DEF IInv, ScanInv
        <5>2. CASE s = f + 1 - count
          <6>1. f - consecutive - 1 \in Run(s, count) /\ f - consecutive > 1
            BY <5>2, <2>0, <2>1, <2>3, PmmAssumption DEF Run
          <6> QED
            BY <6>1, <2>0 DEF IInv, ScanInv
        <5> QED
          BY <5>1, <5>2, <2>1, PmmAssumption
      <4>2. /\ consecutive' < count' /\ consecutive' < f'
            /\ startFrame' = f' - consecutive'
            /\ f' - consecutive' = f - consecutive
            /\ \A g \in f' - consecutive' .. f' - 1 : bitmap'[g] = "free"
        <5>1. count \in Nat /\ consecutive + 1 # count
          BY <2>0, <2>1, <2>3, PmmAssumption
        <5>2. /\ consecutive + 1 < count /\ consecutive + 1 < f + 1
              /\ f + 1 - (consecutive + 1) = f - consecutive
              /\ f + 1 - 1 = f
          BY <2>1, <5>1
        <5>3. f' = f + 1 /\ consecutive' = consecutive + 1 /\ count' = count /\ bitmap' = bitmap
          BY <2>0, <2>3
        <5> QED
          BY <2>1, <5>2, <5>3
      <4>3. f' - consecutive' > 1 => bitmap'[f' - consecutive' - 1] = "used"
        BY <4>2, <2>0, <2>3 DEF IInv, ScanInv
      <4>4. (\A s \in 1 .. f - count : \E g \in Run(s, count) : bitmap[g] = "used")'
        <5>1. f' = f + 1 /\ count' = count /\ bitmap' = bitmap
          BY <2>0, <2>3
        <5>2. \A s \in 1 .. f + 1 - count : \E g \in Run(s, count) : bitmap[g] = "used"
          BY <4>1
        <5> SUFFICES ASSUME NEW s \in 1 .. f' - count'
                     PROVE  \E g \in s .. s + count' - 1 : bitmap'[g] = "used"
          BY DEF Run
        <5>3. s \in 1 .. f + 1 - count
          BY <5>1, <2>1, PmmAssumption
        <5>4. \E g \in Run(s, count) : bitmap[g] = "used"
          BY <5>2, <5>3
        <5>5. PICK g \in s .. s + count - 1 : bitmap[g] = "used"
          BY <5>4 DEF Run
        <5> QED
          BY <5>1, <5>5
      <4> QED
        BY <4>2, <4>3, <4>4, Zenon DEF ScanInv
    <3>4. CountExact' /\ InitInv' /\ FramesConserved'
      BY <2>0, <2>3, <3>2 DEF IInv, CountExact, InitInv, FramesConserved, Up
    <3>5. UNCHANGED FA!vars
      BY <2>3, <3>2 DEF FA!vars
    <3> QED
      BY <3>1, <3>3, <3>4, <3>5 DEF IInv
  <2> QED
    BY <1>4, <2>2, <2>3 DEF ScanFree
<1>5. CASE ScanEnd
  <2>1. Up /\ UNCHANGED <<totalFrames, entry, scanVars>> /\ Refused(count) /\ f = MaxFrames
    BY <1>5, PmmAssumption DEF ScanEnd, Up, IInv, TypeOK
  <2>2. count \in 0 .. MaxCount /\ count >= 1 /\ count \in Nat
    BY PmmAssumption DEF IInv, TypeOK
  <2>3. ASSUME NEW s \in FreeSet, Run(s, count) \subseteq FreeSet
        PROVE  FALSE
    <3>1. s \in Frames \ {0} /\ s + count - 1 \in Run(s, count)
      BY <1>0, <2>1, <2>2, PmmAssumption DEF Run, Frames
    <3>2. s + count - 1 \in Frames
      BY <1>0, <2>3, <3>1
    <3>3. s \in 1 .. f - count
      BY <2>1, <2>2, <3>1, <3>2, PmmAssumption DEF Frames
    <3>4. PICK g \in Run(s, count) : bitmap[g] = "used"
      BY <1>5, <3>3 DEF IInv, ScanInv, ScanEnd
    <3> QED
      BY <2>3, <3>4 DEF FreeSet
  <2> QED
    BY <2>1, <2>2, <2>3, RefusedStep DEF FA!Next
<1>6. ASSUME NEW g \in owned \cup FreeSet \cup {0, MaxFrames}, free_frame(g)
      PROVE  IInv' /\ [FA!Next]_(FA!vars)
  <2>0. pc = "idle" /\ Up /\ UNCHANGED <<totalFrames, pc, entry, scanVars, reply>>
    BY <1>6 DEF free_frame, Up
  <2>1. CASE UNCHANGED <<bitmap, freeFrames, owned>>
    <3>1. UNCHANGED vars /\ FreeSet' = FreeSet
      BY <2>0, <2>1 DEF vars, FreeSet
    <3>2. UNCHANGED FA!vars
      BY <2>0, <2>1, <3>1 DEF FA!vars
    <3>3. IInv'
      BY <3>1 DEF vars, scanVars, IInv, TypeOK, CountExact, InitInv, Up, FramesConserved, ScanInv
    <3> QED
      BY <3>2, <3>3
  <2>2. CASE /\ ~ (g = 0 \/ g >= MaxFrames \/ g \in FreeSet)
             /\ bitmap' = SetFree({g})
             /\ freeFrames' = freeFrames + 1
             /\ owned' = owned \ {g}
    <3>1. g \in owned /\ g \in Frames /\ g \notin FreeSet
      BY <2>2, <1>0, PmmAssumption DEF IInv, TypeOK
    <3>2. FreeSet' = FreeSet \cup {g} /\ bitmap' \in [Frames -> {"used", "free"}]
      BY <2>2, <3>1, BitmapSets DEF IInv, TypeOK
    <3>3. Cardinality(FreeSet') = Cardinality(FreeSet) + 1
      BY <1>0, <3>1, <3>2, FiniteFrames, FS_AddElement
    <3>4. TypeOK' /\ CountExact'
      <4>1. owned' \subseteq Frames /\ freeFrames' \in Nat
        BY <2>2 DEF IInv, TypeOK
      <4>2. CountExact'
        BY <2>2, <3>3 DEF IInv, CountExact
      <4> QED
        BY <4>1, <4>2, <2>0, <3>2 DEF IInv, TypeOK, scanVars
    <3>5. InitInv' /\ FramesConserved' /\ ScanInv'
      BY <2>0, <2>2, <3>1, <3>2 DEF IInv, InitInv, FramesConserved, ScanInv, Up
    <3>6. FA!Release(g)
      BY <2>0, <2>2, <3>1, <3>2 DEF FA!Release
    <3> QED
      BY <3>1, <3>4, <3>5, <3>6 DEF IInv, FA!Next
  <2> QED
    BY <1>6, <2>1, <2>2 DEF free_frame
<1> QED
  BY <1>1, <1>2, <1>3, <1>4, <1>5, <1>6

(* Every step of the allocator keeps the invariant and is a step of        *)
(* FrameAllocator, or none.                                                *)
LEMMA NextStep ==
    ASSUME IInv, [Next]_vars
    PROVE  IInv' /\ [FA!Next]_(FA!vars)
<1>1. CASE InitEntry \/ InitKernel
  <2>1. IInv'
    BY <1>1, InitStep
  <2>2. UNCHANGED FA!vars
    BY <1>1 DEF InitEntry, InitKernel, FA!vars
  <2> QED
    BY <2>1, <2>2
<1>2. CASE InitZero
  <2>1. IInv'
    BY <1>2, InitStep
  <2>2. pc = "zero" /\ pc' = "idle" /\ UNCHANGED <<owned, reply>> /\ owned = {}
    BY <1>2 DEF InitZero, IInv, InitInv, Up
  <2>3. FreeSet' = Usable
    BY <2>1, <2>2 DEF IInv, FramesConserved
  <2>4. FA!Boot
    BY <2>2, <2>3 DEF FA!Boot
  <2> QED
    BY <2>1, <2>4 DEF FA!Next
<1>3. CASE UNCHANGED vars
  <2>1. IInv'
    BY <1>3 DEF vars, scanVars, IInv, TypeOK, CountExact, InitInv, Up, FramesConserved,
                ScanInv, FreeSet
  <2>2. UNCHANGED FA!vars
    BY <1>3 DEF vars, FA!vars, FreeSet
  <2> QED
    BY <2>1, <2>2
<1> QED
  BY <1>1, <1>2, <1>3, OperationStep DEF Next

-----------------------------------------------------------------------------
(* The invariant holds in every reachable state of pmm.rs.                 *)
LEMMA Invariance == Spec => []IInv
<1>1. IInv /\ [Next]_vars => IInv'
  BY NextStep
<1> QED
  BY <1>1, InitIInv, PTL DEF Spec

(* free_frames is the number of clear bits of the bitmap, at every point   *)
(* of init, alloc_frame, alloc_frames and free_frame.                      *)
THEOREM FreeCountExact == Spec => []CountExact
<1>1. IInv => CountExact
  BY DEF IInv
<1> QED
  BY <1>1, Invariance, PTL

(* free_bytes() never exceeds total_bytes(), the two figures of sysinfo.   *)
THEOREM FreeNeverExceedsTotal == Spec => []FreeWithinTotal
<1>1. ASSUME IInv PROVE FreeWithinTotal
  <2>1. Listed(entry) \in SUBSET Frames
    BY DEF Listed
  <2>2. FreeSet \subseteq Listed(entry)
    <3>1. CASE pc \in {"map", "zero"}
      BY <1>1, <3>1 DEF IInv, InitInv
    <3>2. CASE pc \in {"idle", "scan"}
      BY <1>1, <3>2, PmmAssumption DEF IInv, InitInv, FramesConserved, Usable, Listed
    <3> QED
      BY <1>1, <3>1, <3>2 DEF IInv, TypeOK
  <2>3. Cardinality(FreeSet) <= Cardinality(Listed(entry))
    BY <2>1, <2>2, FiniteFrames, FS_Subset
  <2> QED
    BY <1>1, <2>3 DEF IInv, CountExact, InitInv, FreeWithinTotal
<1> QED
  BY <1>1, Invariance, PTL

(* No frame is lost, handed out twice, or handed out although it is frame  *)
(* 0, part of the kernel or no conventional memory.                        *)
THEOREM NoFrameLost == Spec => []FramesConserved
<1>1. IInv => FramesConserved
  BY DEF IInv
<1> QED
  BY <1>1, Invariance, PTL

(* The bitmap, the counters and the loops of pmm.rs implement the abstract *)
(* allocator: requests are answered with consecutive free frames, and      *)
(* refused only when there are none.                                       *)
THEOREM Refinement == Spec => ImplementsFrameAllocator
<1>1. Init => FA!Init
  BY DEF Init, FA!Init, FA!NoReply
<1>2. IInv /\ [Next]_vars => [FA!Next]_(FA!vars)
  BY NextStep
<1> QED
  BY <1>1, <1>2, Invariance, PTL DEF Spec, ImplementsFrameAllocator, FA!Spec
=============================================================================
