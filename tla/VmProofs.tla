------------------------------ MODULE VmProofs ------------------------------
(***************************************************************************)
(* TypeOK, Exclusive, FramesAccounted and VmasDisjoint of Vm for any       *)
(* number of processes, pages, frames and regions.                         *)
(*                                                                         *)
(* The invariant has two halves that do not need each other's details:     *)
(* FramesInv of the frames (page tables, pages, free frames), kept by the  *)
(* two operators that move frames, and RegionsInv of the regions, of the   *)
(* break and of the call inside its loop.  RegionsInv gives FramesInv the  *)
(* fact that a loop stays inside the pages of an address space.            *)
(***************************************************************************)
EXTENDS Vm, TLAPS

held == <<pml4, table, page, free, lost>>

FramesType ==
    /\ pml4 \in [Spaces -> Frames \cup {NoFrame}]
    /\ table \in [Spaces -> [Tables -> Frames \cup {NoFrame}]]
    /\ page \in [Spaces -> [Pages -> Frames \cup {NoFrame}]]
    /\ free \subseteq Frames /\ lost \subseteq Frames

(* Exclusive, place by place.                                              *)
Apart ==
    /\ \A a, b \in Spaces, p, q \in Pages :
        page[a][p] # NoFrame /\ page[a][p] = page[b][q] => a = b /\ p = q
    /\ \A a, b \in Spaces, i, j \in Tables :
        table[a][i] # NoFrame /\ table[a][i] = table[b][j] => a = b /\ i = j
    /\ \A a, b \in Spaces : pml4[a] # NoFrame /\ pml4[a] = pml4[b] => a = b
    /\ \A a, b \in Spaces, p \in Pages, i \in Tables :
        page[a][p] # NoFrame => page[a][p] # table[b][i]
    /\ \A a, b \in Spaces, p \in Pages : page[a][p] # NoFrame => page[a][p] # pml4[b]
    /\ \A a, b \in Spaces, i \in Tables : table[a][i] # NoFrame => table[a][i] # pml4[b]
    /\ \A a \in Spaces : pml4[a] \notin free
    /\ \A a \in Spaces, p \in Pages : page[a][p] \notin free
    /\ \A a \in Spaces, i \in Tables : table[a][i] \notin free

(* FramesAccounted, frame by frame.                                        *)
Place(f) ==
    \/ f \in free \/ f \in lost
    \/ \E a \in Spaces : pml4[a] = f
    \/ \E a \in Spaces, p \in Pages : page[a][p] = f
    \/ \E a \in Spaces, i \in Tables : table[a][i] = f
Placed == \A f \in Frames : Place(f)

FramesInv == FramesType /\ Apart /\ Placed

RegionsType ==
    /\ prot \in [Spaces -> [Pages -> Prots]]
    /\ vmas \in [Spaces -> [Slots -> Vma]]
    /\ brk \in [Spaces -> 0 .. Huge] /\ base \in [Spaces -> 0 .. NPages]
    /\ live \subseteq Spaces /\ call \in Calls
    /\ calls \in 0 .. MaxCalls /\ panicked \in BOOLEAN

(* No region ends after the last page.                                     *)
InSpace == \A a \in Spaces, i \in Slots : vmas[a][i].start + vmas[a][i].len <= NPages

RegionsInv == RegionsType /\ InSpace /\ VmasDisjoint

Inv == FramesInv /\ RegionsInv

-----------------------------------------------------------------------------
(* Frames.                                                                 *)

(* The table of a page exists.                                             *)
LEMMA TableOfPage == \A p \in Pages : p \div Span \in Tables
  <1> SUFFICES ASSUME NEW p \in Pages PROVE p \div Span \in Tables
      OBVIOUS
  <1>1. p \in Nat /\ p < NPages /\ NPages \in Nat /\ Span \in Nat /\ Span > 0
      BY VmAssumption DEF Pages
  <1>2. p \div Span \in Int /\ p \div Span >= 0 /\ p \div Span <= p
      BY <1>1
  <1> QED
      BY <1>1, <1>2 DEF Tables

(* A free frame is none of those in use.                                   *)
LEMMA FreeIsFrame == FramesType => \A f \in free : f \in Frames /\ f # NoFrame
  BY VmAssumption DEF FramesType, NoFrame

(* map_page_in puts one free frame under the page, and another under its   *)
(* table if need be; what was under the page is lost.                      *)
LEMMA MapKeeps ==
    ASSUME NEW a \in Spaces, NEW p \in Pages, NEW pr, FramesInv, map_page_in(a, p, pr)
    PROVE  FramesInv'
  <1> USE DEF FramesInv
  <1> DEFINE i == p \div Span
  <1>1. i \in Tables
      BY TableOfPage
  <1>2. PICK f \in free :
            /\ \/ /\ table[a][i] # NoFrame /\ free' = free \ {f} /\ UNCHANGED table
               \/ /\ table[a][i] = NoFrame
                  /\ \E g \in free \ {f} :
                      /\ table' = [table EXCEPT ![a][i] = g]
                      /\ free' = free \ {f, g}
            /\ page' = [page EXCEPT ![a][p] = f]
            /\ lost' = lost \cup ({page[a][p]} \ {NoFrame})
      BY DEF map_page_in
  <1>3. pml4' = pml4
      BY DEF map_page_in
  <1>4. f \in Frames /\ f # NoFrame
      BY FreeIsFrame
  <1>5. /\ page' \in [Spaces -> [Pages -> Frames \cup {NoFrame}]]
        /\ page'[a][p] = f
        /\ \A b \in Spaces, q \in Pages : <<b, q>> # <<a, p>> => page'[b][q] = page[b][q]
      BY <1>2, <1>4 DEF FramesType
  <1> HIDE DEF i
  <1>6. CASE table[a][i] # NoFrame /\ free' = free \ {f} /\ UNCHANGED table
    <2>1. FramesType'
        BY <1>2, <1>3, <1>5, <1>6 DEF FramesType
    <2>2. Apart'
        BY <1>2, <1>3, <1>4, <1>5, <1>6 DEF FramesType, Apart
    <2>3. Placed'
    <3> SUFFICES ASSUME NEW h \in Frames PROVE Place(h)'
        BY DEF Placed
    <3>1. Place(h) /\ h # NoFrame
        BY VmAssumption DEF Placed, NoFrame
    <3>2. CASE h \in free
        BY <3>2, <1>5, <1>6 DEF Place
    <3>3. CASE h \in lost
        BY <3>3, <1>2 DEF Place
    <3>4. CASE \E b \in Spaces : pml4[b] = h
        BY <3>4, <3>1, <1>3 DEF Place, FramesType
    <3>5. ASSUME NEW b \in Spaces, NEW q \in Pages, page[b][q] = h PROVE Place(h)'
        BY <3>1, <3>5, <1>2, <1>5 DEF Place
    <3>6. ASSUME NEW b \in Spaces, NEW j \in Tables, table[b][j] = h PROVE Place(h)'
        BY <3>1, <3>6, <1>6 DEF Place
    <3> QED
        BY <3>1, <3>2, <3>3, <3>4, <3>5, <3>6 DEF Place
    <2> QED
        BY <2>1, <2>2, <2>3
  <1>7. CASE /\ table[a][i] = NoFrame
             /\ \E g \in free \ {f} : /\ table' = [table EXCEPT ![a][i] = g]
                                      /\ free' = free \ {f, g}
    <2>1. PICK g \in free \ {f} : table' = [table EXCEPT ![a][i] = g] /\ free' = free \ {f, g}
        BY <1>7
    <2>2. g \in Frames /\ g # NoFrame
        BY FreeIsFrame
    <2>3. /\ table' \in [Spaces -> [Tables -> Frames \cup {NoFrame}]]
          /\ table'[a][i] = g
          /\ \A b \in Spaces, j \in Tables : <<b, j>> # <<a, i>> => table'[b][j] = table[b][j]
        BY <2>1, <2>2, <1>1 DEF FramesType
    <2>4. FramesType'
        BY <1>2, <1>3, <1>5, <2>1, <2>3 DEF FramesType
    <2>5. Apart'
        BY <1>1, <1>2, <1>3, <1>4, <1>5, <2>1, <2>2, <2>3 DEF FramesType, Apart
    <2>6. Placed'
    <3> SUFFICES ASSUME NEW h \in Frames PROVE Place(h)'
        BY DEF Placed
    <3>1. Place(h) /\ h # NoFrame
        BY VmAssumption DEF Placed, NoFrame
    <3>2. CASE h \in free
        BY <3>2, <1>1, <1>5, <2>1, <2>3 DEF Place
    <3>3. CASE h \in lost
        BY <3>3, <1>2 DEF Place
    <3>4. CASE \E b \in Spaces : pml4[b] = h
        BY <3>4, <3>1, <1>3 DEF Place, FramesType
    <3>5. ASSUME NEW b \in Spaces, NEW q \in Pages, page[b][q] = h PROVE Place(h)'
        BY <3>1, <3>5, <1>2, <1>5 DEF Place
    <3>6. ASSUME NEW b \in Spaces, NEW j \in Tables, table[b][j] = h PROVE Place(h)'
        BY <3>1, <3>6, <1>7, <2>3 DEF Place
    <3> QED
        BY <3>1, <3>2, <3>3, <3>4, <3>5, <3>6 DEF Place
    <2> QED
        BY <2>4, <2>5, <2>6
  <1> QED
      BY <1>2, <1>6, <1>7

(* unmap frees the frames of a range, which no other place holds.          *)
LEMMA UnmapKeeps ==
    ASSUME NEW a \in Spaces, NEW s \in Nat, NEW e \in Nat, e <= NPages,
           FramesInv, unmap(a, s, e), UNCHANGED <<pml4, table, lost>>
    PROVE  FramesInv'
  <1> USE DEF FramesInv
  <1> DEFINE R == s .. e - 1
  <1>1. R \subseteq Pages
      BY VmAssumption DEF Pages
  <1>2. free' = free \cup ({page[a][p] : p \in R} \ {NoFrame})
      BY DEF unmap
  <1>3. page' = [page EXCEPT ![a] = [p \in Pages |-> IF p \in R THEN NoFrame ELSE page[a][p]]]
      BY DEF unmap
  <1> HIDE DEF R
  <1>4. /\ page' \in [Spaces -> [Pages -> Frames \cup {NoFrame}]]
        /\ \A p \in R : page'[a][p] = NoFrame
        /\ \A b \in Spaces, q \in Pages : b # a \/ q \notin R => page'[b][q] = page[b][q]
      BY <1>1, <1>3 DEF FramesType
  <1>5. /\ \A f \in free : f \in free'
        /\ \A p \in R : page[a][p] # NoFrame => page[a][p] \in free'
      BY <1>2
  <1>5a. ASSUME NEW f \in free', f \notin free
        PROVE  f # NoFrame /\ \E p \in R : f = page[a][p]
      BY <1>2, <1>5a
  <1>6. FramesType'
      BY <1>1, <1>4, <1>5a DEF FramesType
  <1>7. Apart'
    <2>1. \A b \in Spaces, q \in Pages :
            \/ page'[b][q] = NoFrame
            \/ page'[b][q] = page[b][q] /\ (b # a \/ q \notin R)
        BY <1>4
    <2>2. \A b \in Spaces, q \in Pages : page'[b][q] \notin free'
      <3> SUFFICES ASSUME NEW b \in Spaces, NEW q \in Pages, page'[b][q] \in free'
                   PROVE  FALSE
          OBVIOUS
      <3>1. page'[b][q] # NoFrame
          BY <1>6, VmAssumption DEF FramesType, NoFrame
      <3>2. page'[b][q] = page[b][q] /\ (b # a \/ q \notin R)
          BY <3>1, <2>1
      <3>3. page[b][q] \notin free
          BY DEF Apart
      <3>4. \E p \in R : page[b][q] = page[a][p]
          BY <3>2, <3>3, <1>5a
      <3> QED
          BY <3>1, <3>2, <3>4, <1>1 DEF Apart
    <2>3. \A b \in Spaces : pml4[b] \notin free'
        BY <1>1, <1>5a DEF Apart
    <2>4. \A b \in Spaces, j \in Tables : table[b][j] \notin free'
        BY <1>1, <1>5a DEF Apart
    <2> QED
        BY <2>1, <2>2, <2>3, <2>4 DEF Apart
  <1>8. Placed'
    <2> SUFFICES ASSUME NEW h \in Frames PROVE Place(h)'
        BY DEF Placed
    <2>1. Place(h) /\ h # NoFrame
        BY VmAssumption DEF Placed, NoFrame
    <2>2. CASE h \in free
        BY <2>2, <1>5 DEF Place
    <2>3. CASE h \in lost
        BY <2>3 DEF Place
    <2>4. CASE \E b \in Spaces : pml4[b] = h
        BY <2>4, <2>1 DEF Place, FramesType
    <2>5. ASSUME NEW b \in Spaces, NEW q \in Pages, page[b][q] = h PROVE Place(h)'
        BY <2>1, <2>5, <1>4, <1>5 DEF Place
    <2>6. ASSUME NEW b \in Spaces, NEW j \in Tables, table[b][j] = h PROVE Place(h)'
        BY <2>1, <2>6 DEF Place
    <2> QED
        BY <2>1, <2>2, <2>3, <2>4, <2>5, <2>6 DEF Place
  <1> QED
      BY <1>6, <1>7, <1>8

(* fork takes a frame for the root of the child.                           *)
LEMMA RootKeeps ==
    ASSUME NEW c \in Spaces, NEW f \in free, FramesInv, pml4[c] = NoFrame,
           pml4' = [pml4 EXCEPT ![c] = f], free' = free \ {f}, UNCHANGED <<table, page, lost>>
    PROVE  FramesInv'
  <1> USE DEF FramesInv
  <1>1. f \in Frames /\ f # NoFrame
      BY FreeIsFrame
  <1>2. FramesType'
      BY <1>1 DEF FramesType
  <1>3. Apart'
      BY <1>1 DEF FramesType, Apart
  <1>4. Placed'
    <2> SUFFICES ASSUME NEW h \in Frames PROVE Place(h)'
        BY DEF Placed
    <2>1. Place(h) /\ h # NoFrame
        BY VmAssumption DEF Placed, NoFrame
    <2>2. CASE h \in free
        BY <2>2, <1>1 DEF Place, FramesType
    <2>3. CASE h \in lost
        BY <2>3 DEF Place
    <2>4. CASE \E b \in Spaces : pml4[b] = h
        BY <2>4, <2>1 DEF Place, FramesType
    <2>5. ASSUME NEW b \in Spaces, NEW q \in Pages, page[b][q] = h PROVE Place(h)'
        BY <2>1, <2>5 DEF Place
    <2>6. ASSUME NEW b \in Spaces, NEW j \in Tables, table[b][j] = h PROVE Place(h)'
        BY <2>1, <2>6 DEF Place
    <2> QED
        BY <2>1, <2>2, <2>3, <2>4, <2>5, <2>6 DEF Place
  <1> QED
      BY <1>2, <1>3, <1>4

-----------------------------------------------------------------------------
(* Regions.                                                                *)

RegionsOK == vmas \in [Spaces -> [Slots -> Vma]] /\ InSpace /\ VmasDisjoint

(* One entry of the regions of one process is replaced.                    *)
Replaces(a, i, v) ==
    /\ vmas' \in [Spaces -> [Slots -> Vma]] /\ vmas'[a][i] = v
    /\ \A b \in Spaces, j \in Slots : <<b, j>> # <<a, i>> => vmas'[b][j] = vmas[b][j]

(* An update of Process.vmas at one index is such a replacement.           *)
LEMMA SetVma ==
    ASSUME NEW a \in Spaces, NEW i \in Slots, NEW v \in Vma,
           vmas \in [Spaces -> [Slots -> Vma]], vmas' = [vmas EXCEPT ![a][i] = v]
    PROVE  Replaces(a, i, v)
  BY DEF Replaces

(* A region that is dropped leaves the others as they were.                *)
LEMMA DropVma ==
    ASSUME NEW a \in Spaces, NEW i \in Slots, RegionsOK,
           vmas' = [vmas EXCEPT ![a][i] = NoVma]
    PROVE  RegionsOK'
  <1>1. NoVma \in Vma
      BY VmAssumption DEF NoVma, Vma
  <1>2. /\ vmas' \in [Spaces -> [Slots -> Vma]] /\ vmas'[a][i] = NoVma
        /\ \A b \in Spaces, j \in Slots : <<b, j>> # <<a, i>> => vmas'[b][j] = vmas[b][j]
      BY <1>1, SetVma DEF RegionsOK, Replaces
  <1>3. InSpace'
      BY <1>2, VmAssumption DEF RegionsOK, InSpace, NoVma
  <1>4. VmasDisjoint'
      BY <1>2 DEF RegionsOK, VmasDisjoint, overlaps, NoVma
  <1> QED
      BY <1>2, <1>3, <1>4 DEF RegionsOK

(* A region that conflicts with none, and ends in the address space, can   *)
(* be added.                                                               *)
LEMMA AddVma ==
    ASSUME NEW a \in Spaces, NEW i \in Slots, NEW s \in Nat, NEW n \in Nat,
           NEW pr \in Prots, NEW bad \in BOOLEAN, s + n <= NPages, RegionsOK,
           ~ region_conflicts(a, s, n),
           vmas' = [vmas EXCEPT ![a][i] =
                     [in_use |-> TRUE, start |-> s, len |-> n, prot |-> pr, hollow |-> bad]]
    PROVE  RegionsOK'
  <1> DEFINE v == [in_use |-> TRUE, start |-> s, len |-> n, prot |-> pr, hollow |-> bad]
  <1>1. v \in Vma /\ v.start = s /\ v.len = n
      BY VmAssumption DEF Vma
  <1>2. vmas' = [vmas EXCEPT ![a][i] = v]
      OBVIOUS
  <1> HIDE DEF v
  <1>3. /\ vmas' \in [Spaces -> [Slots -> Vma]] /\ vmas'[a][i] = v
        /\ \A b \in Spaces, j \in Slots : <<b, j>> # <<a, i>> => vmas'[b][j] = vmas[b][j]
    <2>1. Replaces(a, i, v)
        BY <1>1, <1>2, SetVma DEF RegionsOK
    <2> QED
        BY <2>1 DEF Replaces
  <1>4. InSpace'
      BY <1>1, <1>3 DEF RegionsOK, InSpace
  <1>5. VmasDisjoint'
    <2> SUFFICES ASSUME NEW b \in Spaces, NEW j \in Slots, NEW k \in Slots, j # k,
                        vmas'[b][j].in_use, vmas'[b][k].in_use
                 PROVE  ~ overlaps(vmas'[b][j].start, vmas'[b][j].len, vmas'[b][k])
        BY DEF VmasDisjoint, overlaps
    <2>1. CASE <<b, j>> # <<a, i>> /\ <<b, k>> # <<a, i>>
        BY <2>1, <1>3 DEF RegionsOK, VmasDisjoint
    <2>2. CASE b = a /\ j = i
        BY <2>2, <1>1, <1>3 DEF region_conflicts
    <2>3. CASE b = a /\ k = i
      <3>1. vmas'[b][j] = vmas[b][j] /\ vmas[b][j].in_use /\ vmas'[b][k] = v
          BY <2>3, <1>3
      <3>2. ~ overlaps(s, n, vmas[b][j])
          BY <3>1, <2>3 DEF region_conflicts
      <3> QED
          BY <3>1, <3>2, <1>1 DEF overlaps
    <2> QED
        BY <2>1, <2>2, <2>3
  <1> QED
      BY <1>3, <1>4, <1>5 DEF RegionsOK

(* The protection of a region does not matter.                             *)
LEMMA ProtectVma ==
    ASSUME NEW a \in Spaces, NEW i \in Slots, NEW pr \in Prots, RegionsOK,
           vmas' = [vmas EXCEPT ![a][i].prot = pr]
    PROVE  RegionsOK'
  <1>1. /\ vmas' \in [Spaces -> [Slots -> Vma]]
        /\ \A b \in Spaces, j \in Slots :
            /\ vmas'[b][j].in_use = vmas[b][j].in_use
            /\ vmas'[b][j].start = vmas[b][j].start
            /\ vmas'[b][j].len = vmas[b][j].len
      BY DEF RegionsOK, Vma
  <1>2. InSpace'
      BY <1>1 DEF RegionsOK, InSpace
  <1>3. VmasDisjoint'
      BY <1>1 DEF RegionsOK, VmasDisjoint, overlaps
  <1> QED
      BY <1>1, <1>2, <1>3 DEF RegionsOK

(* A child has the regions of its parent.                                  *)
LEMMA CopyVmas ==
    ASSUME NEW a \in Spaces, NEW b \in Spaces, RegionsOK, vmas' = [vmas EXCEPT ![b] = vmas[a]]
    PROVE  RegionsOK'
  <1>1. /\ vmas' \in [Spaces -> [Slots -> Vma]]
        /\ \A c \in Spaces : vmas'[c] = vmas[c] \/ vmas'[c] = vmas[a]
      BY DEF RegionsOK
  <1>2. InSpace'
      BY <1>1 DEF RegionsOK, InSpace
  <1>3. VmasDisjoint'
      BY <1>1 DEF RegionsOK, VmasDisjoint, overlaps
  <1> QED
      BY <1>1, <1>2, <1>3 DEF RegionsOK

(* Regions that do not change.                                             *)
LEMMA SameVmas == RegionsOK /\ UNCHANGED vmas => RegionsOK'
  BY DEF RegionsOK, InSpace, VmasDisjoint, overlaps

(* A break is rounded up to a page, or wraps to page 0.                    *)
LEMMA RoundUpType == \A b \in 0 .. Huge : RoundUp(b) \in 0 .. NPages
  BY VmAssumption DEF RoundUp, Huge

-----------------------------------------------------------------------------
(* The steps.                                                              *)

(* The first state: one root, everything else free.                        *)
LEMMA InitInv == Init => Inv
  <1> SUFFICES ASSUME Init PROVE Inv
      OBVIOUS
  <1>1. PICK f \in Frames :
            /\ pml4 = [a \in Spaces |-> IF a = First THEN f ELSE NoFrame]
            /\ free = Frames \ {f}
      BY DEF Init
  <1>2. /\ table = [a \in Spaces |-> [i \in Tables |-> NoFrame]]
        /\ page = [a \in Spaces |-> [p \in Pages |-> NoFrame]]
        /\ lost = {}
      BY DEF Init
  <1>3. f # NoFrame /\ NoFrame \notin Frames /\ First \in Spaces
      BY VmAssumption DEF NoFrame
  <1>4. FramesType
      BY <1>1, <1>2 DEF FramesType
  <1>5. Apart
      BY <1>1, <1>2, <1>3 DEF Apart
  <1>6. Placed
      BY <1>1, <1>3 DEF Placed, Place
  <1>7. RegionsType
    <2>1. NoVma \in Vma
        BY VmAssumption DEF NoVma, Vma
    <2>2. Idle \in Calls
        BY VmAssumption DEF Idle, Calls, Huge
    <2>3. 0 \in 0 .. Huge /\ 0 \in 0 .. MaxCalls /\ MmapBase \in 0 .. NPages /\ "rw" \in Prots
        BY VmAssumption DEF Huge
    <2> QED
        BY <2>1, <2>2, <2>3, <1>3 DEF Init, RegionsType
  <1>8. InSpace /\ VmasDisjoint
      BY VmAssumption DEF Init, InSpace, VmasDisjoint, NoVma
  <1> QED
      BY <1>4, <1>5, <1>6, <1>7, <1>8 DEF Inv, FramesInv, RegionsInv

(* Frames and histories that nobody touches.                               *)
LEMMA SameFrames == FramesInv /\ UNCHANGED held => FramesInv'
  BY DEF FramesInv, FramesType, Apart, Placed, Place, held

(* The pages of a call inside its loop are pages of its address space.     *)
LEMMA LoopInside ==
    ASSUME RegionsInv, call.next < call.end
    PROVE  /\ call.next \in Pages /\ call.space \in Spaces /\ call.from \in Spaces
           /\ call.prot \in Prots /\ call.end \in 0 .. NPages /\ call.arg \in Nat
           /\ [call EXCEPT !.next = @ + 1] \in Calls
  <1>1. call \in Calls /\ NPages \in Nat /\ Huge \in Nat
      BY VmAssumption DEF RegionsInv, RegionsType, Huge
  <1>2. /\ call.next \in 0 .. NPages /\ call.end \in 0 .. NPages /\ call.space \in Spaces
        /\ call.from \in Spaces /\ call.prot \in Prots /\ call.arg \in Nat
      BY <1>1 DEF Calls
  <1>3. call.next \in Pages /\ call.next + 1 \in 0 .. NPages
      BY <1>1, <1>2 DEF Pages
  <1> QED
      BY <1>1, <1>2, <1>3 DEF Calls

(* What a step does to the frames keeps FramesInv.                         *)
LEMMA FramesStep ==
    ASSUME Inv, [Next]_vars
    PROVE  FramesInv'
  <1> USE DEF Inv
  <1>1. ASSUME NEW a \in Spaces, NEW i \in Slots, munmap(a, i)
        PROVE  FramesInv'
    <2> DEFINE v == vmas[a][i]
    <2>1. /\ v.start \in Nat /\ v.start + v.len \in Nat /\ v.start + v.len <= NPages
          /\ unmap(a, v.start, v.start + v.len) /\ UNCHANGED <<pml4, table, lost>>
      <3>1. v \in Vma /\ v.start + v.len <= NPages
          BY DEF RegionsInv, RegionsType, InSpace
      <3>2. v.start \in Nat /\ v.len \in Nat
          BY <3>1, VmAssumption DEF Vma
      <3>3. unmap(a, v.start, v.start + v.len) /\ UNCHANGED <<pml4, table, lost>>
          BY <1>1 DEF munmap, tables
      <3> QED
          BY <3>1, <3>2, <3>3
    <2> HIDE DEF v
    <2> QED
        BY <2>1, UnmapKeeps
  <1>2. ASSUME NEW a \in Spaces, NEW b \in Spaces, fork(a, b)
        PROVE  FramesInv'
    <2>1. CASE Panic
        BY <2>1, SameFrames DEF Panic, held, tables, mapping
    <2>2. CASE /\ \E f \in free : /\ pml4' = [pml4 EXCEPT ![b] = f]
                                  /\ free' = free \ {f}
               /\ UNCHANGED <<table, page, lost>>
        BY <2>2, <1>2, RootKeeps DEF fork
    <2> QED
        BY <1>2, <2>1, <2>2 DEF fork
  <1>3. CASE MapPage
      BY <1>3, LoopInside, MapKeeps DEF MapPage
  <1>4. CASE MmapFails
    <2>1. /\ call.next < call.end /\ unmap(call.space, call.arg, call.next)
          /\ UNCHANGED <<pml4, table, lost>>
        BY <1>4 DEF MmapFails, tables
    <2>2. /\ call.space \in Spaces /\ call.arg \in Nat
          /\ call.next \in Nat /\ call.next <= NPages
        BY <2>1, LoopInside, VmAssumption DEF Pages
    <2> QED
        BY <2>1, <2>2, UnmapKeeps
  <1>5. CASE CopyPage
    <2>1. call.next < call.end
        BY <1>5 DEF CopyPage
    <2>2. CASE Panic \/ UNCHANGED <<tables, mapping, process, free, panicked, lost>>
        BY <2>2, SameFrames DEF Panic, held, tables, mapping
    <2>3. CASE map_page_in(call.space, call.next, prot[call.from][call.next])
        BY <2>1, <2>3, LoopInside, MapKeeps
    <2> QED
        BY <1>5, <2>2, <2>3 DEF CopyPage
  <1>6. CASE UNCHANGED held
      BY <1>6, SameFrames
  <1>7. ASSUME NEW a \in Spaces,
               \/ \E new \in Breaks : Brk(a, new)
               \/ \E n \in Lens, pr \in Prots, bad \in BOOLEAN :
                    \/ mmap_any(a, n, pr, bad)
                    \/ \E t \in Fixed : mmap_fixed(a, t, n, pr, bad)
               \/ \E i \in Slots, pr \in Prots : mprotect(a, i, pr)
               \/ exit(a)
        PROVE  UNCHANGED held
      BY <1>7 DEF Brk, mmap_any, mmap_fixed, Map, mprotect, exit, held, tables, mapping
  <1>8. CASE MapPanics \/ BrkFails \/ Returns \/ Forked \/ UNCHANGED vars
      BY <1>8, <1>6 DEF MapPanics, Panic, BrkFails, Returns, Forked, vars, held, tables, mapping
  <1> QED
      BY <1>1, <1>2, <1>3, <1>4, <1>5, <1>6, <1>7, <1>8 DEF Next, Step

(* What a step does to the regions, the break and the call keeps           *)
(* RegionsInv.  The frames play no part in it.                             *)
LEMMA RegionsStep ==
    ASSUME RegionsInv, [Next]_vars
    PROVE  RegionsInv'
  <1>a. RegionsType /\ RegionsOK
      BY DEF RegionsInv, RegionsType, RegionsOK
  <1>b. Idle \in Calls
      BY VmAssumption DEF Idle, Calls, Huge
  <1>c. ASSUME RegionsType', RegionsOK' PROVE RegionsInv'
      BY <1>c DEF RegionsInv, RegionsOK
  <1>1. ASSUME NEW a \in Spaces, NEW new \in Breaks, Brk(a, new), calls' \in 0 .. MaxCalls
        PROVE  RegionsInv'
    <2>1. new \in 0 .. Huge /\ new \in Nat
        BY VmAssumption DEF Huge
    <2>2. brk[a] \in 0 .. Huge
        BY <1>a DEF RegionsType
    <2>3. RoundUp(brk[a]) \in 0 .. NPages /\ RoundUp(new) \in 0 .. NPages
        BY <2>1, <2>2, RoundUpType
    <2>4. [Idle EXCEPT !.op = "brk", !.space = a, !.arg = new,
                       !.next = RoundUp(brk[a]), !.end = RoundUp(new)] \in Calls
        BY <2>1, <2>3, <1>b DEF Calls
    <2>5. RegionsType'
        BY <1>a, <1>1, <2>1, <2>4 DEF Brk, RegionsType, mapping
    <2>6. RegionsOK'
        BY <1>a, <1>1, SameVmas DEF Brk
    <2> QED
        BY <2>5, <2>6, <1>c
  <1>2. ASSUME NEW a \in Spaces, NEW s \in Nat, NEW n \in Lens, NEW pr \in Prots,
               NEW bad \in BOOLEAN, Map(a, s, n, pr, bad),
               base' \in [Spaces -> 0 .. NPages], calls' \in 0 .. MaxCalls
        PROVE  RegionsInv'
    <2>1. n \in Nat /\ NPages \in Nat /\ s + n <= NPages
        BY <1>2, VmAssumption DEF Map
    <2>2. s \in 0 .. NPages /\ s + n \in 0 .. NPages /\ s \in 0 .. Huge
        BY <2>1 DEF Huge
    <2>3. [Idle EXCEPT !.op = "mmap", !.space = a, !.arg = s,
                       !.next = s, !.end = s + n, !.prot = pr] \in Calls
        BY <2>2, <1>b DEF Calls
    <2>4. call' \in Calls
        BY <1>a, <1>2, <2>3 DEF Map, RegionsType
    <2>5. RegionsOK'
      <3>1. CASE UNCHANGED vmas
          BY <3>1, <1>a, SameVmas
      <3>2. ASSUME NEW i \in Slots, ~ region_conflicts(a, s, n),
                   vmas' = [vmas EXCEPT ![a][i] =
                     [in_use |-> TRUE, start |-> s, len |-> n, prot |-> pr, hollow |-> bad]]
            PROVE  RegionsOK'
          BY <3>2, <2>1, <1>a, AddVma
      <3> QED
          BY <1>2, <3>1, <3>2 DEF Map
    <2>6. RegionsType'
        BY <1>a, <1>2, <2>4, <2>5 DEF Map, RegionsType, RegionsOK, mapping
    <2> QED
        BY <2>5, <2>6, <1>c
  <1>3. ASSUME NEW a \in Spaces, NEW n \in Lens, NEW pr \in Prots, NEW bad \in BOOLEAN,
               mmap_any(a, n, pr, bad) \/ \E t \in Fixed : mmap_fixed(a, t, n, pr, bad),
               calls' \in 0 .. MaxCalls
        PROVE  RegionsInv'
    <2>1. CASE mmap_any(a, n, pr, bad)
      <3>1. base[a] \in Nat /\ n \in Nat /\ NPages \in Nat
          BY <1>a, VmAssumption DEF RegionsType
      <3>2. base[a] + n \in 0 .. NPages
          BY <3>1, <2>1 DEF mmap_any, Map
      <3>3. base' \in [Spaces -> 0 .. NPages]
          BY <3>2, <2>1, <1>a DEF mmap_any, RegionsType
      <3> QED
          BY <1>2, <1>3, <2>1, <3>1, <3>3 DEF mmap_any
    <2>2. ASSUME NEW t \in Fixed, mmap_fixed(a, t, n, pr, bad)
          PROVE  RegionsInv'
      <3>1. t \in Nat
          BY VmAssumption
      <3> QED
          BY <1>a, <1>2, <1>3, <2>2, <3>1 DEF mmap_fixed, RegionsType
    <2> QED
        BY <1>3, <2>1, <2>2
  <1>4. ASSUME NEW a \in Spaces, NEW i \in Slots, munmap(a, i), calls' \in 0 .. MaxCalls
        PROVE  RegionsInv'
    <2>1. RegionsOK'
        BY <1>a, <1>4, DropVma DEF munmap
    <2>2. RegionsType'
        BY <1>a, <1>4, <2>1 DEF munmap, RegionsType, RegionsOK
    <2> QED
        BY <2>1, <2>2, <1>c
  <1>5. ASSUME NEW a \in Spaces, NEW i \in Slots, NEW pr \in Prots, mprotect(a, i, pr),
               calls' \in 0 .. MaxCalls
        PROVE  RegionsInv'
    <2>1. RegionsOK'
        BY <1>a, <1>5, ProtectVma, SameVmas DEF mprotect
    <2>2. prot' \in [Spaces -> [Pages -> Prots]]
        BY <1>a, <1>5 DEF mprotect, RegionsType
    <2>3. RegionsType'
        BY <1>a, <1>5, <2>1, <2>2 DEF mprotect, RegionsType, RegionsOK
    <2> QED
        BY <2>1, <2>3, <1>c
  <1>6. ASSUME Panic, calls' \in 0 .. MaxCalls
        PROVE  RegionsInv'
    <2>1. RegionsOK'
        BY <1>a, <1>6, SameVmas DEF Panic, process
    <2>2. RegionsType'
        BY <1>a, <1>b, <1>6 DEF Panic, RegionsType, mapping, process
    <2> QED
        BY <2>1, <2>2, <1>c
  <1>7. ASSUME NEW a \in Spaces, NEW b \in Spaces, fork(a, b), calls' \in 0 .. MaxCalls
        PROVE  RegionsInv'
    <2>1. CASE Panic
        BY <2>1, <1>6, <1>7
    <2>2. CASE /\ call' = [Idle EXCEPT !.op = "fork", !.space = b, !.from = a, !.end = NPages]
               /\ prot' = [prot EXCEPT ![b] = prot[a]]
               /\ vmas' = [vmas EXCEPT ![b] = vmas[a]]
               /\ brk' = [brk EXCEPT ![b] = brk[a]] /\ base' = [base EXCEPT ![b] = base[a]]
               /\ UNCHANGED <<live, panicked>>
      <3>1. call' \in Calls
        <4>1. NPages \in 0 .. NPages
            BY VmAssumption
        <4> QED
            BY <4>1, <2>2, <1>b DEF Calls
      <3>2. RegionsOK'
          BY <2>2, <1>a, CopyVmas
      <3>3. RegionsType'
          BY <1>a, <1>7, <2>2, <3>1, <3>2 DEF RegionsType, RegionsOK
      <3> QED
          BY <3>2, <3>3, <1>c
    <2> QED
        BY <1>7, <2>1, <2>2 DEF fork
  <1>8. ASSUME NEW a \in Spaces, exit(a), calls' \in 0 .. MaxCalls
        PROVE  RegionsInv'
    <2>1. RegionsOK'
        BY <1>a, <1>8, SameVmas DEF exit
    <2>2. RegionsType'
        BY <1>a, <1>8 DEF exit, RegionsType, mapping
    <2> QED
        BY <2>1, <2>2, <1>c
  <1>9. ASSUME Step, UNCHANGED calls
        PROVE  RegionsInv'
    <2>1. calls' \in 0 .. MaxCalls
        BY <1>a, <1>9 DEF RegionsType
    <2>2. ASSUME NEW a \in Spaces, NEW q \in Pages, NEW pr \in Prots, map_page_in(a, q, pr),
                 call' \in Calls, UNCHANGED <<process, panicked>>
          PROVE  RegionsInv'
      <3>1. prot' = [prot EXCEPT ![a][q] = pr] /\ UNCHANGED <<vmas, brk, base, live>>
          BY <2>2 DEF map_page_in, process
      <3>2. RegionsOK'
          BY <3>1, <1>a, SameVmas
      <3>3. RegionsType'
          BY <3>1, <2>1, <2>2, <1>a DEF RegionsType
      <3> QED
          BY <3>2, <3>3, <1>c
    <2>3. CASE MapPage
        BY <2>2, <2>3, LoopInside DEF MapPage
    <2>4. CASE MapPanics
        BY <2>1, <2>4, <1>6 DEF MapPanics
    <2>5. CASE BrkFails \/ Forked \/ Returns
      <3>1. UNCHANGED <<vmas, base, prot, panicked>> /\ call' = Idle
          BY <2>5 DEF BrkFails, Forked, Returns, mapping, process
      <3>2. call.space \in Spaces /\ call.arg \in 0 .. Huge
          BY <1>a DEF RegionsType, Calls
      <3>3. live' \subseteq Spaces
          BY <1>a, <2>5, <3>2 DEF BrkFails, Forked, Returns, process, RegionsType
      <3>4. brk' \in [Spaces -> 0 .. Huge]
          BY <1>a, <2>5, <3>2 DEF BrkFails, Forked, Returns, process, RegionsType
      <3>5. RegionsOK'
          BY <3>1, <1>a, SameVmas
      <3>6. RegionsType'
          BY <1>a, <1>b, <2>1, <3>1, <3>3, <3>4 DEF RegionsType
      <3> QED
          BY <3>5, <3>6, <1>c
    <2>6. CASE MmapFails
      <3>1. call.space \in Spaces
          BY <1>a DEF RegionsType, Calls
      <3>2. RegionsOK'
          BY <1>a, <2>6, <3>1, DropVma DEF MmapFails
      <3>3. RegionsType'
          BY <1>a, <1>b, <2>1, <2>6, <3>2 DEF MmapFails, RegionsType, RegionsOK
      <3> QED
          BY <3>2, <3>3, <1>c
    <2>7. CASE CopyPage
      <3>1. call.next < call.end
          BY <2>7 DEF CopyPage
      <3>2. CASE Panic
          BY <3>2, <2>1, <1>6
      <3>3. CASE /\ call' = [call EXCEPT !.next = @ + 1]
                 /\ UNCHANGED <<tables, mapping, process, free, panicked, lost>>
        <4>1. call' \in Calls /\ UNCHANGED <<prot, vmas, brk, base, live, panicked>>
            BY <3>1, <3>3, LoopInside DEF mapping, process
        <4>2. RegionsOK'
            BY <4>1, <1>a, SameVmas
        <4>3. RegionsType'
            BY <4>1, <2>1, <1>a DEF RegionsType
        <4> QED
            BY <4>2, <4>3, <1>c
      <3>4. CASE /\ map_page_in(call.space, call.next, prot[call.from][call.next])
                 /\ call' = [call EXCEPT !.next = @ + 1]
                 /\ UNCHANGED <<process, panicked>>
        <4>1. /\ call.space \in Spaces /\ call.next \in Pages /\ call' \in Calls
              /\ call.from \in Spaces
            BY <3>1, <3>4, LoopInside
        <4>2. prot[call.from][call.next] \in Prots
            BY <4>1, <1>a DEF RegionsType
        <4> QED
            BY <4>1, <4>2, <3>4, <2>2
      <3> QED
          BY <2>7, <3>2, <3>3, <3>4 DEF CopyPage
    <2> QED
        BY <1>9, <2>3, <2>4, <2>5, <2>6, <2>7 DEF Step
  <1>10. CASE UNCHANGED vars
    <2>1. UNCHANGED <<prot, vmas, brk, base, live, call, calls, panicked>>
        BY <1>10 DEF vars, mapping, process
    <2>2. RegionsOK'
        BY <2>1, <1>a, SameVmas
    <2>3. RegionsType'
        BY <2>1, <1>a DEF RegionsType
    <2> QED
        BY <2>2, <2>3, <1>c
  <1>11. calls < MaxCalls /\ calls' = calls + 1 => calls' \in 0 .. MaxCalls
      BY <1>a, VmAssumption DEF RegionsType
  <1> QED
      BY <1>1, <1>3, <1>4, <1>5, <1>7, <1>8, <1>9, <1>10, <1>11 DEF Next

(* The invariant of the frames and of the regions holds in every state.    *)
LEMMA InvAlways == Spec => []Inv
  <1>1. Inv /\ [Next]_vars => Inv'
      BY FramesStep, RegionsStep DEF Inv
  <1> QED
      BY InitInv, <1>1, PTL DEF Spec

-----------------------------------------------------------------------------
(* The theorems.                                                           *)

(* Every variable of the address spaces keeps its type.                    *)
THEOREM TypeCorrect == Spec => []TypeOK
  <1>1. Inv => TypeOK
      BY DEF Inv, FramesInv, FramesType, RegionsInv, RegionsType, TypeOK
  <1> QED
      BY <1>1, InvAlways, PTL

(* A frame is in one place: munmap and the undo of mmap never free a frame *)
(* that another page, a page table or a root still uses.                   *)
THEOREM FramesExclusive == Spec => []Exclusive
  <1>1. Inv => Exclusive
    <2> SUFFICES ASSUME Apart PROVE Exclusive
        BY DEF Inv, FramesInv
    <2>1. \A x \in PageFrames : /\ x[1] \in Spaces /\ x[2] \in Pages /\ x = <<x[1], x[2]>>
                                /\ page[x[1]][x[2]] # NoFrame
        BY DEF PageFrames
    <2>2. \A y \in TableFrames : /\ y[1] \in Spaces /\ y[2] \in Tables /\ y = <<y[1], y[2]>>
                                 /\ table[y[1]][y[2]] # NoFrame
        BY DEF TableFrames
    <2>3. \A x, y \in PageFrames : page[x[1]][x[2]] = page[y[1]][y[2]] => x = y
        BY <2>1 DEF Apart
    <2>4. \A x, y \in TableFrames : table[x[1]][x[2]] = table[y[1]][y[2]] => x = y
        BY <2>2 DEF Apart
    <2> QED
        BY <2>1, <2>2, <2>3, <2>4 DEF Apart, Exclusive
  <1> QED
      BY <1>1, InvAlways, PTL

(* A frame is free, in an address space, or was mapped over.               *)
THEOREM NoFrameUnaccounted == Spec => []FramesAccounted
  <1>1. Inv => FramesAccounted
    <2> SUFFICES ASSUME FramesType, Placed PROVE FramesAccounted
        BY DEF Inv, FramesInv
    <2> DEFINE PF == {page[x[1]][x[2]] : x \in PageFrames}
               TF == {table[y[1]][y[2]] : y \in TableFrames}
               RF == {pml4[a] : a \in Spaces} \ {NoFrame}
    <2>1. NoFrame \notin Frames
        BY VmAssumption DEF NoFrame
    <2>2. PF \subseteq Frames /\ TF \subseteq Frames /\ RF \subseteq Frames
        BY DEF PageFrames, TableFrames, FramesType
    <2>3. ASSUME NEW f \in Frames, NEW a \in Spaces, NEW p \in Pages, page[a][p] = f
          PROVE  f \in PF
      <3>1. <<a, p>> \in PageFrames
          BY <2>1, <2>3 DEF PageFrames
      <3> QED
          BY <3>1, <2>3
    <2>4. ASSUME NEW f \in Frames, NEW a \in Spaces, NEW i \in Tables, table[a][i] = f
          PROVE  f \in TF
      <3>1. <<a, i>> \in TableFrames
          BY <2>1, <2>4 DEF TableFrames
      <3> QED
          BY <3>1, <2>4
    <2>5. ASSUME NEW f \in Frames, NEW a \in Spaces, pml4[a] = f
          PROVE  f \in RF
        BY <2>1, <2>5
    <2>6. FramesAccounted <=> Frames = free \cup lost \cup PF \cup TF \cup RF
        BY DEF FramesAccounted
    <2> HIDE DEF PF, TF, RF
    <2>7. \A f \in Frames : f \in free \/ f \in lost \/ f \in PF \/ f \in TF \/ f \in RF
        BY <2>3, <2>4, <2>5 DEF Placed, Place
    <2> QED
        BY <2>2, <2>6, <2>7 DEF FramesType
  <1> QED
      BY <1>1, InvAlways, PTL

(* The regions of a process never overlap.                                 *)
THEOREM RegionsDisjoint == Spec => []VmasDisjoint
  <1>1. Inv => VmasDisjoint
      BY DEF Inv, RegionsInv
  <1> QED
      BY <1>1, InvAlways, PTL
=============================================================================
