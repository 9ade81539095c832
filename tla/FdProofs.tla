------------------------------ MODULE FdProofs ------------------------------
(***************************************************************************)
(* The reference counts of open files and pipes, for any number of         *)
(* processes, descriptors, open files and pipes: a count is the number of  *)
(* descriptors that name the target, plus what overwritten records lost.   *)
(*                                                                         *)
(* The counting is in two lemmas: what setting one descriptor (HeldOne)    *)
(* and what replacing a table (HeldRow) does to the number of holders.     *)
(* The tables are in two more, for release and retain.  With the types     *)
(* the invariant is inductive.                                             *)
(***************************************************************************)
EXTENDS Fd, TLAPS, FiniteSetTheorems, FunctionTheorems

Held(f, t) == {h \in Slots \X Fds : f[h[1]][h[2]] = t}
Row(table, t) == {fd \in Fds : table[fd] = t}

(* Sets of descriptors, and of descriptors of all processes, are finite.   *)
LEMMA HeldFinite ==
    ASSUME NEW f, NEW t, NEW table
    PROVE  /\ IsFiniteSet(Held(f, t)) /\ Cardinality(Held(f, t)) \in Nat
           /\ IsFiniteSet(Row(table, t)) /\ Cardinality(Row(table, t)) \in Nat
<1>1. IsFiniteSet(Fds)
  BY FdAssumption, FS_Interval DEF Fds
<1>2. IsFiniteSet(Slots \X Fds)
  BY <1>1, FdAssumption, FS_Product
<1>3. Held(f, t) \in SUBSET (Slots \X Fds) /\ Row(table, t) \in SUBSET Fds
  BY DEF Held, Row
<1>4. IsFiniteSet(Held(f, t)) /\ IsFiniteSet(Row(table, t))
  BY <1>1, <1>2, <1>3, FS_Subset
<1>5. QED
  BY <1>4, FS_CardinalityType

(* How the number of holders of t changes from C to D when a descriptor    *)
(* that named u is set to v.                                               *)
Moves(u, v, t, C, D) ==
    /\ C \in Nat /\ D \in Nat
    /\ u # t /\ v # t => D = C
    /\ u = t /\ v # t => D = C - 1
    /\ u # t /\ v = t => D = C + 1
    /\ u = t /\ v = t => D = C

(* Setting one descriptor takes it from the holders of its old target and  *)
(* adds it to those of the new.                                            *)
LEMMA HeldOne ==
    ASSUME NEW f \in [Slots -> [Fds -> FdTarget]], NEW p \in Slots, NEW fd \in Fds,
           NEW v, NEW t, NEW g, g = [f EXCEPT ![p][fd] = v]
    PROVE  Moves(f[p][fd], v, t, Cardinality(Held(f, t)), Cardinality(Held(g, t)))
<1> DEFINE A == Held(f, t)
           B == Held(g, t)
           h == <<p, fd>>
           C == A \ {h}
<1>1. /\ IsFiniteSet(A) /\ Cardinality(A) \in Nat /\ IsFiniteSet(B) /\ Cardinality(B) \in Nat
  BY HeldFinite
<1>2. C = B \ {h}
  BY DEF Held
<1>3. (h \in A <=> f[p][fd] = t) /\ (h \in B <=> v = t)
  BY DEF Held
<1> HIDE DEF A, B, h
<1>4. Cardinality(C) = IF h \in A THEN Cardinality(A) - 1 ELSE Cardinality(A)
  BY <1>1, FS_RemoveElement
<1>5. Cardinality(C) = IF h \in B THEN Cardinality(B) - 1 ELSE Cardinality(B)
  BY <1>1, <1>2, FS_RemoveElement
<1> HIDE DEF C
<1>6. Moves(f[p][fd], v, t, Cardinality(A), Cardinality(B))
  BY <1>1, <1>3, <1>4, <1>5 DEF Moves
<1>7. QED
  BY <1>6 DEF A, B

(* The cardinality of a disjoint union.                                    *)
LEMMA DisjointUnion ==
    ASSUME NEW A, NEW B, IsFiniteSet(A), IsFiniteSet(B), A \cap B = {}
    PROVE  Cardinality(A \cup B) = Cardinality(A) + Cardinality(B)
<1>1. Cardinality(A) \in Nat /\ Cardinality(B) \in Nat
  BY FS_CardinalityType
<1>2. Cardinality(A \cup B) = Cardinality(A) + Cardinality(B) - Cardinality(A \cap B)
  BY FS_Union
<1>3. Cardinality(A \cap B) = 0
  BY FS_EmptySet
<1>4. QED
  BY <1>1, <1>2, <1>3

(* A row of a table has as many descriptors as holders of the process.     *)
LEMMA RowHolders ==
    ASSUME NEW s \in Slots, NEW table, NEW t
    PROVE  /\ IsFiniteSet({s} \X Row(table, t))
           /\ Cardinality({s} \X Row(table, t)) = Cardinality(Row(table, t))
<1> DEFINE R == Row(table, t)
           b == [fd \in R |-> <<s, fd>>]
<1>1. IsFiniteSet(R)
  BY HeldFinite
<1> HIDE DEF R
<1>2. b \in Bijection(R, {s} \X R)
  BY DEF Bijection, Injection, Surjection, IsInjective
<1>3. ExistsBijection(R, {s} \X R)
  BY <1>2 DEF ExistsBijection
<1>4. QED
  BY <1>1, <1>3, FS_Bijection DEF R

(* How the number of holders of t changes from C to D when a table with x  *)
(* of them is replaced by one with y.                                      *)
Replaces(x, y, C, D) == C \in Nat /\ D \in Nat /\ x \in Nat /\ y \in Nat /\ x <= C /\ D = (C - x) + y

(* Replacing the table of a process takes its row from the holders of a    *)
(* target and adds the new one.                                            *)
LEMMA HeldRow ==
    ASSUME NEW f \in [Slots -> [Fds -> FdTarget]], NEW s \in Slots,
           NEW table \in [Fds -> FdTarget], NEW t, NEW g, g = [f EXCEPT ![s] = table]
    PROVE  Replaces(Cardinality(Row(f[s], t)), Cardinality(Row(table, t)),
                    Cardinality(Held(f, t)), Cardinality(Held(g, t)))
<1> DEFINE O == {h \in Held(f, t) : h[1] # s}
           A == {s} \X Row(f[s], t)
           B == {s} \X Row(table, t)
<1>1. Held(f, t) = O \cup A /\ Held(g, t) = O \cup B /\ O \cap A = {} /\ O \cap B = {}
  BY DEF Held, Row
<1>2. IsFiniteSet(O) /\ Cardinality(O) \in Nat
  <2>1. O \in SUBSET Held(f, t) /\ IsFiniteSet(Held(f, t))
    BY HeldFinite
  <2>2. QED
    BY <2>1, FS_Subset, FS_CardinalityType
<1>3. /\ IsFiniteSet(A) /\ Cardinality(A) = Cardinality(Row(f[s], t))
      /\ IsFiniteSet(B) /\ Cardinality(B) = Cardinality(Row(table, t))
  BY RowHolders
<1>4. Cardinality(Row(f[s], t)) \in Nat /\ Cardinality(Row(table, t)) \in Nat
  BY HeldFinite
<1> HIDE DEF O, A, B
<1>5. Cardinality(O \cup A) = Cardinality(O) + Cardinality(A)
  BY <1>1, <1>2, <1>3, DisjointUnion
<1>6. Cardinality(O \cup B) = Cardinality(O) + Cardinality(B)
  BY <1>1, <1>2, <1>3, DisjointUnion
<1>7. /\ Cardinality(Held(f, t)) = Cardinality(O) + Cardinality(Row(f[s], t))
      /\ Cardinality(Held(g, t)) = Cardinality(O) + Cardinality(Row(table, t))
  BY <1>1, <1>3, <1>5, <1>6
<1>8. QED
  BY <1>2, <1>4, <1>7 DEF Replaces

-----------------------------------------------------------------------------
(* The entries behind the counted targets.                                 *)
LEMMA EntryFacts ==
    /\ \A t \in Counted : Entry(t) \in Entries /\ t \notin Plain
    /\ \A i \in 0 .. MaxOpenFiles - 1 :
        Open(i) \in Opens /\ \A t \in Counted : Entry(t) = Open(i) <=> t = Open(i)
    /\ \A i \in 0 .. MaxPipes - 1 :
        /\ <<"Pipe", i>> \in Entries
        /\ PipeRead(i) \in Counted /\ PipeWrite(i) \in Counted /\ PipeRead(i) # PipeWrite(i)
        /\ \A t \in Counted : Entry(t) = <<"Pipe", i>> <=> t \in {PipeRead(i), PipeWrite(i)}
<1> USE FdAssumption DEF Entry, Opens, PipeEnds, Counted
<1>1. \A t \in Counted : Entry(t) \in Entries
  BY DEF Entries, Pipes
<1>2. \A t \in Counted : t \notin Plain
  BY DEF Plain, Empty
<1>3. \A i \in 0 .. MaxOpenFiles - 1 :
        Open(i) \in Opens /\ \A t \in Counted : Entry(t) = Open(i) <=> t = Open(i)
  BY DEF Open
<1>4. ASSUME NEW i \in 0 .. MaxPipes - 1
      PROVE  /\ <<"Pipe", i>> \in Entries
             /\ PipeRead(i) \in Counted /\ PipeWrite(i) \in Counted /\ PipeRead(i) # PipeWrite(i)
             /\ \A t \in Counted : Entry(t) = <<"Pipe", i>> <=> t \in {PipeRead(i), PipeWrite(i)}
  BY DEF PipeRead, PipeWrite, Entries, Pipes
<1>5. QED
  BY <1>1, <1>2, <1>3, <1>4

(* An entry is in use exactly while one of its counts is positive.         *)
Accounts(r, u) ==
    /\ r \in [Counted -> Nat] /\ u \subseteq Entries
    /\ \A e \in Entries : e \in u <=> \E t \in Counted : Entry(t) = e /\ r[t] > 0

(* release_fd_target subtracts, and frees the entries that reach zero.     *)
LEMMA ReleaseKeeps ==
    ASSUME NEW r, NEW u, Accounts(r, u), NEW n \in [Counted -> Nat],
           \A t \in Counted : n[t] <= r[t]
    PROVE  /\ Accounts(Release(r, u, n), StillUsed(r, u, n))
           /\ \A t \in Counted : Release(r, u, n)[t] = r[t] - n[t]
<1>0. \A t \in Counted : r[t] \in Nat /\ n[t] \in Nat /\ Entry(t) \in Entries
  BY EntryFacts DEF Accounts
<1>1. \A t \in Counted : Release(r, u, n)[t] = r[t] - n[t]
  <2> SUFFICES ASSUME NEW t \in Counted PROVE Release(r, u, n)[t] = r[t] - n[t]
    OBVIOUS
  <2>1. CASE Entry(t) \in u
    BY <1>0, <2>1 DEF Release
  <2>2. CASE Entry(t) \notin u
    <3>1. r[t] = 0 /\ n[t] = 0
      BY <1>0, <2>2 DEF Accounts
    <3>2. QED
      BY <2>2, <3>1 DEF Release
  <2>3. QED
    BY <2>1, <2>2
<1>2. Release(r, u, n) \in [Counted -> Nat]
  <2>1. \A t \in Counted : r[t] - n[t] \in Nat
    BY <1>0
  <2>2. QED
    BY <1>1, <2>1 DEF Release
<1>3. ASSUME NEW e \in Entries
      PROVE  e \in StillUsed(r, u, n) <=> \E t \in Counted : Entry(t) = e /\ Release(r, u, n)[t] > 0
  <2>1. ASSUME NEW t \in Counted, Entry(t) = e, Release(r, u, n)[t] > 0
        PROVE  e \in StillUsed(r, u, n)
    <3>1. r[t] > 0
      BY <1>0, <1>1, <2>1
    <3>2. e \in u
      BY <2>1, <3>1 DEF Accounts
    <3>3. QED
      BY <2>1, <3>2 DEF StillUsed
  <2>2. ASSUME e \in StillUsed(r, u, n)
        PROVE  \E t \in Counted : Entry(t) = e /\ Release(r, u, n)[t] > 0
    <3>1. CASE \A t \in Counted : Entry(t) = e => n[t] = 0
      <4>1. PICK t \in Counted : Entry(t) = e /\ r[t] > 0
        BY <2>2 DEF StillUsed, Accounts
      <4>2. n[t] = 0 /\ r[t] \in Nat
        BY <1>0, <3>1, <4>1
      <4>3. QED
        BY <1>1, <4>1, <4>2
    <3>2. QED
      BY <2>2, <3>1 DEF StillUsed
  <2>3. QED
    BY <2>1, <2>2
<1>4. StillUsed(r, u, n) \subseteq Entries
  BY DEF StillUsed, Accounts
<1>5. QED
  BY <1>1, <1>2, <1>3, <1>4 DEF Accounts

(* retain_fd_target adds, to targets that are in use.                      *)
LEMMA RetainKeeps ==
    ASSUME NEW r, NEW u, Accounts(r, u), NEW n \in [Counted -> Nat],
           \A t \in Counted : n[t] > 0 => r[t] > 0
    PROVE  /\ Accounts(Retain(r, u, n), u)
           /\ \A t \in Counted : Retain(r, u, n)[t] = r[t] + n[t]
<1>0. \A t \in Counted : r[t] \in Nat /\ n[t] \in Nat /\ Entry(t) \in Entries
  BY EntryFacts DEF Accounts
<1>1. ASSUME NEW t \in Counted PROVE Retain(r, u, n)[t] = r[t] + n[t]
  <2>1. CASE Entry(t) \in u
    BY <2>1 DEF Retain
  <2>2. CASE Entry(t) \notin u
    <3>1. r[t] = 0 /\ n[t] = 0
      BY <1>0, <2>2 DEF Accounts
    <3>2. QED
      BY <2>2, <3>1 DEF Retain
  <2>3. QED
    BY <2>1, <2>2
<1>2. Retain(r, u, n) \in [Counted -> Nat]
  <2>1. \A t \in Counted : r[t] + n[t] \in Nat
    BY <1>0
  <2>2. QED
    BY <1>1, <2>1 DEF Retain
<1>3. \A t \in Counted : Retain(r, u, n)[t] > 0 <=> r[t] > 0
  BY <1>0, <1>1
<1>4. QED
  BY <1>1, <1>2, <1>3 DEF Accounts

-----------------------------------------------------------------------------
(* The counts r are the holders in the tables f, and the lost references.  *)
Exact(f, r, l) == \A t \in Counted : r[t] = Cardinality(Held(f, t)) + l[t]

Inv == TypeOK /\ Accounts(refs, used) /\ Exact(fds, refs, lost) /\ EmptyHasNoFlags

(* What is known of the tables, for the arithmetic.                        *)
LEMMA Counts ==
    ASSUME TypeOK, NEW t \in Counted
    PROVE  refs[t] \in Nat /\ lost[t] \in Nat /\ Cardinality(Held(fds, t)) \in Nat
  BY HeldFinite DEF TypeOK

(* A descriptor that names a target is one of its holders.                 *)
LEMMA HeldPositive ==
    ASSUME NEW f \in [Slots -> [Fds -> FdTarget]], NEW p \in Slots, NEW fd \in Fds
    PROVE  Cardinality(Held(f, f[p][fd])) >= 1
<1> DEFINE H == Held(f, f[p][fd])
<1>1. IsFiniteSet(H) /\ Cardinality(H) \in Nat
  BY HeldFinite
<1>2. <<p, fd>> \in H
  BY DEF Held
<1>3. Cardinality(H) # 0
  <2> HIDE DEF H
  <2>1. QED
    BY <1>1, <1>2, FS_EmptySet
<1>4. QED
  BY <1>1, <1>3

(* Setting a descriptor of process p to a target.                          *)
LEMMA SetFdTypes ==
    ASSUME TypeOK, NEW p \in Slots, NEW fd \in Fds, NEW v \in FdTarget, NEW c \in BOOLEAN,
           SetFd(p, fd, v, c)
    PROVE  /\ fds' \in [Slots -> [Fds -> FdTarget]] /\ cloexec' \in [Slots -> [Fds -> BOOLEAN]]
           /\ (EmptyHasNoFlags /\ (v = Empty => ~ c)) => EmptyHasNoFlags'
<1>1. fds' \in [Slots -> [Fds -> FdTarget]]
  BY DEF SetFd, TypeOK
<1>2. cloexec' \in [Slots -> [Fds -> BOOLEAN]]
  BY DEF SetFd, TypeOK
<1>3. ASSUME EmptyHasNoFlags, v = Empty => ~ c PROVE EmptyHasNoFlags'
  <2> SUFFICES ASSUME NEW s \in Slots, NEW d \in Fds, fds'[s][d] = Empty PROVE ~ cloexec'[s][d]
    BY DEF EmptyHasNoFlags
  <2>1. CASE s = p /\ d = fd
    BY <1>3, <2>1 DEF SetFd, TypeOK
  <2>2. CASE ~ (s = p /\ d = fd)
    <3>1. fds'[s][d] = fds[s][d] /\ cloexec'[s][d] = cloexec[s][d]
      BY <2>2 DEF SetFd, TypeOK
    <3>2. QED
      BY <1>3, <3>1 DEF EmptyHasNoFlags
  <2>3. QED
    BY <2>1, <2>2
<1>4. QED
  BY <1>1, <1>2, <1>3

(* A new open file has a count of one, up from none.                       *)
LEMMA OpenEntryKeeps ==
    ASSUME Inv, NEW i \in 0 .. MaxOpenFiles - 1, NEW flags \in OpenFlags, OpenEntry(i, flags)
    PROVE  /\ Accounts(refs', used')
           /\ status' \in [Counted -> SUBSET StatusFlags] /\ opened' \in [Opens -> SUBSET StatusFlags]
           /\ refs[Open(i)] = 0
           /\ \A t \in Counted : refs'[t] = IF t = Open(i) THEN 1 ELSE refs[t]
<1>1. Open(i) \in Opens /\ Open(i) \in Counted /\ Open(i) \in Entries
  BY EntryFacts DEF Counted, Entries
<1>2. Open(i) \notin used
  BY DEF OpenEntry, IsFirst
<1>3. \A t \in Counted : (Entry(t) = Open(i) <=> t = Open(i)) /\ refs[t] \in Nat
  BY EntryFacts DEF Inv, TypeOK
<1>4. refs[Open(i)] = 0
  BY <1>1, <1>2, <1>3 DEF Inv, Accounts
<1>5. \A t \in Counted : refs'[t] = IF t = Open(i) THEN 1 ELSE refs[t]
  BY <1>1 DEF OpenEntry, Inv, TypeOK
<1>6. refs' \in [Counted -> Nat] /\ used' \subseteq Entries
  BY <1>1 DEF OpenEntry, Inv, TypeOK
<1>7. Accounts(refs', used')
  <2> SUFFICES ASSUME NEW e \in Entries
               PROVE  e \in used' <=> \E t \in Counted : Entry(t) = e /\ refs'[t] > 0
    BY <1>6 DEF Accounts
  <2>1. CASE e = Open(i)
    BY <1>1, <1>3, <1>5, <2>1 DEF OpenEntry
  <2>2. CASE e # Open(i)
    <3>1. \A t \in Counted : Entry(t) = e => refs'[t] = refs[t]
      BY <1>3, <1>5, <2>2
    <3>2. e \in used' <=> e \in used
      BY <2>2 DEF OpenEntry
    <3>3. QED
      BY <3>1, <3>2 DEF Inv, Accounts
  <2>3. QED
    BY <2>1, <2>2
<1>8. status' \in [Counted -> SUBSET StatusFlags] /\ opened' \in [Opens -> SUBSET StatusFlags]
  BY FdAssumption DEF OpenEntry, Inv, TypeOK
<1>9. QED
  BY <1>4, <1>5, <1>7, <1>8

(* Releasing what descriptors name keeps the tables in order.              *)
LEMMA ReleasedKeeps ==
    ASSUME Inv, NEW n \in [Counted -> Nat], Released(n), \A t \in Counted : n[t] <= refs[t]
    PROVE  /\ Accounts(refs', used') /\ \A t \in Counted : refs'[t] = refs[t] - n[t]
           /\ status' \in [Counted -> SUBSET StatusFlags] /\ opened' \in [Opens -> SUBSET StatusFlags]
<1>1. Accounts(refs', used') /\ \A t \in Counted : refs'[t] = refs[t] - n[t]
  BY ReleaseKeeps DEF Released, Inv
<1>2. status' \in [Counted -> SUBSET StatusFlags] /\ opened' \in [Opens -> SUBSET StatusFlags]
  BY DEF Released, Clear, Inv, TypeOK
<1>3. QED
  BY <1>1, <1>2

-----------------------------------------------------------------------------
(* The targets that a descriptor may be set to.                            *)
LEMMA Targets ==
    /\ Empty \in FdTarget /\ Empty \notin Counted
    /\ \A i \in 0 .. MaxOpenFiles - 1 : Open(i) \in FdTarget /\ Open(i) # Empty
    /\ \A i \in 0 .. MaxPipes - 1 : /\ PipeRead(i) \in FdTarget /\ PipeRead(i) # Empty
                                    /\ PipeWrite(i) \in FdTarget /\ PipeWrite(i) # Empty
    /\ \A d \in Devices : <<d, 0>> \in FdTarget /\ <<d, 0>> \notin Counted /\ <<d, 0>> # Empty
<1> USE EntryFacts
<1>1. Empty \in Plain
  BY DEF Plain
<1>2. Empty \in FdTarget /\ Empty \notin Counted
  BY <1>1 DEF FdTarget
<1>3. \A i \in 0 .. MaxOpenFiles - 1 : Open(i) \in Counted
  BY DEF Counted
<1>4. \A d \in Devices : <<d, 0>> \in Plain /\ <<d, 0>> # Empty
  BY FdAssumption DEF Plain, Empty
<1>5. QED
  BY <1>2, <1>3, <1>4 DEF FdTarget

(* open: the new entry and the new descriptor count for each other.        *)
LEMMA OpenKeeps ==
    ASSUME Inv, NEW p \in Slots, NEW flags \in OpenFlags, open_file(p, flags)
    PROVE  Inv'
<1>1. PICK i \in 0 .. MaxOpenFiles - 1, fd \in Fds :
        /\ fds[p][fd] = Empty /\ OpenEntry(i, flags) /\ SetFd(p, fd, Open(i), FALSE)
  BY DEF open_file, IsFirst, FreeFds
<1>2. /\ Accounts(refs', used') /\ refs[Open(i)] = 0
      /\ status' \in [Counted -> SUBSET StatusFlags] /\ opened' \in [Opens -> SUBSET StatusFlags]
      /\ \A t \in Counted : refs'[t] = IF t = Open(i) THEN 1 ELSE refs[t]
  BY <1>1, OpenEntryKeeps
<1>3. /\ fds' \in [Slots -> [Fds -> FdTarget]] /\ cloexec' \in [Slots -> [Fds -> BOOLEAN]]
      /\ EmptyHasNoFlags'
  BY <1>1, SetFdTypes, Targets DEF Inv
<1>4. TypeOK'
  BY <1>2, <1>3 DEF TypeOK, Inv, open_file, Accounts
<1>5. Exact(fds', refs', lost')
  <2> SUFFICES ASSUME NEW t \in Counted PROVE refs'[t] = Cardinality(Held(fds', t)) + lost[t]
    BY DEF Exact, open_file
  <2>1. fds' = [fds EXCEPT ![p][fd] = Open(i)]
    BY <1>1 DEF SetFd
  <2>2. fds[p][fd] # t
    BY <1>1, Targets
  <2>3. Moves(fds[p][fd], Open(i), t, Cardinality(Held(fds, t)), Cardinality(Held(fds', t)))
    <3>1. fds \in [Slots -> [Fds -> FdTarget]]
      BY DEF Inv, TypeOK
    <3>2. QED
      BY <2>1, <3>1, HeldOne
  <2>4. refs[t] = Cardinality(Held(fds, t)) + lost[t]
    BY DEF Inv, Exact
  <2>5. refs[t] \in Nat /\ lost[t] \in Nat /\ Cardinality(Held(fds, t)) \in Nat
    BY Counts DEF Inv
  <2>6. CASE t = Open(i)
    BY <1>2, <2>2, <2>3, <2>4, <2>5, <2>6 DEF Moves
  <2>7. CASE t # Open(i)
    BY <1>2, <2>2, <2>3, <2>4, <2>5, <2>7 DEF Moves
  <2>8. QED
    BY <2>6, <2>7
<1>6. QED
  BY <1>2, <1>3, <1>4, <1>5 DEF Inv

(* open by a task without a record: the reference is lost, and counted so. *)
LEMMA OpenUnrecordedKeeps ==
    ASSUME Inv, NEW p \in Slots, NEW flags \in OpenFlags, open_unrecorded(p, flags)
    PROVE  Inv'
<1>1. PICK i \in 0 .. MaxOpenFiles - 1 :
        OpenEntry(i, flags) /\ lost' = [lost EXCEPT ![Open(i)] = 1]
  BY DEF open_unrecorded
<1>2. /\ Accounts(refs', used') /\ refs[Open(i)] = 0
      /\ status' \in [Counted -> SUBSET StatusFlags] /\ opened' \in [Opens -> SUBSET StatusFlags]
      /\ \A t \in Counted : refs'[t] = IF t = Open(i) THEN 1 ELSE refs[t]
  BY <1>1, OpenEntryKeeps
<1>3. Open(i) \in Counted /\ lost \in [Counted -> Nat]
  BY EntryFacts DEF Counted, Inv, TypeOK
<1>4. \A t \in Counted : lost'[t] = IF t = Open(i) THEN 1 ELSE lost[t]
  BY <1>1, <1>3
<1>5. TypeOK'
  BY <1>1, <1>2, <1>3 DEF TypeOK, Inv, open_unrecorded, Accounts
<1>6. Exact(fds', refs', lost')
  <2> SUFFICES ASSUME NEW t \in Counted PROVE refs'[t] = Cardinality(Held(fds, t)) + lost'[t]
    BY DEF Exact, open_unrecorded
  <2>1. refs[t] = Cardinality(Held(fds, t)) + lost[t]
    BY DEF Inv, Exact
  <2>2. refs[t] \in Nat /\ lost[t] \in Nat /\ Cardinality(Held(fds, t)) \in Nat
    BY Counts DEF Inv
  <2>3. CASE t = Open(i)
    BY <1>2, <1>4, <2>1, <2>2, <2>3
  <2>4. CASE t # Open(i)
    BY <1>2, <1>4, <2>1, <2>2, <2>4
  <2>5. QED
    BY <2>3, <2>4
<1>7. EmptyHasNoFlags'
  BY DEF open_unrecorded, Inv, EmptyHasNoFlags
<1>8. QED
  BY <1>2, <1>5, <1>6, <1>7 DEF Inv

(* A character device is not counted.                                      *)
LEMMA OpenDeviceKeeps ==
    ASSUME Inv, NEW p \in Slots, NEW d \in Devices, open_char_device(p, d)
    PROVE  Inv'
<1>1. PICK fd \in Fds : fds[p][fd] = Empty /\ SetFd(p, fd, <<d, 0>>, FALSE)
  BY DEF open_char_device, IsFirst, FreeFds
<1>2. /\ fds' \in [Slots -> [Fds -> FdTarget]] /\ cloexec' \in [Slots -> [Fds -> BOOLEAN]]
      /\ EmptyHasNoFlags'
  BY <1>1, SetFdTypes, Targets DEF Inv
<1>3. TypeOK' /\ Accounts(refs', used')
  BY <1>2 DEF TypeOK, Inv, open_char_device
<1>4. Exact(fds', refs', lost')
  <2> SUFFICES ASSUME NEW t \in Counted PROVE refs[t] = Cardinality(Held(fds', t)) + lost[t]
    BY DEF Exact, open_char_device
  <2>1. fds' = [fds EXCEPT ![p][fd] = <<d, 0>>]
    BY <1>1 DEF SetFd
  <2>2. fds[p][fd] # t /\ <<d, 0>> # t
    BY <1>1, Targets
  <2>3. Moves(fds[p][fd], <<d, 0>>, t, Cardinality(Held(fds, t)), Cardinality(Held(fds', t)))
    <3>1. fds \in [Slots -> [Fds -> FdTarget]]
      BY DEF Inv, TypeOK
    <3>2. QED
      BY <2>1, <3>1, HeldOne
  <2>4. refs[t] = Cardinality(Held(fds, t)) + lost[t] /\ Cardinality(Held(fds, t)) \in Nat
    BY Counts DEF Inv, Exact
  <2>5. QED
    BY <2>2, <2>3, <2>4 DEF Moves
<1>5. QED
  BY <1>2, <1>3, <1>4 DEF Inv

(* One reference to each of the targets named.                             *)
LEMMA OneType == ASSUME NEW u PROVE One(u) \in [Counted -> Nat]
  BY DEF One

(* close: the descriptor and its reference go together.                    *)
LEMMA CloseKeeps ==
    ASSUME Inv, NEW p \in Slots, NEW fd \in Fds, close_fd(p, fd)
    PROVE  Inv'
<1> DEFINE u == fds[p][fd]
<1>0. fds \in [Slots -> [Fds -> FdTarget]] /\ fds' = [fds EXCEPT ![p][fd] = Empty]
  BY DEF Inv, TypeOK, close_fd, SetFd
<1>1. \A t \in Counted : /\ refs[t] = Cardinality(Held(fds, t)) + lost[t]
                         /\ refs[t] \in Nat /\ lost[t] \in Nat /\ Cardinality(Held(fds, t)) \in Nat
  BY Counts DEF Inv, Exact
<1>2. \A t \in Counted : One(u)[t] <= refs[t]
  <2>1. Cardinality(Held(fds, u)) >= 1
    BY <1>0, HeldPositive
  <2>2. QED
    BY <1>1, <2>1 DEF One
<1>3. /\ Accounts(refs', used') /\ \A t \in Counted : refs'[t] = refs[t] - One(u)[t]
      /\ status' \in [Counted -> SUBSET StatusFlags] /\ opened' \in [Opens -> SUBSET StatusFlags]
  BY <1>2, OneType, ReleasedKeeps DEF close_fd
<1>4. /\ fds' \in [Slots -> [Fds -> FdTarget]] /\ cloexec' \in [Slots -> [Fds -> BOOLEAN]]
      /\ EmptyHasNoFlags'
  BY SetFdTypes, Targets DEF Inv, close_fd
<1>5. TypeOK'
  BY <1>3, <1>4 DEF TypeOK, Inv, close_fd, Accounts
<1>6. Exact(fds', refs', lost')
  <2> SUFFICES ASSUME NEW t \in Counted PROVE refs'[t] = Cardinality(Held(fds', t)) + lost[t]
    BY DEF Exact, close_fd
  <2>1. Moves(u, Empty, t, Cardinality(Held(fds, t)), Cardinality(Held(fds', t)))
    BY <1>0, HeldOne
  <2>2. Empty # t /\ One(u)[t] = IF u = t THEN 1 ELSE 0
    BY Targets DEF One
  <2>3. QED
    BY <1>1, <1>3, <2>1, <2>2 DEF Moves
<1>7. QED
  BY <1>3, <1>4, <1>5, <1>6 DEF Inv

(* Two descriptors with one target are two holders.                        *)
LEMMA HeldTwice ==
    ASSUME NEW f \in [Slots -> [Fds -> FdTarget]], NEW p \in Slots,
           NEW a \in Fds, NEW b \in Fds, a # b, f[p][a] = f[p][b], f[p][a] # Empty
    PROVE  Cardinality(Held(f, f[p][a])) >= 2
<1> DEFINE g == [f EXCEPT ![p][b] = Empty]
           t == f[p][a]
<1>1. g \in [Slots -> [Fds -> FdTarget]] /\ g[p][a] = t
  BY Targets
<1>2. Moves(f[p][b], Empty, t, Cardinality(Held(f, t)), Cardinality(Held(g, t)))
  BY HeldOne
<1>3. Cardinality(Held(g, g[p][a])) >= 1
  BY <1>1, HeldPositive
<1>4. QED
  BY <1>1, <1>2, <1>3 DEF Moves

(* dup and dup3: the target is still in use after the destination is       *)
(* released, because the old descriptor holds it.                          *)
LEMMA DupKeeps ==
    ASSUME Inv, NEW p \in Slots, NEW old \in Fds, NEW dest \in Fds, old # dest,
           NEW c \in BOOLEAN, fds[p][old] # Empty, DupTo(p, old, dest, c)
    PROVE  Inv'
<1> DEFINE target == fds[p][old]
           u == fds[p][dest]
           r == Release(refs, used, One(u))
           e == StillUsed(refs, used, One(u))
<1>0. fds \in [Slots -> [Fds -> FdTarget]] /\ target \in FdTarget /\ u \in FdTarget
  BY DEF Inv, TypeOK
<1>1. \A t \in Counted : /\ refs[t] = Cardinality(Held(fds, t)) + lost[t]
                         /\ refs[t] \in Nat /\ lost[t] \in Nat /\ Cardinality(Held(fds, t)) \in Nat
  BY Counts DEF Inv, Exact
<1>2. \A t \in Counted : One(u)[t] <= refs[t]
  <2>1. Cardinality(Held(fds, u)) >= 1
    BY <1>0, HeldPositive
  <2>2. QED
    BY <1>1, <2>1 DEF One
<1>3. Accounts(r, e) /\ \A t \in Counted : r[t] = refs[t] - One(u)[t]
  BY <1>2, OneType, ReleaseKeeps DEF Inv
<1>4. ASSUME target \in Counted PROVE r[target] > 0
  <2>1. CASE u = target
    <3>1. Cardinality(Held(fds, target)) >= 2
      BY <1>0, <2>1, HeldTwice
    <3>2. One(u)[target] = 1
      BY <1>4, <2>1 DEF One
    <3>3. QED
      BY <1>1, <1>3, <1>4, <3>1, <3>2
  <2>2. CASE u # target
    <3>1. Cardinality(Held(fds, target)) >= 1
      BY <1>0, HeldPositive
    <3>2. One(u)[target] = 0
      BY <1>4, <2>2 DEF One
    <3>3. QED
      BY <1>1, <1>3, <1>4, <3>1, <3>2
  <2>3. QED
    BY <2>1, <2>2
<1>5. target \in Plain \/ Entry(target) \in e
  BY <1>0, <1>3, <1>4, EntryFacts DEF FdTarget, Accounts
<1>6. /\ fds' = [fds EXCEPT ![p][dest] = target] /\ cloexec' = [cloexec EXCEPT ![p][dest] = c]
      /\ refs' = Retain(r, e, One(target)) /\ used' = e /\ status' = Clear(e)
      /\ UNCHANGED <<proc, lost, opened>>
  BY <1>5 DEF DupTo
<1>7. Accounts(refs', used') /\ \A t \in Counted : refs'[t] = r[t] + One(target)[t]
  <2>1. \A t \in Counted : One(target)[t] > 0 => r[t] > 0
    BY <1>4 DEF One
  <2> HIDE DEF r, e
  <2>2. QED
    BY <1>3, <1>6, <2>1, OneType, RetainKeeps
<1>8. /\ fds' \in [Slots -> [Fds -> FdTarget]] /\ cloexec' \in [Slots -> [Fds -> BOOLEAN]]
      /\ EmptyHasNoFlags'
  <2>1. SetFd(p, dest, target, c)
    BY <1>6 DEF SetFd
  <2>2. QED
    BY <1>0, <2>1, SetFdTypes DEF Inv
<1>9. TypeOK'
  <2>1. status' \in [Counted -> SUBSET StatusFlags]
    BY <1>6 DEF Clear, Inv, TypeOK
  <2>2. QED
    BY <1>6, <1>7, <1>8, <2>1 DEF TypeOK, Inv, Accounts
<1>10. Exact(fds', refs', lost')
  <2> SUFFICES ASSUME NEW t \in Counted PROVE refs'[t] = Cardinality(Held(fds', t)) + lost[t]
    BY <1>6 DEF Exact
  <2>1. Moves(u, target, t, Cardinality(Held(fds, t)), Cardinality(Held(fds', t)))
    BY <1>0, <1>6, HeldOne
  <2>2. One(u)[t] = (IF t = u THEN 1 ELSE 0) /\ One(target)[t] = (IF t = target THEN 1 ELSE 0)
    BY DEF One
  <2>3. refs'[t] = (refs[t] - One(u)[t]) + One(target)[t]
    BY <1>3, <1>7
  <2> HIDE DEF u, target
  <2>4. QED
    BY <1>1, <2>1, <2>2, <2>3 DEF Moves
<1>11. QED
  BY <1>7, <1>8, <1>9, <1>10 DEF Inv

(* pipe: a new entry with a reader and a writer, one descriptor for each.  *)
LEMMA PipeKeeps ==
    ASSUME Inv, NEW p \in Slots, NEW c \in BOOLEAN, NEW flags \in PipeFlags,
           create_pipe_pair(p, c, flags)
    PROVE  Inv'
<1>1. PICK i \in 0 .. MaxPipes - 1, r \in Fds, w \in Fds :
        /\ <<"Pipe", i>> \notin used /\ fds[p][r] = Empty /\ fds[p][w] = Empty /\ r # w
        /\ used' = used \cup {<<"Pipe", i>>}
        /\ refs' = [refs EXCEPT ![PipeRead(i)] = 1, ![PipeWrite(i)] = 1]
        /\ status' = [status EXCEPT ![PipeRead(i)] = flags, ![PipeWrite(i)] = flags]
        /\ fds' = [fds EXCEPT ![p][r] = PipeRead(i), ![p][w] = PipeWrite(i)]
        /\ cloexec' = [cloexec EXCEPT ![p][r] = c, ![p][w] = c]
  BY DEF create_pipe_pair, IsFirst, FreeFds
<1> DEFINE R == PipeRead(i)
           W == PipeWrite(i)
           x == <<"Pipe", i>>
           g == [fds EXCEPT ![p][r] = R]
<1>2. /\ x \in Entries /\ R \in Counted /\ W \in Counted /\ R # W
      /\ R \in FdTarget /\ W \in FdTarget /\ R # Empty /\ W # Empty
      /\ \A t \in Counted : Entry(t) = x <=> t \in {R, W}
  BY EntryFacts, Targets
<1>3. fds \in [Slots -> [Fds -> FdTarget]] /\ cloexec \in [Slots -> [Fds -> BOOLEAN]]
  BY DEF Inv, TypeOK
<1>4. \A t \in Counted : /\ refs[t] = Cardinality(Held(fds, t)) + lost[t]
                         /\ refs[t] \in Nat /\ lost[t] \in Nat /\ Cardinality(Held(fds, t)) \in Nat
  BY Counts DEF Inv, Exact
<1> HIDE DEF R, W, x
<1>5. refs[R] = 0 /\ refs[W] = 0
  BY <1>1, <1>2, <1>4 DEF Inv, Accounts, x
<1>6. \A t \in Counted : refs'[t] = IF t \in {R, W} THEN 1 ELSE refs[t]
  BY <1>1, <1>2 DEF Inv, TypeOK, R, W
<1>7. refs' \in [Counted -> Nat] /\ status' \in [Counted -> SUBSET StatusFlags]
  BY <1>1, <1>2, FdAssumption DEF Inv, TypeOK
<1>8. Accounts(refs', used')
  <2> SUFFICES ASSUME NEW e \in Entries
               PROVE  e \in used' <=> \E t \in Counted : Entry(t) = e /\ refs'[t] > 0
    BY <1>1, <1>2, <1>7 DEF Accounts, Inv, TypeOK, x
  <2>1. CASE e = x
    <3>1. e \in used'
      BY <1>1, <2>1 DEF x
    <3>2. Entry(R) = e /\ refs'[R] = 1
      BY <1>2, <1>6, <2>1
    <3>3. QED
      BY <1>2, <3>1, <3>2
  <2>2. CASE e # x
    <3>1. \A t \in Counted : Entry(t) = e => refs'[t] = refs[t]
      BY <1>2, <1>6, <2>2
    <3>2. e \in used' <=> e \in used
      BY <1>1, <2>2 DEF x
    <3>3. QED
      BY <3>1, <3>2 DEF Inv, Accounts
  <2>3. QED
    BY <2>1, <2>2
<1>9. g \in [Slots -> [Fds -> FdTarget]] /\ g[p][w] = Empty /\ fds' = [g EXCEPT ![p][w] = W]
  BY <1>1, <1>2, <1>3 DEF R, W
<1>10. fds' \in [Slots -> [Fds -> FdTarget]]
  BY <1>2, <1>9
<1>11. cloexec' \in [Slots -> [Fds -> BOOLEAN]]
  BY <1>1, <1>3
<1>12. EmptyHasNoFlags'
  <2> SUFFICES ASSUME NEW s \in Slots, NEW d \in Fds, fds'[s][d] = Empty PROVE ~ cloexec'[s][d]
    BY DEF EmptyHasNoFlags
  <2>1. ~ (s = p /\ d \in {r, w})
    BY <1>1, <1>2, <1>3 DEF R, W
  <2>2. fds[s][d] = Empty /\ cloexec'[s][d] = cloexec[s][d]
    BY <1>1, <1>3, <2>1
  <2>3. QED
    BY <2>2 DEF Inv, EmptyHasNoFlags
<1>13. TypeOK'
  BY <1>7, <1>8, <1>10, <1>11 DEF TypeOK, Inv, create_pipe_pair, Accounts
<1>14. Exact(fds', refs', lost')
  <2> SUFFICES ASSUME NEW t \in Counted PROVE refs'[t] = Cardinality(Held(fds', t)) + lost[t]
    BY DEF Exact, create_pipe_pair
  <2>1. Moves(fds[p][r], R, t, Cardinality(Held(fds, t)), Cardinality(Held(g, t)))
    BY <1>3, HeldOne
  <2> HIDE DEF g
  <2>2. Moves(g[p][w], W, t, Cardinality(Held(g, t)), Cardinality(Held(fds', t)))
    BY <1>9, HeldOne
  <2>3. fds[p][r] # t /\ g[p][w] # t
    BY <1>1, <1>9, Targets
  <2>4. CASE t \in {R, W}
    BY <1>2, <1>4, <1>5, <1>6, <2>1, <2>2, <2>3, <2>4 DEF Moves
  <2>5. CASE t \notin {R, W}
    BY <1>4, <1>6, <2>1, <2>2, <2>3, <2>5 DEF Moves
  <2>6. QED
    BY <2>4, <2>5
<1>15. QED
  BY <1>8, <1>12, <1>13, <1>14 DEF Inv

(* F_SETFD and F_SETFL touch no reference.                                 *)
LEMMA FlagsKeep ==
    ASSUME Inv, NEW p \in Slots, NEW fd \in Fds, NEW c \in BOOLEAN, NEW arg,
           set_cloexec(p, fd, c) \/ set_status_flags(p, fd, arg)
    PROVE  Inv'
<1>1. CASE set_cloexec(p, fd, c)
  <2>1. cloexec' \in [Slots -> [Fds -> BOOLEAN]]
    BY <1>1 DEF set_cloexec, Inv, TypeOK
  <2>2. TypeOK' /\ Accounts(refs', used') /\ Exact(fds', refs', lost')
    BY <1>1, <2>1 DEF set_cloexec, Inv, TypeOK
  <2>3. EmptyHasNoFlags'
    <3> SUFFICES ASSUME NEW s \in Slots, NEW d \in Fds, fds[s][d] = Empty PROVE ~ cloexec'[s][d]
      BY <1>1 DEF EmptyHasNoFlags, set_cloexec
    <3>1. cloexec'[s][d] = cloexec[s][d]
      BY <1>1 DEF set_cloexec, Inv, TypeOK
    <3>2. QED
      BY <3>1 DEF Inv, EmptyHasNoFlags
  <2>4. QED
    BY <2>2, <2>3 DEF Inv
<1>2. CASE set_status_flags(p, fd, arg)
  <2>1. status' \in [Counted -> SUBSET StatusFlags]
    BY <1>2 DEF set_status_flags, Inv, TypeOK, StatusFlags
  <2>2. QED
    BY <1>2, <2>1 DEF set_status_flags, Inv, TypeOK, EmptyHasNoFlags
<1>3. QED
  BY <1>1, <1>2

-----------------------------------------------------------------------------
(* Replacing the table of slot s.                                          *)
LEMMA TableReplaced ==
    ASSUME Inv, NEW s \in Slots, NEW table \in [Fds -> FdTarget], NEW t \in Counted,
           fds' = [fds EXCEPT ![s] = table]
    PROVE  Replaces(CountIn(s)[t], Cardinality(Row(table, t)),
                    Cardinality(Held(fds, t)), Cardinality(Held(fds', t)))
<1>1. fds \in [Slots -> [Fds -> FdTarget]]
  BY DEF Inv, TypeOK
<1>2. CountIn(s)[t] = Cardinality(Row(fds[s], t))
  BY DEF CountIn, Row
<1>3. QED
  BY <1>1, <1>2, HeldRow

(* The references of a process are a count for each target, and they are   *)
(* among those of the target.                                              *)
LEMMA CountInType ==
    ASSUME Inv, NEW s \in Slots
    PROVE  CountIn(s) \in [Counted -> Nat] /\ \A t \in Counted : CountIn(s)[t] <= refs[t]
<1>1. fds \in [Slots -> [Fds -> FdTarget]]
  BY DEF Inv, TypeOK
<1>2. ASSUME NEW t \in Counted PROVE CountIn(s)[t] \in Nat /\ CountIn(s)[t] <= refs[t]
  <2>1. CountIn(s)[t] = Cardinality(Row(fds[s], t))
    BY DEF CountIn, Row
  <2>2. Cardinality(Row(fds[s], t)) \in Nat
    BY HeldFinite
  <2>3. Cardinality(Row(fds[s], t)) <= Cardinality(Held(fds, t))
    <3>1. fds[s] \in [Fds -> FdTarget] /\ fds = [fds EXCEPT ![s] = fds[s]]
      BY <1>1
    <3>2. Replaces(Cardinality(Row(fds[s], t)), Cardinality(Row(fds[s], t)),
                   Cardinality(Held(fds, t)), Cardinality(Held(fds, t)))
      BY <1>1, <3>1, HeldRow
    <3>3. QED
      BY <3>2 DEF Replaces
  <2>4. refs[t] = Cardinality(Held(fds, t)) + lost[t] /\ refs[t] \in Nat /\ lost[t] \in Nat
        /\ Cardinality(Held(fds, t)) \in Nat
    BY Counts DEF Inv, Exact
  <2>5. QED
    BY <2>1, <2>2, <2>3, <2>4
<1>3. QED
  BY <1>2 DEF CountIn

(* The tables of a new process and of a free slot hold no reference.       *)
LEMMA FreshTables ==
    /\ default_fds \in [Fds -> FdTarget] /\ NoFds \in [Fds -> FdTarget]
    /\ \A t \in Counted : Cardinality(Row(default_fds, t)) = 0 /\ Cardinality(Row(NoFds, t)) = 0
<1>1. \A fd \in Fds : default_fds[fd] \in Plain /\ NoFds[fd] \in Plain
  BY FdAssumption DEF default_fds, NoFds, Plain, Fds
<1>2. \A t \in Counted : Row(default_fds, t) = {} /\ Row(NoFds, t) = {}
  BY <1>1, EntryFacts DEF Row
<1>3. default_fds \in [Fds -> FdTarget] /\ NoFds \in [Fds -> FdTarget]
  BY <1>1 DEF default_fds, NoFds, FdTarget
<1>4. QED
  BY <1>2, <1>3, FS_EmptySet

(* Storing a record: the types, and the flags of empty descriptors.        *)
LEMMA StoreTypes ==
    ASSUME Inv, NEW s \in Slots, NEW table \in [Fds -> FdTarget], NEW flags \in [Fds -> BOOLEAN],
           \A fd \in Fds : table[fd] = Empty => ~ flags[fd],
           fds' = [fds EXCEPT ![s] = table], cloexec' = [cloexec EXCEPT ![s] = flags]
    PROVE  /\ fds' \in [Slots -> [Fds -> FdTarget]] /\ cloexec' \in [Slots -> [Fds -> BOOLEAN]]
           /\ EmptyHasNoFlags'
<1>1. fds' \in [Slots -> [Fds -> FdTarget]] /\ cloexec' \in [Slots -> [Fds -> BOOLEAN]]
  BY DEF Inv, TypeOK
<1>2. ASSUME NEW q \in Slots, NEW d \in Fds, fds'[q][d] = Empty PROVE ~ cloexec'[q][d]
  <2>1. CASE q = s
    <3>1. fds'[q] = table /\ cloexec'[q] = flags
      BY <2>1 DEF Inv, TypeOK
    <3>2. QED
      BY <1>2, <3>1
  <2>2. CASE q # s
    <3>1. fds'[q] = fds[q] /\ cloexec'[q] = cloexec[q]
      BY <2>2 DEF Inv, TypeOK
    <3>2. QED
      BY <1>2, <3>1 DEF Inv, EmptyHasNoFlags
  <2>3. QED
    BY <2>1, <2>2
<1>3. QED
  BY <1>1, <1>2 DEF EmptyHasNoFlags

(* The references that a new record overwrites are counted as lost.        *)
LEMMA LostType ==
    ASSUME Inv, NEW s \in Slots, lost' = [t \in Counted |-> lost[t] + CountIn(s)[t]]
    PROVE  lost' \in [Counted -> Nat]
<1>1. \A t \in Counted : lost[t] \in Nat /\ CountIn(s)[t] \in Nat
  BY CountInType DEF Inv, TypeOK
<1>2. \A t \in Counted : lost[t] + CountIn(s)[t] \in Nat
  BY <1>1
<1>3. QED
  BY <1>2

(* A new program starts with the standard descriptors.                     *)
LEMMA SpawnKeeps ==
    ASSUME Inv, NEW s \in Slots, spawn_named(s)
    PROVE  Inv'
<1>1. /\ fds' = [fds EXCEPT ![s] = default_fds] /\ cloexec' = [cloexec EXCEPT ![s] = NoFlags]
      /\ lost' = [t \in Counted |-> lost[t] + CountIn(s)[t]]
      /\ proc' = [proc EXCEPT ![s] = "running"] /\ UNCHANGED <<used, refs, status, opened>>
  BY DEF spawn_named, Store
<1>2. /\ fds' \in [Slots -> [Fds -> FdTarget]] /\ cloexec' \in [Slots -> [Fds -> BOOLEAN]]
      /\ EmptyHasNoFlags'
  <2>1. NoFlags \in [Fds -> BOOLEAN] /\ \A fd \in Fds : ~ NoFlags[fd]
    BY DEF NoFlags
  <2>2. QED
    BY <1>1, <2>1, FreshTables, StoreTypes
<1>3. TypeOK'
  <2>1. lost' \in [Counted -> Nat]
    BY <1>1, LostType
  <2>2. QED
    BY <1>1, <1>2, <2>1 DEF TypeOK, Inv
<1>4. Exact(fds', refs', lost')
  <2> SUFFICES ASSUME NEW t \in Counted PROVE refs[t] = Cardinality(Held(fds', t)) + lost'[t]
    BY <1>1 DEF Exact
  <2>1. Replaces(CountIn(s)[t], Cardinality(Row(default_fds, t)),
                 Cardinality(Held(fds, t)), Cardinality(Held(fds', t)))
    BY <1>1, FreshTables, TableReplaced
  <2>2. /\ lost'[t] = lost[t] + CountIn(s)[t] /\ Cardinality(Row(default_fds, t)) = 0
        /\ refs[t] = Cardinality(Held(fds, t)) + lost[t] /\ lost[t] \in Nat
    BY <1>1, FreshTables, Counts DEF Inv, Exact
  <2>3. QED
    BY <2>1, <2>2 DEF Replaces
<1>5. QED
  BY <1>1, <1>2, <1>3, <1>4 DEF Inv

(* fork: every descriptor that is copied is one more reference.            *)
LEMMA ForkKeeps ==
    ASSUME Inv, NEW p \in Slots, NEW s \in Slots, fork_current(p, s)
    PROVE  Inv'
<1>1. /\ fds' = [fds EXCEPT ![s] = fds[p]] /\ cloexec' = [cloexec EXCEPT ![s] = cloexec[p]]
      /\ lost' = [t \in Counted |-> lost[t] + CountIn(s)[t]]
      /\ proc' = [proc EXCEPT ![s] = "running"] /\ UNCHANGED <<used, status, opened>>
      /\ refs' = Retain(refs, used, CountIn(p))
  BY DEF fork_current, Store
<1>2. fds[p] \in [Fds -> FdTarget] /\ cloexec[p] \in [Fds -> BOOLEAN]
  BY DEF Inv, TypeOK
<1>3. /\ fds' \in [Slots -> [Fds -> FdTarget]] /\ cloexec' \in [Slots -> [Fds -> BOOLEAN]]
      /\ EmptyHasNoFlags'
  <2>1. \A fd \in Fds : fds[p][fd] = Empty => ~ cloexec[p][fd]
    BY DEF Inv, EmptyHasNoFlags
  <2>2. QED
    BY <1>1, <1>2, <2>1, StoreTypes
<1>4. Accounts(refs', used') /\ \A t \in Counted : refs'[t] = refs[t] + CountIn(p)[t]
  <2>1. \A t \in Counted : CountIn(p)[t] > 0 => refs[t] > 0
    <3>1. \A t \in Counted : CountIn(p)[t] \in Nat /\ CountIn(p)[t] <= refs[t] /\ refs[t] \in Nat
      BY CountInType DEF Inv, TypeOK
    <3>2. QED
      BY <3>1
  <2>2. CountIn(p) \in [Counted -> Nat] /\ Accounts(refs, used)
    BY CountInType DEF Inv
  <2>3. QED
    BY <1>1, <2>1, <2>2, RetainKeeps
<1>5. TypeOK'
  <2>1. lost' \in [Counted -> Nat]
    BY <1>1, LostType
  <2>2. QED
    BY <1>1, <1>3, <1>4, <2>1 DEF TypeOK, Inv, Accounts
<1>6. Exact(fds', refs', lost')
  <2> SUFFICES ASSUME NEW t \in Counted PROVE refs'[t] = Cardinality(Held(fds', t)) + lost'[t]
    BY DEF Exact
  <2>1. Replaces(CountIn(s)[t], Cardinality(Row(fds[p], t)),
                 Cardinality(Held(fds, t)), Cardinality(Held(fds', t)))
    BY <1>1, <1>2, TableReplaced
  <2>2. CountIn(p)[t] = Cardinality(Row(fds[p], t))
    BY DEF CountIn, Row
  <2>3. /\ lost'[t] = lost[t] + CountIn(s)[t] /\ refs'[t] = refs[t] + CountIn(p)[t]
        /\ refs[t] = Cardinality(Held(fds, t)) + lost[t] /\ lost[t] \in Nat
    BY <1>1, <1>4, Counts DEF Inv, Exact
  <2>4. QED
    BY <2>1, <2>2, <2>3 DEF Replaces
<1>7. QED
  BY <1>3, <1>4, <1>5, <1>6 DEF Inv

(* waitpid: the descriptors of the zombie are released with its record.    *)
LEMMA ReapKeeps ==
    ASSUME Inv, NEW s \in Slots, reap_slot(s)
    PROVE  Inv'
<1>1. /\ fds' = [fds EXCEPT ![s] = NoFds] /\ cloexec' = [cloexec EXCEPT ![s] = NoFlags]
      /\ proc' = [proc EXCEPT ![s] = "none"] /\ Released(CountIn(s)) /\ lost' = lost
  BY DEF reap_slot
<1>2. /\ fds' \in [Slots -> [Fds -> FdTarget]] /\ cloexec' \in [Slots -> [Fds -> BOOLEAN]]
      /\ EmptyHasNoFlags'
  <2>1. NoFlags \in [Fds -> BOOLEAN] /\ \A fd \in Fds : ~ NoFlags[fd]
    BY DEF NoFlags
  <2>2. QED
    BY <1>1, <2>1, FreshTables, StoreTypes
<1>3. /\ Accounts(refs', used') /\ \A t \in Counted : refs'[t] = refs[t] - CountIn(s)[t]
      /\ status' \in [Counted -> SUBSET StatusFlags] /\ opened' \in [Opens -> SUBSET StatusFlags]
  BY <1>1, CountInType, ReleasedKeeps
<1>4. TypeOK'
  BY <1>1, <1>2, <1>3 DEF TypeOK, Inv, Accounts
<1>5. Exact(fds', refs', lost')
  <2> SUFFICES ASSUME NEW t \in Counted PROVE refs'[t] = Cardinality(Held(fds', t)) + lost[t]
    BY <1>1 DEF Exact
  <2>1. Replaces(CountIn(s)[t], Cardinality(Row(NoFds, t)),
                 Cardinality(Held(fds, t)), Cardinality(Held(fds', t)))
    BY <1>1, FreshTables, TableReplaced
  <2>2. /\ refs'[t] = refs[t] - CountIn(s)[t] /\ Cardinality(Row(NoFds, t)) = 0
        /\ refs[t] = Cardinality(Held(fds, t)) + lost[t] /\ lost[t] \in Nat
    BY <1>3, FreshTables, Counts DEF Inv, Exact
  <2>3. QED
    BY <2>1, <2>2 DEF Replaces
<1>6. QED
  BY <1>2, <1>3, <1>4, <1>5 DEF Inv

-----------------------------------------------------------------------------
(* At the start there is no descriptor and no entry in use.                *)
LEMMA InvInit == Init => Inv
<1> SUFFICES ASSUME Init PROVE Inv
  OBVIOUS
<1>1. TypeOK
  BY FreshTables DEF Init, TypeOK, NoFlags
<1>2. Accounts(refs, used)
  BY DEF Init, Accounts
<1>3. Exact(fds, refs, lost)
  <2> SUFFICES ASSUME NEW t \in Counted PROVE Cardinality(Held(fds, t)) = 0
    BY DEF Init, Exact
  <2>1. Held(fds, t) = {}
    BY Targets DEF Held, Init, NoFds
  <2>2. QED
    BY <2>1, FS_EmptySet
<1>4. EmptyHasNoFlags
  BY DEF Init, EmptyHasNoFlags, NoFlags
<1>5. QED
  BY <1>1, <1>2, <1>3, <1>4 DEF Inv

(* Every call on descriptors keeps the counts.                             *)
LEMMA DescriptorsKeep == Inv /\ Descriptors => Inv'
<1> SUFFICES ASSUME Inv, NEW p \in Slots,
               \/ \E flags \in OpenFlags : open_file(p, flags) \/ open_unrecorded(p, flags)
               \/ \E d \in Devices : open_char_device(p, d)
               \/ \E fd \in Fds : close_fd(p, fd)
               \/ \E old \in Fds, min \in Fds, c \in CloexecArgs : dup_min(p, old, min, c)
               \/ \E old \in Fds, new \in Fds, c \in CloexecArgs : dup_exact(p, old, new, c)
               \/ \E c \in CloexecArgs, flags \in PipeFlags : create_pipe_pair(p, c, flags)
               \/ \E fd \in Fds, c \in CloexecArgs : set_cloexec(p, fd, c)
               \/ \E fd \in Fds, arg \in SetFlags : set_status_flags(p, fd, arg)
             PROVE Inv'
  BY DEF Descriptors
<1>0. CloexecArgs \subseteq BOOLEAN
  BY FdAssumption
<1>1. ASSUME NEW flags \in OpenFlags, open_file(p, flags) \/ open_unrecorded(p, flags) PROVE Inv'
  BY <1>1, OpenKeeps, OpenUnrecordedKeeps
<1>2. ASSUME NEW d \in Devices, open_char_device(p, d) PROVE Inv'
  BY <1>2, OpenDeviceKeeps
<1>3. ASSUME NEW fd \in Fds, close_fd(p, fd) PROVE Inv'
  BY <1>3, CloseKeeps
<1>4. ASSUME NEW old \in Fds, NEW min \in Fds, NEW c \in CloexecArgs, dup_min(p, old, min, c) PROVE Inv'
  <2>1. PICK dest \in Fds : IsFirst(dest, FreeFds(p, min)) /\ DupTo(p, old, dest, c)
    BY <1>4 DEF dup_min
  <2>2. fds[p][old] # Empty /\ fds[p][dest] = Empty /\ c \in BOOLEAN
    BY <1>0, <1>4, <2>1 DEF dup_min, IsFirst, FreeFds
  <2>3. old # dest
    BY <2>2
  <2>4. QED
    BY <2>1, <2>2, <2>3, DupKeeps
<1>5. ASSUME NEW old \in Fds, NEW new \in Fds, NEW c \in CloexecArgs, dup_exact(p, old, new, c) PROVE Inv'
  BY <1>0, <1>5, DupKeeps DEF dup_exact
<1>6. ASSUME NEW c \in CloexecArgs, NEW flags \in PipeFlags, create_pipe_pair(p, c, flags) PROVE Inv'
  BY <1>0, <1>6, PipeKeeps
<1>7. ASSUME NEW fd \in Fds, NEW c \in CloexecArgs, set_cloexec(p, fd, c) PROVE Inv'
  BY <1>0, <1>7, FlagsKeep
<1>8. ASSUME NEW fd \in Fds, NEW arg \in SetFlags, set_status_flags(p, fd, arg) PROVE Inv'
  <2>1. FALSE \in BOOLEAN
    OBVIOUS
  <2>2. QED
    BY <1>8, <2>1, FlagsKeep
<1>9. QED
  BY <1>1, <1>2, <1>3, <1>4, <1>5, <1>6, <1>7, <1>8

(* Every step keeps the counts.                                            *)
LEMMA InvStep == Inv /\ [Next]_vars => Inv'
<1> SUFFICES ASSUME Inv, [Next]_vars PROVE Inv'
  OBVIOUS
<1>1. ASSUME NEW p \in Slots, leader_exit(p) \/ exit(p) PROVE Inv'
  <2>1. UNCHANGED <<fds, cloexec, used, refs, status, lost, opened>>
    BY <1>1 DEF leader_exit, exit
  <2>2. proc' \in [Slots -> {"none", "unrecorded", "running", "leaderless", "zombie"}]
    BY <1>1 DEF leader_exit, exit, Inv, TypeOK
  <2>3. QED
    BY <2>1, <2>2 DEF Inv, TypeOK, EmptyHasNoFlags
<1>2. CASE UNCHANGED vars
  BY <1>2 DEF vars, Inv, TypeOK, EmptyHasNoFlags
<1>3. CASE Processes
  BY <1>1, <1>3, SpawnKeeps, ForkKeeps, ReapKeeps DEF Processes
<1>4. QED
  BY <1>2, <1>3, DescriptorsKeep DEF Next

(* The count of an open file or a pipe end is the number of descriptors    *)
(* that name it, plus the lost references, and an entry is in use exactly  *)
(* while it is referred to (retain_fd_target, release_fd_target).          *)
THEOREM RefsAlwaysAccounted == Spec => []RefsAccounted
<1>1. Inv => RefsAccounted
  BY DEF Inv, Exact, Accounts, RefsAccounted, Held, Holders
<1>2. QED
  BY InvInit, InvStep, <1>1, PTL DEF Spec

(* No empty descriptor keeps FD_CLOEXEC.                                   *)
THEOREM EmptyNeverFlagged == Spec => []EmptyHasNoFlags
<1>1. Inv => EmptyHasNoFlags
  BY DEF Inv
<1>2. QED
  BY InvInit, InvStep, <1>1, PTL DEF Spec
=============================================================================
