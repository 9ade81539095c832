----------------------------- MODULE PipeProofs -----------------------------
(***************************************************************************)
(* The ring of a pipe implements the queue of PipeQueue, for every         *)
(* PIPE_CAPACITY, every set of bytes and every length of reads and writes; *)
(* with it TypeOK and ReadIsNotEmpty.                                      *)
(*                                                                         *)
(* The ring is in order because the writing position is always len bytes   *)
(* behind the reading one, modulo the capacity.                            *)
(***************************************************************************)
EXTENDS Pipe, SequenceTheorems, TLAPS

Positions == 0 .. Capacity - 1

Inv ==
    /\ TypeOK
    /\ write_pos = (read_pos + len) % Capacity
    /\ in_use <=> read_refs + write_refs > 0
    /\ pc = "write" => in_use /\ read_refs > 0
    /\ pc = "read" => in_use /\ (got \/ (left > 0 /\ len > 0))

-----------------------------------------------------------------------------
(* Positions in the ring.                                                  *)

(* A sum of a position and a length is reduced at most once.               *)
LEMMA ModOnce ==
    ASSUME NEW c \in Nat \ {0}, NEW x \in Nat, x < 2 * c
    PROVE  x % c = IF x < c THEN x ELSE x - c
  <1>1. CASE x < c
      BY <1>1
  <1>2. CASE x >= c
      BY <1>2
  <1> QED
      BY <1>1, <1>2

(* Where byte i of the queue is.                                           *)
Place(r, i) == IF r + i - 1 < Capacity THEN r + i - 1 ELSE r + i - 1 - Capacity

(* It is a position, found with one reduction; the byte after the last of  *)
(* a full ring is at the first again.                                      *)
LEMMA PlaceOf ==
    ASSUME NEW r \in Positions, NEW i \in 1 .. Capacity + 1
    PROVE  (r + i - 1) % Capacity = Place(r, i) /\ Place(r, i) \in Positions
  <1>1. Capacity \in Nat \ {0} /\ r \in Nat /\ i \in Nat
      BY PipeAssumption DEF Positions
  <1>2. r + i - 1 \in Nat /\ r + i - 1 < 2 * Capacity
      BY <1>1 DEF Positions
  <1>3. (r + i - 1) % Capacity = Place(r, i)
    <2> DEFINE x == r + i - 1
    <2>1. x \in Nat /\ x < 2 * Capacity
        BY <1>2
    <2> HIDE DEF x
    <2>2. x % Capacity = IF x < Capacity THEN x ELSE x - Capacity
        BY <1>1, <2>1, ModOnce
    <2> QED
        BY <1>1, <2>2 DEF Place, x
  <1>4. Place(r, i) \in Positions
      BY <1>1, <1>2 DEF Place, Positions
  <1> QED
      BY <1>3, <1>4

(* Two bytes of the queue are at different places.                         *)
LEMMA PlacesDiffer ==
    ASSUME NEW r \in Positions, NEW i \in 1 .. Capacity, NEW j \in 1 .. Capacity, i # j
    PROVE  Place(r, i) # Place(r, j)
  BY PipeAssumption DEF Place, Positions

(* The position after another.                                             *)
LEMMA NextPosition ==
    ASSUME NEW r \in Positions
    PROVE  (r + 1) % Capacity = IF r + 1 < Capacity THEN r + 1 ELSE 0
  <1> DEFINE x == r + 1
  <1>1. x \in Nat /\ x <= Capacity /\ x < 2 * Capacity /\ Capacity \in Nat \ {0}
      BY PipeAssumption DEF Positions
  <1> HIDE DEF x
  <1>2. x % Capacity = IF x < Capacity THEN x ELSE x - Capacity
      BY <1>1, ModOnce
  <1>3. x % Capacity = IF x < Capacity THEN x ELSE 0
      BY <1>1, <1>2
  <1> QED
      BY <1>3 DEF x

(* After a step of the reading position every byte is one place nearer.    *)
LEMMA PlaceShifts ==
    ASSUME NEW r \in Positions, NEW i \in 1 .. Capacity
    PROVE  /\ (r + 1) % Capacity \in Positions
           /\ Place((r + 1) % Capacity, i) = Place(r, i + 1)
  <1>1. (r + 1) % Capacity = IF r + 1 < Capacity THEN r + 1 ELSE 0
      BY NextPosition
  <1> QED
      BY <1>1, PipeAssumption DEF Place, Positions

(* The queue that the ring stands for.                                     *)
LEMMA QueueIs ==
    ASSUME TypeOK
    PROVE  /\ Queue \in Seq(Bytes) /\ Len(Queue) = len
           /\ \A i \in 1 .. len : Queue[i] = buf[Place(read_pos, i)]
  <1>1. len \in Nat /\ len <= Capacity /\ Capacity \in Nat /\ read_pos \in Positions
      BY PipeAssumption DEF TypeOK, Positions
  <1>2. \A i \in 1 .. len : /\ (read_pos + i - 1) % Capacity = Place(read_pos, i)
                            /\ Place(read_pos, i) \in Positions
      BY <1>1, PlaceOf
  <1>3. Queue = [i \in 1 .. len |-> buf[Place(read_pos, i)]]
      BY <1>2 DEF Queue
  <1>4. Queue \in [1 .. len -> Bytes]
      BY <1>2, <1>3 DEF TypeOK, Positions
  <1>5. Queue \in Seq(Bytes) /\ Len(Queue) = len
      BY <1>1, <1>4
  <1> QED
      BY <1>3, <1>5

(* The same of the state after a step.                                     *)
LEMMA QueueIsNext ==
    ASSUME TypeOK'
    PROVE  /\ Queue' \in Seq(Bytes) /\ Len(Queue') = len'
           /\ \A i \in 1 .. len' : Queue'[i] = buf'[Place(read_pos', i)]
  <1>1. len' \in Nat /\ len' <= Capacity /\ Capacity \in Nat /\ read_pos' \in Positions
      BY PipeAssumption DEF TypeOK, Positions
  <1>2. \A i \in 1 .. len' : /\ (read_pos' + i - 1) % Capacity = Place(read_pos', i)
                             /\ Place(read_pos', i) \in Positions
      BY <1>1, PlaceOf
  <1>3. Queue' = [i \in 1 .. len' |-> buf'[Place(read_pos', i)]]
      BY <1>2 DEF Queue
  <1>4. Queue' \in [1 .. len' -> Bytes]
      BY <1>2, <1>3 DEF TypeOK, Positions
  <1>5. Queue' \in Seq(Bytes) /\ Len(Queue') = len'
      BY <1>1, <1>4
  <1> QED
      BY <1>3, <1>5

-----------------------------------------------------------------------------
(* The invariant.                                                          *)

(* A ring of zeros, with its type.                                         *)
LEMMA ZeroType == [i \in 0 .. Capacity - 1 |-> Zero] \in [0 .. Capacity - 1 -> Bytes]
  <1>1. Zero \in Bytes
      BY PipeAssumption DEF Zero
  <1> QED
      BY <1>1

(* The pipe that nobody has made is empty and at rest.                     *)
LEMMA InitInv == Init => Inv
  <1> SUFFICES ASSUME Init PROVE Inv
      OBVIOUS
  <1>1. TypeOK
    <2>1. buf \in [0 .. Capacity - 1 -> Bytes]
        BY ZeroType DEF Init
    <2>2. 0 \in 0 .. Capacity - 1 /\ 0 \in 0 .. Capacity /\ 0 \in 0 .. MaxRefs /\ 0 \in 0 .. MaxRequest
        BY PipeAssumption
    <2> QED
        BY <2>1, <2>2 DEF Init, TypeOK
  <1>2. (0 + 0) % Capacity = 0
      BY PipeAssumption, ModOnce
  <1> QED
      BY <1>1, <1>2 DEF Init, Inv

(* A ring that is set up anew is empty, and in use when it has ends.       *)
LEMMA FreshInv ==
    ASSUME NEW n \in {0, 1}, Inv, pc = "idle", Fresh(n), UNCHANGED <<loop, answer>>
    PROVE  Inv'
  <1>1. (0 + 0) % Capacity = 0
      BY PipeAssumption, ModOnce
  <1>2. TypeOK'
    <2>1. buf' \in [0 .. Capacity - 1 -> Bytes]
        BY ZeroType DEF Fresh
    <2>2. 0 \in 0 .. Capacity - 1 /\ 0 \in 0 .. Capacity /\ n \in 0 .. MaxRefs /\ (n > 0) \in BOOLEAN
        BY PipeAssumption
    <2> QED
        BY <2>1, <2>2 DEF Fresh, Inv, TypeOK, loop
  <1>3. in_use' <=> read_refs' + write_refs' > 0
    <2>1. in_use' = (n > 0) /\ read_refs' = n /\ write_refs' = n
        BY DEF Fresh
    <2>2. in_use' <=> n > 0
        BY <2>1, Zenon
    <2>3. n > 0 <=> n + n > 0
        OBVIOUS
    <2> QED
        BY <2>1, <2>2, <2>3, Zenon
  <1>4. write_pos' = (read_pos' + len') % Capacity /\ pc' = "idle"
      BY <1>1 DEF Fresh, loop
  <1> QED
      BY <1>2, <1>3, <1>4 DEF Inv

(* The counts of the ends move while no call is in progress.               *)
LEMMA CountInv ==
    ASSUME Inv, retain_read \/ retain_write \/ release_read \/ release_write
    PROVE  Inv'
  <1>1. ASSUME pc = "idle", UNCHANGED <<in_use, ring, loop, answer>>, in_use,
               read_refs' \in 0 .. MaxRefs, write_refs' \in 0 .. MaxRefs,
               read_refs' + write_refs' > 0
        PROVE  Inv'
      BY <1>1 DEF Inv, TypeOK, ring, loop
  <1>2. CASE retain_read \/ retain_write
    <2>1. /\ read_refs' \in 0 .. MaxRefs /\ write_refs' \in 0 .. MaxRefs
          /\ read_refs' + write_refs' > 0
        BY <1>2, PipeAssumption DEF Inv, TypeOK, retain_read, retain_write
    <2> QED
        BY <1>1, <1>2, <2>1 DEF retain_read, retain_write
  <1>3. CASE release_read
    <2>1. CASE read_refs = 1 /\ write_refs = 0
        BY <1>3, <2>1, FreshInv DEF release_read
    <2>2. CASE ~ (read_refs = 1 /\ write_refs = 0)
      <3>1. read_refs' = read_refs - 1 /\ UNCHANGED <<in_use, ring, write_refs, loop, answer>>
          BY <1>3, <2>2 DEF release_read
      <3>2. /\ read_refs' \in 0 .. MaxRefs /\ write_refs' \in 0 .. MaxRefs
            /\ read_refs' + write_refs' > 0
          BY <1>3, <2>2, <3>1, PipeAssumption DEF Inv, TypeOK, release_read
      <3> QED
          BY <1>1, <1>3, <3>1, <3>2 DEF release_read
    <2> QED
        BY <2>1, <2>2
  <1>4. CASE release_write
    <2>1. CASE write_refs = 1 /\ read_refs = 0
        BY <1>4, <2>1, FreshInv DEF release_write
    <2>2. CASE ~ (write_refs = 1 /\ read_refs = 0)
      <3>1. write_refs' = write_refs - 1 /\ UNCHANGED <<in_use, ring, read_refs, loop, answer>>
          BY <1>4, <2>2 DEF release_write
      <3>2. /\ read_refs' \in 0 .. MaxRefs /\ write_refs' \in 0 .. MaxRefs
            /\ read_refs' + write_refs' > 0
          BY <1>4, <2>2, <3>1, PipeAssumption DEF Inv, TypeOK, release_write
      <3> QED
          BY <1>1, <1>4, <3>1, <3>2 DEF release_write
    <2> QED
        BY <2>1, <2>2
  <1> QED
      BY <1>2, <1>3, <1>4

(* A byte is written behind the last one.                                  *)
LEMMA WriteByteInv ==
    ASSUME Inv, WriteByte
    PROVE  Inv'
  <1>1. PICK b \in Bytes : buf' = [buf EXCEPT ![write_pos] = b]
      BY DEF WriteByte
  <1>2. /\ Capacity \in Nat \ {0} /\ read_pos \in Positions /\ write_pos \in Positions
        /\ len \in Nat /\ len < Capacity /\ len + 1 \in 1 .. Capacity
      BY PipeAssumption DEF Inv, TypeOK, WriteByte, Positions
  <1>3. /\ write_pos' = (write_pos + 1) % Capacity /\ len' = len + 1 /\ left' = left - 1
        /\ UNCHANGED <<in_use, read_pos, read_refs, write_refs, pc, got, answer>>
        /\ pc = "write" /\ left > 0
      BY DEF WriteByte
  <1>4. write_pos = Place(read_pos, len + 1)
    <2>1. (read_pos + (len + 1) - 1) % Capacity = Place(read_pos, len + 1)
        BY <1>2, PlaceOf
    <2>2. read_pos + (len + 1) - 1 = read_pos + len
        BY <1>2 DEF Positions
    <2> QED
        BY <2>1, <2>2 DEF Inv
  <1>5. write_pos' \in Positions /\ write_pos' = (read_pos + len') % Capacity
    <2>1. write_pos' = IF write_pos + 1 < Capacity THEN write_pos + 1 ELSE 0
        BY <1>2, <1>3, NextPosition
    <2>2. (read_pos + (len + 2) - 1) % Capacity = Place(read_pos, len + 2)
        BY <1>2, PlaceOf
    <2>3. read_pos + (len + 2) - 1 = read_pos + len'
        BY <1>2, <1>3 DEF Positions
    <2>4. Place(read_pos, len + 2) = IF write_pos + 1 < Capacity THEN write_pos + 1 ELSE 0
        BY <1>2, <1>4 DEF Place, Positions
    <2>5. write_pos' \in Positions
        BY <1>2, <2>1 DEF Positions
    <2> QED
        BY <2>1, <2>2, <2>3, <2>4, <2>5
  <1>6. buf' \in [0 .. Capacity - 1 -> Bytes]
      BY <1>1 DEF Inv, TypeOK
  <1>7. len' \in 0 .. Capacity /\ left' \in 0 .. MaxRequest
      BY <1>2, <1>3, PipeAssumption DEF Inv, TypeOK
  <1>8. TypeOK'
      BY <1>3, <1>5, <1>6, <1>7 DEF Inv, TypeOK, Positions
  <1> QED
      BY <1>3, <1>5, <1>8 DEF Inv

(* A byte is taken from the reading position.                              *)
LEMMA ReadByteInv ==
    ASSUME Inv, ReadByte
    PROVE  Inv'
  <1>1. /\ answer' = buf[read_pos] /\ read_pos' = (read_pos + 1) % Capacity
        /\ len' = len - 1 /\ left' = left - 1 /\ got' = TRUE
        /\ UNCHANGED <<in_use, buf, write_pos, read_refs, write_refs, pc>>
        /\ pc = "read" /\ left > 0 /\ len > 0
      BY DEF ReadByte
  <1>2. /\ Capacity \in Nat \ {0} /\ read_pos \in Positions /\ len \in 1 .. Capacity
      BY <1>1, PipeAssumption DEF Inv, TypeOK, Positions
  <1>3. read_pos' \in Positions /\ write_pos' = (read_pos' + len') % Capacity
    <2>1. /\ read_pos' \in Positions
          /\ Place(read_pos', len) = Place(read_pos, len + 1)
        BY <1>1, <1>2, PlaceShifts
    <2>2. (read_pos' + len - 1) % Capacity = Place(read_pos', len)
        BY <1>2, <2>1, PlaceOf
    <2>3. (read_pos + (len + 1) - 1) % Capacity = Place(read_pos, len + 1)
        BY <1>2, PlaceOf
    <2>4. read_pos + (len + 1) - 1 = read_pos + len /\ read_pos' + len - 1 = read_pos' + len'
        BY <1>1, <1>2, <2>1 DEF Positions
    <2> QED
        BY <1>1, <2>1, <2>2, <2>3, <2>4 DEF Inv
  <1>4. len' \in 0 .. Capacity /\ left' \in 0 .. MaxRequest
      BY <1>1, <1>2, PipeAssumption DEF Inv, TypeOK
  <1>5. answer' \in Bytes
      BY <1>1, <1>2 DEF Inv, TypeOK, Positions
  <1>6. TypeOK'
      BY <1>1, <1>3, <1>4, <1>5 DEF Inv, TypeOK, Positions
  <1> QED
      BY <1>1, <1>3, <1>6 DEF Inv

(* Calls that begin and return leave the pipe alone.                       *)
LEMMA CallInv ==
    ASSUME Inv, write \/ WriteReturns \/ read \/ ReadReturns \/ UNCHANGED vars
    PROVE  Inv'
  <1>1. UNCHANGED <<in_use, buf, read_pos, write_pos, len, read_refs, write_refs>>
      BY DEF write, WriteReturns, read, ReadReturns, vars, pipe, ring
  <1>2. ASSUME TypeOK', pc' = "write" => in_use /\ read_refs > 0,
               pc' = "read" => in_use /\ (got' \/ (left' > 0 /\ len > 0))
        PROVE  Inv'
      BY <1>1, <1>2 DEF Inv
  <1>3. 0 \in 0 .. MaxRequest /\ 1 .. MaxRequest \subseteq 0 .. MaxRequest
        /\ \A n \in 1 .. MaxRequest : n > 0
      BY PipeAssumption
  <1>4. CASE write
      BY <1>1, <1>2, <1>3, <1>4 DEF write, Inv, TypeOK
  <1>5. CASE WriteReturns
      BY <1>1, <1>2, <1>3, <1>5 DEF WriteReturns, Inv, TypeOK
  <1>6. CASE read
      BY <1>1, <1>2, <1>3, <1>6 DEF read, Inv, TypeOK, loop
  <1>7. CASE ReadReturns
      BY <1>1, <1>2, <1>3, <1>7 DEF ReadReturns, Inv, TypeOK
  <1>8. CASE UNCHANGED vars
      BY <1>1, <1>2, <1>8 DEF vars, loop, Inv, TypeOK
  <1> QED
      BY <1>4, <1>5, <1>6, <1>7, <1>8

(* Every step keeps the invariant.                                         *)
LEMMA NextInv == Inv /\ [Next]_vars => Inv'
  <1> SUFFICES ASSUME Inv, [Next]_vars PROVE Inv'
      OBVIOUS
  <1>1. CASE alloc
      BY <1>1, FreshInv DEF alloc
  <1> QED
      BY <1>1, CountInv, WriteByteInv, ReadByteInv, CallInv DEF Next

(* The invariant holds in every state.                                     *)
LEMMA InvAlways == Spec => []Inv
  BY InitInv, NextInv, PTL DEF Spec

-----------------------------------------------------------------------------
(* The steps of the queue.                                                 *)

(* A step that leaves the ring alone leaves the queue alone.               *)
LEMMA SameQueue == UNCHANGED ring => UNCHANGED Queue
  BY DEF ring, Queue

(* A ring without bytes is the empty queue.                                *)
LEMMA EmptyQueue ==
    /\ TypeOK /\ len = 0 => Queue = <<>>
    /\ TypeOK' /\ len' = 0 => Queue' = <<>>
  BY QueueIs, QueueIsNext, EmptySeq, SeqEqual

(* WriteByte appends to the queue.                                         *)
LEMMA WritePuts ==
    ASSUME Inv, Inv', WriteByte
    PROVE  PQ!Put
  <1>1. PICK b \in Bytes : buf' = [buf EXCEPT ![write_pos] = b]
      BY DEF WriteByte
  <1>2. /\ Capacity \in Nat \ {0} /\ read_pos \in Positions
        /\ len \in Nat /\ len < Capacity /\ len + 1 \in 1 .. Capacity
        /\ len' = len + 1 /\ read_pos' = read_pos
      BY PipeAssumption DEF Inv, TypeOK, WriteByte, Positions
  <1>3. write_pos = Place(read_pos, len + 1)
    <2>1. (read_pos + (len + 1) - 1) % Capacity = Place(read_pos, len + 1)
        BY <1>2, PlaceOf
    <2>2. read_pos + (len + 1) - 1 = read_pos + len
        BY <1>2 DEF Positions
    <2> QED
        BY <2>1, <2>2 DEF Inv
  <1>4. /\ Queue \in Seq(Bytes) /\ Len(Queue) = len
        /\ \A i \in 1 .. len : Queue[i] = buf[Place(read_pos, i)]
      BY QueueIs DEF Inv
  <1>5. /\ Queue' \in Seq(Bytes) /\ Len(Queue') = len + 1
        /\ \A i \in 1 .. len + 1 : Queue'[i] = buf'[Place(read_pos, i)]
      BY <1>2, QueueIsNext DEF Inv
  <1>6. /\ Append(Queue, b) \in Seq(Bytes) /\ Len(Append(Queue, b)) = len + 1
        /\ \A i \in 1 .. len : Append(Queue, b)[i] = Queue[i]
        /\ Append(Queue, b)[len + 1] = b
      BY <1>4, AppendProperties
  <1>7. ASSUME NEW i \in 1 .. len + 1
        PROVE  Queue'[i] = Append(Queue, b)[i]
    <2>1. CASE i = len + 1
      <3>1. write_pos \in Positions /\ buf'[write_pos] = b
          BY <1>1 DEF Inv, TypeOK, Positions
      <3> QED
          BY <2>1, <3>1, <1>3, <1>5, <1>6
    <2>2. CASE i \in 1 .. len
      <3>1. Place(read_pos, i) # write_pos /\ Place(read_pos, i) \in Positions
          BY <1>2, <1>3, <2>2, PlacesDiffer, PlaceOf
      <3>2. buf'[Place(read_pos, i)] = buf[Place(read_pos, i)]
          BY <1>1, <3>1 DEF Inv, TypeOK, Positions
      <3> QED
          BY <2>2, <3>2, <1>4, <1>5, <1>6
    <2>3. i = len + 1 \/ i \in 1 .. len
        BY <1>2
    <2> QED
        BY <2>1, <2>2, <2>3
  <1>8. Queue' = Append(Queue, b)
      BY <1>5, <1>6, <1>7, SeqEqual
  <1> QED
      BY <1>2, <1>4, <1>8 DEF PQ!Put, WriteByte, Inv

(* ReadByte takes the first byte of the queue.                             *)
LEMMA ReadGets ==
    ASSUME Inv, Inv', ReadByte
    PROVE  PQ!Get
  <1>1. /\ Capacity \in Nat \ {0} /\ read_pos \in Positions /\ len \in 1 .. Capacity
        /\ len' = len - 1 /\ read_pos' = (read_pos + 1) % Capacity /\ buf' = buf
        /\ answer' = buf[read_pos]
      BY PipeAssumption DEF Inv, TypeOK, ReadByte, Positions
  <1>2. /\ Queue \in Seq(Bytes) /\ Len(Queue) = len
        /\ \A i \in 1 .. len : Queue[i] = buf[Place(read_pos, i)]
      BY QueueIs DEF Inv
  <1>3. /\ Queue' \in Seq(Bytes) /\ Len(Queue') = len - 1
        /\ \A i \in 1 .. len - 1 : Queue'[i] = buf[Place(read_pos', i)]
      BY <1>1, QueueIsNext DEF Inv
  <1>4. Queue # <<>>
      BY <1>1, <1>2, EmptySeq
  <1>5. /\ Tail(Queue) \in Seq(Bytes) /\ Len(Tail(Queue)) = len - 1
        /\ \A i \in 1 .. len - 1 : Tail(Queue)[i] = Queue[i + 1]
      BY <1>2, <1>4, HeadTailProperties
  <1>6. ASSUME NEW i \in 1 .. len - 1
        PROVE  Queue'[i] = Tail(Queue)[i]
    <2>1. i \in 1 .. Capacity /\ i + 1 \in 1 .. len
        BY <1>1
    <2>2. Place(read_pos', i) = Place(read_pos, i + 1)
        BY <1>1, <2>1, PlaceShifts
    <2> QED
        BY <1>2, <1>3, <1>5, <2>1, <2>2
  <1>7. Queue' = Tail(Queue)
      BY <1>3, <1>5, <1>6, SeqEqual
  <1>8. Head(Queue) = buf[read_pos]
    <2>1. Head(Queue) = Queue[1]
        BY <1>2, <1>4
    <2>2. Place(read_pos, 1) = read_pos
        BY <1>1 DEF Place, Positions
    <2> QED
        BY <1>1, <1>2, <2>1, <2>2
  <1> QED
      BY <1>1, <1>4, <1>7, <1>8 DEF PQ!Get, ReadByte, Inv

(* A step of the pipe is a step of the queue or leaves it alone.           *)
LEMMA StepRefines ==
    ASSUME Inv, Inv', [Next]_vars
    PROVE  [PQ!Next]_(PQ!pvars)
  <1>1. CASE alloc
    <2>1. Queue' = <<>>
        BY <1>1, EmptyQueue DEF alloc, Fresh, Inv
    <2>2. in_use' = TRUE
      <3>1. in_use' = (1 > 0)
          BY <1>1 DEF alloc, Fresh
      <3>2. 1 > 0
          OBVIOUS
      <3> QED
          BY <3>1, <3>2, Zenon
    <2>3. ~ in_use /\ read_refs' = 1 /\ write_refs' = 1 /\ UNCHANGED answer
        BY <1>1 DEF alloc, Fresh
    <2>4. PQ!Create
        BY <2>1, <2>2, <2>3 DEF PQ!Create
    <2> QED
        BY <2>4 DEF PQ!Next
  <1>2. CASE retain_read \/ retain_write
    <2>1. UNCHANGED Queue
        BY <1>2, SameQueue DEF retain_read, retain_write
    <2>2. in_use /\ in_use' = in_use
        BY <1>2 DEF retain_read, retain_write
    <2>3. read_refs' + write_refs' > 0
        BY <1>2 DEF retain_read, retain_write, Inv, TypeOK
    <2>4. \/ read_refs > 0 /\ read_refs' = read_refs + 1 /\ write_refs' = write_refs
          \/ write_refs > 0 /\ write_refs' = write_refs + 1 /\ read_refs' = read_refs
        BY <1>2 DEF retain_read, retain_write
    <2>5. UNCHANGED answer
        BY <1>2 DEF retain_read, retain_write
    <2>6. PQ!Count
        BY <2>1, <2>2, <2>3, <2>4, <2>5 DEF PQ!Count
    <2> QED
        BY <2>6 DEF PQ!Next
  <1>3. CASE release_read
    <2>1. CASE read_refs = 1 /\ write_refs = 0
      <3>1. Fresh(0) /\ UNCHANGED answer /\ in_use /\ read_refs > 0
          BY <1>3, <2>1 DEF release_read
      <3>2. Queue' = <<>> /\ read_refs' = 0 /\ write_refs' = 0 /\ in_use' = FALSE
          BY <3>1, EmptyQueue DEF Fresh, Inv
      <3> QED
          BY <2>1, <3>1, <3>2 DEF PQ!Next, PQ!Count
    <2>2. CASE ~ (read_refs = 1 /\ write_refs = 0)
      <3>1. /\ read_refs' = read_refs - 1 /\ UNCHANGED <<in_use, ring, write_refs, answer>>
            /\ in_use /\ read_refs > 0
          BY <1>3, <2>2 DEF release_read
      <3>2. UNCHANGED Queue
          BY <3>1, SameQueue
      <3>3. read_refs' + write_refs' > 0
          BY <2>2, <3>1 DEF Inv, TypeOK
      <3> QED
          BY <3>1, <3>2, <3>3 DEF PQ!Next, PQ!Count, Inv, TypeOK
    <2> QED
        BY <2>1, <2>2
  <1>4. CASE release_write
    <2>1. CASE write_refs = 1 /\ read_refs = 0
      <3>1. Fresh(0) /\ UNCHANGED answer /\ in_use /\ write_refs > 0
          BY <1>4, <2>1 DEF release_write
      <3>2. Queue' = <<>> /\ read_refs' = 0 /\ write_refs' = 0 /\ in_use' = FALSE
          BY <3>1, EmptyQueue DEF Fresh, Inv
      <3> QED
          BY <2>1, <3>1, <3>2 DEF PQ!Next, PQ!Count
    <2>2. CASE ~ (write_refs = 1 /\ read_refs = 0)
      <3>1. /\ write_refs' = write_refs - 1 /\ UNCHANGED <<in_use, ring, read_refs, answer>>
            /\ in_use /\ write_refs > 0
          BY <1>4, <2>2 DEF release_write
      <3>2. UNCHANGED Queue
          BY <3>1, SameQueue
      <3>3. read_refs' + write_refs' > 0
          BY <2>2, <3>1 DEF Inv, TypeOK
      <3> QED
          BY <3>1, <3>2, <3>3 DEF PQ!Next, PQ!Count, Inv, TypeOK
    <2> QED
        BY <2>1, <2>2
  <1>5. CASE write \/ WriteReturns \/ ReadReturns \/ UNCHANGED vars
    <2>1. UNCHANGED <<in_use, ring, read_refs, write_refs, answer>>
        BY <1>5 DEF write, WriteReturns, ReadReturns, vars, pipe
    <2>2. UNCHANGED Queue
        BY <2>1, SameQueue
    <2> QED
        BY <2>1, <2>2 DEF PQ!pvars
  <1>6. CASE read
    <2>1. UNCHANGED <<in_use, ring, read_refs, write_refs>> /\ in_use
        BY <1>6 DEF read, pipe
    <2>2. UNCHANGED Queue
        BY <2>1, SameQueue
    <2>3. CASE UNCHANGED answer
        BY <2>1, <2>2, <2>3 DEF PQ!pvars
    <2>4. CASE len = 0 /\ write_refs = 0 /\ answer' = "eof"
      <3>1. Queue = <<>>
          BY <2>4, EmptyQueue DEF Inv
      <3> QED
          BY <2>1, <2>2, <2>4, <3>1 DEF PQ!Next, PQ!EndOfFile
    <2> QED
        BY <1>6, <2>3, <2>4 DEF read
  <1>7. CASE WriteByte
      BY <1>7, WritePuts DEF PQ!Next
  <1>8. CASE ReadByte
      BY <1>8, ReadGets DEF PQ!Next
  <1> QED
      BY <1>1, <1>2, <1>3, <1>4, <1>5, <1>6, <1>7, <1>8 DEF Next

-----------------------------------------------------------------------------
(* The theorems.                                                           *)

(* Every variable of a pipe keeps its type.                                *)
THEOREM TypeCorrect == Spec => []TypeOK
  <1>1. Inv => TypeOK
      BY DEF Inv
  <1> QED
      BY <1>1, InvAlways, PTL

(* A read that has entered its loop returns at least one byte.             *)
THEOREM ReadsReturnBytes == Spec => []ReadIsNotEmpty
  <1>1. Inv => ReadIsNotEmpty
      BY DEF Inv, TypeOK, ReadIsNotEmpty
  <1> QED
      BY <1>1, InvAlways, PTL

(* The ring of fd_pipe.rs is a bounded first-in first-out queue: no byte   *)
(* is lost, repeated or reordered, and end of file comes after the last.   *)
THEOREM Refinement == Spec => ImplementsQueue
  <1>1. Init => PQ!Init
    <2> SUFFICES ASSUME Init PROVE PQ!Init
        OBVIOUS
    <2>1. Queue = <<>>
        BY InitInv, EmptyQueue DEF Init, Inv
    <2> QED
        BY <2>1 DEF Init, PQ!Init
  <1>2. Inv /\ Inv' /\ [Next]_vars => [PQ!Next]_(PQ!pvars)
      BY StepRefines
  <1> QED
      BY <1>1, <1>2, InvAlways, PTL DEF Spec, ImplementsQueue, PQ!Spec
=============================================================================
