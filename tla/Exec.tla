-------------------------------- MODULE Exec --------------------------------
(***************************************************************************)
(* Starting a program: exec_as_task (proc/exec.rs) makes an address space, *)
(* load_into (proc/elf.rs) loads the PT_LOAD segments of the file into it, *)
(* then the user stack is mapped, the argument block is written on it, and *)
(* a task is spawned.  Any step that finds no frame gives up or panics.    *)
(*                                                                         *)
(* Memory is followed byte by byte, in physical frames that hold what      *)
(* their last user left there.  The sizes are constants: WORD stands for   *)
(* the 8 bytes of a u64 and ALIGN for the 16 of the ABI.  The fields of a  *)
(* program header are small numbers, so none of their sums wraps.          *)
(***************************************************************************)
EXTENDS Integers, FiniteSets, Sequences, SequencesExt

CONSTANTS
    Programs,          \* files that are started
    NameLens,          \* lengths of their names
    Creds,             \* <<uid, euid, gid, egid>> of the caller
    PAGE_SIZE, WORD, ALIGN,
    EHDR_LEN,          \* 64: bytes of the file header
    PHDR_LEN,          \* 48: bytes of a program header that are read
    EXE_PATH_MAX,
    NPages,            \* bound: pages of the user half
    USER_STACK_PAGES,  \* the last of them
    Span,              \* pages under one page table
    NFrames,           \* physical frames
    KSTACK,            \* 4: contiguous frames of a kernel stack
    MAX_TASKS,
    MaxExecs           \* bound: programs started

(* What is assumed of the constants.                                      *)
ExecAssumption ==
    /\ {PAGE_SIZE, WORD, ALIGN, Span, KSTACK} \subseteq Nat \ {0}
    /\ ALIGN % WORD = 0 /\ PAGE_SIZE % ALIGN = 0
    /\ USER_STACK_PAGES \in 0 .. NPages /\ NPages \in Nat
    /\ {NFrames, MAX_TASKS, MaxExecs, EHDR_LEN, PHDR_LEN, EXE_PATH_MAX} \subseteq Nat
    /\ NameLens \subseteq Nat /\ Len(Creds) = 4

Frames == 1 .. NFrames
NoFrame == 0
USER_STACK_TOP == NPages * PAGE_SIZE
StackBase == NPages - USER_STACK_PAGES

(* The bytes of memory: byte o of the file, of a word, of a name, ...      *)
Zero == <<"zero", 0, 0>>
Stale == <<"stale", 0, 0>>
FileByte(o) == <<"file", o, 0>>
NameByte(k) == <<"name", k, 0>>
RandomByte(k) == <<"random", k, 0>>
WordBytes(v) == [k \in 1 .. WORD |-> IF v = 0 THEN Zero ELSE <<"word", v, k>>]

VARIABLES
    pc,       \* where exec_as_task is
    prog,     \* the file, and the length of its name
    i,        \* the program header that load_into is at
    at,       \* the next page of the loop that runs
    page,     \* the mapped pages of the new address space
    tables,   \* its page tables
    phdr,     \* phdr_vaddr
    sp,       \* the user stack pointer
    content,  \* the bytes of every frame
    free,     \* frames of the allocator
    tasks,    \* used slots of the task table
    execs     \* how many programs were started

space == <<page, tables>>
loader == <<prog, i, phdr, sp>>
vars == <<pc, at, loader, space, content, free, tasks, execs>>

Resting == {"idle", "failed", "started"}
NoProgram == [len |-> 0, valid |-> FALSE, entry |-> 0, phoff |-> 0, phent |-> 0, phs |-> << >>, name |-> 0]

TypeOK ==
    /\ pc \in Resting \cup {"header", "segment", "map", "stack", "spawn", "panic"}
    /\ i \in 1 .. Len(prog.phs) + 1 /\ at \in 0 .. NPages
    /\ page \in [0 .. NPages - 1 -> Frames \cup {NoFrame}] /\ tables \subseteq 0 .. NPages
    /\ phdr \in Nat /\ sp \in 0 .. USER_STACK_TOP
    /\ DOMAIN content = Frames /\ \A f \in Frames : DOMAIN content[f] = 0 .. PAGE_SIZE - 1
    /\ free \subseteq Frames /\ tasks \in 0 .. MAX_TASKS /\ execs \in 0 .. MaxExecs

Init ==
    /\ pc = "idle" /\ prog = NoProgram /\ i = 1 /\ at = 0
    /\ page = [p \in 0 .. NPages - 1 |-> NoFrame] /\ tables = {} /\ phdr = 0 /\ sp = 0
    /\ content = [f \in Frames |-> [o \in 0 .. PAGE_SIZE - 1 |-> Stale]]
    /\ \E n \in 0 .. NFrames : free = 1 .. n
    /\ tasks = 0 /\ execs = 0

IsLowest(f, S) == f \in S /\ \A g \in S : f <= g

(* The frame and the byte of it at user address a, translate_page.         *)
Mapped(a) == a \div PAGE_SIZE \in DOMAIN page /\ page[a \div PAGE_SIZE] # NoFrame
At(c, a) == c[page[a \div PAGE_SIZE]][a % PAGE_SIZE]

(* The frames after bytes were copied to user address a.                   *)
Written(c, a, bytes) ==
    [f \in Frames |-> [o \in 0 .. PAGE_SIZE - 1 |->
        LET hit == {k \in 1 .. Len(bytes) : page[(a + k - 1) \div PAGE_SIZE] = f
                                            /\ (a + k - 1) % PAGE_SIZE = o}
        IN IF hit = {} THEN c[f][o] ELSE bytes[CHOOSE k \in hit : TRUE]]]

-----------------------------------------------------------------------------
(* map_page_in of a frame f, and of a frame for the page table if that is  *)
(* missing; alloc_table panics when there is none.  The allocator zeroes   *)
(* the page, and so does the caller.                                       *)
Cleared(f) == [content EXCEPT ![f] = [o \in 0 .. PAGE_SIZE - 1 |-> Zero]]

map_zeroed(p, f) ==
    /\ page' = [page EXCEPT ![p] = f]
    /\ tables' = tables \cup {p \div Span}
    /\ \/ /\ p \div Span \in tables
          /\ free' = free \ {f}
       \/ /\ p \div Span \notin tables
          /\ \E g \in free \ {f} : IsLowest(g, free \ {f}) /\ free' = free \ {f, g}
    /\ content' = Cleared(f)

TablePanic(p) == p \div Span \notin tables /\ Cardinality(free) = 1

Stop(how) == pc' = how /\ UNCHANGED <<at, loader, space, content, free, tasks, execs>>

-----------------------------------------------------------------------------
(* exec_as_task: clone_kernel_address_space takes a frame for the root,    *)
(* and does not look whether it got one: without frames, later steps fail. *)
exec_as_task ==
    /\ pc \in Resting /\ execs < MaxExecs
    /\ free' = {f \in free : \E g \in free : g < f}
    /\ \E p \in Programs, n \in NameLens :
        prog' = [len |-> p.len, valid |-> p.valid, entry |-> p.entry, phoff |-> p.phoff,
                 phent |-> p.phent, phs |-> p.phs, name |-> n]
    /\ i' = 1 /\ at' = 0 /\ phdr' = 0 /\ sp' = 0 /\ execs' = execs + 1
    /\ page' = [q \in DOMAIN page |-> NoFrame] /\ tables' = {}
    /\ pc' = "header"
    /\ UNCHANGED <<content, tasks>>

(* load_into checks the file header: length, magic, class, byte order,     *)
(* type and machine (valid), and that there are program headers.           *)
check_header ==
    /\ pc = "header"
    /\ IF prog.len < EHDR_LEN \/ ~ prog.valid \/ Len(prog.phs) = 0
       THEN Stop("failed")
       ELSE Stop("segment")

(* The address of the program headers for the auxiliary vector.            *)
PhdrVaddr_NoOffset(ph) ==
    IF phdr = 0 /\ ph.offset <= prog.phoff /\ prog.phoff < ph.offset + ph.filesz
    THEN ph.vaddr + prog.phoff ELSE phdr

PhdrVaddr(ph) ==
    IF phdr = 0 /\ ph.offset <= prog.phoff /\ prog.phoff < ph.offset + ph.filesz
    THEN ph.vaddr + (prog.phoff - ph.offset) ELSE phdr

PageEnd(ph) == (ph.vaddr + ph.memsz + PAGE_SIZE - 1) \div PAGE_SIZE

(* One turn of the loop over the program headers, up to the mapping.  A    *)
(* program header shorter than the fields read from it panics.             *)
next_segment ==
    /\ pc = "segment" /\ i <= Len(prog.phs)
    /\ LET ph == prog.phs[i] IN
       \/ prog.phoff + i * prog.phent > prog.len /\ Stop("failed")
       \/ /\ prog.phoff + i * prog.phent <= prog.len
          /\ \/ prog.phent < PHDR_LEN /\ Stop("panic")
             \/ /\ prog.phent >= PHDR_LEN /\ (ph.type # "PT_LOAD" \/ ph.memsz = 0)
                /\ i' = i + 1
                /\ UNCHANGED <<pc, at, prog, phdr, sp, space, content, free, tasks, execs>>
             \/ /\ prog.phent >= PHDR_LEN /\ ph.type = "PT_LOAD" /\ ph.memsz > 0
                /\ \/ ph.offset + ph.filesz > prog.len /\ Stop("failed")
                   \/ /\ ph.offset + ph.filesz <= prog.len
                      /\ phdr' = PhdrVaddr(ph)
                      /\ at' = ph.vaddr \div PAGE_SIZE
                      /\ pc' = "map"
                      /\ UNCHANGED <<prog, i, sp, space, content, free, tasks, execs>>

(* A page of the segment.  One that an earlier segment mapped is kept.     *)
map_segment_Remap ==
    /\ pc = "map" /\ at < PageEnd(prog.phs[i])
    /\ \/ free = {} /\ Stop("failed")
       \/ free # {} /\ TablePanic(at) /\ Stop("panic")
       \/ /\ ~ TablePanic(at)
          /\ \E f \in free : IsLowest(f, free) /\ map_zeroed(at, f)
          /\ at' = at + 1
          /\ UNCHANGED <<pc, loader, tasks, execs>>

map_segment ==
    /\ pc = "map" /\ at < PageEnd(prog.phs[i])
    /\ \/ /\ page[at] # NoFrame
          /\ at' = at + 1
          /\ UNCHANGED <<pc, loader, space, content, free, tasks, execs>>
       \/ page[at] = NoFrame /\ free = {} /\ Stop("failed")
       \/ page[at] = NoFrame /\ free # {} /\ TablePanic(at) /\ Stop("panic")
       \/ /\ page[at] = NoFrame /\ ~ TablePanic(at)
          /\ \E f \in free : IsLowest(f, free) /\ map_zeroed(at, f)
          /\ at' = at + 1
          /\ UNCHANGED <<pc, loader, tasks, execs>>

(* The file bytes of the segment are copied, page by page.  A page that is *)
(* not mapped (filesz beyond memsz) ends the load.                         *)
copy_segment ==
    /\ pc = "map" /\ at >= PageEnd(prog.phs[i])
    /\ LET ph == prog.phs[i]
           bytes == [k \in 1 .. ph.filesz |-> FileByte(ph.offset + k - 1)]
       IN \/ /\ \E k \in 0 .. ph.filesz - 1 : ~ Mapped(ph.vaddr + k)
             /\ Stop("failed")
          \/ /\ \A k \in 0 .. ph.filesz - 1 : Mapped(ph.vaddr + k)
             /\ content' = Written(content, ph.vaddr, bytes)
             /\ i' = i + 1 /\ pc' = "segment"
             /\ UNCHANGED <<at, prog, phdr, sp, space, free, tasks, execs>>

loaded ==
    /\ pc = "segment" /\ i > Len(prog.phs)
    /\ pc' = "stack" /\ at' = StackBase
    /\ UNCHANGED <<loader, space, content, free, tasks, execs>>

(* A page of the user stack, whatever was mapped there.                    *)
map_stack ==
    /\ pc = "stack" /\ at < NPages
    /\ \/ free = {} /\ Stop("failed")
       \/ free # {} /\ TablePanic(at) /\ Stop("panic")
       \/ /\ ~ TablePanic(at)
          /\ \E f \in free : IsLowest(f, free) /\ map_zeroed(at, f)
          /\ at' = at + 1
          /\ UNCHANGED <<pc, loader, tasks, execs>>

-----------------------------------------------------------------------------
(* build_initial_stack.                                                    *)

(* push_user_bytes: st is the stack pointer and the frames, or has ok      *)
(* FALSE once a push found no room.                                        *)
push_user_bytes(st, bytes, align) ==
    LET top == st.sp - Len(bytes)
        a == (top \div align) * align
    IN IF st.ok /\ top >= 0 /\ \A k \in 0 .. Len(bytes) - 1 : Mapped(a + k)
       THEN [ok |-> TRUE, sp |-> a, frames |-> Written(st.frames, a, bytes)]
       ELSE [st EXCEPT !.ok = FALSE]

push_user_u64(st, v) == push_user_bytes(st, WordBytes(v), WORD)

execfn == LET n == IF prog.name < EXE_PATH_MAX THEN prog.name ELSE EXE_PATH_MAX
          IN [k \in 1 .. n + 2 |-> IF k = n + 2 THEN Zero ELSE NameByte(k - 1)]

random_bytes == [k \in 1 .. ALIGN |-> RandomByte(k)]

AT_NULL == 0
AT_PHDR == 3
AT_ENTRY == 9
AT_RANDOM == 25
AT_EXECFN == 31

auxv(random_ptr, execfn_ptr) ==
    << <<AT_PHDR, phdr>>, <<4, prog.phent>>, <<5, Len(prog.phs)>>, <<6, PAGE_SIZE>>,
       <<AT_ENTRY, prog.entry>>, <<11, Creds[1]>>, <<12, Creds[2]>>, <<13, Creds[3]>>,
       <<14, Creds[4]>>, <<23, 0>>, <<AT_RANDOM, random_ptr>>, <<AT_EXECFN, execfn_ptr>>,
       <<AT_NULL, 0>> >>

push_words(st, words) == FoldLeft(push_user_u64, st, words)

initial_stack_Unaligned ==
    LET s1 == push_user_bytes([ok |-> TRUE, sp |-> USER_STACK_TOP, frames |-> content], execfn, 1)
        s2 == push_user_bytes(s1, random_bytes, WORD)
        aux == FlattenSeq([k \in 1 .. 13 |-> <<auxv(s2.sp, s1.sp)[14 - k][2], auxv(s2.sp, s1.sp)[14 - k][1]>>])
    IN push_words(s2, aux \o <<0, 0, s1.sp, 1>>)

initial_stack ==
    LET s1 == push_user_bytes([ok |-> TRUE, sp |-> USER_STACK_TOP, frames |-> content], execfn, 1)
        s2 == push_user_bytes(s1, random_bytes, ALIGN)
        aux == FlattenSeq([k \in 1 .. 13 |-> <<auxv(s2.sp, s1.sp)[14 - k][2], auxv(s2.sp, s1.sp)[14 - k][1]>>])
    IN push_words(s2, aux \o <<0, 0, s1.sp, 1>>)

build_initial_stack ==
    /\ pc = "stack" /\ at = NPages
    /\ content' = initial_stack.frames
    /\ sp' = (initial_stack.sp \div ALIGN) * ALIGN
    /\ pc' = IF initial_stack.ok THEN "spawn" ELSE "failed"
    /\ UNCHANGED <<at, prog, i, phdr, space, free, tasks, execs>>

(* spawn_user_task: a free slot of the task table and a kernel stack.      *)
spawn_user_task ==
    /\ pc = "spawn"
    /\ LET Runs == {f \in free : \A k \in 0 .. KSTACK - 1 : f + k \in free} IN
       \/ (tasks = MAX_TASKS \/ Runs = {}) /\ Stop("failed")
       \/ /\ tasks < MAX_TASKS
          /\ \E f \in Runs : IsLowest(f, Runs) /\ free' = free \ (f .. f + KSTACK - 1)
          /\ tasks' = tasks + 1
          /\ pc' = "started"
          /\ UNCHANGED <<at, loader, space, content, execs>>

Next == exec_as_task \/ check_header \/ next_segment \/ map_segment \/ copy_segment \/ loaded
        \/ map_stack \/ build_initial_stack \/ spawn_user_task

Spec == Init /\ [][Next]_vars

-----------------------------------------------------------------------------
(* The segments that count.                                                *)
Loads == {k \in 1 .. Len(prog.phs) : prog.phs[k].type = "PT_LOAD" /\ prog.phs[k].memsz > 0}

(* What the ELF format asks of a file: file sizes within memory sizes,     *)
(* segments that do not overlap, and here none in the stack.               *)
WellFormed ==
    /\ \A k \in Loads : prog.phs[k].filesz <= prog.phs[k].memsz
                        /\ prog.phs[k].vaddr + prog.phs[k].memsz <= StackBase * PAGE_SIZE
    /\ \A j, k \in Loads : j # k =>
        \/ prog.phs[j].vaddr + prog.phs[j].memsz <= prog.phs[k].vaddr
        \/ prog.phs[k].vaddr + prog.phs[k].memsz <= prog.phs[j].vaddr

(* A program that was started sees its image: every byte of a segment is   *)
(* the byte of the file or zero, and so is the rest of the pages, although *)
(* segments share pages and frames come with old contents (load_into).     *)
MemoryIsImage ==
    (pc = "started" /\ WellFormed) =>
        /\ \A k \in Loads : \A o \in 0 .. prog.phs[k].memsz - 1 :
            Mapped(prog.phs[k].vaddr + o) /\
            At(content, prog.phs[k].vaddr + o) =
                IF o < prog.phs[k].filesz THEN FileByte(prog.phs[k].offset + o) ELSE Zero
        /\ \A a \in 0 .. sp - 1 : Mapped(a) =>
            \/ At(content, a) = Zero
            \/ \E k \in Loads : a \in prog.phs[k].vaddr .. prog.phs[k].vaddr + prog.phs[k].filesz - 1

(* The value of the word at address a, or -1 if there is no whole word.    *)
WordAt(a) ==
    LET b == [k \in 1 .. WORD |-> At(content, a + k - 1)]
    IN IF \E v \in {0} \cup {b[k][2] : k \in 1 .. WORD} : b = WordBytes(v)
       THEN CHOOSE v \in {0} \cup {b[k][2] : k \in 1 .. WORD} : b = WordBytes(v)
       ELSE -1

(* A program that was started finds what the ABI promises from its stack   *)
(* pointer up, whatever the length of its name: argc, argv, the end of     *)
(* envp and the auxiliary vector, whose pointers lead to the name and to   *)
(* the random bytes; and the pointer is aligned (build_initial_stack).     *)
StackABI ==
    pc = "started" =>
        LET aux(k) == <<WordAt(sp + (2 * k + 2) * WORD), WordAt(sp + (2 * k + 3) * WORD)>>
            argv0 == WordAt(sp + WORD)
            random == aux(11)[2]
        IN /\ sp % ALIGN = 0
           /\ WordAt(sp) = 1 /\ WordAt(sp + 2 * WORD) = 0 /\ WordAt(sp + 3 * WORD) = 0
           /\ \A k \in 1 .. Len(execfn) : At(content, argv0 + k - 1) = execfn[k]
           /\ [k \in 1 .. 13 |-> aux(k)] = auxv(random, argv0)
           /\ \A k \in 1 .. ALIGN : At(content, random + k - 1) = RandomByte(k)

(* The address that the auxiliary vector gives for the program headers,    *)
(* if it gives one, is where the first byte of them was loaded, whichever  *)
(* segment of the file holds it (load_into).                               *)
PhdrInMemory ==
    (pc = "started" /\ WellFormed /\ phdr # 0) =>
        At(content, phdr) = FileByte(prog.phoff)

(* What a comment in exec_as_task says of the user stack: its frames are   *)
(* one contiguous block of physical memory.                                *)
StackContiguous ==
    pc = "started" => \A p \in StackBase + 1 .. NPages - 1 : page[p] = page[p - 1] + 1
=============================================================================
