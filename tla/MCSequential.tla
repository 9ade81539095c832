---------------------------- MODULE MCSequential ----------------------------
(***************************************************************************)
(* Instances for TLC of the parts whose calls run to their end one after   *)
(* the other: the kernel heap, the RAM file system, the program loader and *)
(* the text console.  They share no state, so each behaviour runs one of   *)
(* them and leaves the others as they start.                               *)
(***************************************************************************)
EXTENDS Integers, Sequences

CONSTANTS d, f, g, h      \* names of files

VARIABLES
    part,                                                    \* the one that runs
    page, free_head, free_count, link, frames, held,         \* Heap
    files, open, created, shifted, target, wrote, panicked,  \* RamFs
    pc, prog, seg, at, user_page, tables, phdr, sp, content, free, tasks, execs,   \* Exec
    x, y, scale, ink, garbled, redrawn, grown, want          \* Console

(* Pages of three slots of two units or of two slots of three.             *)
Heap == INSTANCE Heap WITH
    PAGE_SIZE <- 6, SIZE_CLASSES <- <<2, 3>>, MAX_SLABS_PER_CLASS <- 2, NFrames <- 3,
    Sizes <- {2, 3, 7}

Mode(a, c, e, t, p) == [acc |-> a, creat |-> c, excl |-> e, trunc |-> t, append |-> p]

(* One name, two bytes, sizes up to three: what is written and read.       *)
Data == INSTANCE RamFs WITH
    Names <- {d}, Bytes <- {0, 1}, Descs <- {0, 1}, MaxSize <- 3, MaxFiles <- 1,
    OpenModes <- {Mode("rw", TRUE, FALSE, FALSE, FALSE), Mode("w", FALSE, FALSE, TRUE, TRUE)}

(* Three names: which file a description and a call mean.                  *)
Index == INSTANCE RamFs WITH
    Names <- {f, g, h}, Bytes <- {0}, Descs <- {0, 1}, MaxSize <- 1, MaxFiles <- 3,
    OpenModes <- {Mode("rw", FALSE, FALSE, FALSE, FALSE), Mode("rw", TRUE, TRUE, FALSE, FALSE)}

Seg(off, addr, fsz, msz) ==
    [type |-> "PT_LOAD", offset |-> off, vaddr |-> addr, filesz |-> fsz, memsz |-> msz]
Note == [type |-> "PT_NOTE", offset |-> 0, vaddr |-> 0, filesz |-> 2, memsz |-> 2]
Elf(len, phs) == [len |-> len, valid |-> TRUE, entry |-> 9, phoff |-> 2, phent |-> 2, phs |-> phs]

SmallPrograms ==
    { \* text and data that share a page, with zeroed memory behind the data
      Elf(14, <<Seg(0, 8, 10, 10), Note, Seg(10, 18, 4, 12)>>),
      \* the program headers are in the second segment of the file
      Elf(14, <<Seg(6, 20, 8, 8), Seg(1, 9, 5, 6)>>),
      \* zeroed memory only, and a segment without memory
      Elf(12, <<Seg(0, 7, 0, 11), Seg(0, 3, 0, 0)>>),
      \* a segment under the stack
      Elf(12, <<Seg(0, 30, 6, 6)>>),
      \* more bytes in the file than in memory
      Elf(14, <<Seg(0, 6, 10, 1)>>),
      \* refused: the segment is not in the file, the headers are not, ...
      Elf(8, <<Seg(4, 8, 10, 10)>>),
      Elf(3, <<Seg(0, 8, 1, 1)>>),
      [Elf(8, <<Seg(0, 8, 4, 4)>>) EXCEPT !.phoff = 7],
      [Elf(8, <<Seg(0, 8, 4, 4)>>) EXCEPT !.valid = FALSE],
      \* headers that are too short
      [Elf(8, <<Seg(0, 8, 4, 4)>>) EXCEPT !.phent = 1] }

Exec == INSTANCE Exec WITH
    Programs <- SmallPrograms, NameLens <- 0 .. 3, Creds <- <<101, 102, 103, 104>>,
    PAGE_SIZE <- 8, WORD <- 2, ALIGN <- 4, EHDR_LEN <- 4, PHDR_LEN <- 2, EXE_PATH_MAX <- 2,
    NPages <- 14, USER_STACK_PAGES <- 10, Span <- 5, NFrames <- 24, KSTACK <- 2,
    MAX_TASKS <- 1, MaxExecs <- 2, i <- seg, page <- user_page

(* Six columns and three lines of small cells.                             *)
Console == INSTANCE Console WITH
    FbW <- 75, FbH <- 168, MarginLeft <- 20, StartY <- 120, CellW <- 8, CellH <- 16,
    MaxScale <- 2, ScaleArgs <- 0 .. 3

ASSUME SequentialAssumption ==
    /\ Heap!HeapAssumption /\ Data!RamFsAssumption /\ Index!RamFsAssumption
    /\ Exec!ExecAssumption /\ Console!ConsoleAssumption

-----------------------------------------------------------------------------
heap == <<page, free_head, free_count, link, frames, held>>
fs == <<files, open, created, shifted, target, wrote, panicked>>
loader == <<pc, prog, seg, at, user_page, tables, phdr, sp, content, free, tasks, execs>>
screen == <<x, y, scale, ink, garbled, redrawn, grown, want>>
vars == <<part, heap, fs, loader, screen>>

HeapOff ==
    /\ page = 0 /\ free_head = 0 /\ free_count = 0 /\ link = 0 /\ frames = 0 /\ held = 0

LoaderOff ==
    /\ pc = 0 /\ prog = 0 /\ seg = 0 /\ at = 0 /\ user_page = 0 /\ tables = 0 /\ phdr = 0
    /\ sp = 0 /\ content = 0 /\ free = 0 /\ tasks = 0 /\ execs = 0

Init ==
    /\ part \in {"heap", "data", "index", "exec", "console"}
    /\ IF part = "heap" THEN Heap!Init ELSE HeapOff
    /\ IF part = "index" THEN Index!Init ELSE Data!Init
    /\ IF part = "exec" THEN Exec!Init ELSE LoaderOff
    /\ Console!Init

HeapNext == part = "heap" /\ Heap!Next /\ UNCHANGED <<part, fs, loader, screen>>
DataNext == part = "data" /\ Data!Next /\ UNCHANGED <<part, heap, loader, screen>>
IndexNext == part = "index" /\ Index!Next /\ UNCHANGED <<part, heap, loader, screen>>
ExecNext == part = "exec" /\ Exec!Next /\ UNCHANGED <<part, heap, fs, screen>>
ConsoleNext == part = "console" /\ Console!Next /\ UNCHANGED <<part, heap, fs, loader>>

Next == HeapNext \/ DataNext \/ IndexNext \/ ExecNext \/ ConsoleNext

Spec == Init /\ [][Next]_vars

-----------------------------------------------------------------------------
(* The properties of the modules, which explain them, with their type      *)
(* invariants.                                                             *)

(* alloc and dealloc: the blocks that callers hold are disjoint and in     *)
(* frames that the frame allocator does not have, the free list of a slab  *)
(* is made of exactly the slots of its page that nobody holds, and all     *)
(* memory comes back.                                                      *)
HeapSound ==
    part = "heap" =>
        Heap!TypeOK /\ Heap!BlocksDisjoint /\ Heap!FreeListExact /\ Heap!AllComesBack

(* fs_write_at, write_file: the bytes written are there, the others stay,  *)
(* gaps are zero, and a write with O_APPEND overwrites no byte.            *)
WritesExact == Data!WriteExact /\ Data!AppendKeepsBytes

(* fs_remove and open: a description leads to the file it was opened on    *)
(* for as long as no file at or before that one is removed.                *)
RefersToOpened ==
    /\ IF part = "index" THEN Index!TypeOK ELSE Data!TypeOK
    /\ Data!RefersToOpened

(* The calls of fs.rs: none changes a file other than the one it is for.   *)
OnlyTargetChanges == Data!OnlyTargetChanges

(* load_into, build_initial_stack: a program that was started sees its     *)
(* image and zeroes, its program headers where AT_PHDR says, and a stack   *)
(* that holds what the ABI promises.                                       *)
ProgramAsBuilt ==
    part = "exec" =>
        Exec!TypeOK /\ Exec!MemoryIsImage /\ Exec!PhdrInMemory /\ Exec!StackABI

(* write_byte_to_fb, tty_winsize: no printable byte is dropped or drawn    *)
(* over another one, but for the exceptions that Console names, and a      *)
(* program that stays inside the reported size but for its last row finds  *)
(* the cursor where it expects it.                                         *)
TextShown ==
    part = "console" =>
        /\ Console!TypeOK /\ Console!NextByteShown
        /\ Console!Legible /\ Console!CursorAsExpected
=============================================================================
