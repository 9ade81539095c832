------------------------------- MODULE RamFs --------------------------------
(***************************************************************************)
(* The RAM file system and the open descriptions on it: fs.rs, vfs.rs,     *)
(* syscall/fs.rs, the file system calls of syscall/vfs.rs and              *)
(* syscall/io.rs, and read_file, write_file and seek of proc/fd.rs.        *)
(*                                                                         *)
(* A description stores the index of its file in the vector of files, not  *)
(* the file; id is a history value that tells files apart.  Descriptors    *)
(* and their counts are in Fd: here a description is open or closed.       *)
(* System calls are atomic; one that fails without effect is a stuttering  *)
(* step.                                                                   *)
(***************************************************************************)
EXTENDS Integers, Sequences, SequencesExt

CONSTANTS
    Names,        \* normalised file names
    Bytes,        \* the values of a byte, 0 among them
    Descs,        \* the entries of OPEN_FILES
    OpenModes,    \* the flags that open is called with
    MaxSize,      \* bound: the size of a file, and the largest offset
    MaxFiles      \* bound: files ever created

(* What is assumed of the constants.                                      *)
RamFsAssumption ==
    /\ 0 \in Bytes /\ MaxSize \in Nat /\ MaxFiles \in Nat
    /\ OpenModes \subseteq [acc : {"r", "w", "rw"}, creat : BOOLEAN,
                            excl : BOOLEAN, trunc : BOOLEAN, append : BOOLEAN]

VARIABLES
    files,      \* RamFS.files: [name, data, id]
    open,       \* OPEN_FILES: [file_idx, offset, acc, append, id], or Closed
    created,    \* history: the number of files ever created
    shifted,    \* history: descriptions at or behind a file that was removed
    target,     \* history: the file that the last call meant, -1 if it went through a
                \* description in shifted
    wrote,      \* history: the last write, [idx, at, bytes, append], or NoWrite
    panicked    \* the kernel has panicked

vars == <<files, open, created, shifted, target, wrote, panicked>>

Closed == [file_idx |-> 0, offset |-> 0, acc |-> "closed", append |-> FALSE, id |-> 0]
NoWrite == [idx |-> -1, at |-> 0, bytes |-> <<>>, append |-> FALSE]
Buffers == {<<>>} \cup {<<b>> : b \in Bytes} \cup {<<b, c>> : b \in Bytes, c \in Bytes}
Offsets == 0 .. MaxSize

IsOpen(d) == open[d].acc # "closed"
Valid(fs, i) == i < Len(fs)
Zeros(n) == [k \in 1 .. n |-> 0]

(* fs_find_idx: positions are counted from 0, as in the code.              *)
Find(fs, n) == {i \in 0 .. Len(fs) - 1 : fs[i + 1].name = n}

fs_file_size(fs, i) == IF Valid(fs, i) THEN Len(fs[i + 1].data) ELSE 0

(* Vec::resize.                                                            *)
Resize(data, n) ==
    IF n <= Len(data) THEN SubSeq(data, 1, n) ELSE data \o Zeros(n - Len(data))

fs_resize(fs, i, n) == [fs EXCEPT ![i + 1].data = Resize(@, n)]

fs_write_at_Truncates(fs, i, off, bytes) ==
    [fs EXCEPT ![i + 1].data = Resize(@, off) \o bytes]

fs_write_at(fs, i, off, bytes) ==
    LET old == fs[i + 1].data
        n == off + Len(bytes)
        data == IF n > Len(old) THEN Resize(old, n) ELSE old
    IN  [fs EXCEPT ![i + 1].data =
            [k \in 1 .. Len(data) |->
                IF off < k /\ k <= n THEN bytes[k - off] ELSE data[k]]]

(* How many bytes a read of n gets; fs_read and fs_read_to_vec.            *)
fs_read(fs, i, off, n) ==
    LET size == fs_file_size(fs, i)
    IN  IF off >= size THEN 0 ELSE IF n <= size - off THEN n ELSE size - off

(* fs_read_to_vec slices at off even when that is past the end.            *)
SlicePanics(fs, i, off) == Valid(fs, i) /\ off > fs_file_size(fs, i)

(* RamFS::create and RamFS::remove; Vec::remove moves the later files up.  *)
Create_Front(fs, n) == <<[name |-> n, data |-> <<>>, id |-> created + 1]>> \o fs
Create(fs, n) == Append(fs, [name |-> n, data |-> <<>>, id |-> created + 1])

RemoveFile(fs, i) == RemoveAt(fs, i + 1)

(* write_file of proc/fd.rs: where a write lands.                          *)
WriteOffset_Cached(o, fs) == o.offset
WriteOffset(o, fs) == IF o.append THEN fs_file_size(fs, o.file_idx) ELSE o.offset
MayWrite(o, fs) == o.acc \in {"w", "rw"} /\ Valid(fs, o.file_idx)

TypeOK ==
    /\ files \in Seq([name : Names, data : Seq(Bytes), id : 1 .. MaxFiles])
    /\ open \in [Descs -> [file_idx : 0 .. MaxFiles - 1, offset : Nat, id : 0 .. MaxFiles,
                           acc : {"closed", "r", "w", "rw"}, append : BOOLEAN]]
    /\ created \in 0 .. MaxFiles
    /\ shifted \subseteq Descs
    /\ target \in -1 .. MaxFiles
    /\ panicked \in BOOLEAN

Init ==
    /\ files = <<>> /\ open = [d \in Descs |-> Closed]
    /\ created = 0 /\ shifted = {} /\ target = 0 /\ wrote = NoWrite /\ panicked = FALSE

-----------------------------------------------------------------------------
(* Calls by name.                                                          *)

NameCall(fs, n) ==
    /\ ~ panicked
    /\ files' = fs
    /\ target' = IF Find(files, n) = {} THEN created + 1
                 ELSE files[(CHOOSE i \in Find(files, n) : TRUE) + 1].id
    /\ wrote' = NoWrite

touch(n) ==
    /\ Find(files, n) = {} /\ created < MaxFiles
    /\ NameCall(Create(files, n), n)
    /\ created' = created + 1
    /\ UNCHANGED <<open, shifted, panicked>>

(* rm and unlinkat.                                                        *)
rm(n) ==
    \E i \in Find(files, n) :
        /\ NameCall(RemoveFile(files, i), n)
        /\ shifted' = shifted \cup {d \in Descs : IsOpen(d) /\ open[d].file_idx >= i}
        /\ UNCHANGED <<open, created, panicked>>

truncate(n, len) ==
    \E i \in Find(files, n) :
        /\ NameCall(fs_resize(files, i, len), n)
        /\ UNCHANGED <<open, created, shifted, panicked>>

(* write_file and push_file: replace_all and append_all.                   *)
write_file(n, bytes) ==
    \E i \in Find(files, n) :
        /\ NameCall([files EXCEPT ![i + 1].data = bytes], n)
        /\ UNCHANGED <<open, created, shifted, panicked>>

push_file(n, bytes) ==
    \E i \in Find(files, n) :
        /\ Len(files[i + 1].data) + Len(bytes) <= MaxSize
        /\ NameCall([files EXCEPT ![i + 1].data = @ \o bytes], n)
        /\ UNCHANGED <<open, created, shifted, panicked>>

(* open_path.  The file is made or truncated before an entry of OPEN_FILES *)
(* is looked for, and stays so when there is none.                         *)
open_path(n, m) ==
    LET new == Find(files, n) = {}
        fs == IF new THEN Create(files, n) ELSE files
    IN  /\ m.trunc => m.acc # "r"
        /\ IF new THEN m.creat /\ created < MaxFiles ELSE ~ (m.creat /\ m.excl)
        /\ \E i \in Find(fs, n) :
            /\ NameCall(IF m.trunc THEN fs_resize(fs, i, 0) ELSE fs, n)
            /\ IF \A d \in Descs : IsOpen(d)
               THEN UNCHANGED open
               ELSE \E d \in Descs :
                    /\ ~ IsOpen(d) /\ \A e \in Descs : e < d => IsOpen(e)
                    /\ open' = [open EXCEPT ![d] =
                        [file_idx |-> i, offset |-> 0, acc |-> m.acc, append |-> m.append,
                         id |-> fs[i + 1].id]]
        /\ created' = IF new THEN created + 1 ELSE created
        /\ UNCHANGED <<shifted, panicked>>

-----------------------------------------------------------------------------
(* Calls on a description.                                                 *)

DescCall(d, fs) ==
    /\ ~ panicked /\ IsOpen(d)
    /\ files' = fs
    /\ target' = IF d \in shifted THEN -1 ELSE open[d].id

(* The last descriptor of the description is closed.                       *)
close(d) ==
    /\ DescCall(d, files)
    /\ open' = [open EXCEPT ![d] = Closed]
    /\ shifted' = shifted \ {d}
    /\ wrote' = NoWrite
    /\ UNCHANGED <<created, panicked>>

(* seek: the new offset may be past the end, never below 0.                *)
seek(d, delta, whence) ==
    LET base == CASE whence = "SEEK_SET" -> 0
                  [] whence = "SEEK_CUR" -> open[d].offset
                  [] whence = "SEEK_END" -> fs_file_size(files, open[d].file_idx)
    IN  /\ DescCall(d, files)
        /\ base + delta \in Offsets
        /\ open' = [open EXCEPT ![d].offset = base + delta]
        /\ wrote' = NoWrite
        /\ UNCHANGED <<created, shifted, panicked>>

ftruncate_ByDesc(d, len) ==
    /\ Valid(files, d)
    /\ DescCall(d, fs_resize(files, d, len))
    /\ wrote' = NoWrite
    /\ UNCHANGED <<open, created, shifted, panicked>>

ftruncate(d, len) ==
    /\ Valid(files, open[d].file_idx)
    /\ DescCall(d, fs_resize(files, open[d].file_idx, len))
    /\ wrote' = NoWrite
    /\ UNCHANGED <<open, created, shifted, panicked>>

read(d, n) ==
    /\ open[d].acc \in {"r", "rw"}
    /\ DescCall(d, files)
    /\ open' = [open EXCEPT ![d].offset = @ + fs_read(files, open[d].file_idx, @, n)]
    /\ wrote' = NoWrite
    /\ UNCHANGED <<created, shifted, panicked>>

(* A write_to_fd that reaches a file.  writev on a file is one, of all its *)
(* buffers: each is taken whole and starts where the one before ended.     *)
Written(d, bytes) ==
    LET at == WriteOffset(open[d], files)
    IN  [fs |-> fs_write_at(files, open[d].file_idx, at, bytes),
         ds |-> [open EXCEPT ![d].offset = at + Len(bytes)],
         last |-> [idx |-> open[d].file_idx, at |-> at, bytes |-> bytes,
                   append |-> open[d].append]]

DoWrite(d, w) ==
    /\ DescCall(d, w.fs)
    /\ \A i \in 1 .. Len(w.fs) : Len(w.fs[i].data) <= MaxSize
    /\ open' = w.ds
    /\ wrote' = w.last
    /\ UNCHANGED <<created, shifted, panicked>>

write(d, bytes) ==
    MayWrite(open[d], files) /\ DoWrite(d, Written(d, bytes))

(* pwrite64 and pwritev: at the offset given, also under O_APPEND.         *)
pwrite64(d, off, bytes) ==
    /\ MayWrite(open[d], files)
    /\ DoWrite(d, [fs |-> fs_write_at(files, open[d].file_idx, off, bytes), ds |-> open,
                   last |-> [idx |-> open[d].file_idx, at |-> off, bytes |-> bytes,
                             append |-> FALSE]])

(* pread64 and preadv move no offset; past the end the slice panics.       *)
pread64(d, off) ==
    /\ open[d].acc \in {"r", "rw"}
    /\ DescCall(d, files)
    /\ panicked' = SlicePanics(files, open[d].file_idx, off)
    /\ wrote' = NoWrite
    /\ UNCHANGED <<open, created, shifted>>

(* sendfile from the offset of the description in to the description out,  *)
(* which may be the same one.                                              *)
sendfile(out, in, n) ==
    LET i == open[in].file_idx
        from == open[in].offset
        bytes == SubSeq(files[i + 1].data, from + 1, from + fs_read(files, i, from, n))
        w == Written(out, bytes)
    IN  /\ ~ panicked /\ IsOpen(in) /\ open[in].acc \in {"r", "rw"} /\ Valid(files, i)
        /\ IsOpen(out) /\ MayWrite(open[out], files)
        /\ IF SlicePanics(files, i, from)
           THEN /\ panicked' = TRUE /\ target' = 0
                /\ UNCHANGED <<files, open, created, shifted, wrote>>
           ELSE DoWrite(out, [w EXCEPT !.ds[in].offset = from + Len(bytes)])

ByName ==
    \E n \in Names :
        \/ touch(n)
        \/ rm(n)
        \/ \E len \in Offsets : truncate(n, len)
        \/ \E b \in Buffers : write_file(n, b) \/ push_file(n, b)
        \/ \E m \in OpenModes : open_path(n, m)

ByDesc ==
    \E d \in Descs :
        \/ close(d)
        \/ \E x \in -MaxSize .. MaxSize, w \in {"SEEK_SET", "SEEK_CUR", "SEEK_END"} : seek(d, x, w)
        \/ \E len \in Offsets : ftruncate(d, len)
        \/ \E n \in 1 .. MaxSize : read(d, n)
        \/ \E b \in Buffers : write(d, b)
        \/ \E b \in Buffers, off \in Offsets : pwrite64(d, off, b)
        \/ \E off \in Offsets : pread64(d, off)
        \/ \E in \in Descs, n \in 1 .. MaxSize : sendfile(d, in, n)

Next == ByName \/ ByDesc

Spec == Init /\ [][Next]_vars

-----------------------------------------------------------------------------
(* Properties.                                                             *)

(* A description leads to the file it was opened on for as long as no file *)
(* at or before that file is removed, whatever else is created, removed,   *)
(* written, truncated or opened.                                           *)
RefersToOpened ==
    \A d \in Descs :
        IsOpen(d) /\ d \notin shifted =>
            /\ Valid(files, open[d].file_idx)
            /\ files[open[d].file_idx + 1].id = open[d].id

(* No call changes the bytes of a file other than the one it was called    *)
(* on, by name or through a description that was not shifted.              *)
OnlyTargetChanges ==
    [][\A i \in 1 .. Len(files), j \in 1 .. Len(files') :
        /\ files[i].id = files'[j].id
        /\ files[i].data # files'[j].data
        => target' \in {files[i].id, -1}]_vars

(* fs_write_at against its reference: the bytes written are there, what    *)
(* was before and after them stays, and a gap after the old end is zero.   *)
WriteExact ==
    [][wrote' # NoWrite =>
        LET new == files'[wrote'.idx + 1].data
            old == files[wrote'.idx + 1].data
            end == wrote'.at + Len(wrote'.bytes)
        IN  /\ Len(new) = IF end > Len(old) THEN end ELSE Len(old)
            /\ \A k \in 1 .. Len(new) :
                new[k] = IF wrote'.at < k /\ k <= end THEN wrote'.bytes[k - wrote'.at]
                         ELSE IF k <= Len(old) THEN old[k] ELSE 0]_vars

(* A write through a description opened with O_APPEND overwrites no byte,  *)
(* whoever else writes, truncates or seeks: write_file looks at the size   *)
(* again each time.                                                        *)
AppendKeepsBytes ==
    [][wrote'.append =>
        IsPrefix(files[wrote'.idx + 1].data, files'[wrote'.idx + 1].data)]_vars

(* state.rs:32 says of file_idx: "Index into `RamFS.files`."               *)
IndexIntoFiles ==
    \A d \in Descs : IsOpen(d) => Valid(files, open[d].file_idx)

(* fs_read_to_vec computes what is available with saturating_sub, so that  *)
(* an offset past the end would give nothing; the slice must not panic.    *)
NoPanic == ~ panicked
=============================================================================
