----------------------------- MODULE SealedFile -----------------------------
(***************************************************************************)
(* Write-once sealed files (sealed_file.rs): the streaming writer, the     *)
(* random-access reader, and seal_file_in_place, which replaces a          *)
(* plaintext file by its sealed form.  A byte of the plaintext is named by *)
(* its place.  A chunk opens at its own index only, and as the last chunk  *)
(* only if it was sealed as the last.                                      *)
(***************************************************************************)
EXTENDS Integers, Sequences, SequencesExt

CONSTANTS
  ChunkSize,
  MaxLen,     \* bounds the length of the plaintext
  MaxDamage   \* bounds crashes and damages of the disk

VARIABLES
  path,    \* what the path names: the plaintext, or a sealed file
  len,     \* length of the plaintext
  temp,    \* <name>.sealing
  job,     \* seal_file_in_place
  reader,  \* a reader of the sealed file
  got,     \* what its last read returned
  damage   \* crashes and damages so far

vars == <<path, len, temp, job, reader, got, damage>>

Plain == [i \in 1..len |-> i]

\* The chunks of a file that is there.
None == [kind |-> "none", chunks |-> <<>>]
PlainFile == [kind |-> "plain", chunks |-> <<>>]
Empty == [kind |-> "sealed", chunks |-> <<>>]

NoJob == [pc |-> "idle", read |-> 0, buffer |-> <<>>]
NoReader == [open |-> FALSE, count |-> 0, length |-> 0, position |-> 0,
             cached |-> [index |-> -1, data |-> <<>>]]
Nothing == [from |-> 0, data |-> <<>>]

IsChunk(c) ==
  c.index \in 0..MaxLen /\ c.last \in BOOLEAN /\ c.cut \in BOOLEAN /\ Len(c.data) <= ChunkSize

TypeOK ==
  /\ len \in 0..MaxLen
  /\ \A f \in {path, temp} : f.kind \in {"none", "plain", "sealed"} /\ \A i \in DOMAIN f.chunks : IsChunk(f.chunks[i])
  /\ job.pc \in {"idle", "copy", "verify", "rename"}
  /\ job.read \in 0..len /\ Len(job.buffer) <= ChunkSize
  /\ reader.position \in 0..MaxLen /\ reader.count * ChunkSize >= reader.length
  /\ damage \in 0..MaxDamage

Init ==
  /\ len \in 0..MaxLen
  /\ path = PlainFile /\ temp = None
  /\ job = NoJob /\ reader = NoReader /\ got = Nothing
  /\ damage = 0

-----------------------------------------------------------------------------
(* The writer.                                                             *)

Chunk(last) ==
  [index |-> Len(temp.chunks), last |-> last, data |-> job.buffer, cut |-> FALSE]

\* A stale copy of an earlier attempt goes.
Start ==
  /\ job.pc = "idle" /\ path.kind = "plain"
  /\ job' = [NoJob EXCEPT !.pc = "copy"] /\ temp' = Empty
  /\ UNCHANGED <<path, len, reader, got, damage>>

\* write_plain, byte by byte: a full chunk is sealed when another byte follows.
Copy ==
  /\ job.pc = "copy" /\ job.read < len
  /\ LET byte == job.read + 1
         full == Len(job.buffer) = ChunkSize IN
     /\ temp' = IF full THEN [temp EXCEPT !.chunks = Append(@, Chunk(FALSE))] ELSE temp
     /\ job' = [job EXCEPT !.read = byte, !.buffer = IF full THEN <<byte>> ELSE Append(@, byte)]
  /\ UNCHANGED <<path, len, reader, got, damage>>

Finish ==
  /\ job.pc = "copy" /\ job.read = len
  /\ temp' = [temp EXCEPT !.chunks = Append(@, Chunk(TRUE))]
  /\ job' = [job EXCEPT !.pc = "verify", !.buffer = <<>>]
  /\ UNCHANGED <<path, len, reader, got, damage>>

-----------------------------------------------------------------------------
(* The reader.                                                             *)

\* Faulty form: the nonce does not tell the last chunk.
OpensAnyLast(file, index, count) ==
  /\ index < Len(file.chunks)
  /\ LET chunk == file.chunks[index + 1] IN ~chunk.cut /\ chunk.index = index

\* load_chunk: whether the chunk that stands at an index opens there.
Opens(file, index, count) ==
  /\ index < Len(file.chunks)
  /\ LET chunk == file.chunks[index + 1] IN
     ~chunk.cut /\ chunk.index = index /\ chunk.last = (index + 1 = count)

\* Only the size of the file tells how many chunks there are, so that all but the last
\* must be full; open loads the last one.
Openable(file) ==
  /\ file.kind = "sealed" /\ file.chunks # <<>>
  /\ \A i \in 1..Len(file.chunks) - 1 : Len(file.chunks[i].data) = ChunkSize
  /\ Opens(file, Len(file.chunks) - 1, Len(file.chunks))

LengthOf(file) == (Len(file.chunks) - 1) * ChunkSize + Len(Last(file.chunks).data)

Cached(file, index) == [index |-> index, data |-> file.chunks[index + 1].data]

OpenReader ==
  /\ ~reader.open /\ Openable(path)
  /\ reader' = [open |-> TRUE, count |-> Len(path.chunks), length |-> LengthOf(path),
                position |-> 0, cached |-> Cached(path, Len(path.chunks) - 1)]
  /\ got' = Nothing
  /\ UNCHANGED <<path, len, temp, job, damage>>

\* The chunk it has loaded last is at hand; another is read from the disk as it is now.
Loads(index) == index = reader.cached.index \/ Opens(path, index, reader.count)
Loaded(index) == IF index = reader.cached.index THEN reader.cached ELSE Cached(path, index)

ByteAt(p) == Loaded(p \div ChunkSize).data[(p % ChunkSize) + 1]
BytesOf(from, to) == [i \in 1..to - from |-> ByteAt(from + i - 1)]

AtMost(n) == IF n > reader.length THEN reader.length ELSE n

\* The chunks of the range that load before the first that does not.
Before(from, to) ==
  {c \in from \div ChunkSize..(to - 1) \div ChunkSize : \A b \in from \div ChunkSize..c : Loads(b)}

ReadRange ==
  /\ reader.open
  /\ \E from \in 0..MaxLen, to \in 1..MaxLen :
       LET end == AtMost(to)
           last == (end - 1) \div ChunkSize IN
       /\ from < end
       /\ got' = IF last \in Before(from, end) THEN [from |-> from, data |-> BytesOf(from, end)] ELSE Nothing
       /\ reader' = IF Before(from, end) = {} THEN reader
                    ELSE [reader EXCEPT !.cached =
                            Loaded(CHOOSE c \in Before(from, end) : c + 1 \notin Before(from, end))]
  /\ UNCHANGED <<path, len, temp, job, damage>>

Seek ==
  /\ reader.open
  /\ \E to \in 0..MaxLen : reader' = [reader EXCEPT !.position = to]
  /\ got' = Nothing
  /\ UNCHANGED <<path, len, temp, job, damage>>

\* One read ends with its chunk at the latest.
Read ==
  /\ reader.open /\ reader.position < reader.length
  /\ \E count \in 1..ChunkSize :
       LET at == reader.position
           index == at \div ChunkSize
           within == IF at + count > (index + 1) * ChunkSize THEN (index + 1) * ChunkSize ELSE at + count IN
       IF Loads(index)
         THEN /\ got' = [from |-> at, data |-> BytesOf(at, AtMost(within))]
              /\ reader' = [reader EXCEPT !.position = AtMost(within), !.cached = Loaded(index)]
         ELSE got' = Nothing /\ UNCHANGED reader
  /\ UNCHANGED <<path, len, temp, job, damage>>

CloseReader ==
  /\ reader.open
  /\ reader' = NoReader /\ got' = Nothing
  /\ UNCHANGED <<path, len, temp, job, damage>>

-----------------------------------------------------------------------------
(* The replacement.                                                        *)

\* The whole of a file, as a reader with nothing at hand decrypts it.
Decrypts(file) ==
  Openable(file) /\ \A i \in 1..Len(file.chunks) : Opens(file, i - 1, Len(file.chunks))
Decrypted(file) == FlattenSeq([i \in 1..Len(file.chunks) |-> file.chunks[i].data])

\* Faulty form: it is enough that the copy opens.
VerifyOpens ==
  /\ job.pc = "verify"
  /\ IF Openable(temp) THEN job' = [job EXCEPT !.pc = "rename"] /\ UNCHANGED temp
                       ELSE job' = NoJob /\ temp' = None
  /\ UNCHANGED <<path, len, reader, got, damage>>

\* The copy is read back and compared with what was written.
Verify ==
  /\ job.pc = "verify"
  /\ IF Decrypts(temp) /\ Decrypted(temp) = Plain
       THEN job' = [job EXCEPT !.pc = "rename"] /\ UNCHANGED temp
       ELSE job' = NoJob /\ temp' = None
  /\ UNCHANGED <<path, len, reader, got, damage>>

Rename ==
  /\ job.pc = "rename"
  /\ path' = temp /\ temp' = None /\ job' = NoJob
  /\ UNCHANGED <<len, reader, got, damage>>

\* No room, or a step fails, and the copy is removed.
Fails ==
  /\ job.pc # "idle"
  /\ job' = NoJob /\ temp' = None
  /\ UNCHANGED <<path, len, reader, got, damage>>

-----------------------------------------------------------------------------
(* What goes wrong around it.                                              *)

Cuts(file) ==
  {[file EXCEPT !.chunks = SubSeq(@, 1, n)] : n \in 0..Len(file.chunks) - 1} \cup
  {[file EXCEPT !.chunks[n].cut = TRUE] : n \in DOMAIN file.chunks}

Exchanges(file) ==
  {[file EXCEPT !.chunks = [@ EXCEPT ![i] = file.chunks[j], ![j] = file.chunks[i]]] :
     i, j \in DOMAIN file.chunks}

\* The process dies, and with it what the copy had not on disk yet.
Crash ==
  /\ damage < MaxDamage
  /\ damage' = damage + 1
  /\ job' = NoJob /\ reader' = NoReader /\ got' = Nothing
  /\ temp' \in {temp} \cup IF job.pc = "copy" THEN Cuts(temp) ELSE {}
  /\ UNCHANGED <<path, len>>

\* A copy that waits to be verified, or a sealed file that may be open, is cut off or
\* altered, or its chunks are exchanged.
DiskDamage ==
  /\ damage < MaxDamage
  /\ damage' = damage + 1
  /\ \/ job.pc = "verify" /\ temp' \in Cuts(temp) \cup Exchanges(temp) /\ UNCHANGED path
     \/ path.kind = "sealed" /\ path' \in Cuts(path) \cup Exchanges(path) /\ UNCHANGED temp
  /\ UNCHANGED <<len, job, reader, got>>

Next ==
  \/ Start \/ Copy \/ Finish \/ Verify \/ Rename \/ Fails
  \/ OpenReader \/ ReadRange \/ Seek \/ Read \/ CloseReader
  \/ Crash \/ DiskDamage

Spec == Init /\ [][Next]_vars

-----------------------------------------------------------------------------
(* Properties.                                                             *)

\* A reader tells the true length, and gives the bytes of the plaintext at the place it was
\* asked for, or an error: whatever was cut off, altered or exchanged before it opened the
\* file or since, and whatever it has at hand (open, load_chunk, read_range, read).
ReadsTheTruth ==
  /\ reader.open => reader.length = len
  /\ \A i \in DOMAIN got.data : got.data[i] = got.from + i

\* The plaintext goes only when a copy that reads back as all of it takes its place
\* (seal_file_in_place).
ReplacedWhole ==
  [][path' # path /\ path.kind = "plain" => Decrypts(path') /\ Decrypted(path') = Plain]_vars

-----------------------------------------------------------------------------
(* Why that holds (SealedFilesProofs).                                     *)

FileAssumption == ChunkSize \in Nat \ {0} /\ MaxLen \in Nat

ChunkType == [index : Nat, last : BOOLEAN, data : Seq(Nat), cut : BOOLEAN]
FileType == [kind : {"none", "plain", "sealed"}, chunks : Seq(ChunkType)]

\* What stands at an index of the plaintext, as far as it goes.
TrueAt(index, data) ==
  index \in Nat /\ data \in Seq(Nat) /\ \A j \in 1..Len(data) : data[j] = index * ChunkSize + j

\* All of it: a full chunk, or the end of the plaintext.
WholeAt(index, data) ==
  TrueAt(index, data) /\ (Len(data) = ChunkSize \/ index * ChunkSize + Len(data) = len)

\* However the chunks are arranged and whichever are cut: each was sealed over the
\* plaintext of its index, and as the last one over its end only.
FileTrue(file) ==
  /\ file \in FileType
  /\ \A i \in 1..Len(file.chunks) :
       LET c == file.chunks[i] IN
       /\ WholeAt(c.index, c.data)
       /\ c.last => c.index * ChunkSize + Len(c.data) = len

\* The copy and its buffer are the plaintext so far; a copy that is to be renamed was read back.
JobInv ==
  /\ job \in [pc : {"idle", "copy", "verify", "rename"}, read : Nat, buffer : Seq(Nat)]
  /\ job.pc = "copy" =>
       /\ job.read <= len /\ Len(job.buffer) <= ChunkSize
       /\ Len(temp.chunks) * ChunkSize + Len(job.buffer) = job.read
       /\ TrueAt(Len(temp.chunks), job.buffer)
  /\ job.pc = "rename" => Decrypts(temp) /\ Decrypted(temp) = Plain

\* The chunk a reader has at hand is one that opened.
ReaderInv ==
  /\ reader \in [open : BOOLEAN, count : Nat, length : Nat, position : Nat,
                 cached : [index : Int, data : Seq(Nat)]]
  /\ reader.open => reader.length = len /\ WholeAt(reader.cached.index, reader.cached.data)

FileInv == len \in Nat /\ FileTrue(path) /\ FileTrue(temp) /\ JobInv /\ ReaderInv /\ ReadsTheTruth
=============================================================================
