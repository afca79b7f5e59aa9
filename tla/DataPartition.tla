---------------------------- MODULE DataPartition ----------------------------
(***************************************************************************)
(* The data partition of an archive (src/src/Data/data.c) and the commands *)
(* that drive it (src/src/MYZFuncs/cibfuncs.c).                            *)
(*                                                                         *)
(* The partition is an array of blocks of DATA_BLOCK_SIZE bytes.  Block 0  *)
(* holds the free list; the others are grouped into chunks of consecutive  *)
(* blocks, each holding one file or nothing.  The first block of a chunk   *)
(* starts with a header, the last one ends with the chunk's length.  Free  *)
(* chunks are listed in an array sorted by size, which continues as a      *)
(* doubly linked list threaded through the free chunks.                    *)
(*                                                                         *)
(* The state "d" is the partition as a record, so that a handler that      *)
(* calls several functions in a row is one action that composes them.      *)
(* "stored" is what the directory entries say: the block each path points  *)
(* to, with what was stored there.                                         *)
(*                                                                         *)
(* arr_start is zeroed by DFreeListInit and never assigned again, so the   *)
(* array of the free list is a sequence here.                              *)
(*                                                                         *)
(* A definition right in front of another one and with a longer name is a  *)
(* slip one could make in the code; no action uses it, it serves to see    *)
(* which property would notice.                                            *)
(***************************************************************************)
EXTENDS Integers, FiniteSets, SequencesExt

CONSTANTS
    MD_FREE_LIST_ENTRIES,   \* length of the sorted array, 63 in the code
    Paths,                  \* paths a command may name
    Sizes,                  \* sizes in bytes a file may have
    Compress,               \* values of the compression flag -j
    BatchSizes,             \* bound: numbers of paths a create or append may store
    MaxDataBlocks,          \* bound: blocks the partition may grow to
    NoData                  \* payload of a block nothing was stored in

DATA_BLOCK_SIZE == 1024
FILE_EXTRA_DATA == 32

ASSUME DataPartitionAssumption ==
    /\ MD_FREE_LIST_ENTRIES \in Nat \ {0, 1}
    /\ Sizes \subseteq Nat
    /\ Compress \subseteq BOOLEAN
    /\ BatchSizes \subseteq Nat
    /\ MaxDataBlocks \in Nat \ {0}
    /\ NoData \notin Paths
    /\ IsFiniteSet(Paths)

VARIABLES
    d,          \* the data partition
    stored,     \* path -> what its directory entry points to
    phase,      \* the command in progress, "idle" between two commands
    todo        \* what the command has still to do: path -> size found by lstat

vars == <<d, stored, phase, todo>>

(***************************************************************************)
(* The fields of a block.  File and DFreeChunk overlay each other: "used"  *)
(* and "block_count" (blocks) are shared; next_flag is where a file keeps  *)
(* "zipped", previous_block where it keeps "size", next_block where its    *)
(* bytes begin.  last8 is the last eight bytes of the block.  The bytes of *)
(* a file are abstracted to the path they came from, in "data", and read   *)
(* as zero where the code takes them for a header.  "zeroed" is 1 in a     *)
(* block that begins a chunk and is zero behind its header and behind what *)
(* is stored in it.  Otherwise what is there may be anything: the metadata *)
(* that was in this place before the archive grew, an older file, or an    *)
(* older archive, as CIBCreate does not truncate.                          *)
(***************************************************************************)
BlankBlock == [used |-> 0, next_flag |-> 0, previous_flag |-> 0, block_count |-> 0,
               previous_block |-> 0, next_block |-> 0, last8 |-> 0, data |-> NoData,
               zeroed |-> 0]

BlockIds == 0 .. MaxDataBlocks

(* Blocks a file of "size" bytes takes: what CalculateSpace reserves, what
   DataInsertBytes requests, and how many of them hold bytes of the file, which
   start 24 bytes into the first one. *)
DataCaclulateNeededBlocks(size) ==
    (size + FILE_EXTRA_DATA + DATA_BLOCK_SIZE - 1) \div DATA_BLOCK_SIZE
RequiredBlocks(size) == (size + FILE_EXTRA_DATA) \div DATA_BLOCK_SIZE + 1
OccupiedBlocks(size) == (size + 24 + DATA_BLOCK_SIZE - 1) \div DATA_BLOCK_SIZE

Reserved(files) ==
    FoldFunctionOnSet(+, 0, [p \in DOMAIN files |-> DataCaclulateNeededBlocks(files[p])],
                      DOMAIN files)

-------------------------------------------------------------------------------
(* Fields of the free chunks: DFreeChunkInit, SetNext, SetPrevious, RemovePrevious. *)
Cleared(count) == [BlankBlock EXCEPT !.block_count = count, !.zeroed = 1]

FreeChunkInitNoTrailer(p, start, count) == [p EXCEPT !.block[start] = Cleared(count)]
FreeChunkInitNoMemset(p, start, count) ==
    [p EXCEPT !.block = [b \in BlockIds |->
        LET init == IF b = start THEN [Cleared(count) EXCEPT !.zeroed = 0] ELSE @[b]
        IN  IF b = start + count - 1 THEN [init EXCEPT !.last8 = count] ELSE init]]
FreeChunkInit(p, start, count) ==
    [p EXCEPT !.block = [b \in BlockIds |->
        LET init == IF b = start THEN Cleared(count) ELSE @[b]
        IN  IF b = start + count - 1 THEN [init EXCEPT !.last8 = count] ELSE init]]

SetNext(p, b, next) ==
    [p EXCEPT !.block[b].next_flag = 1, !.block[b].next_block = next]
SetPrevious(p, b, previous) ==
    [p EXCEPT !.block[b].previous_flag = 1, !.block[b].previous_block = previous]
RemoveNext(p, b)     == [p EXCEPT !.block[b].next_flag = 0]
RemovePrevious(p, b) == [p EXCEPT !.block[b].previous_flag = 0]

HasNext(p, b)     == p.block[b].next_flag = 1
HasPrevious(p, b) == p.block[b].previous_flag = 1

(* The linked list as the code walks it, from list_head along "next" for as long
   as next_flag says; cut off after more steps than there are blocks. *)
LinkedList(p) ==
    LET walk[n \in Nat] ==
          IF n = 0 THEN <<p.list_head>>
          ELSE LET seen == walk[n - 1] IN
               IF HasNext(p, Last(seen)) /\ Len(seen) = n
               THEN Append(seen, p.block[Last(seen)].next_block) ELSE seen
    IN  IF p.list_flag = 0 THEN <<>> ELSE walk[MaxDataBlocks + 1]

(* The walk ends and stays inside the partition.  Where it does not, the code
   reads bytes that are no chunk, or never returns; that is not modelled. *)
IsWalkable(p) ==
    /\ Len(LinkedList(p)) <= MaxDataBlocks
    /\ \A i \in DOMAIN LinkedList(p) : LinkedList(p)[i] \in 1 .. p.size - 1

-------------------------------------------------------------------------------
(***************************************************************************)
(* DFreeListInsertChunk.                                                   *)
(***************************************************************************)
Entry(start, count) == [chunk |-> start, count |-> count]

(* First entry of the array smaller than the chunk, 0 if there is none. *)
ArrayIndexAtEnd(p, count) == 0
ArrayIndex(p, count) == SelectInSeq(p.array, LAMBDA e : count > e.count)

(* In front of the first chunk of the linked list that is not larger, else at its
   end.  Line 252 makes the old head the head again. *)
InsertInLinkedList(p, start, count) ==
    LET list == LinkedList(p)
        i    == SelectInSeq(list, LAMBDA b : count >= p.block[b].block_count)
    IN  IF i = 0
        THEN SetPrevious(SetNext(p, Last(list), start), start, Last(list))
        ELSE LET iter     == list[i]
                 previous == p.block[iter].previous_block
                 linked   == SetPrevious(SetNext(p, start, iter), iter, start)
             IN  IF HasPrevious(p, iter)
                 THEN SetNext(SetPrevious(linked, start, previous), previous, start)
                 ELSE [linked EXCEPT !.list_head = iter]

(* The smallest chunk of the array becomes the head of the linked list. *)
MoveLastToList(p) ==
    LET last   == Last(p.array).chunk
        linked == IF p.list_flag = 1
                  THEN SetPrevious(SetNext(p, last, p.list_head), p.list_head, last)
                  ELSE p
    IN  [linked EXCEPT !.list_head = last, !.list_flag = 1, !.array = Front(@)]

InsertChunk(old, start, count) ==
    LET p     == FreeChunkInit(old, start, count)
        index == ArrayIndex(p, count)
        full  == Len(p.array) = MD_FREE_LIST_ENTRIES
    IN  CASE ~full /\ index = 0 -> [p EXCEPT !.array = Append(@, Entry(start, count))]
          [] ~full /\ index # 0 -> [p EXCEPT !.array = InsertAt(@, index, Entry(start, count))]
          [] full /\ index = 0 /\ p.list_flag = 0 ->
                 [p EXCEPT !.list_flag = 1, !.list_head = start]
          [] full /\ index = 0 /\ p.list_flag = 1 -> InsertInLinkedList(p, start, count)
          [] full /\ index # 0 ->
                 [MoveLastToList(p) EXCEPT !.array = InsertAt(@, index, Entry(start, count))]

(***************************************************************************)
(* DFreeListRemoveChunk.                                                   *)
(***************************************************************************)
(* The head of the linked list becomes the last entry of the array. *)
MoveHeadToArray(p) ==
    LET head   == p.list_head
        next   == p.block[head].next_block
        filled == [p EXCEPT !.array = Append(@, Entry(head, p.block[head].block_count))]
    IN  IF HasNext(p, head)
        THEN RemovePrevious([filled EXCEPT !.list_head = next], next)
        ELSE [filled EXCEPT !.list_flag = 0]

(* Lines 365 to 376 compare the ids of the neighbours with true, that is 1, not
   the flags that say whether there are neighbours. *)
RemoveFromLinkedList(p, start) ==
    LET prev_id == p.block[start].previous_block
        next_id == p.block[start].next_block
    IN  CASE prev_id = 1 /\ next_id = 1 ->
                 SetPrevious(SetNext(p, prev_id, next_id), next_id, prev_id)
          [] prev_id = 1 /\ next_id # 1 -> RemoveNext(p, prev_id)
          [] prev_id # 1 /\ next_id = 1 ->
                 [RemovePrevious(p, next_id) EXCEPT !.list_head = next_id]
          [] OTHER -> [p EXCEPT !.list_flag = 0]

RemoveChunkLeavingEntry(p, start) == p
RemoveChunk(p, start) ==
    LET index == SelectInSeq(p.array, LAMBDA e : e.chunk = start)
        rest  == [p EXCEPT !.array = RemoveAt(@, index)]
    IN  CASE Len(p.array) <= 1 -> [p EXCEPT !.array = <<>>]
          [] Len(p.array) > 1 /\ index # 0 ->
                 IF p.list_flag = 0 THEN rest ELSE MoveHeadToArray(rest)
          [] Len(p.array) > 1 /\ index = 0 ->
                 IF p.list_flag = 1 THEN RemoveFromLinkedList(p, start) ELSE p

(***************************************************************************)
(* DFreeListRequestChunk: the smallest chunk of the array that is large    *)
(* enough, cut to size, or new blocks at the end of the partition.  The    *)
(* metadata leaves the new blocks with its bytes in them: they are not     *)
(* zeroed, and their fields are blank as no one reads those before they    *)
(* are written.                                                            *)
(***************************************************************************)
FirstFit(p, count) == 1
BestFit(p, count) ==
    LET tooSmall == SelectInSubSeq(p.array, 2, Len(p.array), LAMBDA e : e.count < count)
    IN  IF tooSmall = 0 THEN Len(p.array) ELSE tooSmall - 1

(* What is left of the target once the request is cut off its beginning. *)
RemainderOneBlockEarly(target, count) ==
    Entry(target.chunk + count - 1, target.count - count + 1)
Remainder(target, count) == Entry(target.chunk + count, target.count - count)

FitsExactlyIgnored(target, count) == FALSE
FitsExactly(target, count) == target.count = count

RequestChunk(p, count) ==
    IF p.array # <<>> /\ p.array[1].count >= count
    THEN LET target  == p.array[BestFit(p, count)]
             removed == RemoveChunk(p, target.chunk)
             rest    == Remainder(target, count)
         IN  [block |-> target.chunk,
              d |-> IF FitsExactly(target, count) THEN removed
                    ELSE InsertChunk(removed, rest.chunk, rest.count)]
    ELSE [block |-> p.size, d |-> [p EXCEPT !.size = @ + count]]

(***************************************************************************)
(* DFreeListRemoveLastChunk: the free chunk at the very end, if any, is    *)
(* unlisted and the partition ends where it began.                         *)
(***************************************************************************)
Truncate(p, size) ==
    [p EXCEPT !.size = size,
              !.block = [b \in BlockIds |-> IF b < size THEN @[b] ELSE BlankBlock]]

RemoveLastChunk(p) ==
    LET i == SelectInSeq(p.array, LAMBDA e : e.chunk + e.count = p.size)
        j == SelectInSeq(LinkedList(p), LAMBDA b : b + p.block[b].block_count = p.size)
    IN  CASE i # 0 -> Truncate(RemoveChunk(p, p.array[i].chunk), p.array[i].chunk)
          [] i = 0 /\ j # 0 -> Truncate(RemoveChunk(p, LinkedList(p)[j]), LinkedList(p)[j])
          [] i = 0 /\ j = 0 -> p

-------------------------------------------------------------------------------
(* DataInsertBytes: "size" bytes of the file or link at "path".  Nothing marks their
   end.  The first eight of them go over next_block, which a free chunk that has been
   in the linked list may have set. *)
ZeroBehind(old, size) ==
    old.zeroed = 1 /\ old.data = NoData /\ (size >= 8 \/ old.next_block < 256 ^ size)

InsertBytes(p, path, size, zipped) ==
    LET count   == RequiredBlocks(size)
        request == RequestChunk(p, count)
        first   == request.block
        last    == first + count - 1
        fill(b) ==
          [BlankBlock EXCEPT
             !.data = IF b < first + OccupiedBlocks(size) THEN path ELSE NoData,
             !.used = IF b = first THEN 1 ELSE 0,
             !.next_flag = IF b = first /\ zipped THEN 1 ELSE 0,
             !.previous_flag = request.d.block[b].previous_flag,
             !.block_count = IF b = first THEN count ELSE 0,
             !.previous_block = IF b = first THEN size ELSE 0,
             !.last8 = IF b = last THEN count ELSE 0,
             !.zeroed = IF b = first /\ ZeroBehind(request.d.block[b], size) THEN 1 ELSE 0]
    IN  [block |-> first,
         d |-> [request.d EXCEPT !.block = [b \in BlockIds |->
                  IF b \in first .. last THEN fill(b) ELSE @[b]]]]

(* DataDeleteFile: the chunk is freed together with free neighbours. *)
AbsorbNothing(p, chunk) == chunk
AbsorbNext(p, chunk) ==
    LET next == chunk.block + chunk.count
    IN  IF next < p.size /\ p.block[next].used = 0
        THEN [d |-> RemoveChunk(chunk.d, next), block |-> chunk.block,
              count |-> chunk.count + p.block[next].block_count]
        ELSE chunk

AbsorbPrevious(p, chunk) ==
    LET previous == chunk.block - p.block[chunk.block - 1].last8
    IN  IF chunk.block > 1 /\ p.block[previous].used = 0
        THEN [d |-> RemoveChunk(chunk.d, previous), block |-> previous,
              count |-> chunk.count + p.block[previous].block_count]
        ELSE chunk

DeleteFile(p, block) ==
    LET chunk == [d |-> p, block |-> block, count |-> p.block[block].block_count]
        grown == AbsorbNext(p, chunk)
        whole == AbsorbPrevious(grown.d, grown)
    IN  InsertChunk(whole.d, whole.block, whole.count)

(* DataInit, on a partition of that many blocks. *)
DataInit(blocks) ==
    LET empty == [size |-> blocks, block |-> [b \in BlockIds |-> BlankBlock],
                  array |-> <<>>, list_head |-> 0, list_flag |-> 0]
    IN  IF blocks > 1 THEN InsertChunk(empty, 1, blocks - 1) ELSE empty

(* DataInsertFreeBlocks, after the file has grown by that many blocks. *)
GrowBy(p, blocks) ==
    LET grown == [p EXCEPT !.size = @ + blocks]
    IN  IF blocks > 0 THEN InsertChunk(grown, p.size, blocks) ELSE grown

-------------------------------------------------------------------------------
(***************************************************************************)
(* The commands.  CIBCreate and CIBAppend reserve the blocks CalculateSpace *)
(* asks for, insert path after path and drop the unused end; CIBDelete      *)
(* deletes path after path and drops the unused end.                        *)
(***************************************************************************)
Requests ==
    UNION {[paths -> Sizes] : paths \in {s \in SUBSET Paths : Cardinality(s) \in BatchSizes}}

Init ==
    /\ todo \in Requests
    /\ Reserved(todo) + 1 <= MaxDataBlocks
    /\ d = DataInit(Reserved(todo) + 1)
    /\ stored = <<>>
    /\ phase = "insert"

CIBAppend(files) ==
    /\ phase = "idle"
    /\ d.size + Reserved(files) <= MaxDataBlocks
    /\ d' = GrowBy(d, Reserved(files))
    /\ phase' = "insert"
    /\ todo' = files
    /\ UNCHANGED stored

(* One path of CIBInsertEntries or CIBInsertDirectory: the data of an older
   version goes first.  Compressed data may have any size. *)
InsertPath(path, zipped, size) ==
    /\ phase = "insert"
    /\ path \in DOMAIN todo
    /\ IsWalkable(d)
    /\ ~zipped => size = todo[path]
    /\ LET freed  == IF path \in DOMAIN stored THEN DeleteFile(d, stored[path].block) ELSE d
           insert == InsertBytes(freed, path, size, zipped)
       IN  /\ IsWalkable(freed)
           /\ insert.d.size <= MaxDataBlocks
           /\ d' = insert.d
           /\ stored' = [p \in DOMAIN stored \cup {path} |->
                IF p = path THEN [block |-> insert.block, size |-> size, zipped |-> zipped]
                ELSE stored[p]]
    /\ todo' = [p \in DOMAIN todo \ {path} |-> todo[p]]
    /\ UNCHANGED phase

(* A path that cannot be inserted after all: the archive itself, or one whose
   entry in the archive is of another kind. *)
SkipPath(path) ==
    /\ phase = "insert"
    /\ path \in DOMAIN todo
    /\ todo' = [p \in DOMAIN todo \ {path} |-> todo[p]]
    /\ UNCHANGED <<d, stored, phase>>

CIBDelete ==
    /\ phase = "idle"
    /\ phase' = "delete"
    /\ UNCHANGED <<d, stored, todo>>

DeletePath(path) ==
    /\ phase = "delete"
    /\ path \in DOMAIN stored
    /\ IsWalkable(d)
    /\ d' = DeleteFile(d, stored[path].block)
    /\ stored' = [p \in DOMAIN stored \ {path} |-> stored[p]]
    /\ UNCHANGED <<phase, todo>>

(* DataRemoveLastChunk ends every command. *)
FinishUntrimmed ==
    /\ phase # "idle"
    /\ phase = "insert" => todo = <<>>
    /\ phase' = "idle"
    /\ UNCHANGED <<d, stored, todo>>
Finish ==
    /\ phase # "idle"
    /\ phase = "insert" => todo = <<>>
    /\ IsWalkable(d)
    /\ d' = RemoveLastChunk(d)
    /\ phase' = "idle"
    /\ UNCHANGED <<stored, todo>>

Next ==
    \/ \E files \in Requests : CIBAppend(files)
    \/ \E path \in Paths, zipped \in Compress, size \in Sizes : InsertPath(path, zipped, size)
    \/ \E path \in Paths : SkipPath(path)
    \/ CIBDelete
    \/ \E path \in Paths : DeletePath(path)
    \/ Finish

Spec == Init /\ [][Next]_vars

-------------------------------------------------------------------------------
(* The chunks the directory entries point to, and the chunks the free list
   holds, as intervals of blocks. *)
FileChunks ==
    {Entry(stored[p].block, RequiredBlocks(stored[p].size)) : p \in DOMAIN stored}

Listed(p) ==
    p.array \o [i \in DOMAIN LinkedList(p) |->
                  Entry(LinkedList(p)[i], p.block[LinkedList(p)[i]].block_count)]

FreeEntries == Listed(d)
FreeChunks  == ToSet(FreeEntries)

Span(c) == c.chunk .. c.chunk + c.count - 1

(* The partition, its free list and the directory entries have values of their
   types, and no block lies outside the file. *)
TypeOK ==
    /\ d.size \in 1 .. MaxDataBlocks
    /\ d.block \in [BlockIds ->
         [used : {0, 1}, next_flag : {0, 1}, previous_flag : {0, 1},
          block_count : BlockIds, previous_block : BlockIds \cup Sizes,
          next_block : BlockIds, last8 : BlockIds, data : Paths \cup {NoData},
          zeroed : {0, 1}]]
    /\ d.array \in Seq([chunk : BlockIds, count : BlockIds \ {0}])
    /\ Len(d.array) <= MD_FREE_LIST_ENTRIES
    /\ d.list_head \in BlockIds
    /\ d.list_flag \in {0, 1}
    /\ DOMAIN stored \subseteq Paths
    /\ \A p \in DOMAIN stored :
         stored[p] \in [block : 1 .. d.size - 1, size : Sizes, zipped : BOOLEAN]
    /\ phase \in {"idle", "insert", "delete"}
    /\ \E paths \in SUBSET Paths : todo \in [paths -> Sizes]

(* After any sequence of commands every block of the partition belongs to exactly
   one chunk: it holds data of one live file or is listed as free once.  Splitting,
   merging and truncating neither lose a block nor give it to two owners. *)
PartitionIsTiled ==
    /\ \A b \in 1 .. d.size - 1 :
         Cardinality({c \in FileChunks \cup FreeChunks : b \in Span(c)}) = 1
    /\ \A i, j \in DOMAIN FreeEntries :
         i # j => FreeEntries[i].chunk # FreeEntries[j].chunk
    /\ \A p, q \in DOMAIN stored : p # q => stored[p].block # stored[q].block

(* The header and the last eight bytes of every chunk give its length and say
   whether it is used: what DataDeleteFile reads of a neighbour is never stale. *)
BoundaryTagsAgree ==
    /\ \A c \in FileChunks \cup FreeChunks :
         /\ d.block[c.chunk].block_count = c.count
         /\ d.block[c.chunk + c.count - 1].last8 = c.count
    /\ \A c \in FileChunks : d.block[c.chunk].used = 1
    /\ \A c \in FreeChunks : d.block[c.chunk].used = 0

(* What DataExtractFile writes for the file at a block. *)
Extracted(block) ==
    LET size == d.block[block].previous_block
    IN  [size |-> size,
         zipped |-> d.block[block].next_flag = 1,
         data |-> {d.block[b].data : b \in block .. block + OccupiedBlocks(size) - 1}]

(* Extracting a path gives back what was stored under it, however many other
   paths were stored, replaced and deleted since. *)
FilesAreIntact ==
    \A p \in DOMAIN stored :
      Extracted(stored[p].block) =
        [size |-> stored[p].size, zipped |-> stored[p].zipped, data |-> {p}]

(* The free list is sorted by size, biggest chunk first, through the array and on
   into the linked list (comments of struct data_free_list). *)
FreeListIsSorted ==
    \A i \in 1 .. Len(FreeEntries) - 1 : FreeEntries[i].count >= FreeEntries[i + 1].count

(* Removing a chunk from the free list removes that chunk and no other one. *)
RemovesOnlyThatChunk ==
    \A c \in FreeChunks : ToSet(Listed(RemoveChunk(d, c.chunk))) = FreeChunks \ {c}

(* Freed chunks are merged at once: two free chunks are never neighbours. *)
FreeChunksAreMerged ==
    \A a, b \in FreeChunks : a.chunk + a.count # b.chunk

(* Between two commands the archive has no unused blocks at its end. *)
IdleMeansTrimmed ==
    phase = "idle" => \A c \in FreeChunks : c.chunk + c.count < d.size

(* Storing a file takes the smallest free chunk that is large enough, and the
   archive grows only when no free chunk is. *)
TakesBestFit ==
    [][\A p \in Paths, s \in Sizes, z \in Compress : InsertPath(p, z, s) =>
         LET count == RequiredBlocks(s)
             after == stored'[p].block + count
             rest  == {c \in FreeChunks' : c.chunk = after}
         IN  \A c \in FreeChunks' \ rest :
               c.count >= count => /\ d'.size = d.size
                                   /\ \A r \in rest : c.count >= count + r.count]_vars

(* DataExtractLink takes the bytes of a link for a C string, whose end nothing but a
   zero behind them marks.  Which of the paths stored uncompressed are links is not
   known to this module; what is said of them holds of links and is of no matter for
   files.  The byte behind the link is in this block: *)
EndBlock(p) == stored[p].block + (stored[p].size + 24) \div DATA_BLOCK_SIZE
LinkIsWhole(p) == d.block[EndBlock(p)].zeroed = 1

(* A link that is stored in a chunk of the free list and ends in its first block is
   extracted as stored, and stays so whatever happens to the chunks around it: each
   chunk that is listed is cleared at its beginning, also one that was merged or that
   was cut off another one.  Only a link for which the archive grew, or one that ends
   in a later block, may be followed by old bytes, in spite of "Extracts the link that
   is stored" (data.c:633). *)
LinksStayWhole ==
    [][\A p \in DOMAIN stored' :
         \/ stored'[p].zipped \/ LinkIsWhole(p)'
         \/ stored'[p].size + 24 >= DATA_BLOCK_SIZE
         \/ p \in DOMAIN stored /\ stored'[p] = stored[p] /\ ~LinkIsWhole(p)
         \/ d'.size > d.size /\ \E s \in Sizes : InsertPath(p, FALSE, s)]_vars
===============================================================================
