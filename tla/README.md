# Verification of CIBArchiver

TLA+ models of CIBArchiver, a command line tool that keeps files and directories
in one archive file. The modules follow the C code in `src/src`; operators and
actions keep its function names where TLA+ allows.

## The system

`cib` runs one command on one archive and exits. The archive is mapped shared, so
every store is a write to the file. It has three parts, one after the other:

| part | state | code |
|---|---|---|
| header | sizes of the parts, number of list blocks, free node blocks and entries, nest level, base directory | `Header/header.c` |
| data partition | block 0: the free list; then chunks of 1024-byte blocks, each a file or free | `Data/data.c` |
| metadata partition | block 0: the free list of node blocks; then list blocks (the entries); then node blocks (the directories) | `Metadata/*.c` |

Inventory of components, with their state, operations and what makes each right:

| component | state | operations | correct means |
|---|---|---|---|
| metadata free list (`freelist.c`) | circular buffer of 253 block names, linked list through free blocks, two counters | request a node block, return one, add a list block | no block lost or owned twice; counters exact; names survive the move of all node blocks; the file grows only when nothing is free |
| data partition (`data.c`) | chunks with boundary tags, array of 63 free chunks sorted by size that continues as a doubly linked list | insert, delete, extract a file; grow; drop the unused end | every block has one owner; free chunks are merged; what was stored is what is extracted |
| entry list (`cib_struct.c`) | list blocks of 31 entries, a bitmap each, levels of bitmaps of full blocks | find and mark a free id; free an id | ids are unique; summaries agree with what they summarise |
| directory nodes (`cib_struct.c`) | a chain of node blocks with three names each | insert, look up, remove, list, delete the directory | lookup is exact; no link leads to a returned block; emptied blocks return |
| archive tree (`cib_struct.c`, `metadata.c`, `cibfuncs.c`) | entries, their pointers into the two partitions | resolve a path, update it, delete a subtree | a path is found exactly if it was stored; no entry dangles |
| file layout (`file_management.c`, `header.c`) | the pointers `header`, `data`, `md`, the sizes, the mapping | truncate and map again; move the metadata | the partitions never overlap; every partition keeps its bytes |
| commands (`cibfuncs.c`) | the command in progress | create, append, delete, extract, query, print | each is a sequence of the operations above, ended by dropping the unused end |
| compression, extraction (`cibfuncs.c`, `data.c`) | `gzip` and `gunzip` children | fork, exec, wait | every child is collected; a file is read only when its child is done |
| space calculation (`file_management.c`) | none | count entries, node blocks, data blocks | the reservation suffices |
| command line (`cli_utils.c`) | none | read options, make paths relative | every path stays below the base directory |
| containers, system call wrappers (`ADTs_Syscalls`) | lists, vectors, hash tables | usual | usual |

How they interact: a command calls the archive tree, which calls the entry list,
the directory nodes and the data partition; these call the free list and the file
layout, which may unmap the archive and map it elsewhere, so that pointers into it
held by the callers must be computed again. Nothing runs concurrently but the
`gzip` and `gunzip` children.

What is hard here: long sequences of legal commands (splitting and merging chunks,
emptying directory blocks in any order, filling and clearing levels of bitmaps);
limits that tests do not reach (63 free chunks, 253 free node blocks, 32 list
blocks); names and pointers that must survive a move; a command interrupted half
way. The hazards, each at its line, are in `PROJECT.json`.

## Modules

| module | models | uses |
|---|---|---|
| `BlockPool` | what the metadata free list promises: a pool of blocks | |
| `FreeList` | `freelist.c`, with the metadata partition it lives in | implements `BlockPool` |
| `FreeListProofs` | theorems about `FreeList` | `FreeList`, `TLAPS` |
| `DataPartition` | `data.c`, driven by create, append and delete | |
| `DataPartitionProofs` | theorems about `DataPartition` | `DataPartition`, `InductionLemmas`, `TLAPS` |
| `DirChain` | the node blocks of one directory | takes blocks as `BlockPool` allows |
| `DirChainProofs` | theorems about `DirChain` | `DirChain`, `InductionLemmas`, `TLAPS` |
| `CIBList` | entry ids, bitmaps and levels | |
| `CIBListProofs` | theorems about `CIBList` | `CIBList`, `InductionLemmas`, `TLAPS` |
| `Partitions` | the layout of the file: `TruncMapAndUpdate`, the moves around it, interruption | |
| `PartitionsProofs` | theorems about `Partitions` | `Partitions`, `TLAPS` |
| `CommandPaths` | the paths of a command: `RealPath`, `CreateRelativePath` | |
| `Archive` | the tree, and create, append and delete over it, interrupted anywhere | `CommandPaths`; each part as the modules above show it to be |
| `ArchiveProofs` | theorems about `Archive` | `Archive`, `InductionLemmas`, `TLAPS` |
| `Children` | `gzip` and `gunzip` next to the command that starts them | an archive as `Archive` shows it to be |
| `ChildrenProofs` | theorems about `Children` | `Children`, `InductionLemmas`, `TLAPS` |
| `InductionLemmas` | numbers up to a length: the least one, and functions defined from one number to the next | `TLAPS` |
| `MC...` | instances for TLC | the module of that name |

In every module a definition directly in front of another one with a similar and
longer name (`NextStartUnwrapped` before `NextStart`) is a slip one could make in
the code. No action uses it. Put in the place of the right definition, it violates
the property that `PROJECT.json` names under "mutants".

### FreeList

The variables are the fields of `struct free_list`, the sizes in the file header
and `md`, the contents of the blocks of the partition by position. There is one
action for each branch of `FreeListRequestNodeBlock` and `FreeListInsertNodeBlock`,
and one for `FreeListIncreaseListSize`. A request and the `CIBNodeInit` that every
caller does next are one action. A block in use holds the name under which it was
given out, so a block that a move displaced is noticed. `FreeListIncreaseNodeBlocks`
has no caller and is left out. `inUse` is a history variable.

Run `free_list`: buffer of 2, partitions of up to 8 blocks, at first 0, 1, 2 or 4
node blocks. The buffer wraps and overflows into a list of several blocks, the list
drains, the file grows, and list blocks are added at every point. TLC's deadlock
check is off, because the model stops when the partition has reached its bound and
all blocks are in use.

### DataPartition

`d` is the partition: `size` in blocks, `block` with the fields that `struct file`
and `struct data_free_chunk` lay over the same bytes, and the fields of
`struct data_free_list`. Handlers that call several functions are operators from
`d` to `d`, composed in one action. The overlay is kept, because the code depends
on it: `next_flag` is where a file keeps `zipped`, and `previous_flag` survives the
insertion of a file. The bytes of a file are its path. `arr_start` is always 0, so
the circular array is a sequence. `stored` is what the directory entries point to.

A command is several steps: `CIBAppend` (or `Init`, for a create) reserves blocks,
each `InsertPath` frees an older version and stores the new one, `Finish` is
`DataRemoveLastChunk`. Compressed data may have any size in `Sizes`. A path occurs
once in a command. Where following the linked
list leaves the partition or never ends, the model stops (`IsWalkable`): the code
would read bytes that are no chunk, or hang.

What lies behind the bytes of a file in its blocks does not matter, as its size is
stored. A link is another matter: `DataInsertLink` stores it without the zero that ends
it, and `DataExtractLink` reads it up to the next zero. `zeroed` is 1 in a block that
begins a chunk and is zero behind what is stored there. `DFreeChunkInit` clears the first
block of a free chunk; the blocks the archive grows by keep the bytes of the moved
metadata, and later blocks of a chunk those of older files. `LinkIsWhole` is the question
whether the zero is there. The paths stored uncompressed stand for links as well as for
files, so the answer is given for all of them: `LinksStayWhole` says that a link in a
chunk of the free list stays whole, through every split and merge, and that a link is
extracted with bytes behind it only if the archive had to grow for it or if it has 1000
bytes or more (it then ends in a later block).

| run | instance | shows |
|---|---|---|
| `data_array` | array of 4, 3 files, 7 blocks, sizes 100, 992, 2100 | the regime in which all free chunks fit in the array: free chunks are never neighbours, so 7 blocks hold fewer than 4 of them (`SmallArchivesHaveRoom`). Sizes need 1, 2 and 3 blocks; 992 is the boundary at which reservation and insertion differ |
| `data_list_stale` | array of 2, 5 files, 9 blocks | violation: a link left by lines 341-350 |

The code's array has 63 entries, so an archive is in the regime of `data_array`
while it has at most 62 gaps, and any archive of up to 125 blocks always is. Beyond 63, the linked list is used, and the free list loses blocks or hands
out live ones. The properties that pass are therefore claimed, and proved, for the array only.
Two more faults of the list show as violations of the same module with an array of
2 and six files, and have no run of their own: a chunk inserted in front of the
list's head drops out of it, because `list_head` gets the old head (line 252;
`PartitionIsTiled`); and the removal of any chunk of the list drops the whole list,
because lines 365 and 372 compare ids with `true` (`RemovesOnlyThatChunk`). `data_list_stale` was replayed on a build with a small
array: storing, deleting and replacing five files ends with a file that extracts
with another one's bytes.

The exception in `LinksStayWhole` is real: creating an archive with the program from a file
of 992 bytes, twelve directories and a link to `tgt78901`, in this order, leaves the
reservation one block short for the file, so the archive grows for the link, and the link is
extracted as `tgt78901` followed by a byte 6.

### DirChain

`c.node` are the node blocks, `c.owned` the ones not in the free list. Requests may
return any free block. A pair of name and entry id is its name. Deleting the
directory itself is split as in the code: `StartDelete` lists the entries,
`DeleteChild` deletes one, then every turn of the loop in `CIBListDeleteDirEntry` is
a `Sweep`. After "gone" nothing follows, so TLC's deadlock check is off.

Run `dir_chain`: blocks of 2 names, 5 names, 4 blocks; chains of up to four blocks
are emptied in every order. The run `dir_delete` (blocks of 1 name, 3 names, 4
blocks) compares the code with its comment and violates. A second fault has no run:
an emptied block that is not the first one is unlinked but not returned to the free
list (line 208, against line 196). Two of the faults hide each other: a stale back link always
names a block that was unlinked and, because of the leak, never given to another
directory. That is why `LinksStayInOwnedBlocks` and `LookupIsExact` hold. If the
leak alone were repaired, the back link would reach into another directory.

Fairness, used by `dir_delete` only: the steps of a deletion in progress are weakly
fair. The code runs them in one thread with nothing to wait for.

### CIBList

`list` holds for each list block its bitmap, its counter and `list_block_bitmap`.
Bitmaps are sets of bit numbers. The recursion of `CIBListGetFreeSpotRec` is a
sequence of calls, from the top level down (`Calls`), and a recursive
function that marks full sets on the way back (`MarkFull`). The mask of `CIBListUpdateGroupBitmap` is an int;
its width is the constant `IntBits`, and the shift is the one gcc produces
(the Makefile asks for no optimisation), since C leaves it undefined.

| run | instance | shows |
|---|---|---|
| `list_levels` | sets of 3 blocks of 2 entries, 11 blocks, at most 4 free spots before a deletion | three levels, blocks that do not exist yet, preallocated blocks; with a mask as wide as the bitmap, everything but the shift is right |
| `list_small` | sets of 8, mask of 4, 4 blocks of 3 entries | the code's own ratio of mask to set: right while the list has at most as many blocks as the mask has bits (32 in the code, 992 entries); the last of these bits clears all above it, which are zero |
| `list_shift` | sets of 4, mask of 2 | violation: a deletion in a larger archive makes the next entry share an id |

The violation of `list_shift` was reproduced on the program itself: an archive of
1300 files, one deleted from list block 40, one added; the new file and an old one
then have the same entry id, and extracting either gives the new file's content.

### Partitions

`file` is the contents of the file after the header, block by block; `head` the
three sizes of the header that place the parts; `md` and `mapped` the mapping. An
operation (`Create`, `GrowData`, `DropData`, `GrowNodes`, `GrowList`) computes the
arguments of its `TruncMapAndUpdate`; then every step of that function is an action
(`Unmap`, `Truncate`, `MapFile`, `SetMDSize`, `SetDataSize`), a `memmove` copies one
block per `MoveBlock`, upwards or downwards as the overlap demands, and `Format` is
what the caller writes into the new blocks. A create goes on with `HeadInit`,
`DataInit` and `MDInit`. `Interrupt` may end the process before any of these steps;
as the archive is mapped shared, what was stored remains. `Format`, `DataInit` and
`MDInit` are one step each: they write blocks nobody relies on yet. What a stored
block holds is its name, so that a displaced block is noticed. Which blocks are free
is the matter of `DataPartition` and `FreeList`; `DropData` may cut any blocks at
the end. Header and data blocks have the same size as metadata blocks; both shifts
are 10 in the code.

`promised` is the history of what was given out, `lost` whether the last process
ended in one of the windows of `InWindow`: growing the data between the new size
and the end of the move; cutting it once the move has overwritten metadata, and up
to the new size; adding list blocks once the move has overwritten a node block, and
between the new count and the initialisation. `RecoverableOutsideWindows` and
`LostInWindows` together say that these windows are exactly the dangerous ones. That
there are any is a property of the design: nothing is logged.

Run `partitions`: up to 4 data blocks and 5 metadata blocks, up to 3 blocks added
or removed at a time, so that the ranges of a move overlap, are disjoint or are
empty, with and without list growth, and processes follow one another without limit.

### CommandPaths and Archive

A path is a sequence of names. `CommandPaths` holds the operators that make the
paths of a command relative; `Denoted` is the definition they are compared with
(through `Requested`, in what `EachPathOldOrNew` expects of a command).

`Archive` has one variable for each part: `entry` (id to kind and pointer), `node`
(node block to names), `data` (chunk to content). Ids are the least free ones, as in
`CIBList`; any free chunk may be taken, as best fit among chunks of any size is any.
`disk` is what a command finds outside; it does not change while a command runs.
The recursion of `CIBRecInsertEntry` and `CIBInsertDirectory` is `stack`, a frame a
directory with the names still to go, in the order of `readdir`, which is any.
`CIBDeleteRec` uses the same stack. Steps between which the process may be
interrupted (`pc`): an entry is inserted and named; its node block is made; old data
is freed; new data is stored; the pointer is set; for a deletion, the data goes,
then the entry. Inside such a step the other modules look closer. An entry keeps its
kind: where the disk has another one, the code refuses the update and passes over
what is below (`RefuseEntry`).

`before` and `after` are histories: the tree before a command, and the tree the
command should leave, computed by `WithStored` and `WithDeleted` from the disk and
the arguments and not from the steps. `lost` is whether the last process ended in a
window (`InWindow`): a new directory without node block, a new file without data,
old data freed and the pointer not yet set (unless the new data happens to get the
very same chunk), data deleted and the entry not. After a loss the archive is only
created anew; what the code does with a broken archive is undefined.
`CompressedElsewhere` is such an end: with `-j`, a file named by a path of more than
one component is compressed into its directory but opened in the working directory
(line 226), and the program dies with the entry in place and no data. This was seen
on the program.

| run | instance | shows |
|---|---|---|
| `archive` | three disks that disagree in the kinds of two names, two levels; arguments with `..`, `.`, absolute, missing, twice the same and outside the base; at most 3 node blocks when an append starts | parts agree, windows exact, paths old or new, creates and appends end |
| `archive_below_file` | the same | violation: `a/x` is found where `a` is a file (`cib_struct.c:540`); deleting it frees the data and id of `a` and leaves the name (`DeleteEntry`, seen on the program) |

Fairness: the steps of a create or append (`InsertStep`) are weakly fair. They run in one
thread, which waits only for `gzip` children it has just started (`cibfuncs.c:97-99` and
`224`); each of these reads one file and ends. `InsertionsEnd` needs it. The steps of a
deletion are not fair, and nothing is said about its end: `DeleteEntry` is one step, while
the loop of `CIBListDeleteDirEntry` in it may run for ever, as `dir_delete` shows.
Commands and interruptions are not fair.

### Children

`source` is the directory being archived, `stored` the archive, `out` the place it
is extracted to; a file's bytes are the path they come from and how often they were
compressed. `child` has the children not yet waited for. The parent: `ScanDirectory`
and `EndScan` are `CIBCompressDir`, whose `readdir` may or may not return the
outputs of children that already run; `InsertName` and `LeaveInserted` are
`CIBInsertDirectory`; `ExtractPath`, `ExtractName`, `EndNames` are `CIBExtract` and
`CIBExtractRec`; `WaitInDirectory` and `WaitAtEnd` are the loops around `wait`,
which takes any child that has ended and returns at once if there is none. The
children: `gzip` creates its output, then fills it, and may fail at both; `gunzip -f`
writes the file, then removes the `.gz`, or fails. These are modelled from how the code
calls them. `failed`, `refused` and `skipped` are histories.

Where the archive is extracted, directories, files and links may be in the way
(`InTheWay`), the links leading elsewhere. `ExtractFile` is `DataExtractFile`: the file is
written, or written through a link that is in its way, or opening it fails, which it must
if a directory is in the way and may in any case (line 598), and it is passed over.
`ExtractLink` is `DataExtractLink`: what is in the way is removed, unless it is a directory
or a link that leads nowhere, which `access` does not see (line 638); then the link is made,
or `symlink` fails unnoticed. `skipped` has the paths that were not written in one of
these ways. A link may be extracted with bytes behind it; `ReadBack` chooses freely between
the link and `Overrun`, for it is `DataPartition` that knows which (`LinkIsWhole`).
`fork` and the `mmap` of the file that is written succeed.

Run `children`: two directories to archive, with a subdirectory, a link and two names that
differ by `.gz`; four lists of paths to extract; six ways to have nothing, directories,
files and links in the way, of a name or of its `.gz`; compressed or not. There are nine
process ids (`Fork` stops there; no behaviour of the instance needs more), and a count of
type `uint64_t` has 10 values.
`EveryChildIsCounted` excepts extractions with a directory that could not be
created: there `CIBExtractRec` returns -1, and the unsigned count above becomes
2^64 - 1 (line 388; the comment in line 369 says "Returns the number of forks() that
were made"). On the program the loop of waits then does not end in practice. A failing
`fork`, which is not modelled, would be counted like a child.
`RoundTrip` excepts, besides, files whose `gzip` failed (nobody looks at the exit
status), paths that were `skipped`, links that came back as `Overrun`, and pairs like `f`
and `f.gz` in one directory, one of which is lost. All else must arrive, whatever is in
the way of other paths and whichever of them fail; in particular files and links in the
way are replaced.
TLC's deadlock check is off, because both commands end.

## What is proved

`FreeListProofs` proves, for every capacity of the buffer, every initial size and
every bound of the partition:

| theorem | statement |
|---|---|
| `Invariance` | `Spec => []IInv` |
| `TypeCorrectness`, `NothingLostOrShared`, `ExactCounters`, `NamesSurviveMoves` | the invariants of the run `free_list` |
| `Refinement` | `Spec => ImplementsPool` |

The only assumption is `FreeListAssumption`: the buffer has at least one slot, an
archive starts with at least one list block, and the initial sizes fit the bound.
(`cib -c` with paths none of which exists makes an archive without list blocks, in
which root's node block overlaps list block 0; that case is outside the model.)

None of the four invariants is inductive. `IInv` adds that the buffered names are
distinct, and that there is a chain from `header` that visits exactly the blocks
formatted as free, once each, with the length the counters say. The code never
reads `next_flag`: it trusts the counters to say where the list ends. The proof
shows that it may. `IsChain` is not defined by recursion: a chain is a function
from `1 .. ListLength`, which each list action extends or shortens at its front.
The lemmas `RingIndex` (slots of a ring), `NodeWriteIsLocal` and `NodeContents`
(writes and moves of blocks) and `CountAfterTaking`/`CountAfterReturning`
(cardinalities) carry the arithmetic.

`PartitionsProofs` proves, for partitions of every size, moves of every length and
any number of interrupted processes:

| theorem | statement |
|---|---|
| `Invariance` | `Spec => []IInv` |
| `TypeCorrectness`, `Intactness`, `Recovery`, `MappedAccesses` | `TypeOK`, `PartitionsAreIntact`, `RecoverableOutsideWindows`, `AccessesAreMapped` |
| `WindowsAreReal` | `LostInWindows` |

The only assumption is that the bounds are natural numbers (`PartitionsAssumption`).
`PartitionsAreIntact` speaks of the moments between operations and is not inductive.
`IInv` says for each operation, step by step, where the blocks relied on are: still
at the old place, already at the new one, or, during a move, the blocks at and
above (or below) the one copied last at the new place and the rest at the old one.
It also carries the arithmetic between sizes, pointers and the file's length that
keeps the moves inside the mapping. There is one lemma per action; the ones about the
moves take each operation as a case, because the ranges differ.
`Recovery` follows, as every step outside the windows leaves the header describing one
complete set of places.

`WindowsAreReal`, the converse, needs that what a move overwrites differs from what
it replaces, although moves leave copies behind, in blocks that are free or not yet
counted. `OrderInv` says where such copies can be: the free list block is nowhere in
the metadata but at their beginning, a copy of a node block only above the block
itself, and what lies behind the metadata is blank. So the block that lands on the
old beginning of the metadata is not the free list block, the one that lands on a
node block is not that node block, and root's first node block, which every archive
has, is where a new list block is counted before it is written.

`ChildrenProofs` proves, for directories of any depth, any requests and any order in
which the processes run:

| theorem | statement |
|---|---|
| `ChildrenAreCounted` | `Spec => []EveryChildIsCounted` |
| `WaitsFindAChild` | a step that waits collects a child |
| `NoChildIsLeft` | when the parent exits there is no child it has not waited for |
| `TypeCorrectness`, `OutputsAreTemporary` | `TypeOK`, `SourceIsLeftAsItWas` |
| `ArchivedIsExtracted` | `Spec => []RoundTrip` |

The assumptions are that process ids are distinct, that no own name ends in one and that
fewer children are started than `count` can say (`ChildrenAssumption`); for
`ArchivedIsExtracted` also that what lies above a path of the directory is a directory
of it and that paths and names are sequences (`PathsAssumption`). The first three theorems are about extractions and
archivings in which every directory could be created, for a directory that cannot be
created is counted as -1. No count is right by itself, as `wait()` takes any child: the
invariant (`Owed`) is about the sum of the counts on all levels. It is stated with the
partial sums from the outermost directory inwards, of which an action changes only
the last; `Entering`, `Changing` and `Leaving` say so for the three things the parent
does to its stack. `Counted` adds up the same numbers by a recursive function;
`TallyIsCounted` shows that it agrees, by the least index at which two tallies would
differ (`OneTally`).

`OutputsAreTemporary` needs no such condition. `StoreInv` says what is in the
directory besides the user's own files, which are all there unchanged: outputs only,
each listed in the table of a directory on the stack and not come across yet in that
directory's second reading. The children running are the ones of the innermost
directory, all of them `gzip`. So when the stack is empty no output is left.

`ArchivedIsExtracted` needs to know where each path is at any moment. `TripInv` says it.
While the directory is stored, a path is in the archive, or its `gzip` failed, or it is
still to come across (`Pending`): below a directory of the stack, or in one and not
returned by `readdir` yet in the second reading, under its own name or as the output of
its child. For each child started there is its work (`WorkOf`): running, failed, or an
output that has the compressed bytes, until the output is inserted. What is in the
archive is right (`IsRight`), and stays so. While the archive is extracted, a path that
was asked for and is not spoilt has arrived, or its compressed file is there and a
`gunzip` child of it has not started, or it is still to extract (`Coming`, `ToExtract`).
A compressed file that is none of the archive belongs to a child that has not ended, or
that failed, so that no other is left at the end (`IsTemporary`). Any directories, files
and links may be in the way. The theorem says nothing of a path while something prevents
that it is written (`Spoilt`), nor which links are read past their end: that is
`LinksStayWhole`, which is only model-checked. `OutStep` describes a step by
what it does at each path; `ComingStays` shows that such a step loses none, as
the compressed files of different paths are different (`GzTellsApart`) and, unless two
names differ by `.gz`, none of the archive (`ZippedApart`).

`DataPartitionProofs` proves, for partitions of every size, any files and any
sequence of commands:

| theorem | statement |
|---|---|
| `ArrayInvariance` | `Spec /\ []ArrayHasRoom => []IInv` |
| `TypeCorrectness`, `BlocksHaveOneOwner`, `TagsAreRight`, `ExtractedAsStored`, `ListStaysSorted`, `FreeChunksStayMerged`, `ArchivesStayTrimmed` | `Spec /\ []ArrayHasRoom => []P` for each invariant `P` of the run `data_array`, in the order `PROJECT.json` lists them |
| `RemovalIsExact` | the same for `RemovesOnlyThatChunk`, which no run checks for itself: a removal that takes another chunk violates `PartitionIsTiled` |
| `StoringTakesTheBestFit` | the same for the action property `TakesBestFit` |
| `SmallArchivesHaveRoom` | `Spec => []ArrayHasRoom` if `MaxDataBlocks < 2 * MD_FREE_LIST_ENTRIES` |
| `SmallArchivesAreSound` | then all these properties hold, with no other condition |

`ArrayHasRoom` says that between two steps the array has room for one more chunk. The
condition cannot be dropped: once the array overflows, the faults of the linked list
make the properties false, as `data_list_stale` shows for `FilesAreIntact`. It is a
condition on behaviours and not an assumption, and every reachable state of
`data_array` meets it. For archives of up to 125 blocks (63 entries) it is proved:
each free chunk has a block of its own, and so has the end of each, because no two
are neighbours.
`DataPartitionAssumption` gives the constants their types; the paths a command may
name are finitely many, so that the sum of their reservations is defined. That sum is
a fold of the community modules, shown to be a natural number by induction on the
size of the set (`SumExists`, `SumIsNatural`).

None of the eight invariants is inductive by itself: the array must be sorted for the
search to find the best fit, a deletion merges with what the tags say, tags are right
only if no file is written over, and no file is only if nothing is listed twice.
`Sound` is their conjunction in a form that can be broken in one place at a time.
Within a command a chunk is taken from the free list, joined to its neighbours,
cut, written, listed or given to a file; `Pending(p, M, files)` is `Sound` with the
chunks `M` on their way. Each function of `data.c` has one lemma about it:
`RemoveChunkRemoves` and `InsertChunkInserts` for the array, `UnlistedIsPending`,
`ListedIsFree`, `GivenUpIsPending`, `JoinedArePending` and `CutArePending` for the
chunks, then `AbsorbNextJoins`, `AbsorbPreviousJoins`, `DeleteFileIsSound`,
`RequestedIsPending`, `InsertBytesIsSound`, `RemoveLastChunkIsSound`, `GrowByIsSound`
and `DataInitIsSound`. What tiling means is stated without counting (`Tiles`);
`InvTiled` relates it to the cardinality in `PartitionIsTiled`.

`DirChainProofs` proves, for blocks of any number of names, any names and any number
of blocks:

| theorem | statement |
|---|---|
| `ChainIsKept` | `Spec => []IInv` |
| `TypeCorrectness`, `LookupsAreExact`, `CountersAreExact`, `LinksStayInside` | the invariants of the run `dir_chain` |

The assumptions are that a block has room for a name and that `NoName` is no name.
`IInv` says that there is a sequence of blocks, without repetition, that the links
forward run through, and that holds each name of the directory in one slot. The
links back are not the inverse: a block that is bypassed keeps pointing into the
chain and its successor keeps pointing to it. A link back therefore leads to the
block before or to one outside the chain that the directory owns still, and the
proof shows that what an emptied block writes through the second kind does not
reach the chain (`LinksStayInside` is what fails if the leaked blocks were given
back). Every action has one step for the sequence after it: the same, longer by one
at the end, or with the bypassed or pulled block left out (`LeavesOut`).

`ArchiveProofs` proves, for all disks, arguments and sequences of commands:

| theorem | statement |
|---|---|
| `PartsAgree` | `Spec => []IInv` |
| `TypeCorrectness` | `Spec => []TypeOK` |
| `NothingIsLostOutsideWindows`, `WindowsAreWindows` | `WholeUnlessLost`, `LostInWindows` |
| `EachPathIsOldOrNew` | `BaseDir # <<>> /\ Spec => []EachPathOldOrNew` |
| `RealPathIsDenoted` | `RealPath(FullPath(arg)) = Denoted(arg)`, for paths of any length |

`ArchiveAssumption` says that a disk has a directory at its root and above every
path, and that an argument is a path that does not climb above the root. That names,
node blocks and data agree between two commands does not follow from itself: a
deletion walks down the names and deletes upwards, so it must never meet a
directory it is in the middle of, and an insertion puts an entry under a
directory it looked up some steps before. `IInv` gives every id a depth, greater
for what is in a directory than for the directory itself; that such numbers exist is
all it says. An insertion puts a new id one below its directory, a deletion takes leaves
away. The rest of `IInv` says, for each `pc`, which of the parts the entry at work
lacks, which is how the windows are exact.

`EachPathIsOldOrNew` takes a second invariant, `TreeInv`, on top of `IInv`. It is about
places: a function from ids to paths that gives the root the empty path and the entry
under the name `n` of a directory the directory's path and `n` (`IsPlaced`). As every
entry is named once, no path is the place of two (`OnePlaceEach`), and the tree that
looking paths up shows is what is stored at the places (`TreeShows`). While paths are
inserted (`Inserts`), every entry but the one at work is at its place as `before` or as
`after` says, nothing that was there has gone, and each path of `after` is there as it
should be, or is in front of the recursion (`Pending`: below a name left in a frame, or
at or below the entry at work), or near an argument still to come (`ToCome`). Where a
name has another kind on disk, nothing is planned at or below it (`Planned`), so that the
refusal in `RefuseEntry` drops nothing that should come. While paths are deleted
(`Deletes`), what is there is as it was, and what should go is below the path at work or
an argument to come (`ToGo`). When nothing is left to do, that is the property. An
entry that is inserted gets a place, one that is deleted loses its own, and no other
changes; so there is one lemma for each action, `InsertEntryIsFaithful` and
`DeleteEntryIsFaithful` with another place function after the step.

The histories know the arguments by what they denote (`Requested`), the process by
what `CreateRelativePath` makes of them. That the two agree is `RequestedPaths`, which
rests on `RealPathIsDenoted`: after each component, what is left are the names that no
`..` has taken back so far, and from the `a`-th of `k` on, `k - a` more names than `..`
follow (`LeftBy`). `CreateRelativePath` leaves out every path when the base is `/`
(`cli_utils.c:146`), which is why the theorem excludes that base: a `create` there ends
with nothing stored. `TreesAssumption` adds that what lies above a path on disk is a
directory, and that the paths looked up come with those above them.

`CIBListProofs` proves, for sets, blocks and masks of any size and any sequence of
`CIBListGetFreeSpot` and `CIBListFreeEntry`:

| theorem | statement |
|---|---|
| `TypeCorrectness`, `BitmapsAreRight`, `FullBlocksAreMarked` | `Spec => []P` for the invariants `P` of `list_levels`, if `MaxListBlocks <= IntBits` and `MaxListBlocks < SetSize` |
| `EveryIdIsNew`, `ListGrowsOnlyWhenFull` | then also the action properties of `list_levels` |

The condition is on the size of the list: at most 32 list blocks with the constants of
the code, that is 992 entries. It is the condition under which the code is right: with
one block more the mask of line 493 is that of other blocks, and `list_shift` shows
what follows. Beyond `CIBListAssumption`, which gives the constants their types,
nothing is assumed. `IInv` says that there is one set, of level 0, that the bitmap and
the counter of each block are those of the ids in use (`Exact`) and that the marks in
the first block are those of the full blocks (`MarksTheFull`). The invariants of the
run do not suffice for each other, as a search that trusts a wrong mark gives out a
used id, and a wrong bitmap makes a wrong mark. That the level stays 0 is the reason
why the recursion ends at once (`OneCall`, `OneLevel`): the set has a member that does
not exist and is never marked. The levels above are checked by `list_levels` only.

Each inductive invariant was checked by TLC on the instance of the run before it was
proved. Induction over data is done with `LeastNumber` and `UpTo` of
`InductionLemmas`: the recursive functions of the models (`Chain`, `DirEntries`,
`Swept`, `GetEntry`, `RealPath`, `Counted`, `MemberSize`) go over sequences or over numbers up to a
bound, and what they return is shown of the least length for which it could fail.

Only model-checked: the levels of `CIBList` above the first, which no archive for which
the code is right has; and `LinksStayWhole`. Liveness (`DeletionTerminates`,
`InsertionsEnd`) is out of the prover's reach.

## Not modelled

Left for later, in this order: the counts of `CalculateDirSpaceRec`, which only set how
large an archive starts; the archive without list blocks.

Left out for good:

- the system call wrappers (I/O only) and the containers, which the modules use as
  sequences, sets and functions;
- `CIBReadArgs`, a loop that sets flags, and the error messages;
- query and the two printing commands, which change nothing;
- ownership, times and modes of an entry other than its kind;
- the failure of `ftruncate`, `mmap` and `open` in the archive itself, and of `mmap` in a
  file that is extracted: the callers ignore the results and go on with an invalid mapping;
- the failure of `fork`, which the callers count like a child;
- a directory that other programs change while it is archived;
- the paths given to extract and query, which are looked up as they are.
