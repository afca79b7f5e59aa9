------------------------------- MODULE Archive -------------------------------
(***************************************************************************)
(* The tree in an archive and the commands that change it: create, append  *)
(* and delete of cibfuncs.c over the paths of cib_struct.c (both under     *)
(* src/src).  Three parts work together here: entries, the node blocks of  *)
(* directories, and the chunks of the data partition; an entry points into *)
(* one of the latter two.                                                  *)
(*                                                                         *)
(* How these three work inside is in modules of their own.  Here, an entry *)
(* gets the least free id (CIBList), a directory's chain of node blocks is *)
(* a function from names to ids (DirChain), and a file is one chunk that   *)
(* was free (DataPartition).                                               *)
(*                                                                         *)
(* A command is a sequence of steps on the tree; the process may be        *)
(* interrupted between any two, and what is stored by then remains.        *)
(* "before", "after" and "lost" are history variables: the tree before and *)
(* after the command in progress, and whether the last command ended where *)
(* the parts contradict one another.                                       *)
(*                                                                         *)
(* A definition right in front of another one and with a longer name is a  *)
(* slip one could make in the code; no action uses it, it serves to see    *)
(* which property would notice.                                            *)
(***************************************************************************)
EXTENDS CommandPaths, FiniteSets

CONSTANTS
    Disks,        \* what may lie below the base directory when a command starts:
                  \* functions from paths to kind and content
    Arguments,    \* lists of paths that commands are given
    Paths,        \* the paths that are looked up
    Absent,       \* what is at a path that does not exist
    MaxNodes      \* bound: node blocks given to directories

Kinds == {"dir", "file", "link"}

ASSUME ArchiveAssumption ==
    /\ \A d \in Disks : <<>> \in DOMAIN d /\ d[<<>>].kind = "dir"
    /\ \A d \in Disks : \A p \in DOMAIN d :
         p \in Seq(Range(p)) /\ Prefixes(p) \subseteq DOMAIN d /\ d[p].kind \in Kinds
    /\ BaseDir \in Seq(Range(BaseDir))
    /\ \A args \in Arguments :
         /\ args \in Seq(Range(args))
         /\ \A i \in DOMAIN args : /\ args[i] \in Seq(Range(args[i])) \ {<<>>}
                                  /\ ~ClimbsAboveRoot(FullPath(args[i]))
    /\ MaxNodes \in Nat

(* The paths looked up come with those above them; what lies above a path on disk is
   a directory. *)
ASSUME TreesAssumption ==
    /\ \A p \in Paths : p \in Seq(Range(p)) /\ Prefixes(p) \subseteq Paths
    /\ \A d \in Disks : \A p \in DOMAIN d :
         /\ d[p] = [kind |-> d[p].kind, content |-> d[p].content]
         /\ d[p].kind = "dir" => d[p].content = Absent
         /\ \A q \in Prefixes(p) \ {p} : d[q].kind = "dir"

VARIABLES
    disk,         \* the files and directories a command finds outside
    entry,        \* entry id -> kind and pointer
    node,         \* node block -> the names in the directory, with their entry ids
    data,         \* chunk of the data partition -> content of the file
    cmd,          \* the command in progress: what it does, paths to go, path at work
    stack,        \* the directories the recursion is in, the innermost one last
    now,          \* the entry at work: path, id, chunk stored for it
    pc,           \* the next step; "closed" without a process
    before, after, lost

vars == <<disk, entry, node, data, cmd, stack, now, pc, before, after, lost>>

Root == 0
Steps == {"closed", "ended", "run", "node", "free", "store", "point", "entry"}

NoCommand == [do |-> "none", compress |-> FALSE, args |-> <<>>, path |-> <<>>]
NoEntry == [path |-> <<>>, id |-> Root, chunk |-> 0]

(* What is taken next from a pool: the least number not in use. *)
Fresh(first, used) ==
    CHOOSE n \in first .. first + Cardinality(used) :
        n \notin used /\ \A m \in first .. n - 1 : m \in used

FreshId   == Fresh(0, DOMAIN entry)
FreshNode == Fresh(0, DOMAIN node)

(* A free chunk of the data partition, whichever fits; block 0 is never one. *)
FreeChunksFromZero == (0 .. Cardinality(DOMAIN data)) \ DOMAIN data
FreeChunks == (1 .. Cardinality(DOMAIN data) + 1) \ DOMAIN data

IsDir(id) == entry[id].kind = "dir"
DirOf(id) == node[entry[id].pointer]

-------------------------------------------------------------------------------
(***************************************************************************)
(* CIBListGetEntry: from the root down, a component at a time.  At an      *)
(* entry that is no directory the loop asks for one component more; if     *)
(* there is none it ends with that entry as the result ("past").           *)
(***************************************************************************)
Found(id) == [found |-> TRUE, id |-> id, past |-> FALSE]
NotFound == [found |-> FALSE, id |-> Root, past |-> FALSE]
Past(id) == [found |-> TRUE, id |-> id, past |-> TRUE]

LookUp(at, name) ==
    IF name \in DOMAIN DirOf(at.id) THEN Found(DirOf(at.id)[name]) ELSE NotFound

Component(at, name) ==
    CASE ~at.found \/ at.past                 -> NotFound
      [] at.found /\ ~at.past /\ IsDir(at.id) -> LookUp(at, name)
      [] OTHER                                -> Past(at.id)

GetEntry(path) ==
    LET at[n \in 0 .. Len(path)] ==
          IF n = 0 THEN Found(Root) ELSE Component(at[n - 1], path[n])
    IN  at[Len(path)]

(* What CIBExtract finds there. *)
Extracted(at) ==
    IF IsDir(at.id) THEN [kind |-> "dir", content |-> Absent]
    ELSE [kind |-> entry[at.id].kind, content |-> data[entry[at.id].pointer]]

Tree == LET at == [p \in Paths |-> GetEntry(p)]
        IN  [p \in {q \in Paths : at[q].found /\ ~at[q].past} |-> Extracted(at[p])]

At(tree, path) == IF path \in DOMAIN tree THEN tree[path] ELSE Absent

(***************************************************************************)
(* What the commands are to do, stated on trees.  Storing paths stores     *)
(* what is on disk at them, at the directories above them and below them,  *)
(* save where a name is of another kind in the archive, and below there.   *)
(***************************************************************************)
Near(p, path) == IsPrefix(p, path) \/ IsPrefix(path, p)

Agrees(tree, d, p) == \A q \in Prefixes(p) : q \in DOMAIN tree => tree[q].kind = d[q].kind

WithStored(tree, d, paths) ==
    LET new == {p \in DOMAIN d : /\ \E path \in paths \cap DOMAIN d : Near(p, path)
                                /\ Agrees(tree, d, p)}
    IN  [p \in DOMAIN tree \cup new |-> IF p \in new THEN d[p] ELSE tree[p]]

WithDeleted(tree, paths) ==
    LET kept == {p \in DOMAIN tree : \A path \in paths : path = <<>> \/ ~IsPrefix(path, p)}
    IN  [p \in kept |-> tree[p]]

Requested(args) ==
    LET below == {i \in DOMAIN args : IsPrefix(BaseDir, Denoted(args[i]))}
    IN  {Relative(Denoted(args[i])) : i \in below}

-------------------------------------------------------------------------------
EmptyDir == [name \in {} |-> Root]
OnlyRoot == [id \in {Root} |-> [kind |-> "dir", pointer |-> 0]]
NoDisk == [p \in {} |-> Absent]
EmptyTree == [p \in {<<>>} |-> [kind |-> "dir", content |-> Absent]]

Init ==
    /\ disk = NoDisk
    /\ entry = OnlyRoot
    /\ node = [b \in {0} |-> EmptyDir]
    /\ data = [b \in {} |-> Absent]
    /\ cmd = NoCommand /\ stack = <<>> /\ now = NoEntry
    /\ pc = "closed"
    /\ before = EmptyTree /\ after = EmptyTree /\ lost = FALSE

(* CIBCreate: HeadInit, DataInit and MDInit leave an archive with a root.  Some path
   must exist, see FreeList for the archive without list blocks. *)
Create(args, compress) ==
    /\ pc = "closed"
    /\ disk' \in Disks
    /\ \E i \in DOMAIN CreateRelativePath(args) : CreateRelativePath(args)[i] \in DOMAIN disk'
    /\ entry' = OnlyRoot
    /\ node' = [b \in {0} |-> EmptyDir]
    /\ data' = [b \in {} |-> Absent]
    /\ cmd' = [do |-> "insert", compress |-> compress, args |-> CreateRelativePath(args),
               path |-> <<>>]
    /\ pc' = "run"
    /\ before' = EmptyTree
    /\ after' = WithStored(EmptyTree, disk', Requested(args))
    /\ lost' = FALSE
    /\ UNCHANGED <<stack, now>>

(* CIBAppend; the update of the root entry changes no kind and no pointer. *)
AppendPaths(args, compress) ==
    /\ pc = "closed" /\ ~lost
    /\ Cardinality(DOMAIN node) < MaxNodes
    /\ disk' \in Disks
    /\ cmd' = [do |-> "insert", compress |-> compress, args |-> CreateRelativePath(args),
               path |-> <<>>]
    /\ pc' = "run"
    /\ before' = Tree
    /\ after' = WithStored(before', disk', Requested(args))
    /\ UNCHANGED <<entry, node, data, stack, now, lost>>

(* CIBDelete. *)
Delete(args) ==
    /\ pc = "closed" /\ ~lost
    /\ cmd' = [do |-> "delete", compress |-> FALSE, args |-> CreateRelativePath(args),
               path |-> <<>>]
    /\ pc' = "run"
    /\ before' = Tree
    /\ after' = WithDeleted(before', Requested(args))
    /\ UNCHANGED <<disk, entry, node, data, stack, now, lost>>

(* All paths done: DataRemoveLastChunk and CloseExistingCIB. *)
Finish ==
    /\ pc = "run" /\ stack = <<>> /\ cmd.args = <<>>
    /\ pc' = "ended"
    /\ cmd' = NoCommand
    /\ before' = after
    /\ disk' = NoDisk
    /\ UNCHANGED <<entry, node, data, stack, now, after, lost>>

-------------------------------------------------------------------------------
(***************************************************************************)
(* Insertion.  CIBRecInsertEntry inserts the directories on the way to the *)
(* path, then the path; CIBInsertDirectory everything below it, in the     *)
(* order of readdir.  Both insert an entry in the same way.  A frame of    *)
(* the stack is a directory with the names still to insert in it.  The     *)
(* table inserted_entries gives for a directory the id that looking it up  *)
(* again gives, and is left out.                                           *)
(***************************************************************************)
NamesBelow(path) == {Last(p) : p \in {q \in DOMAIN disk : q # <<>> /\ Front(q) = path}}

ToInsertOnTheWay(path) ==
    IF IsStrictPrefix(path, cmd.path) THEN {cmd.path[Len(path) + 1]} ELSE {}
ToInsert(path) ==
    IF IsStrictPrefix(path, cmd.path) THEN {cmd.path[Len(path) + 1]} ELSE NamesBelow(path)

Frame(path, id, parent, left) == [path |-> path, id |-> id, parent |-> parent, left |-> left]

Top == Last(stack)

ArgumentsLeftIfStored == IF Head(cmd.args) \in DOMAIN disk THEN Tail(cmd.args) ELSE cmd.args
ArgumentsLeft == Tail(cmd.args)

(* CIBInsertEntries: the next path, if it exists. *)
NextArgument ==
    /\ pc = "run" /\ cmd.do = "insert" /\ stack = <<>> /\ cmd.args # <<>>
    /\ LET path == Head(cmd.args) IN
         /\ cmd' = [cmd EXCEPT !.args = ArgumentsLeft, !.path = path]
         /\ stack' = IF path \notin DOMAIN disk THEN <<>>
                     ELSE <<Frame(<<>>, Root, Root,
                                  IF path = <<>> THEN NamesBelow(<<>>) ELSE {Head(path)})>>
    /\ UNCHANGED <<disk, entry, node, data, now, pc, before, after, lost>>

WithoutName(name) == [stack EXCEPT ![Len(stack)].left = @ \ {name}]

(* A directory is entered once it is in the archive. *)
Enter(frames, path, id) == Append(frames, Frame(path, id, Top.id, ToInsert(path)))

(* CIBListUpdateEntry for a name that is not in the directory: a new entry. *)
InsertEntry(name) ==
    LET path == Append(Top.path, name)
        id   == FreshId
    IN  /\ name \notin DOMAIN DirOf(Top.id)
        /\ entry' = [i \in DOMAIN entry \cup {id} |->
                        IF i = id THEN [kind |-> disk[path].kind, pointer |-> 0] ELSE entry[i]]
        /\ node' = [node EXCEPT ![entry[Top.id].pointer] =
                       [n \in DOMAIN @ \cup {name} |-> IF n = name THEN id ELSE @[n]]]
        /\ now' = [path |-> path, id |-> id, chunk |-> 0]
        /\ pc' = IF disk[path].kind = "dir" THEN "node" ELSE "free"
        /\ stack' = WithoutName(name)

(* And for one that is there: entries keep their kind. *)
UpdateEntry(name) ==
    LET path == Append(Top.path, name)
        id   == DirOf(Top.id)[name]
    IN  /\ name \in DOMAIN DirOf(Top.id)
        /\ entry[id].kind = disk[path].kind
        /\ IF IsDir(id)
           THEN /\ stack' = Enter(WithoutName(name), path, id)
                /\ UNCHANGED <<now, pc>>
           ELSE /\ now' = [path |-> path, id |-> id, chunk |-> 0]
                /\ pc' = "free"
                /\ stack' = WithoutName(name)
        /\ UNCHANGED <<entry, node>>

RefuseEntry(name) ==
    /\ name \in DOMAIN DirOf(Top.id)
    /\ entry[DirOf(Top.id)[name]].kind # disk[Append(Top.path, name)].kind
    /\ stack' = WithoutName(name)
    /\ UNCHANGED <<entry, node, now, pc>>

NextName ==
    /\ pc = "run" /\ cmd.do = "insert" /\ stack # <<>>
    /\ \E name \in Top.left : InsertEntry(name) \/ UpdateEntry(name) \/ RefuseEntry(name)
    /\ UNCHANGED <<disk, data, cmd, before, after, lost>>

LeaveDirectory ==
    /\ pc = "run" /\ cmd.do = "insert" /\ stack # <<>> /\ Top.left = {}
    /\ stack' = Front(stack)
    /\ UNCHANGED <<disk, entry, node, data, cmd, now, pc, before, after, lost>>

(* CIBListInsertEntryUnderDir: a new directory gets its node block last. *)
MakeNode ==
    /\ pc = "node"
    /\ node' = [b \in DOMAIN node \cup {FreshNode} |->
                   IF b = FreshNode THEN EmptyDir ELSE node[b]]
    /\ entry' = [entry EXCEPT ![now.id].pointer = FreshNode]
    /\ stack' = Enter(stack, now.path, now.id)
    /\ now' = NoEntry
    /\ pc' = "run"
    /\ UNCHANGED <<disk, data, cmd, before, after, lost>>

(* What a file or link is stored by: DataDeleteFile of the old data if there is
   any, DataInsertFile or DataInsertLink, CIBEntrySetPointer. *)
WithoutChunk(b) == [c \in DOMAIN data \ {b} |-> data[c]]

FreeOldDataOfLinks ==
    /\ pc = "free"
    /\ data' = IF entry[now.id].kind = "link" THEN WithoutChunk(entry[now.id].pointer) ELSE data
    /\ pc' = "store"
    /\ UNCHANGED <<disk, entry, node, cmd, stack, now, before, after, lost>>
FreeOldData ==
    /\ pc = "free"
    /\ data' = IF entry[now.id].pointer # 0 THEN WithoutChunk(entry[now.id].pointer) ELSE data
    /\ pc' = "store"
    /\ UNCHANGED <<disk, entry, node, cmd, stack, now, before, after, lost>>

(* A file named by the command is compressed into the directory of its path, and
   looked for in the working directory. *)
LooksElsewhere ==
    cmd.compress /\ entry[now.id].kind = "file" /\ now.path = cmd.path /\ Len(now.path) > 1

StoreData ==
    /\ pc = "store" /\ ~LooksElsewhere
    /\ \E chunk \in FreeChunks :
         /\ data' = [c \in DOMAIN data \cup {chunk} |->
                        IF c = chunk THEN disk[now.path].content ELSE data[c]]
         /\ now' = [now EXCEPT !.chunk = chunk]
    /\ pc' = "point"
    /\ UNCHANGED <<disk, entry, node, cmd, stack, before, after, lost>>

SetPointer ==
    /\ pc = "point"
    /\ entry' = [entry EXCEPT ![now.id].pointer = now.chunk]
    /\ now' = NoEntry
    /\ pc' = "run"
    /\ UNCHANGED <<disk, node, data, cmd, stack, before, after, lost>>

-------------------------------------------------------------------------------
(***************************************************************************)
(* Deletion.  CIBDeleteRec lists a directory, deletes what is in it and    *)
(* then its own entry; the data of a file goes before its entry.  The node *)
(* block of a deleted directory is not returned.                           *)
(***************************************************************************)
ToDelete(id) == IF IsDir(id) THEN DOMAIN DirOf(id) ELSE {}

NextToDelete ==
    /\ pc = "run" /\ cmd.do = "delete" /\ stack = <<>> /\ cmd.args # <<>>
    /\ LET path == Head(cmd.args)
           at   == GetEntry(path)
       IN  /\ cmd' = [cmd EXCEPT !.args = ArgumentsLeft, !.path = path]
           /\ stack' = IF path = <<>> \/ ~at.found THEN <<>>
                       ELSE <<Frame(path, at.id, GetEntry(Front(path)).id, ToDelete(at.id))>>
    /\ UNCHANGED <<disk, entry, node, data, now, pc, before, after, lost>>

DeleteBelow ==
    /\ pc = "run" /\ cmd.do = "delete" /\ stack # <<>>
    /\ \E name \in Top.left :
         LET id == DirOf(Top.id)[name] IN
         stack' = Append(WithoutName(name),
                         Frame(Append(Top.path, name), id, Top.id, ToDelete(id)))
    /\ UNCHANGED <<disk, entry, node, data, cmd, now, pc, before, after, lost>>

DeleteData ==
    /\ pc = "run" /\ cmd.do = "delete" /\ stack # <<>> /\ Top.left = {}
    /\ data' = IF IsDir(Top.id) THEN data ELSE WithoutChunk(entry[Top.id].pointer)
    /\ pc' = "entry"
    /\ UNCHANGED <<disk, entry, node, cmd, stack, now, before, after, lost>>

(* MDDeleteEntry.  For a path below a file the "parent" is the file itself: its
   pointer is taken for a node block, and the name stays where it is.  For a directory
   the do-while of CIBListDeleteDirEntry (cib_struct.c:629-641) runs first.  It changes
   nothing here when it ends, and is part of this step; DirChain shows it may not end,
   so that nothing may be said here of whether a deletion does. *)
DeleteEntry ==
    /\ pc = "entry"
    /\ entry' = [i \in DOMAIN entry \ {Top.id} |-> entry[i]]
    /\ node' = IF ~IsDir(Top.parent) THEN node
               ELSE [node EXCEPT ![entry[Top.parent].pointer] =
                        [n \in {m \in DOMAIN @ : @[m] # Top.id} |-> @[n]]]
    /\ lost' = ~IsDir(Top.parent)
    /\ stack' = IF IsDir(Top.parent) THEN Front(stack) ELSE <<>>
    /\ pc' = IF IsDir(Top.parent) THEN "run" ELSE "ended"
    /\ cmd' = IF IsDir(Top.parent) THEN cmd ELSE NoCommand
    /\ UNCHANGED <<disk, data, now, before, after>>

-------------------------------------------------------------------------------
(* The process is interrupted, or dies because it does not find the compressed file.
   The windows: an entry without data or node block, or with data just freed, unless
   the new data went to the very chunk that was freed. *)
InWindow ==
    \/ pc \in {"node", "store"}
    \/ pc = "free" /\ entry[now.id].pointer = 0
    \/ pc = "point" /\ entry[now.id].pointer # now.chunk
    \/ pc = "entry" /\ ~IsDir(Top.id)

Die ==
    /\ pc' = "ended"
    /\ lost' = InWindow
    /\ cmd' = NoCommand /\ stack' = <<>> /\ now' = NoEntry 
    /\ disk' = NoDisk
    /\ UNCHANGED <<entry, node, data, before, after>>

Interrupt == pc \notin {"ended", "closed"} /\ Die

CompressedElsewhere == pc = "store" /\ LooksElsewhere /\ Die

(* The process is gone, and with it the history of its command. *)
Exit ==
    /\ pc = "ended"
    /\ pc' = "closed"
    /\ before' = EmptyTree /\ after' = EmptyTree
    /\ UNCHANGED <<disk, entry, node, data, cmd, stack, now, lost>>

Step ==
    \/ NextArgument \/ NextName \/ LeaveDirectory \/ MakeNode
    \/ FreeOldData \/ StoreData \/ SetPointer \/ CompressedElsewhere
    \/ NextToDelete \/ DeleteBelow \/ DeleteData \/ DeleteEntry
    \/ Finish \/ Exit

Next ==
    \/ \E args \in Arguments, compress \in BOOLEAN :
         Create(args, compress) \/ AppendPaths(args, compress)
    \/ \E args \in Arguments : Delete(args)
    \/ Step
    \/ Interrupt

(* A create or append runs in one thread.  It waits only for gzip children it has just
   started (cibfuncs.c:97-99 and 224), which read one file and end.  A deletion is not
   fair: see DeleteEntry. *)
InsertStep == cmd.do = "insert" /\ Step

Spec == Init /\ [][Next]_vars /\ WF_vars(InsertStep)

-------------------------------------------------------------------------------
TypeOK ==
    /\ disk \in Disks \cup {NoDisk}
    /\ \A id \in DOMAIN entry :
         id \in Nat /\ entry[id].kind \in Kinds /\ entry[id].pointer \in Nat
    /\ \A b \in DOMAIN node : b \in Nat /\ \A n \in DOMAIN node[b] : node[b][n] \in Nat
    /\ DOMAIN data \subseteq Nat \ {0}
    /\ pc \in Steps /\ (pc \in {"ended", "closed"}) = (cmd = NoCommand)
    /\ pc \in {"ended", "closed"} => stack = <<>> /\ now.path = <<>>
    /\ lost \in BOOLEAN

(* The three parts agree: each directory has a node block of its own, each file or
   link data of its own, each entry but the root is named exactly once, and nothing
   is kept that no entry points to. *)
Dirs == {id \in DOMAIN entry : IsDir(id)}
Files == DOMAIN entry \ Dirs
Named == UNION {{<<d, n>> : n \in DOMAIN DirOf(d)} : d \in Dirs}

Whole ==
    /\ \A d \in Dirs : entry[d].pointer \in DOMAIN node
    /\ \A d, e \in Dirs : d # e => entry[d].pointer # entry[e].pointer
    /\ {entry[f].pointer : f \in Files} = DOMAIN data
    /\ Cardinality(Files) = Cardinality(DOMAIN data)
    /\ {DirOf(p[1])[p[2]] : p \in Named} = DOMAIN entry \ {Root}
    /\ Cardinality(Named) = Cardinality(DOMAIN entry) - 1

(* Whatever commands ran, over whatever was on disk, and wherever they were
   interrupted outside the windows, the three parts agree: no data is lost or shared
   by two entries and no id dangles. *)
WholeUnlessLost == pc = "ended" /\ ~lost => Whole

(* The windows are no larger than they need be. *)
LostInWindows == pc = "ended" /\ lost => ~Whole

(* A command that ended has done to every path what it was asked to do; after an
   interruption outside the windows every path is either as it was before the
   command or as it should be after it. *)
EachPathOldOrNew ==
    pc = "ended" /\ ~lost =>
        LET tree == Tree
        IN  \A path \in Paths : At(tree, path) \in {At(before, path), At(after, path)}

(* A create or append comes to its end, whatever is on disk, in the archive and among
   its arguments: the loop over the arguments and the recursion into directories take
   each argument and each name once, also where an entry is refused or a path does not
   exist.  Deletions are left out, for they may run for ever (DeletionTerminates of
   DirChain), and so is a data partition whose free chunks overflow the array. *)
InsertionsEnd == cmd.do = "insert" ~> pc = "ended"

(* "If the iterator is not a directory and it is not the last entity in the path,
   then the given path does not exit inside the cib-file" (cib_struct.c:530-531). *)
NothingBelowFiles ==
    pc = "ended" /\ ~lost =>
        \A path \in Paths : ~GetEntry(path).past
===============================================================================
