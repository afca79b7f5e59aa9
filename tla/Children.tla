------------------------------- MODULE Children -------------------------------
(***************************************************************************)
(* The processes behind an archive: a directory is stored compressed, with *)
(* a gzip child for each file, then the archive is extracted, with a       *)
(* gunzip child for each compressed file (src/src/MYZFuncs/cibfuncs.c and  *)
(* DataExtractFile in src/src/Data/data.c).  The children run at the same  *)
(* time as each other and as the parent, which counts them and waits for   *)
(* as many as it counted; wait() takes any child that has ended.           *)
(*                                                                         *)
(* A name is the sequence of its parts between dots, so that "f.gz" is     *)
(* <<"f", "gz">>; a path is a sequence of names.  The bytes of a file are  *)
(* the path it has in the source, and how often they were compressed.      *)
(* The archive is what Archive shows it to be: a function from paths.      *)
(* A link leads to a place outside of both directories.  fork() succeeds.  *)
(*                                                                         *)
(* A definition right in front of another one and with a longer name is a  *)
(* slip one could make in the code; no action uses it, it serves to see    *)
(* which property would notice.                                            *)
(***************************************************************************)
EXTENDS Integers, FiniteSets, SequencesExt

CONSTANTS
    Sources,      \* directories to archive: functions from paths to kinds
    Pids,         \* the process ids of the children, as names, in order
    Requests,     \* lists of paths to extract
    InTheWay,     \* what may be where the archive is extracted, as in Sources
    Nothing,      \* the content of an empty file
    Overrun,      \* the target of a link that was read past its end
    UINT64        \* values of the type of "count", 2^64 in the code

Kinds == {"dir", "file", "link"}

ASSUME ChildrenAssumption ==
    /\ \A s \in Sources : <<>> \in DOMAIN s /\ s[<<>>] = "dir"
    /\ \A s \in Sources : \A p \in DOMAIN s : s[p] \in Kinds /\ p \in Seq(Range(p))
    /\ \A s \in Sources : \A p \in DOMAIN s, i \in DOMAIN Pids :
         p # <<>> => Last(p) # Pids[i]
    /\ Pids \in Seq(Range(Pids))
    /\ \A i, j \in DOMAIN Pids : Pids[i] = Pids[j] => i = j
    /\ UINT64 \in Nat /\ Len(Pids) < UINT64

(* What lies above a path is a directory; a request is a list of paths. *)
ASSUME PathsAssumption ==
    /\ \A s \in Sources : Nothing \notin DOMAIN s /\ Overrun \notin DOMAIN s
    /\ Overrun # Nothing
    /\ \A s \in Sources : \A p \in DOMAIN s :
         /\ \A i \in DOMAIN p : p[i] \in Seq(Range(p[i]))
         /\ \A q \in Prefixes(p) \ {p} : q \in DOMAIN s /\ s[q] = "dir"
    /\ \A r \in Requests :
         r \in Seq(Range(r)) /\ \A i \in DOMAIN r : r[i] \in Seq(Range(r[i]))
    /\ \A w \in InTheWay : <<>> \in DOMAIN w /\ w[<<>>] = "dir"
    /\ \A w \in InTheWay : \A p \in DOMAIN w :
         w[p] \in Kinds /\ \A q \in Prefixes(p) \ {p} : q \in DOMAIN w /\ w[q] = "dir"

VARIABLES
    compress,     \* whether the directory is stored compressed
    source,       \* the directory, children's outputs included
    stored,       \* the archive: path -> kind, whether zipped, content
    out,          \* where the archive is extracted
    child,        \* the children not yet waited for: process id -> what it does
    forks,        \* children started so far
    stack,        \* the directories of the recursion, the innermost one last
    todo,         \* paths still to extract
    waits,        \* children to wait for once all paths are extracted
    phase,        \* "store", "choose", "extract" or "exit"
    asked,        \* history: the paths the extraction was asked for
    failed,       \* history: files whose gzip failed
    refused,      \* history: directories that could not be created
    skipped       \* history: paths that were not written, or not removed

vars == <<compress, source, stored, out, child, forks, stack, todo, waits, phase,
          asked, failed, refused, skipped>>

File(content, zip) == [kind |-> "file", of |-> content, zip |-> zip]
Directory == [kind |-> "dir", of |-> Nothing, zip |-> 0]
Empty == File(Nothing, 0)

Tree(kinds) ==
    [p \in DOMAIN kinds |->
        IF kinds[p] = "dir" THEN Directory ELSE [kind |-> kinds[p], of |-> p, zip |-> 0]]

Gz(path) == Append(Front(path), Append(Last(path), "gz"))

Put(tree, path, item) ==
    [p \in DOMAIN tree \cup {path} |-> IF p = path THEN item ELSE tree[p]]
Unlink(tree, path) == [p \in DOMAIN tree \ {path} |-> tree[p]]

NamesIn(tree, dir) == {Last(p) : p \in {q \in DOMAIN tree : q # <<>> /\ Front(q) = dir}}

Top == Last(stack)
WithTop(frame) == [stack EXCEPT ![Len(stack)] = frame]

-------------------------------------------------------------------------------
(* A frame: a directory, where the work on it is, the names readdir returned (or
   that are still to extract), the table of outputs, the children counted. *)
Scanning(dir) ==
    [dir |-> dir, at |-> IF compress THEN "scan" ELSE "insert", names |-> {},
     opened |-> NamesIn(source, dir), map |-> [n \in {} |-> <<>>], count |-> 0]

Extracting(dir) ==
    [dir |-> dir, at |-> "extract", names |-> NamesIn(stored, dir),
     opened |-> {}, map |-> [n \in {} |-> <<>>], count |-> 0]

Init ==
    /\ compress \in BOOLEAN
    /\ \E s \in Sources : source = Tree(s)
    /\ stored = [p \in {<<>>} |-> Directory]
    /\ out = [p \in {<<>>} |-> Directory]
    /\ child = [n \in {} |-> Nothing] /\ forks = 0
    /\ stack = <<Scanning(<<>>)>>
    /\ todo = <<>> /\ waits = 0 /\ phase = "store"
    /\ asked = <<>> /\ failed = {} /\ refused = {} /\ skipped = {}

(* The parent forks; CIBCompressFile names the output by the child's process id.
   Bound: as many children as there are process ids. *)
Pid == Pids[forks + 1]
Fork(do, dir, path) ==
    /\ forks < Len(Pids)
    /\ child' = Put(child, Pid, [do |-> do, dir |-> dir, path |-> path, at |-> "start"])
    /\ forks' = forks + 1

NoFork == UNCHANGED <<child, forks>>

(***************************************************************************)
(* CIBCompressDir: a child for each regular file that readdir returns and  *)
(* that is not the output of a child.  Files created after opendir may be  *)
(* returned or not.                                                        *)
(***************************************************************************)
ToCompress(name) ==
    source[Append(Top.dir, name)].kind = "file" /\ name \notin DOMAIN Top.map

ScanDirectory ==
    /\ phase = "store" /\ stack # <<>> /\ Top.at = "scan"
    /\ \E name \in NamesIn(source, Top.dir) \ Top.names :
         LET seen == [Top EXCEPT !.names = @ \cup {name}] IN
         IF ToCompress(name)
         THEN /\ Fork("gzip", Top.dir, Append(Top.dir, name))
              /\ stack' = WithTop([seen EXCEPT !.map = Put(@, Pid, name), !.count = @ + 1])
         ELSE stack' = WithTop(seen) /\ NoFork
    /\ UNCHANGED <<compress, source, stored, out, todo, waits, phase, failed, refused, skipped,
                   asked>>

EndScan ==
    /\ phase = "store" /\ stack # <<>> /\ Top.at = "scan"
    /\ Top.opened \subseteq Top.names
    /\ stack' = WithTop([Top EXCEPT !.at = "wait"])
    /\ UNCHANGED <<compress, source, stored, out, child, forks, todo, waits, phase,
                   failed, refused, skipped, asked>>

(* CIBInsertDirectory, after the children have ended: outputs are stored under the
   name of their file and unlinked, the files themselves are passed over.
   DataInsertLink stores a link without the byte that ends it, and DataExtractLink
   takes it up to the first such byte: what comes back is the link, or a longer one
   (DataPartition has the block that tells which, LinkIsWhole). *)
ReadBack(path) ==
    IF source[path].kind = "link" THEN {source[path].of, Overrun} ELSE {source[path].of}

Stored(path, of, zipped) ==
    [kind |-> source[path].kind, of |-> of, zip |-> source[path].zip, zipped |-> zipped]

ItemNameOfOutput(name) == name
ItemName(name) == Top.map[name]

AfterInsertKeepingOutput(path) == source
AfterInsert(path) == Unlink(source, path)

InsertName ==
    /\ phase = "store" /\ stack # <<>> /\ Top.at = "insert"
    /\ \E name \in NamesIn(source, Top.dir) \ Top.names :
         LET path == Append(Top.dir, name)
             kind == source[path].kind
             output == kind # "dir" /\ name \in DOMAIN Top.map
             taken == kind # "dir" /\ ~output /\ (kind = "link" \/ ~compress)
             seen == WithTop([Top EXCEPT !.names = @ \cup {name}])
         IN  CASE kind = "dir" ->
                    /\ stored' = Put(stored, path, Directory)
                    /\ stack' = Append(seen, Scanning(path))
                    /\ UNCHANGED source
               [] output ->
                    /\ stored' = Put(stored, Append(Top.dir, ItemName(name)),
                                     Stored(path, source[path].of, TRUE))
                    /\ source' = AfterInsert(path)
                    /\ stack' = seen
               [] taken ->
                    /\ \E of \in ReadBack(path) :
                         stored' = Put(stored, path, Stored(path, of, FALSE))
                    /\ stack' = seen
                    /\ UNCHANGED source
               [] OTHER -> stack' = seen /\ UNCHANGED <<stored, source>>
    /\ UNCHANGED <<compress, out, child, forks, todo, waits, phase, failed, refused, skipped,
                   asked>>

LeaveInserted ==
    /\ phase = "store" /\ stack # <<>> /\ Top.at = "insert"
    /\ NamesIn(source, Top.dir) \subseteq Top.names
    /\ stack' = Front(stack)
    /\ phase' = IF Len(stack) = 1 THEN "choose" ELSE phase
    /\ UNCHANGED <<compress, source, stored, out, child, forks, todo, waits, failed, refused,
                   skipped, asked>>

-------------------------------------------------------------------------------
(* A later command extracts, to where other things may be. *)
Lying(kind) ==
    IF kind = "dir" THEN Directory ELSE [kind |-> kind, of |-> Nothing, zip |-> 0]

Choose(request, kinds) ==
    /\ phase = "choose"
    /\ out' = [p \in DOMAIN kinds |-> Lying(kinds[p])]
    /\ todo' = request /\ asked' = request
    /\ phase' = "extract"
    /\ UNCHANGED <<compress, source, stored, child, forks, stack, waits, failed, refused, skipped>>

(* CreateDir, and CreateDirRec on the directories above a path. *)
CanCreate(path) == path \in DOMAIN out => out[path].kind = "dir"

Above(path) == {p \in Prefixes(path) : p # path /\ p # <<>>}

WithDirs(tree, dirs) ==
    [p \in DOMAIN tree \cup dirs |-> IF p \in DOMAIN tree THEN tree[p] ELSE Directory]

(* DataExtractFile forks for a file stored compressed, unless it is empty. *)
ForksFor(path) ==
    stored[path].kind = "file" /\ stored[path].zipped /\ stored[path].of # Nothing

Bytes(path) == [kind |-> stored[path].kind, of |-> stored[path].of, zip |-> stored[path].zip]

KindAt(tree, path) == IF path \in DOMAIN tree THEN tree[path].kind ELSE "none"

(* Extracting one path into "tree", with "n" for what CIBExtractRec returns: it is
   added to the count of the directory, which is unsigned, or to the waits of the
   command. *)
Skips(path, tree, n) ==
    out' = tree /\ NoFork /\ n = 0 /\ skipped' = skipped \cup {path}

ReturnedForEmptyToo(path) ==
    IF stored[path].kind = "file" /\ stored[path].zipped THEN 1 ELSE 0
Returned(path) == IF ForksFor(path) THEN 1 ELSE 0

Target(path) == IF ForksFor(path) THEN Gz(path) ELSE path

ForkFor(path) == IF ForksFor(path) THEN Fork("gunzip", Front(path), path) ELSE NoFork

(* A file: opening it fails for a directory in the way, and may fail for anything;
   through a link in the way the bytes go elsewhere. *)
WriteFile(path, tree, n) ==
    /\ KindAt(tree, Target(path)) \in {"none", "file"}
    /\ out' = Put(tree, Target(path), Bytes(path))
    /\ ForkFor(path) /\ n = Returned(path) /\ UNCHANGED skipped

WriteThroughLink(path, tree, n) ==
    /\ KindAt(tree, Target(path)) = "link"
    /\ out' = tree /\ skipped' = skipped \cup {path}
    /\ ForkFor(path) /\ n = Returned(path)

ExtractFile(path, tree, n) ==
    WriteFile(path, tree, n) \/ WriteThroughLink(path, tree, n) \/ Skips(path, tree, n)

(* A link: what is in the way is removed first, unless it is a directory or a link
   that leads nowhere, which access() does not find.  Then, or for a target that is
   too long, symlink() fails, and nobody looks. *)
ExtractLink(path, tree, n) ==
    \/ /\ KindAt(tree, path) # "dir"
       /\ out' = Put(tree, path, Bytes(path))
       /\ NoFork /\ n = 0 /\ UNCHANGED skipped
    \/ KindAt(tree, path) # "dir" /\ Skips(path, Unlink(tree, path), n)
    \/ Skips(path, tree, n)

ExtractItem(path, tree, n) ==
    IF stored[path].kind = "link" THEN ExtractLink(path, tree, n) ELSE ExtractFile(path, tree, n)

PlusSigned(count, n) == count + n
Plus(count, n) == (count + n) % UINT64

ExtractName ==
    /\ phase = "extract" /\ stack # <<>> /\ Top.at = "extract"
    /\ \E name \in Top.names :
         LET path == Append(Top.dir, name)
             counted(n) == WithTop([Top EXCEPT !.names = @ \ {name},
                                               !.count = Plus(@, n)])
         IN  CASE stored[path].kind = "dir" /\ CanCreate(path) ->
                    /\ out' = WithDirs(out, {path})
                    /\ stack' = Append(counted(0), Extracting(path))
                    /\ NoFork /\ UNCHANGED <<refused, skipped>>
               [] stored[path].kind = "dir" /\ ~CanCreate(path) ->
                    /\ stack' = counted(-1)
                    /\ refused' = refused \cup {path}
                    /\ NoFork /\ UNCHANGED <<out, skipped>>
               [] OTHER ->
                    /\ \E n \in 0 .. 1 : ExtractItem(path, out, n) /\ stack' = counted(n)
                    /\ UNCHANGED refused
    /\ UNCHANGED <<compress, source, stored, todo, waits, phase, failed, asked>>

EndNames ==
    /\ phase = "extract" /\ stack # <<>> /\ Top.at = "extract" /\ Top.names = {}
    /\ stack' = WithTop([Top EXCEPT !.at = "wait"])
    /\ UNCHANGED <<compress, source, stored, out, child, forks, todo, waits, phase,
                   failed, refused, skipped, asked>>

(* The next path CIBExtract was given. *)
ExtractPath ==
    /\ phase = "extract" /\ stack = <<>> /\ todo # <<>>
    /\ LET path == Head(todo)
           made == WithDirs(out, Above(path))
           blocked == \E p \in Above(path) : ~CanCreate(p)
       IN  CASE path \notin DOMAIN stored ->
                  UNCHANGED <<out, stack, waits, child, forks, refused, skipped>>
             [] path \in DOMAIN stored /\ blocked ->
                  /\ refused' = refused \cup {p \in Above(path) : ~CanCreate(p)}
                  /\ out' = WithDirs(out, {p \in Above(path) : \A q \in Prefixes(p) : CanCreate(q)})
                  /\ UNCHANGED <<stack, waits, child, forks, skipped>>
             [] path \in DOMAIN stored /\ ~blocked /\ stored[path].kind = "dir" ->
                  IF CanCreate(path)
                  THEN /\ out' = WithDirs(made, {path})
                       /\ stack' = <<Extracting(path)>>
                       /\ NoFork /\ UNCHANGED <<waits, refused, skipped>>
                  ELSE /\ out' = made
                       /\ waits' = waits - 1
                       /\ refused' = refused \cup {path}
                       /\ NoFork /\ UNCHANGED <<stack, skipped>>
             [] OTHER ->
                  /\ \E n \in 0 .. 1 : ExtractItem(path, made, n) /\ waits' = waits + n
                  /\ UNCHANGED <<stack, refused>>
    /\ todo' = Tail(todo)
    /\ UNCHANGED <<compress, source, stored, phase, failed, asked>>

-------------------------------------------------------------------------------
(* wait(): any child that has ended; at once if there is none at all. *)
Reap == \E pid \in DOMAIN child :
          child[pid].at = "zombie" /\ child' = Unlink(child, pid)

WaitReturns == Reap \/ (DOMAIN child = {} /\ UNCHANGED child)

WaitInDirectory ==
    /\ stack # <<>> /\ Top.at = "wait" /\ Top.count > 0
    /\ WaitReturns
    /\ stack' = WithTop([Top EXCEPT !.count = @ - 1])
    /\ UNCHANGED <<compress, source, stored, out, forks, todo, waits, phase, failed, refused,
                   skipped, asked>>

EndWait ==
    /\ stack # <<>> /\ Top.at = "wait" /\ Top.count = 0
    /\ stack' = IF phase = "store" THEN WithTop([Top EXCEPT !.at = "insert", !.names = {}])
                ELSE Front(stack)
    /\ UNCHANGED <<compress, source, stored, out, child, forks, todo, waits, phase,
                   failed, refused, skipped, asked>>

WaitAtEnd ==
    /\ phase = "extract" /\ stack = <<>> /\ todo = <<>> /\ waits > 0
    /\ WaitReturns
    /\ waits' = waits - 1
    /\ UNCHANGED <<compress, source, stored, out, forks, stack, todo, phase, failed, refused,
                   skipped, asked>>

Exit ==
    /\ phase = "extract" /\ stack = <<>> /\ todo = <<>> /\ waits <= 0
    /\ phase' = "exit"
    /\ UNCHANGED <<compress, source, stored, out, child, forks, stack, todo, waits,
                   failed, refused, skipped, asked>>

-------------------------------------------------------------------------------
(***************************************************************************)
(* The children.  Nobody looks at their exit status.                       *)
(***************************************************************************)
Goes(pid, at) == child' = [child EXCEPT ![pid].at = at]

ChildUnchanged == UNCHANGED <<compress, stored, forks, stack, todo, waits, phase, refused, asked>>

Output(pid) == Append(child[pid].dir, pid)

OpenOutput(pid) ==
    /\ child[pid].do = "gzip" /\ child[pid].at = "start"
    /\ \/ source' = Put(source, Output(pid), Empty) /\ Goes(pid, "open") /\ UNCHANGED failed
       \/ failed' = failed \cup {child[pid].path} /\ Goes(pid, "zombie") /\ UNCHANGED source
    /\ UNCHANGED <<out, skipped>> /\ ChildUnchanged

Gzip(pid) ==
    /\ child[pid].do = "gzip" /\ child[pid].at = "open"
    /\ LET file == source[child[pid].path] IN
       \/ source' = Put(source, Output(pid), File(file.of, file.zip + 1)) /\ UNCHANGED failed
       \/ failed' = failed \cup {child[pid].path} /\ UNCHANGED source
    /\ Goes(pid, "zombie")
    /\ UNCHANGED <<out, skipped>> /\ ChildUnchanged

(* gunzip -f: the file without ".gz" is written, then the other one is removed.  It
   does nothing if the other one is missing or not compressed, and may fail; it follows
   a link.  A directory it does not replace. *)
IsZipped(path) == path \in DOMAIN out /\ out[path].kind = "file" /\ out[path].zip > 0

Unzipped(item) == [item EXCEPT !.zip = @ - 1]

Gunzip(pid) ==
    /\ child[pid].do = "gunzip" /\ child[pid].at = "start"
    /\ LET path == child[pid].path
           found == IsZipped(Gz(path)) \/ KindAt(out, Gz(path)) = "link"
       IN  \/ /\ found /\ KindAt(out, path) # "dir"
              /\ out' = Put(out, path, Unzipped(IF IsZipped(Gz(path)) THEN out[Gz(path)]
                                                ELSE Bytes(path)))
              /\ Goes(pid, "open") /\ UNCHANGED skipped
           \/ ~IsZipped(Gz(path)) /\ Goes(pid, "zombie") /\ UNCHANGED <<out, skipped>>
           \/ /\ skipped' = skipped \cup {path, Gz(path)}
              /\ Goes(pid, "zombie") /\ UNCHANGED out
    /\ UNCHANGED <<source, failed>> /\ ChildUnchanged

RemoveZipped(pid) ==
    /\ child[pid].do = "gunzip" /\ child[pid].at = "open"
    /\ LET zipped == Gz(child[pid].path) IN
         out' = IF KindAt(out, zipped) = "dir" THEN out ELSE Unlink(out, zipped)
    /\ Goes(pid, "zombie")
    /\ UNCHANGED <<source, failed, skipped>> /\ ChildUnchanged

ChildStep ==
    \E pid \in DOMAIN child : OpenOutput(pid) \/ Gzip(pid) \/ Gunzip(pid) \/ RemoveZipped(pid)

ParentStep ==
    \/ ScanDirectory \/ EndScan \/ InsertName \/ LeaveInserted
    \/ ExtractName \/ EndNames \/ ExtractPath
    \/ WaitInDirectory \/ EndWait \/ WaitAtEnd \/ Exit

Next ==
    \/ ParentStep \/ ChildStep
    \/ \E request \in Requests, kinds \in InTheWay : Choose(request, kinds)

Spec == Init /\ [][Next]_vars

-------------------------------------------------------------------------------
TypeOK ==
    /\ compress \in BOOLEAN
    /\ phase \in {"store", "choose", "extract", "exit"}
    /\ \A p \in DOMAIN stored : stored[p].kind \in Kinds
    /\ DOMAIN child \subseteq {Pids[i] : i \in 1 .. forks}
    /\ \A pid \in DOMAIN child : child[pid].at \in {"start", "open", "zombie"}
    /\ \A i \in DOMAIN stack : stack[i].count \in 0 .. UINT64 - 1
    /\ waits \in Int

(* Each child is counted exactly once in what the parent has still to wait for, on
   whatever level of the recursion it was forked or reaped: so no wait() finds
   no child, and none is left when the parent exits.  A directory that cannot be
   created breaks this, for it is counted as -1.  So would a fork() that fails, which
   the code counts like a child (data.c:625-630); here fork() succeeds. *)
Counted ==
    LET upTo[i \in 0 .. Len(stack)] ==
            IF i = 0 THEN waits ELSE upTo[i - 1] + stack[i].count
    IN  upTo[Len(stack)]

EveryChildIsCounted == refused = {} => Counted = Cardinality(DOMAIN child)

(* Compressing leaves the directory as it was: each output is inserted once and
   unlinked, none is taken for a file and compressed again, whatever readdir shows of
   them and in whatever order the children end. *)
SourceIsLeftAsItWas ==
    phase = "choose" => \E s \in Sources : source = Tree(s)

(* "f" and "f.gz" in one directory: both use the name "f.gz" while extracting. *)
Clash(path) ==
    /\ path # <<>>
    /\ Gz(path) \in DOMAIN stored \/ \E p \in DOMAIN stored : p # <<>> /\ path = Gz(p)

(* What is extracted is what was archived: once the children are done, every path
   below one that was asked for has its bytes, and nothing is there but what was
   archived and what can have been in the way: no compressed file is left behind.
   The exceptions are files whose gzip failed, what could not be created, written or
   replaced where it is extracted, what lies below such a directory, links that are
   read past their end, and two names that differ by ".gz". *)
Wanted(path) == \E i \in DOMAIN asked : IsPrefix(asked[i], path)

Spoilt(path) ==
    \/ path \in failed \cup skipped
    \/ \E p \in refused : IsPrefix(p, path)
    \/ path \in DOMAIN stored /\ stored[path].of = Overrun
    \/ Clash(path)

WasInTheWay == UNION {DOMAIN kinds : kinds \in InTheWay}

RoundTrip ==
    phase = "exit" /\ (\A pid \in DOMAIN child : child[pid].at = "zombie") =>
        /\ \A p \in DOMAIN source : Wanted(p) /\ ~Spoilt(p) =>
             p \in DOMAIN out /\ out[p] = source[p]
        /\ DOMAIN out \subseteq DOMAIN source \cup WasInTheWay \cup skipped
===============================================================================
