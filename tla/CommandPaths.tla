----------------------------- MODULE CommandPaths -----------------------------
(***************************************************************************)
(* What CIBCreate, CIBAppend and CIBDelete make of the paths they are      *)
(* given (src/src/CLI/cli_utils.c): paths relative to the base directory   *)
(* of the archive, without "." and "..".  A path is the sequence of its    *)
(* components; the base directory itself is <<>>.                          *)
(*                                                                         *)
(* A command is in the base directory when it does this, CIBCreate because *)
(* the working directory becomes the base, the others by chdir.            *)
(***************************************************************************)
EXTENDS Integers, SequencesExt

CONSTANT BaseDir            \* the archive's base directory, from the root

(* FullPath: an absolute path starts with "/". *)
FullPath(arg) == IF Head(arg) = "/" THEN Tail(arg) ELSE BaseDir \o arg

(* RealPath walks a linked list of the components and removes ".", and ".." with
   the component in front of it. *)
RealPath(path) ==
    LET out[n \in 0 .. Len(path)] ==
          CASE n = 0                   -> <<>>
            [] n > 0 /\ path[n] = ".." -> Front(out[n - 1])
            [] n > 0 /\ path[n] = "."  -> out[n - 1]
            [] OTHER                   -> Append(out[n - 1], path[n])
    IN  out[Len(path)]

(* With no component in front of a "..", ListRemoveNode is given NULL and the
   process dies; nothing has been written by then. *)
ClimbsAboveRoot(path) ==
    \E n \in 1 .. Len(path) : path[n] = ".." /\ RealPath(SubSeq(path, 1, n - 1)) = <<>>

Relative(path) == SubSeq(path, Len(BaseDir) + 1, Len(path))

(* CreateRelativePath leaves out the paths that do not lie below the base.  A base
   "/" has a slash where the comparison expects the end of the base's name, so that
   only "/" itself lies below it. *)
LiesBelowBase(path) ==
    IF BaseDir = <<>> THEN path = <<>> ELSE IsPrefix(BaseDir, path)

CreateRelativePath(args) ==
    LET real == [i \in DOMAIN args |-> RealPath(FullPath(args[i]))]
        full_paths[n \in 0 .. Len(args)] ==
          CASE n = 0                           -> <<>>
            [] n > 0 /\ LiesBelowBase(real[n]) -> Append(full_paths[n - 1], Relative(real[n]))
            [] OTHER                           -> full_paths[n - 1]
    IN  full_paths[Len(args)]

-------------------------------------------------------------------------------
(* Reference definition: a component counts unless a later ".." takes it back,
   "." and ".." never do. *)
Names(path, from, to) == Cardinality({i \in from .. to : path[i] \notin {".", ".."}})
Ups(path, from, to) == Cardinality({i \in from .. to : path[i] = ".."})

Counts(path, i) ==
    /\ path[i] \notin {".", ".."}
    /\ \A j \in i + 1 .. Len(path) : Ups(path, i + 1, j) <= Names(path, i + 1, j)

Denoted(arg) ==
    LET path == FullPath(arg)
        kept == {i \in DOMAIN path : Counts(path, i)}
        place(n) == CHOOSE i \in kept : Cardinality({j \in kept : j <= i}) = n
    IN  [n \in 1 .. Cardinality(kept) |-> path[place(n)]]

===============================================================================
