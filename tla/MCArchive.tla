------------------------------- MODULE MCArchive -------------------------------
(* A small instance of Archive: three states of the disk that agree and disagree in
   the kinds of their paths. *)
EXTENDS Archive, TLC

Dir == [kind |-> "dir", content |-> Absent]
Item(kind, content) == [kind |-> kind, content |-> content]

MCDisks == {
    (<<>> :> Dir) @@ (<<"a">> :> Item("file", "v1")) @@ (<<"b">> :> Dir)
      @@ (<<"b", "a">> :> Item("file", "v2")) @@ (<<"b", "b">> :> Item("link", "v3")),
    (<<>> :> Dir) @@ (<<"a">> :> Dir) @@ (<<"a", "b">> :> Item("file", "v4"))
      @@ (<<"b">> :> Dir) @@ (<<"b", "b">> :> Item("file", "v5")),
    (<<>> :> Dir) @@ (<<"a">> :> Item("file", "v6")) @@ (<<"b">> :> Item("link", "v7")) }

MCArguments == {
    << <<"a">>, <<"..">> >>, << <<"c">>, <<"b", "..", ".">> >>,
    << <<"b", "..", "a", ".", "b">> >>, << <<"/", "home", "b", "a">>, <<"b">> >> }

MCBase == <<"home">>

MCPaths == BoundedSeq({"a", "b"}, 2) \cup {<<"a", "b", "a">>, <<"b", "a", "b">>}
===============================================================================
