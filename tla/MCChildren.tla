------------------------------ MODULE MCChildren ------------------------------
(* A small instance of Children: two levels of directories, and two names that differ
   by ".gz". *)
EXTENDS Children, TLC

f == << <<"f">> >>
gz == << <<"f", "gz">> >>
l == << <<"l">> >>
d == << <<"d">> >>
dh == << <<"d">>, <<"h">> >>
dg == << <<"d">>, <<"g">> >>

MCSources == {
    (<<>> :> "dir") @@ (f :> "file") @@ (l :> "link") @@ (d :> "dir") @@ (dg :> "file")
      @@ (dh :> "file"),
    (<<>> :> "dir") @@ (f :> "file") @@ (gz :> "file") @@ (d :> "dir") @@ (dg :> "file") }

MCPids == << <<"1">>, <<"2">>, <<"3">>, <<"4">>, <<"5">>, <<"6">>,
            <<"7">>, <<"8">>, <<"9">> >>

MCRequests == { << <<>> >>, <<dg, f>>, <<f, d>>, <<l, << <<"x">> >>, d>> }

Root == <<>> :> "dir"
MCInTheWay == {
    Root, Root @@ (d :> "file"), Root @@ (d :> "dir") @@ (dg :> "file") @@ (f :> "dir"),
    Root @@ (f :> "file") @@ (l :> "link"), Root @@ (gz :> "dir") @@ (l :> "dir"),
    Root @@ (gz :> "link") @@ (f :> "link") }
===============================================================================
