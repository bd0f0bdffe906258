--------------------------- MODULE MCAnalysisHost ---------------------------
(***************************************************************************)
(* A small instance of AnalysisHost.  /main/a.sol may be the entry, with a *)
(* twin /main/a.txt that shares its stem; it may import lib.b, std.s and   *)
(* the external @m.x.  /std/s.sol is seeded; /main/std/s.sol is the local  *)
(* module that std.s falls back to when /std/s.sol is removed.             *)
(***************************************************************************)
EXTENDS AnalysisHost

P(lib, stem, ext) == [lib |-> lib, stem |-> stem, ext |-> ext]
Ref(external, segments) == [external |-> external, segments |-> segments]

MCPaths == {P("main", <<"a">>, "sol"), P("main", <<"a">>, "txt"),
            P("m", <<"x">>, "sol"), P("std", <<"s">>, "sol"),
            P("main", <<"std", "s">>, "sol")}
MCExtNames == {"m"}
MCContents == {"leaf", "hub"}
MCRefs == [c \in MCContents |->
              IF c = "leaf" THEN {}
              ELSE {Ref(TRUE, <<"m", "x">>), Ref(FALSE, <<"std", "s">>),
                    Ref(FALSE, <<"lib", "a">>)}]
MCNamespaces == {}
=============================================================================
