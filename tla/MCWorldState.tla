---------------------------- MODULE MCWorldState ----------------------------
(***************************************************************************)
(* An instance of WorldState.  /p/x and /p/q/y are real files below nested   *)
(* folders /p and /p/q, so that the innermost root of y changes; /main/z   *)
(* is a virtual path as it stands and, when the client configures /main, a *)
(* real file.                                                              *)
(***************************************************************************)
EXTENDS WorldState

File(path, enc) == [scheme |-> "file", path |-> path, enc |-> enc]

X == File(<<"p", "x">>, "server")
Y == File(<<"p", "q", "y">>, "server")
Z == File(<<"main", "z">>, "server")
U == [scheme |-> "untitled", path |-> <<"u">>, enc |-> "client"]

MCUris == {X, Y, Z, U}
MCFolders == {<<"p">>, <<"p", "q">>, <<"main">>}
MCRank == [u \in MCUris |-> CASE u = Z -> 1 [] u = Y -> 2 [] u = X -> 3 [] u = U -> 4]
=============================================================================
