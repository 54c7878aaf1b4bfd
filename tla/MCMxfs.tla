------------------------------- MODULE MCMxfs -------------------------------
(* Names and paths the configurations of Mxfs share.                       *)
EXTENDS Mxfs

NoPoison == {}

A == InitialNames[1]

(* One name that begins another, and the name of an initial file.          *)
MCNames == {<<"h">>, <<"h", "i">>, A}

At(name) == <<Slash>> \o name

(* A path to each name and to the start of a name only, one that ends in a *)
(* slash, one below a file, one two levels below it, and a relative path.  *)
MCPaths ==
  {At(n) : n \in MCNames}
    \cup {At(<<"a">>), At(A) \o At(<<>>), At(A) \o At(A), At(A) \o At(A) \o At(A), A}

NoPaths == {}
OneName == {<<"h">>}
=============================================================================
