------------------------------ MODULE MCFat32 -------------------------------
(* Constants of the file system for TLC: names of one and of two pieces. *)
EXTENDS Fat32
A == <<"a">>
B == <<"b", "c">>
MCImage == << <<"f">> >>
MCPaths == {MCImage, <<A>>, <<B>>, <<A, B>>}
MCCreatable == {<< <<A>>, "file">>, << <<A>>, "directory">>, << <<B>>, "file">>, << <<A, B>>, "file">>}
=============================================================================
