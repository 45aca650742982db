----------------------------- MODULE MCTerminal -----------------------------
(* Terminal for TLC: one directory below another, and scripts that reach   *)
(* each case of get_full_path, of the mount table and of the programs.     *)
EXTENDS Terminal

Cmd(prg, path) == [prog |-> prg, arg |-> path]
Ls        == Cmd("ls", <<>>)
Up        == Cmd("cd", <<"..">>)
Down      == Cmd("cd", <<"a">>)
DownTwice == Cmd("cd", <<"a", "/", "b">>)
TouchN    == Cmd("touch", <<"n">>)
CatN      == Cmd("cat", <<"n">>)

MCScripts ==
    { << DownTwice, Enter, Up, Enter, Ls, Enter >>,
      << Down, Enter, Up, Enter, Cmd("cd", <<"/", "a">>), Enter >>,
      << Up, Enter, Cmd("cd", <<"a", "/">>), Enter, Cmd("cd", <<"b">>), Enter >>,
      << Down, Enter, TouchN, Enter, CatN, Enter >>,
      << TouchN, Enter, Ls, Enter, Cmd("cat", <<"/", "a">>), Enter >>,
      << Cmd("touch", <<"c", "/", "n">>), Enter, Cmd("ls", <<"c">>), Enter, Cmd("cd", <<".">>), Enter >>,
      << Cmd("ls", <<"/", "dev">>), Enter, Cmd("ls", <<"dev", "/", "pts">>), Enter, Cmd("cat", <<"/">>), Enter, Enter >>,
      << Cmd("cat", <<"/">>), Down, Enter, Back, Ls, Back, Cmd("vi", <<>>), Enter >> }
MCDirs  == { <<>>, <<"a">>, <<"a", "b">>, <<"bin">>, <<"init">> }
MCFiles == { <<"bin", "ls">>, <<"bin", "touch">>, <<"bin", "cat">>, <<"init", "hello">> }
=============================================================================
