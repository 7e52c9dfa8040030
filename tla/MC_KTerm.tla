------------------------------ MODULE MC_KTerm ------------------------------
(***************************************************************************)
(* Model of KTerm for TLC: a typist who types 'a', space, backspace and   *)
(* Enter, and a command table with the one command "a".                   *)
(***************************************************************************)
EXTENDS KTerm

MCChars == {"a", " ", BS, CR}
MCCommands == {<<"a">>}

=============================================================================
