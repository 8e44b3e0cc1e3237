------------------------------ MODULE MCFiles ------------------------------
(***************************************************************************)
(* A small image for Files: a directory, a file of seven bytes in three     *)
(* scattered blocks and one of three bytes, which fills its block.          *)
(***************************************************************************)
EXTENDS Files, TLC

MCDirEntries == << [type |-> "dir", inode |-> 0],
                   [type |-> "file", inode |-> 1],
                   [type |-> "file", inode |-> 2] >>
MCLength == 0 :> 0 @@ 1 :> 7 @@ 2 :> 3
MCBlocks == 0 :> <<>> @@ 1 :> <<5, 2, 4>> @@ 2 :> <<3>>
=============================================================================
