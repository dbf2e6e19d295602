--------------------------- MODULE MCFileManager ---------------------------
(***************************************************************************)
(* An instance of the file manager: a root with a readable and an          *)
(* unreadable directory, a file that fills the buffer of the editor, and   *)
(* an executable one with a "%%" in it.                                    *)
(***************************************************************************)
EXTENDS FileManager, TLC

CONSTANTS root, sub, locked, note, tool, k

MCDir == {root, sub, locked}
MCUpOf == [d \in MCDir |-> root]
MCFile == {note, tool}
MCInDir == note :> root @@ tool :> sub
MCOrder == <<Dot, DotDot, locked, note, sub, tool>>
MCChar == {k, NL, NUL, PCT, Listing}
MCContent == note :> <<k, k, k>> @@ tool :> <<PCT, PCT>>
MCTyped == {<<k, NL>>, <<PCT, PCT>>}
MCGarbled == {<<k>>}
=============================================================================
