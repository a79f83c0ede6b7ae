--------------------------- MODULE MCExtentServer ---------------------------
(* Instances of ExtentServer with blocks of 3 cells and 2 direct slots: 6  *)
(* cells fit the direct slots, 7 need a table with one inode, 13 a full    *)
(* table whose last inode is empty, 25 a table below the table.            *)
EXTENDS ExtentServer

(* Text, which holds no NUL.                                               *)
Text(n, base) == [k \in 1 .. n |-> base + k]

FileType == {T_FILE}
Depths == {Text(2, 0), Text(7, 40), Text(25, 80)}
Shallow == {Text(2, 0), Text(5, 40)}
TableAndBlock == {Text(13, 0), Text(2, 40)}
ToZero == {0}
AllSizes == {0, 1, 4, 6, 7}
ShrinkAndGrow == {9, 12}
=============================================================================
