------------------------------ MODULE FileTail -------------------------------
(***************************************************************************)
(* readCompleteFileTail of packages/adapter-runtime/src/file-tail.ts.      *)
(*                                                                         *)
(* A transcript holds the first n records of its path's log, one per line, *)
(* and maybe the beginning of the next.  A record is two units long, its   *)
(* body and its newline, so that an offset into the file is twice a number *)
(* of lines; id is what dev:ino identify and mtime the modification time,  *)
(* which a write need not change when it follows the last one closely.     *)
(***************************************************************************)
EXTENDS Naturals, FiniteSetsExt

CONSTANT MaxLines      \* maxBytes, in records; none is longer than maxBytes

Size(file) == 2 * file.n + (IF file.partial THEN 1 ELSE 0)
Stat(file) == [id |-> file.id, size |-> Size(file), mtime |-> file.mtime]

\* The file is not the one that the cursor was committed for, or has lost
\* something since.
Replaced(cursor, stat) ==
    \/ cursor.id # stat.id
    \/ stat.size < 2 * cursor.lines
    \/ stat.size = 2 * cursor.lines /\ stat.mtime # cursor.mtime

\* Mutant: a read that ends inside a record gives nothing.
LastLineWhole(first, stat, file) ==
    LET limit == Min({stat.size, 2 * (first + MaxLines), Size(file)})
    IN  IF limit % 2 = 1 THEN first ELSE Max({first, limit \div 2})

\* The last complete line of what is read after line first: no more than stat
\* saw, than maxBytes, or than is there when the file is opened.
LastLine(first, stat, file) ==
    LET limit == Min({stat.size, 2 * (first + MaxLines), Size(file)})
    IN  Max({first, limit \div 2})
=============================================================================
