-------------------------------- MODULE File --------------------------------
(***************************************************************************)
(* What the reader functions of src/src/sound.c promise libmpg123: a file  *)
(* that is complete from the start.  A read returns the bytes it asks for, *)
(* fewer only where the file ends; a seek goes to any place of the file,   *)
(* its end included, and fails beyond.                                     *)
(***************************************************************************)
EXTENDS Integers

CONSTANTS
    Sizes,    \* lengths of the file
    Counts    \* what libmpg123 asks for in one read

VARIABLES
    size,      \* the length of the file
    position,  \* where the next read starts
    reply      \* the last operation, with what it was asked and what it returned

vars == <<size, position, reply>>

AtMost(n, m) == IF n < m THEN n ELSE m

Init ==
    /\ size \in Sizes /\ position = 0
    /\ reply = [op |-> "open", asked |-> 0, returned |-> 0]

Read(n) ==
    LET got == AtMost(n, size - position)
    IN  /\ position' = position + got
        /\ reply' = [op |-> "read", asked |-> n, returned |-> got]

Seek(to) ==
    /\ position' = IF to <= size THEN to ELSE position
    /\ reply' = [op |-> "seek", asked |-> to, returned |-> IF to <= size THEN to ELSE -1]

\* size + 1 stands for every place beyond the end.
Next ==
    /\ (\E n \in Counts : Read(n)) \/ (\E to \in 0..size + 1 : Seek(to))
    /\ UNCHANGED size

Spec == Init /\ [][Next]_vars
=============================================================================
