------------------------------ MODULE Channel ------------------------------
(***************************************************************************)
(* What a pipe promises its users, without descriptors or reference counts: *)
(* a bounded first-in first-out buffer with two ends.  Each end is open      *)
(* once and closes for good; bytes are only added while both ends are open,  *)
(* only taken from the front while the reading end is open, and lost only    *)
(* with the last end.                                                        *)
(***************************************************************************)
EXTENDS Integers, Sequences

CONSTANT CAPACITY   \* bytes the buffer holds at most

VARIABLES
  used,      \* the identity was handed out
  reading,   \* the reading end is open
  writing,   \* the writing end is open
  buffer     \* bytes written and not yet read

vars == <<used, reading, writing, buffer>>

Init == used = FALSE /\ reading = FALSE /\ writing = FALSE /\ buffer = << >>

(* A failed creation uses up the identity. *)
Open == /\ ~used /\ used' = TRUE
        /\ reading' \in BOOLEAN /\ writing' = reading'
        /\ buffer' = << >>

Write == /\ reading /\ writing
         /\ Len(buffer') > Len(buffer) /\ Len(buffer') <= CAPACITY
         /\ SubSeq(buffer', 1, Len(buffer)) = buffer
         /\ UNCHANGED <<used, reading, writing>>

Read == /\ reading
        /\ \E n \in 1..Len(buffer) : buffer' = SubSeq(buffer, n + 1, Len(buffer))
        /\ UNCHANGED <<used, reading, writing>>

CloseEnds == /\ reading' => reading
             /\ writing' => writing
             /\ buffer' = IF reading' \/ writing' THEN buffer ELSE << >>
             /\ UNCHANGED used

Next == Open \/ Write \/ Read \/ CloseEnds

Spec == Init /\ [][Next]_vars
=============================================================================
