---------------------------- MODULE BatchedStream ----------------------------
(***************************************************************************)
(* What a terminal's output pipeline promises (spec 3 and 4.4): the data   *)
(* events of a terminal carry exactly the bytes its PTY produced, in       *)
(* order, none lost and none twice, and whatever was accepted is emitted   *)
(* eventually.  A chunk is named by its position in the PTY's output.     *)
(***************************************************************************)
EXTENDS Naturals, Sequences

VARIABLES
    in,   \* the chunks the PTY produced so far
    out   \* the chunks the data events carried so far

vars == <<in, out>>

Init == in = <<>> /\ out = <<>>

(* out' extends out by the next chunks of in', at least one.               *)
Carries(n) == out' = SubSeq(in', 1, n)

(* A chunk is produced; the same step may already carry chunks out.       *)
Accept == /\ in' = Append(in, Len(in) + 1)
          /\ \/ UNCHANGED out
             \/ \E n \in (Len(out) + 1)..Len(in') : Carries(n)

(* One data event carries the next chunks, at least one.                  *)
Emit == /\ UNCHANGED in
        /\ \E n \in (Len(out) + 1)..Len(in) : Carries(n)

Next == Accept \/ Emit

Spec == Init /\ [][Next]_vars /\ WF_vars(Emit)
=============================================================================
