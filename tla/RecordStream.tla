---------------------------- MODULE RecordStream ----------------------------
(* What a camera connection promises its reader, whatever the network does:   *)
(* the records come out in the order in which the camera sent them, none      *)
(* altered, skipped or repeated, and none after the reader has finished.      *)
EXTENDS Naturals, Sequences

CONSTANT Sent     \* the records the camera sends that the reader wants

VARIABLES out,    \* the records handed on so far
          over    \* the reader has finished

Init == out = <<>> /\ over = FALSE

Deliver ==
    /\ ~over /\ Len(out) < Len(Sent)
    /\ out' = Append(out, Sent[Len(out) + 1])
    /\ UNCHANGED over

Finish == ~over /\ over' = TRUE /\ UNCHANGED out

Next == Deliver \/ Finish

Spec == Init /\ [][Next]_<<out, over>>

=============================================================================
