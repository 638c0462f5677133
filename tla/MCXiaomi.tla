------------------------------ MODULE MCXiaomi ------------------------------
(* Three records of eight bytes, two of them H264, cut into four datagrams    *)
(* (in the middle of a prefix and of bodies) or into nine, so that the        *)
(* sequence numbers, which wrap at eight here, come round.                    *)
EXTENDS Xiaomi

\* Record d's bytes, which tell it from the others.
Body(d) == [i \in 1..8 |-> 10 * d + i]

MCRecords == <<Body(1), Body(2), Body(3)>>
MCVideo   == {Body(1), Body(3)}
MCYes     == <<90, 91, 92>>
MCNo      == <<80, 81, 82>>

\* The wire cut at the given places.
CutAt(w, ends) ==
    [i \in 1..Len(ends) |-> SubSeq(w, IF i = 1 THEN 1 ELSE ends[i - 1] + 1, ends[i])]

MCWire   == FlattenSeq([i \in 1..Len(MCRecords) |-> <<0, 0, 0, 8>> \o MCRecords[i]])
MCSplits == { CutAt(MCWire, <<2, 11, 23, 36>>),
              CutAt(MCWire, <<2, 4, 11, 12, 16, 18, 27, 33, 36>>) }

\* A response that brings nothing, one that brings everything, one that brings
\* the cookies alone, and one whose pragma has no ssecurity.
MCAnswers == { [gives |-> {}, blanks |-> {}],
               [gives |-> Credentials, blanks |-> {}],
               [gives |-> {"cookies"}, blanks |-> {}],
               [gives |-> {}, blanks |-> {"ssecurity"}] }
=============================================================================
