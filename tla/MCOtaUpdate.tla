----------------------------- MODULE MCOtaUpdate -----------------------------
(* Two slots of two sectors of four words, and an RDP sector.  File "a" has *)
(* no RDP image, "b" has it in front; "c" has it far behind, is bad, and    *)
(* its image for slot 1 would reach into slot 2.                            *)
EXTENDS OtaUpdate

CONSTANT unset

MCFiles == {"a", "b", "c"}
Image(off, len, at) == [off |-> off, len |-> len, at |-> at]
MCLayout == [
    a |-> [img |-> <<Image(1, 4, 0), Image(5, 5, 8)>>, rdp |-> <<>>,
           end |-> 10, good |-> TRUE],
    b |-> [img |-> <<Image(3, 5, 0), Image(9, 4, 8)>>, rdp |-> <<[off |-> 1, len |-> 2]>>,
           end |-> 13, good |-> TRUE],
    c |-> [img |-> <<Image(5, 9, 0), Image(1, 4, 8)>>, rdp |-> <<[off |-> 14, len |-> 2]>>,
           end |-> 16, good |-> FALSE],
    factory |-> [img |-> <<Image(1, 5, 0), Image(6, 5, 8)>>, rdp |-> <<>>,
                 end |-> 11, good |-> TRUE]]
MCOta2Addrs == {unset, 8, 4, 9}
=============================================================================
