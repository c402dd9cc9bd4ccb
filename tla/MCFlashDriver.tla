--------------------------- MODULE MCFlashDriver ---------------------------
(* The driver on a flash of four sectors, of one cell but for the last. *)
EXTENDS FlashDriver, Bitwise

MCSectorSize == [s \in 0 .. 3 |-> IF s = 3 THEN 2 ELSE 1]
MCSectorAddress == [s \in 0 .. 4 |-> IF s = 4 THEN 5 ELSE s]
MCBitAnd(a, b) == a & b
MCInitialFlash == [a \in 0 .. 4 |-> 2]
MCOptcrAtReset == [SPRMOD |-> FALSE, nWRP |-> 0 .. 3]
MCWrites == {[dest |-> 2, data |-> <<5, 6>>], [dest |-> 4, data |-> <<1>>],
             [dest |-> 0, data |-> <<>>]}
=============================================================================
