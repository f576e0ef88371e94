-------------------------------- MODULE MCAhbl --------------------------------
(* Instance of AttoAhbl: two words, two values.                            *)
EXTENDS AttoAhbl

MCAddr == {0, 1}
MCData == {"x", "y"}

Setup(r, w, s, c) == [reads |-> r, writes |-> w, skips |-> s, cuts |-> c]

(* The two kinds that keep up, and a slow slave.                           *)
MCSetups == {Setup(1, 0, TRUE, TRUE), Setup(1, 3, FALSE, FALSE), Setup(3, 3, TRUE, TRUE)}

(* Smallest setups of the findings.                                        *)
NoWaits       == {Setup(0, 0, FALSE, FALSE)}
SlowReads     == {Setup(2, 0, FALSE, FALSE)}
SlowerWrites  == {Setup(0, 1, TRUE, FALSE)}

=============================================================================
