-------------------------------- MODULE MCUart --------------------------------
(***************************************************************************)
(* Instance of DbgUart: an exact number of clocks in a bit, and not.        *)
(***************************************************************************)
EXTENDS DbgUart

(* Two clocks, four, and twenty and an eighth, of which most is lost.       *)
UartPeriods == {16, 32, 161}

(* '$', all zeros, all ones.                                               *)
UartBytes == {36, 0, 255}

=============================================================================
