------------------------------- MODULE MCFetch -------------------------------
(***************************************************************************)
(* Instance of AttoFetch: three words, every assignment of instruction     *)
(* lengths to their six parcels (a parcel is told from the others by its   *)
(* id), jumps to anywhere, stores to the last word.                        *)
(***************************************************************************)
EXTENDS AttoFetch

MCWords == 3

Parcel(n, l) == [id |-> n, long |-> l]
MCParcels == {Parcel(n, l) : n \in 0 .. 2 * MCWords, l \in BOOLEAN}
MCLong    == {p \in MCParcels : p.long}
MCRs2     == {p \in MCParcels : p.id \in {1, 2}}

MCImages ==
  {[w \in 0 .. MCWords - 1 |-> [lo |-> Parcel(2 * w, long[2 * w]),
                                hi |-> Parcel(2 * w + 1, long[2 * w + 1])]] :
     long \in [0 .. 2 * MCWords - 1 -> BOOLEAN]}

(* Id 6 is in no image: what a register holds before it is written, and    *)
(* what a store leaves in memory.                                          *)
MCJunk == {[lo |-> Parcel(6, FALSE), hi |-> Parcel(6, TRUE)]}

=============================================================================
