--------------------------- MODULE MCDmaTransfer ---------------------------
(* A small instance of DmaTransfer for TLC. *)
EXTENDS DmaTransfer

Plain  == [read |-> 1, out_pixels |-> 1]
Xrgb16 == [read |-> 2, out_pixels |-> 3]  \* XRGB on a 16-bit bus

MCRatios == {Plain, Xrgb16}
=============================================================================
