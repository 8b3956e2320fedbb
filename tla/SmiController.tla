--------------------------- MODULE SmiController ---------------------------
(***************************************************************************)
(* The programmed-transfer engine of the SMI peripheral, as far as smi.c   *)
(* depends on it: one FIFO, one transfer at a time, described by the       *)
(* request it was started for and its progress in FIFO words.  Hardware,   *)
(* hence external: the rules are those of smi-docs.md (START is ignored    *)
(* while a transfer is active, CLEAR empties the FIFO and nothing else).   *)
(***************************************************************************)
EXTENDS Integers, Sequences

CONSTANT FifoDepth
ASSUME FifoDepthPositive == FifoDepth \in Nat /\ FifoDepth > 1

VARIABLES fifo,    \* the words in the FIFO of the transfer's direction
          owner,   \* the call whose START began the latest transfer
          moved,   \* words this transfer has moved over the bus
          total    \* words it has to move
hw == <<fifo, owner, moved, total>>

Active == moved < total

HwInit == fifo = <<>> /\ owner = 0 /\ moved = 0 /\ total = 0

\* CS.CLEAR written as 1.
HwClear == fifo' = <<>> /\ UNCHANGED <<owner, moved, total>>

\* CS.START written as 1 for a transfer of n words.
HwStart(call, n) ==
    /\ IF Active THEN UNCHANGED <<owner, moved, total>>
                 ELSE owner' = call /\ moved' = 0 /\ total' = n
    /\ fifo' = fifo
=============================================================================
