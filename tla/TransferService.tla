---------------------------- MODULE TransferService --------------------------
(***************************************************************************)
(* What a caller of smi_programmed_read_arr and smi_programmed_write_arr   *)
(* may rely on.  A request ends with the words of its own transfer moved,  *)
(* with a timeout, or refused for want of memory.  Giving up may leave the *)
(* device still busy with the transfer: until that debt is settled, an     *)
(* apparently successful request has moved words of another transfer.      *)
(***************************************************************************)
VARIABLES phase,    \* "idle", or "busy" with a request
          debt,     \* does an abandoned transfer still hold the device?
          outcome   \* how the latest request ended

vars == <<phase, debt, outcome>>

Outcomes == {"none", "own", "foreign", "timeout", "nomem"}

TypeOK == phase \in {"idle", "busy"} /\ debt \in BOOLEAN /\ outcome \in Outcomes

Init == phase = "idle" /\ debt = FALSE /\ outcome = "none"

Request == phase = "idle" /\ phase' = "busy" /\ outcome' = "none" /\ UNCHANGED debt

Refuse == phase = "idle" /\ outcome' = "nomem" /\ UNCHANGED <<phase, debt>>

\* The device moves the last word of an abandoned transfer.
Settle == debt /\ debt' = FALSE /\ UNCHANGED <<phase, outcome>>

\* A debt can only be settled, never incurred, by a request that succeeds.
Succeed ==
    /\ phase = "busy" /\ phase' = "idle"
    /\ outcome' = IF debt THEN "foreign" ELSE "own"
    /\ debt' \in {FALSE, debt}

\* A transfer given up on may be left running or may just have ended.
GiveUp ==
    /\ phase = "busy" /\ phase' = "idle"
    /\ outcome' = "timeout" /\ debt' \in BOOLEAN

Next == Request \/ Refuse \/ Settle \/ Succeed \/ GiveUp

Spec == Init /\ [][Next]_vars /\ WF_vars(Succeed \/ GiveUp)
=============================================================================
