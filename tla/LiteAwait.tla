------------------------------ MODULE LiteAwait -----------------------------
(***************************************************************************)
(* smi_read_await and smi_write_await of smilite.h, the single-header      *)
(* variant.  They differ from those of smi.c in their waiting policy (no   *)
(* tiers: from a number of turns on, the clock is looked at) and in the    *)
(* order of their steps: a read looks at the clock in turns that took a    *)
(* word too, a write pushes before it waits for TXD.  The header leaves    *)
(* setting up a transfer to its user, who is taken to do it as smi.c does. *)
(*                                                                         *)
(* A word is <<c, i>>, word i of call c; all calls go in one direction.    *)
(***************************************************************************)
EXTENDS SmiController

CONSTANTS SpinLimit, \* 1024
          Lens,      \* transfer lengths the user asks for
          MaxCalls   \* bound on the calls of a behaviour

ASSUME LiteConstants == SpinLimit \in Nat /\ Lens \subseteq Nat \ {0} /\ MaxCalls \in Nat

VARIABLES kind,   \* "read" or "write"
          done, aferr, \* CS.DONE and CS.AFERR, the push into a full FIFO
          pc, call, len, count, spin, late, ret,
          data,   \* history: words stored by this read, or put on the bus
          quiet,  \* history: controller idle when the user wrote CLEAR
          outcome \* history: how the latest call ended

driver  == <<pc, call, len, count, spin, late, ret>>
history == <<quiet, outcome>>
vars    == <<hw, kind, done, aferr, driver, data, history>>

ETIMEDOUT == 110

InLoop == {"test", "word", "txd?", "stalled", "limit"}

Init == /\ HwInit /\ kind \in {"read", "write"} /\ done = FALSE /\ aferr = FALSE
        /\ data = <<>>
        /\ pc = "idle" /\ call = 0 /\ len = 0 /\ count = 0 /\ spin = 0 /\ late = FALSE /\ ret = 0
        /\ quiet = TRUE /\ outcome = "none"

Own(s) == s = [i \in 1..len |-> <<call, i>>]

-----------------------------------------------------------------------------
(* The user of the header *)

\* CS, with CLEAR, DONE and AFERR written as 1, and L.
Client(n) ==
    /\ pc = "idle" /\ call < MaxCalls
    /\ pc' = "enter" /\ call' = call + 1 /\ len' = n /\ count' = 0
    /\ HwClear /\ done' = FALSE /\ aferr' = FALSE /\ quiet' = ~Active /\ outcome' = "none"
    /\ data' = (IF kind = "read" THEN <<>> ELSE data)
    /\ UNCHANGED <<kind, spin, late, ret>>

\* START, and the call, which takes its deadline.
Enter ==
    /\ pc = "enter" /\ pc' = "test" /\ HwStart(call, len)
    /\ done' = FALSE /\ aferr' = FALSE /\ spin' = 0 /\ late' = FALSE
    /\ data' = (IF kind = "write" /\ ~Active THEN <<>> ELSE data)
    /\ UNCHANGED <<kind, call, len, count, ret, history>>

-----------------------------------------------------------------------------
(* The loops *)

\* while (count < len); while (!done)
Finished == IF kind = "read" THEN count >= len ELSE done

Test ==
    /\ pc = "test"
    /\ IF Finished THEN /\ pc' = "idle" /\ ret' = count
                        /\ outcome' = IF owner = call /\ Own(data) THEN "own" ELSE "foreign"
                   ELSE pc' = "word" /\ UNCHANGED <<ret, outcome>>
    /\ UNCHANGED <<hw, kind, done, aferr, call, len, count, spin, late, data, quiet>>

\* if (rxd), ret_data[count++] = d->value
TakeWord ==
    /\ pc = "word" /\ kind = "read" /\ pc' = "limit"
    /\ IF fifo = <<>> THEN UNCHANGED <<fifo, data, count>>
       ELSE data' = Append(data, Head(fifo)) /\ fifo' = Tail(fifo) /\ count' = count + 1
    /\ UNCHANGED <<owner, moved, total, kind, done, aferr, call, len, spin, late, ret, history>>

MorePending == count < len + 1

\* Seeded bug: the loop does not wait for TXD.
PushWord_NoWait ==
    /\ pc = "word" /\ kind = "write" /\ pc' = "limit"
    /\ IF ~MorePending THEN UNCHANGED <<fifo, count, aferr>>
       ELSE /\ count' = count + 1 /\ aferr' = (aferr \/ Len(fifo) = FifoDepth)
            /\ fifo' = IF Len(fifo) = FifoDepth THEN fifo ELSE Append(fifo, <<call, count + 1>>)
    /\ UNCHANGED <<owner, moved, total, kind, done, call, len, spin, late, ret, data, history>>

\* if (count < len + 1) d->value = data[count++]
PushWord ==
    /\ pc = "word" /\ kind = "write" /\ pc' = "txd?"
    /\ IF ~MorePending THEN UNCHANGED <<fifo, count, aferr>>
       ELSE /\ count' = count + 1 /\ aferr' = (aferr \/ Len(fifo) = FifoDepth)
            /\ fifo' = IF Len(fifo) = FifoDepth THEN fifo ELSE Append(fifo, <<call, count + 1>>)
    /\ UNCHANGED <<owner, moved, total, kind, done, call, len, spin, late, ret, data, history>>

\* while (!txd)
PollTXD ==
    /\ pc = "txd?" /\ pc' = IF Len(fifo) < FifoDepth THEN "limit" ELSE "stalled"
    /\ UNCHANGED <<hw, kind, done, aferr, call, len, count, spin, late, ret, data, history>>

\* Seeded bug: spin++ is forgotten.
Turns_Forgotten == spin

\* A write counts from 0 again once it has looked at the clock; beyond the limit the
\* counter of a read no longer matters.
Turns == IF spin <= SpinLimit THEN spin + 1 ELSE IF kind = "write" THEN 1 ELSE spin

\* The call ends with CLEAR; a flag that is set is written back, and so cleared.
Leave(code, how) ==
    /\ pc' = "idle" /\ ret' = code /\ outcome' = how /\ HwClear
    /\ done' = FALSE /\ aferr' = FALSE /\ spin' = spin

GiveUp == Leave(-ETIMEDOUT, "timeout")

\* if (aferr): the count so far is returned as if the words were written.
AccessError == Leave(count, IF owner = call /\ Own(data) THEN "own" ELSE "foreign")

\* if (spin > 1024), timeout_complete; in the outer loop of a write, AFERR; spin++
Limit ==
    /\ pc \in {"stalled", "limit"}
    /\ IF spin > SpinLimit /\ late THEN GiveUp
       ELSE IF pc = "limit" /\ kind = "write" /\ aferr THEN AccessError
       ELSE /\ pc' = (IF pc = "stalled" THEN "txd?" ELSE "test") /\ spin' = Turns
            /\ UNCHANGED <<hw, done, aferr, ret, outcome>>
    /\ UNCHANGED <<kind, call, len, count, late, data, quiet>>

-----------------------------------------------------------------------------
(* Environment *)

\* A word crosses the bus; the last one raises DONE.
BusMove ==
    /\ Active /\ moved' = moved + 1 /\ done' = (done \/ moved' = total)
    /\ \/ /\ kind = "read" /\ Len(fifo) < FifoDepth
          /\ fifo' = Append(fifo, <<owner, moved'>>) /\ data' = data
       \/ /\ kind = "write" /\ fifo # <<>>
          /\ fifo' = Tail(fifo) /\ data' = Append(data, Head(fifo))
    /\ UNCHANGED <<owner, total, kind, aferr, driver, history>>

Clock ==
    /\ pc \in InLoop /\ ~late /\ late' = TRUE
    /\ UNCHANGED <<hw, kind, done, aferr, pc, call, len, count, spin, ret, data, history>>

Loop == Test \/ TakeWord \/ PushWord \/ PollTXD \/ Limit

Next == (\E n \in Lens : Client(n)) \/ Enter \/ Loop \/ BusMove \/ Clock

\* The thread runs and time passes; nothing obliges the device to move a word.
Spec == Init /\ [][Next]_vars /\ WF_vars(Enter \/ Loop) /\ WF_vars(Clock)

-----------------------------------------------------------------------------
(* Properties *)

\* A word is pushed before TXD is looked at, and yet never into a full FIFO: the TXD
\* of the last turn, or the CLEAR before the first, vouches for it, and AFERR, with
\* which a short count would be returned as a success, never rises.
PushFitsFifo == ~aferr

\* The loops keep the promise of the ones in smi.c, without the tiers: they end, and
\* with the transfer's own words, a timeout, or words of one that was abandoned.
Service == INSTANCE TransferService WITH
    phase   <- IF pc = "idle" THEN "idle" ELSE "busy",
    debt    <- IF pc = "idle" THEN Active ELSE ~quiet,
    outcome <- outcome
ImplementsService == Service!Spec
=============================================================================
