--------------------------- MODULE DirectTransfer ---------------------------
(***************************************************************************)
(* Direct transfers through DCS, DA and DD: smi_direct_read(_arr) and      *)
(* smi_direct_write(_arr) with their await loops.                          *)
(*                                                                         *)
(* Assigning a field of DCS is a read-modify-write.  The read and the      *)
(* write are two steps, because a transfer may complete between them: a    *)
(* DONE that was read as 1 is written back and cleared, one that rises     *)
(* after the read survives.  START is ignored while a transfer is going    *)
(* on (smi-docs.md:166); a transfer takes DA, DD and the direction as they *)
(* are when it starts.                                                     *)
(*                                                                         *)
(* Data words are <<c, i>>, the i-th word of call c, with i = 0 for the    *)
(* zero both kinds of call write to DD; a device answers a read of address *)
(* a, started by call c, with <<c, a>>.                                    *)
(***************************************************************************)
EXTENDS SmiTimeout, Sequences

CONSTANTS Lens, Bases,  \* lengths and first addresses the client uses
          AddrSpace,    \* addresses DA.ADDR can hold (64)
          MaxCalls      \* bound on the calls of a behaviour

ASSUME DirectConstants ==
    /\ Lens \subseteq Nat \ {0} /\ AddrSpace \in Nat \ {0}
    /\ Bases \subseteq 0..(AddrSpace - 1) /\ MaxCalls \in Nat

Increments == {-1, 0, 1}      \* SMI_ADDR_DEC, none, SMI_ADDR_INC

VARIABLES dcs,    \* [write, done], and whether a transfer is under way (busy)
          da, dd,
          xfer,   \* what the transfer under way took at START
          bus,    \* history: data and address of the transfers of this call
          pc, kind, call, base, len, increment,
          addr, count, spin, late, ret,
          latch,  \* DONE as read by the read-modify-write under way
          data,   \* what the read loop stored in ret_data
          disturbed \* history: a call gave up, or a transfer completed
                    \* inside a read-modify-write

hw     == <<dcs, da, dd, xfer, bus>>
args   == <<kind, call, base, len, increment>>
locals == <<addr, count, spin, late, ret, latch, data>>
vars   == <<hw, pc, args, locals, disturbed>>

SMI_ERR_TIMEOUT == -21

AddrOf(i) == (base + (i - 1) * increment) % AddrSpace

Init ==
    /\ dcs = [write |-> FALSE, done |-> FALSE, busy |-> FALSE]
    /\ da = 0 /\ dd = <<0, 0>> /\ bus = <<>>
    /\ xfer = [write |-> FALSE, addr |-> 0, data |-> <<0, 0>>, call |-> 0]
    /\ pc = "idle" /\ kind = "read" /\ call = 0 /\ base = 0 /\ len = 0
    /\ increment = 0 /\ addr = 0 /\ count = 0 /\ spin = 0 /\ late = FALSE
    /\ ret = 0 /\ latch = FALSE /\ data = <<>> /\ disturbed = FALSE

-----------------------------------------------------------------------------
(* Register accesses *)

\* The read half: remember DONE and go on to the write half.
ReadDCS(from, to) ==
    /\ pc = from /\ pc' = to /\ latch' = dcs.done
    /\ UNCHANGED <<hw, args, addr, count, spin, late, ret, data, disturbed>>

\* Seeded bug: START is written alone, without the DONE bit that was read.
StartDCS_KeepsDone ==
    IF dcs.busy THEN UNCHANGED <<dcs, xfer>>
    ELSE /\ dcs' = [dcs EXCEPT !.busy = TRUE]
         /\ xfer' = [write |-> dcs.write, addr |-> da, data |-> dd, call |-> call]

\* The write half of dcs->fields.start = 1.
StartDCS ==
    LET done == dcs.done /\ ~latch
    IN  IF dcs.busy THEN dcs' = [dcs EXCEPT !.done = done] /\ xfer' = xfer
        ELSE /\ dcs' = [dcs EXCEPT !.done = done, !.busy = TRUE]
             /\ xfer' = [write |-> dcs.write, addr |-> da, data |-> dd, call |-> call]

-----------------------------------------------------------------------------
(* The calls: set-up, and a first START *)

SetUp(k, a, n, inc) ==
    /\ pc = "idle" /\ call < MaxCalls /\ pc' = "first-start"
    /\ kind' = k /\ base' = a /\ len' = n /\ increment' = inc /\ call' = call + 1
    /\ dcs' = [dcs EXCEPT !.done = FALSE, !.write = (k = "write")]
    /\ da' = a /\ addr' = a /\ dd' = <<call', 0>>
    /\ bus' = <<>> /\ data' = <<>> /\ count' = 0
    /\ UNCHANGED <<xfer, spin, late, ret, latch, disturbed>>

smi_direct_write_arr(a, n, inc) == SetUp("write", a, n, inc)
smi_direct_read_arr(a, n, inc)  == SetUp("read", a, n, inc)
smi_direct_read(a)              == SetUp("read", a, 1, 0)

FirstStart ==
    /\ pc = "first-started" /\ pc' = "direction"
    /\ StartDCS
    /\ UNCHANGED <<da, dd, bus, args, locals, disturbed>>

-----------------------------------------------------------------------------
(* smi_read_await_direct and smi_write_await_direct *)

\* dcs->fields.write = 0 or 1, the read's DA, and the deadline.
SetDirection ==
    /\ pc = "directed" /\ pc' = "loop"
    /\ dcs' = [dcs EXCEPT !.done = dcs.done /\ ~latch, !.write = (kind = "write")]
    /\ da' = IF kind = "read" THEN addr ELSE da
    /\ spin' = 0 /\ late' = FALSE
    /\ UNCHANGED <<dd, xfer, bus, args, addr, count, ret, latch, data, disturbed>>

\* while (count < len)
LoopDone == count >= len

\* One more round, with the write's dd->value = data[count++], or return.
Loop ==
    /\ pc = "loop"
    /\ IF LoopDone
         THEN /\ pc' = "idle" /\ ret' = IF kind = "write" THEN 1 ELSE count
              /\ UNCHANGED <<dd, count>>
       ELSE IF kind = "write"
         THEN pc' = "start" /\ dd' = <<call, count + 1>> /\ count' = count + 1 /\ ret' = ret
         ELSE pc' = "start" /\ UNCHANGED <<dd, count, ret>>
    /\ UNCHANGED <<dcs, da, xfer, bus, args, addr, spin, late, latch, data, disturbed>>

Start ==
    /\ pc = "started" /\ pc' = "poll"
    /\ StartDCS
    /\ UNCHANGED <<da, dd, bus, args, locals, disturbed>>

Poll ==
    /\ pc = "poll"
    /\ pc' = IF ~dcs.done THEN "wait" ELSE IF kind = "read" THEN "take" ELSE "next"
    /\ UNCHANGED <<hw, args, locals, disturbed>>

\* spin++ is inside the read's waiting loop, but outside the write's.
SpinWaiting == IF kind = "read" THEN NextSpin(spin) ELSE spin

\* timeout_apply.  Giving up writes DONE; smi_direct_write_arr returns 1 anyway.
Wait ==
    /\ pc = "wait"
    /\ late' \in {late, late \/ timeout_spin_tier(spin) = 3}
    /\ IF timeout_apply(timeout_spin_tier(spin), late, late')
         THEN /\ pc' = "idle" /\ dcs' = [dcs EXCEPT !.done = FALSE]
              /\ ret' = IF kind = "write" THEN 1 ELSE SMI_ERR_TIMEOUT
              /\ disturbed' = TRUE /\ spin' = spin
         ELSE /\ pc' = "poll" /\ spin' = SpinWaiting
              /\ UNCHANGED <<dcs, ret, disturbed>>
    /\ UNCHANGED <<da, dd, xfer, bus, args, addr, count, latch, data>>

\* ret_data[count++] = dd->value & 0xFF
TakeSample ==
    /\ pc = "take" /\ pc' = "ack"
    /\ data' = Append(data, dd) /\ count' = count + 1
    /\ UNCHANGED <<hw, args, addr, spin, late, ret, latch, disturbed>>

\* dcs->fields.done = 1
AckDone ==
    /\ pc = "ack" /\ pc' = "next"
    /\ dcs' = [dcs EXCEPT !.done = FALSE]
    /\ UNCHANGED <<da, dd, xfer, bus, args, locals, disturbed>>

\* Seeded bug: addr moves on, but DA is not written.
NextAddr_NotWritten ==
    /\ pc = "next" /\ pc' = "loop"
    /\ addr' = (addr + increment) % AddrSpace
    /\ spin' = IF kind = "write" THEN NextSpin(spin) ELSE spin
    /\ UNCHANGED <<hw, args, count, late, ret, latch, data, disturbed>>

\* addr++ or addr-- into DA
NextAddr ==
    /\ pc = "next" /\ pc' = "loop"
    /\ addr' = (addr + increment) % AddrSpace
    /\ da' = IF increment # 0 THEN addr' ELSE da
    /\ spin' = IF kind = "write" THEN NextSpin(spin) ELSE spin
    /\ UNCHANGED <<dcs, dd, xfer, bus, args, count, late, ret, latch, data, disturbed>>

-----------------------------------------------------------------------------
(* Environment *)

\* The transfer under way completes.
Complete ==
    /\ dcs.busy
    /\ dcs' = [dcs EXCEPT !.busy = FALSE, !.done = TRUE]
    /\ LET answer == IF xfer.write THEN xfer.data ELSE <<xfer.call, xfer.addr>>
       IN  /\ bus' = Append(bus, <<answer, xfer.addr>>)
           /\ dd' = IF xfer.write THEN dd ELSE answer
    /\ disturbed' = (disturbed \/ pc \in {"first-started", "directed", "started"})
    /\ UNCHANGED <<da, xfer, pc, args, locals>>

Clock ==
    /\ pc \in {"loop", "start", "started", "poll", "wait", "take", "ack", "next"}
    /\ ~late /\ late' = TRUE
    /\ UNCHANGED <<hw, pc, args, addr, count, spin, ret, latch, data, disturbed>>

CallStep == \/ ReadDCS("first-start", "first-started") \/ FirstStart
            \/ ReadDCS("direction", "directed") \/ SetDirection
            \/ Loop \/ ReadDCS("start", "started") \/ Start
            \/ Poll \/ Wait \/ TakeSample \/ AckDone \/ NextAddr

Next == \/ \E a \in Bases, n \in Lens, inc \in Increments :
             smi_direct_write_arr(a, n, inc) \/ smi_direct_read_arr(a, n, inc)
        \/ \E a \in Bases : smi_direct_read(a)
        \/ CallStep \/ Complete \/ Clock

Spec == Init /\ [][Next]_vars /\ WF_vars(CallStep) /\ WF_vars(Clock)

-----------------------------------------------------------------------------
(* Properties *)

Word == Nat \X Nat

TypeOK ==
    /\ dcs \in [write : BOOLEAN, done : BOOLEAN, busy : BOOLEAN]
    /\ xfer \in [write : BOOLEAN, addr : 0..(AddrSpace - 1), data : Word, call : Nat]
    /\ {da, addr, base} \subseteq 0..(AddrSpace - 1)
    /\ dd \in Word /\ data \in Seq(Word) /\ bus \in Seq(Word \X (0..(AddrSpace - 1)))
    /\ kind \in {"read", "write"} /\ call \in 0..MaxCalls /\ increment \in Increments
    /\ len \in Nat /\ count \in 0..len /\ spin \in 0..SpinSoft
    /\ {late, latch, disturbed} \subseteq BOOLEAN
    /\ ret \in Nat \cup {SMI_ERR_TIMEOUT}

\* smi_read_await_direct: although the first START and the one of the loop may
\* make one transfer or two, sample i is what the device held at the i-th address
\* of this call, as long as no completion fell inside a read-modify-write.
SamplesInOrder ==
    ~disturbed /\ kind = "read" =>
        \A i \in 1..Len(data) : data[i] = <<call, AddrOf(i)>>

\* smi_write_await_direct: the bus carries the zero, then the words in order, each
\* once and at its own address; only the first of them can be missing, when the
\* zero was still under way and swallowed its START.
WordsInOrder ==
    ~disturbed /\ kind = "write" =>
      \E missing \in {0, 1} :
        /\ \A j \in 1..Len(bus) :
             bus[j] = IF j = 1 THEN <<<<call, 0>>, base>>
                      ELSE <<<<call, j - 1 + missing>>, AddrOf(j - 1 + missing)>>
        /\ pc = "idle" /\ call > 0 => Len(bus) = len + 1 - missing

\* Undisturbed calls hand the controller back idle, so that the START of the next
\* call is never the one ignored.
IdleBetweenCalls == ~disturbed /\ pc \in {"idle", "first-start"} => ~dcs.busy

\* A direct read always returns: its waiting loop counts its turns.
ReadReturns == kind = "read" /\ pc # "idle" ~> pc = "idle"

-----------------------------------------------------------------------------
(* What the repository says and the code does not do *)

\* smi.c:532 and finalreport.tex:353-361: a direct write that waits in vain ends
\* with "Direct write await timeout reached", the spin counter having climbed
\* through the tiers.
WriteReturns == kind = "write" /\ pc # "idle" ~> pc = "idle"
=============================================================================
