--------------------------- MODULE ProgrammedRead ---------------------------
(***************************************************************************)
(* Programmed reads: smi_programmed_read_arr, smi_start and smi_read_await *)
(* called again and again on one context, against a controller that fills  *)
(* the RX FIFO and a bus device that may stall for as long as it likes.    *)
(*                                                                         *)
(* A word is <<c, i>>: the i-th FIFO word of the transfer begun by call c. *)
(* Every access to CS or D is one step, so the controller moves between    *)
(* any two of them.  The read-modify-write of the other CS fields changes  *)
(* nothing this path reads, and the transfer direction is always read.     *)
(***************************************************************************)
EXTENDS SmiTimeout, SmiController

CONSTANTS Lens,        \* transfer lengths the client asks for
          Formats,     \* packing in force: [packed, read, out_pixels]
          InitRawSize, \* words malloc'ed by smi_init_cxt_map
          MaxCalls     \* bound on the calls of a behaviour

ASSUME ReadConstants ==
    /\ Lens \subseteq Nat \ {0}
    /\ Formats \subseteq
         [packed : BOOLEAN, read : Nat \ {0}, out_pixels : Nat \ {0}]
    /\ \A f \in Formats : ~f.packed => f.read = 1 /\ f.out_pixels = 1
    /\ InitRawSize \in Nat \ {0}
    /\ MaxCalls \in Nat

VARIABLES pc,
          call,      \* number of the latest call
          len, fmt,  \* its arguments
          words,     \* word_reads
          rawSize,   \* cxt->raw_buffer.size
          raw,       \* what this call stored in raw_buffer: count = Len(raw)
          spin, late,
          ret,       \* the value returned
          stored,    \* samples written to the caller's ret_data
          quiet,     \* history: controller idle when this call wrote CLEAR
          abandoned, \* history: a call has timed out
          outcome    \* history: how the latest call ended

driver == <<pc, call, len, fmt, words, rawSize, raw, spin, late, ret, stored>>
vars   == <<hw, driver, quiet, abandoned, outcome>>

SMI_ERR_TIMEOUT == -21

SMI_DIV_CEIL(a, b) == (a + b - 1) \div b

\* FIFO words the controller packs n bus transfers into.
BusWords(n, f) == SMI_DIV_CEIL(n * f.read, f.out_pixels)

\* Seeded bug: the division rounds down.
word_reads_Floor(n, f) == (n * f.read) \div f.out_pixels

\* word_reads: FIFO words the driver will ask for.
word_reads(n, f) == SMI_DIV_CEIL(n * f.read, f.out_pixels)

\* Seeded bug: the capacity test is off by one.
TooSmall_OffByOne(w) == w > rawSize + 1

\* word_reads > cxt->raw_buffer.size
TooSmall(w) == w > rawSize

\* Samples the unpackers write for w words: whole groups of f.read words.
smi_unpack(w, f) == (w \div f.read) * f.out_pixels

\* Is s the beginning of the latest call's own transfer, in order?
Own(s) == \A i \in 1..Len(s) : s[i] = <<call, i>>

Awaiting == {"poll", "pop", "wait"}
InCall   == Awaiting \cup {"clear", "start", "abort", "deliver"}

Init ==
    /\ HwInit
    /\ pc = "idle" /\ call = 0
    /\ len = 0 /\ fmt = [packed |-> FALSE, read |-> 1, out_pixels |-> 1]
    /\ words = 0 /\ rawSize = InitRawSize /\ raw = <<>>
    /\ spin = 0 /\ late = FALSE /\ ret = 0 /\ stored = 0
    /\ quiet = TRUE /\ abandoned = FALSE /\ outcome = "none"

-----------------------------------------------------------------------------
(* The call, up to the polling loop *)

\* Entry: size the raw buffer, which realloc may refuse.
smi_programmed_read_arr(n, f) ==
    /\ pc = "idle" /\ call < MaxCalls
    /\ call' = call + 1 /\ len' = n /\ fmt' = f
    /\ words' = word_reads(n, f) /\ raw' = <<>> /\ stored' = 0
    /\ \/ /\ pc' = "clear" /\ outcome' = "none" /\ ret' = ret
          /\ rawSize' = IF TooSmall(words') THEN words' ELSE rawSize
       \/ /\ TooSmall(words')
          /\ pc' = "idle" /\ outcome' = "nomem" /\ ret' = -1 /\ rawSize' = rawSize
    /\ UNCHANGED <<hw, spin, late, quiet, abandoned>>

\* Seeded bug: CS is set up without CLEAR.
ClearFifos_Missing ==
    /\ pc = "clear" /\ pc' = "start"
    /\ quiet' = ~Active
    /\ UNCHANGED <<hw, call, len, fmt, words, rawSize, raw, spin, late, ret,
                   stored, abandoned, outcome>>

\* cs->fields.clear = 1, in the middle of setting up CS.
ClearFifos ==
    /\ pc = "clear" /\ pc' = "start"
    /\ HwClear
    /\ quiet' = ~Active
    /\ UNCHANGED <<call, len, fmt, words, rawSize, raw, spin, late, ret,
                   stored, abandoned, outcome>>

\* L and A are written, then START; smi_read_await takes its deadline.
smi_start ==
    /\ pc = "start" /\ pc' = "poll"
    /\ HwStart(call, BusWords(len, fmt))
    /\ spin' = 0 /\ late' = FALSE
    /\ UNCHANGED <<call, len, fmt, words, rawSize, raw, ret, stored,
                   quiet, abandoned, outcome>>

-----------------------------------------------------------------------------
(* smi_read_await *)

AwaitUnchanged == UNCHANGED <<call, len, fmt, words, rawSize, stored, quiet>>

\* count < len and CS.RXD is set.
PollData ==
    /\ pc = "poll" /\ Len(raw) < words /\ fifo # <<>>
    /\ pc' = "pop"
    /\ UNCHANGED <<hw, raw, spin, late, ret, abandoned, outcome>> /\ AwaitUnchanged

\* ret_data[count++] = d->value; spin = 0
PopWord ==
    /\ pc = "pop" /\ pc' = "poll"
    /\ raw' = Append(raw, Head(fifo)) /\ fifo' = Tail(fifo) /\ spin' = 0
    /\ UNCHANGED <<owner, moved, total, late, ret, abandoned, outcome>>
    /\ AwaitUnchanged

\* count < len and CS.RXD is clear.
PollEmpty ==
    /\ pc = "poll" /\ Len(raw) < words /\ fifo = <<>>
    /\ pc' = "wait"
    /\ UNCHANGED <<hw, raw, spin, late, ret, abandoned, outcome>> /\ AwaitUnchanged

\* timeout_apply; tier 3 sleeps, and the deadline may pass meanwhile.
Wait ==
    /\ pc = "wait"
    /\ late' \in {late, late \/ timeout_spin_tier(spin) = 3}
    /\ IF timeout_apply(timeout_spin_tier(spin), late, late')
         THEN pc' = "abort" /\ spin' = spin
         ELSE pc' = "poll"  /\ spin' = NextSpin(spin)
    /\ UNCHANGED <<hw, raw, ret, abandoned, outcome>> /\ AwaitUnchanged

\* Seeded bug: the code SMI_ERR_TIMEOUT itself is handed to smi_truncate.
AbortRead_Negative ==
    /\ pc = "abort" /\ pc' = "deliver"
    /\ HwClear
    /\ ret' = SMI_ERR_TIMEOUT
    /\ abandoned' = TRUE /\ outcome' = "timeout"
    /\ UNCHANGED <<raw, spin, late>> /\ AwaitUnchanged

\* The timeout exit: CLEAR, then return -SMI_ERR_TIMEOUT.
AbortRead ==
    /\ pc = "abort" /\ pc' = "deliver"
    /\ HwClear
    /\ ret' = -SMI_ERR_TIMEOUT
    /\ abandoned' = TRUE /\ outcome' = "timeout"
    /\ UNCHANGED <<raw, spin, late>> /\ AwaitUnchanged

\* count = len: leave the loop and return count.
PollDone ==
    /\ pc = "poll" /\ Len(raw) >= words
    /\ pc' = "deliver" /\ ret' = Len(raw)
    /\ outcome' = IF Own(raw) THEN "own" ELSE "foreign"
    /\ UNCHANGED <<hw, raw, spin, late, abandoned>> /\ AwaitUnchanged

\* smi_unpack of all word_reads words, or smi_truncate of count samples.
Deliver ==
    /\ pc = "deliver" /\ pc' = "idle"
    /\ stored' = IF fmt.packed THEN smi_unpack(words, fmt) ELSE ret
    /\ UNCHANGED <<hw, call, len, fmt, words, rawSize, raw, spin, late, ret,
                   quiet, abandoned, outcome>>

-----------------------------------------------------------------------------
(* Around the calls *)

\* The client shrinks or grows the buffer between calls (success path; on
\* failure nothing changes).
smi_resize_raw_buffer(n) ==
    /\ pc = "idle" /\ rawSize' = n
    /\ UNCHANGED <<hw, pc, call, len, fmt, words, raw, spin, late, ret, stored,
                   quiet, abandoned, outcome>>

\* The device answers and a word reaches the FIFO; a full FIFO stalls the bus.
BusRead ==
    /\ Active /\ Len(fifo) < FifoDepth
    /\ fifo' = Append(fifo, <<owner, moved + 1>>) /\ moved' = moved + 1
    /\ UNCHANGED <<owner, total, driver, quiet, abandoned, outcome>>

\* CLOCK_MONOTONIC reaches the deadline of the current call.
Clock ==
    /\ pc \in Awaiting /\ ~late /\ late' = TRUE
    /\ UNCHANGED <<hw, pc, call, len, fmt, words, rawSize, raw, spin, ret, stored,
                   quiet, abandoned, outcome>>

CallStep == \/ ClearFifos \/ smi_start \/ PollData \/ PopWord \/ PollEmpty
            \/ Wait \/ AbortRead \/ PollDone \/ Deliver

Next == \/ \E n \in Lens, f \in Formats : smi_programmed_read_arr(n, f)
        \/ CallStep
        \/ \E n \in Lens : smi_resize_raw_buffer(n)
        \/ BusRead \/ Clock

\* The calling thread keeps running and time keeps passing; nothing obliges
\* the device to answer.
Spec == Init /\ [][Next]_vars /\ WF_vars(CallStep) /\ WF_vars(Clock)
-----------------------------------------------------------------------------
(* Properties *)

TypeOK ==
    /\ pc \in InCall \cup {"idle"}
    /\ call \in 0..MaxCalls /\ len \in Nat /\ words \in Nat
    /\ fmt \in [packed : BOOLEAN, read : Nat \ {0}, out_pixels : Nat \ {0}]
    /\ rawSize \in Nat /\ raw \in Seq(Nat \X Nat) /\ fifo \in Seq(Nat \X Nat)
    /\ owner \in Nat /\ moved \in Nat /\ total \in Nat
    /\ spin \in 0..SpinSoft /\ late \in BOOLEAN
    /\ ret \in Int /\ stored \in Nat
    /\ quiet \in BOOLEAN /\ abandoned \in BOOLEAN
    /\ outcome \in {"none", "own", "foreign", "timeout", "nomem"}

\* A call that wrote CLEAR while the controller was idle only ever collects its
\* own words, in bus order and without a gap (the read loop of smi_read_await).
FreshWhenQuiet == quiet /\ pc \in Awaiting \cup {"deliver"} => Own(raw)

\* As long as no call has timed out, every call finds the controller idle and
\* the FIFO empty, and so leaves them: "Leftover data in the RX FIFO" and its
\* consequences need an abandoned transfer first.
CleanUntilTimeout ==
    ~abandoned => /\ quiet
                  /\ pc \in {"idle", "clear"} => ~Active /\ fifo = <<>>

\* Whatever resizing went before, the words read, and the word_reads words
\* unpacked afterwards, lie within raw_buffer.
WithinRawBuffer ==
    pc \in InCall => words <= rawSize /\ Len(raw) <= rawSize

\* A call that returns a full count wrote at least the len samples asked for and
\* less than one packed word too many (formats with one word to a group).
DeliversRequest ==
    pc = "idle" /\ outcome \in {"own", "foreign"} /\ fmt.read = 1
       => stored >= len /\ stored < len + fmt.out_pixels

\* The await loop cannot hang: with the device stalled for ever the spin counter
\* climbs to a tier that looks at the clock.
CallReturns == pc # "idle" ~> pc = "idle"

\* What the caller is promised (TransferService), with the debt being a transfer
\* the controller still works on for an earlier, abandoned call.
Service == INSTANCE TransferService WITH
    phase   <- IF pc \in InCall \ {"deliver"} THEN "busy" ELSE "idle",
    debt    <- IF pc \in {"idle", "clear", "deliver"} THEN Active ELSE ~quiet,
    outcome <- outcome
ImplementsService == Service!Spec

-----------------------------------------------------------------------------
(* What the repository says and the code does not do *)

\* finalreport.tex:348: the await functions "block until the transfer
\* completes".  A call that returns a full count has had its transfer carried out.
FullCountMeansTransferDone ==
    pc = "deliver" /\ outcome # "timeout" => owner = call /\ ~Active
=============================================================================
