--------------------------- MODULE ProgrammedWrite --------------------------
(***************************************************************************)
(* Programmed writes: smi_programmed_write_arr, smi_start and              *)
(* smi_write_await, called again and again against a controller that       *)
(* drains the TX FIFO onto the bus as the device allows.                   *)
(*                                                                         *)
(* A word is <<c, i>>: data[i - 1] of call c; <<c, len + 1>> lies past the *)
(* caller's array.  Assigning any field of CS is a read-modify-write of    *)
(* the whole register, which writes a pending DONE back and so clears it.  *)
(***************************************************************************)
EXTENDS SmiTimeout, SmiController

CONSTANTS Lens,     \* transfer lengths the client asks for
          MaxCalls  \* bound on the calls of a behaviour

ASSUME WriteConstants == Lens \subseteq Nat \ {0} /\ MaxCalls \in Nat

VARIABLES done,      \* CS.DONE
          aferr,     \* CS.AFERR: a word was pushed into a full FIFO
          pc, call, len, count, spin, late, ret,
          sent,      \* history: words put on the bus by the latest transfer
          quiet,     \* history: controller idle when this call wrote CLEAR
          abandoned, \* history: a call has timed out
          outcome    \* history: how the latest call ended

history == <<quiet, abandoned, outcome>>
driver  == <<pc, call, len, count, spin, late, ret>>
vars    == <<hw, done, aferr, sent, driver, history>>

SMI_ERR_TIMEOUT == -21

OwnWords == [i \in 1..len |-> <<call, i>>]

Looping == {"done?", "txd?", "stalled", "check"}
InCall  == Looping \cup {"clear", "start", "abort"}

Init ==
    /\ HwInit /\ done = FALSE /\ aferr = FALSE /\ sent = <<>>
    /\ pc = "idle" /\ call = 0 /\ len = 0 /\ count = 0
    /\ spin = 0 /\ late = FALSE /\ ret = 0
    /\ quiet = TRUE /\ abandoned = FALSE /\ outcome = "none"

-----------------------------------------------------------------------------
(* smi_programmed_write_arr up to smi_write_await *)

smi_programmed_write_arr(n) ==
    /\ pc = "idle" /\ call < MaxCalls
    /\ pc' = "clear" /\ call' = call + 1 /\ len' = n /\ outcome' = "none"
    /\ count' = 0
    /\ UNCHANGED <<hw, done, aferr, sent, spin, late, ret, quiet, abandoned>>

\* Seeded bug: CS is set up without CLEAR.
SetUpCS_NoClear ==
    /\ pc = "clear" /\ pc' = "start"
    /\ done' = FALSE /\ aferr' = FALSE
    /\ quiet' = ~Active
    /\ UNCHANGED <<hw, sent, call, len, count, spin, late, ret, abandoned, outcome>>

\* The CS fields one by one: DONE and AFERR are cleared, CLEAR empties the FIFO.
SetUpCS ==
    /\ pc = "clear" /\ pc' = "start"
    /\ HwClear /\ done' = FALSE /\ aferr' = FALSE
    /\ quiet' = ~Active
    /\ UNCHANGED <<sent, call, len, count, spin, late, ret, abandoned, outcome>>

smi_start ==
    /\ pc = "start" /\ pc' = "done?"
    /\ HwStart(call, len) /\ done' = FALSE
    /\ sent' = IF Active THEN sent ELSE <<>>
    /\ spin' = 0 /\ late' = FALSE
    /\ UNCHANGED <<aferr, call, len, count, ret, history>>

-----------------------------------------------------------------------------
(* smi_write_await *)

\* while (!done)
PollDone ==
    /\ pc = "done?"
    /\ IF done THEN /\ pc' = "idle" /\ ret' = count
                    /\ outcome' = IF owner = call /\ sent = OwnWords
                                    THEN "own" ELSE "foreign"
               ELSE pc' = "txd?" /\ UNCHANGED <<ret, outcome>>
    /\ UNCHANGED <<hw, done, aferr, sent, call, len, count, spin, late,
                   quiet, abandoned>>

\* CS.TXD: the TX FIFO can accept a word.
txd == Len(fifo) < FifoDepth

\* Seeded bugs: a bound two too high, and no bound at all.
MorePending_Two == count < len + 2
MorePending_Unbounded == TRUE

\* count < len + 1
MorePending == count < len + 1

\* TXD is clear: a turn of the inner loop.
PollFull ==
    /\ pc = "txd?" /\ ~txd /\ pc' = "stalled"
    /\ UNCHANGED <<hw, done, aferr, sent, call, len, count, spin, late, ret, history>>

\* TXD is set: d->value = data[count++]; the FIFO of a word too many is AFERR.
PushWord ==
    /\ pc = "txd?" /\ txd /\ pc' = "check"
    /\ IF MorePending
         THEN /\ count' = count + 1
              /\ IF Len(fifo) < FifoDepth
                   THEN fifo' = Append(fifo, <<call, count + 1>>) /\ aferr' = aferr
                   ELSE aferr' = TRUE /\ fifo' = fifo
         ELSE UNCHANGED <<count, fifo, aferr>>
    /\ UNCHANGED <<owner, moved, total, done, sent, call, len, spin, late, ret, history>>

\* timeout_apply in the inner loop and at the end of the outer one, where AFERR
\* is looked at as well.
Wait ==
    /\ pc \in {"stalled", "check"}
    /\ late' \in {late, late \/ timeout_spin_tier(spin) = 3}
    /\ IF timeout_apply(timeout_spin_tier(spin), late, late')
         THEN pc' = "abort" /\ spin' = spin /\ UNCHANGED <<hw, aferr, done, ret, outcome>>
       ELSE IF pc = "check" /\ aferr
         THEN /\ pc' = "idle" /\ ret' = count /\ outcome' = "aferr" /\ spin' = spin
              /\ HwClear /\ aferr' = FALSE /\ done' = FALSE
       ELSE /\ pc' = IF pc = "check" THEN "done?" ELSE "txd?"
            /\ spin' = NextSpin(spin) /\ UNCHANGED <<hw, aferr, done, ret, outcome>>
    /\ UNCHANGED <<sent, call, len, count, quiet, abandoned>>

\* The timeout exits: CLEAR, DONE written back, SMI_ERR_TIMEOUT.
AbortWrite ==
    /\ pc = "abort" /\ pc' = "idle"
    /\ HwClear /\ done' = FALSE /\ aferr' = FALSE
    /\ ret' = SMI_ERR_TIMEOUT /\ abandoned' = TRUE /\ outcome' = "timeout"
    /\ UNCHANGED <<sent, call, len, count, spin, late, quiet>>

-----------------------------------------------------------------------------
(* Environment *)

\* The device takes a word; the last one of the transfer raises DONE.
BusWrite ==
    /\ Active /\ fifo # <<>>
    /\ fifo' = Tail(fifo) /\ sent' = Append(sent, Head(fifo)) /\ moved' = moved + 1
    /\ done' = (done \/ moved' = total)
    /\ UNCHANGED <<owner, total, aferr, driver, history>>

\* CLOCK_MONOTONIC reaches the deadline of the current call.
Clock ==
    /\ pc \in Looping /\ ~late /\ late' = TRUE
    /\ UNCHANGED <<hw, done, aferr, sent, pc, call, len, count, spin, ret, history>>

CallStep == SetUpCS \/ smi_start \/ PollDone \/ PollFull \/ PushWord \/ Wait \/ AbortWrite

Next == \/ \E n \in Lens : smi_programmed_write_arr(n)
        \/ CallStep \/ BusWrite \/ Clock

Spec == Init /\ [][Next]_vars /\ WF_vars(CallStep) /\ WF_vars(Clock)

-----------------------------------------------------------------------------
(* Properties *)

TypeOK ==
    /\ pc \in InCall \cup {"idle"}
    /\ call \in 0..MaxCalls /\ len \in Nat /\ count \in 0..(len + 1)
    /\ fifo \in Seq(Nat \X Nat) /\ sent \in Seq(Nat \X Nat)
    /\ owner \in Nat /\ moved \in Nat /\ total \in Nat
    /\ spin \in 0..SpinSoft /\ ret \in Nat \cup {SMI_ERR_TIMEOUT}
    /\ {done, aferr, late, quiet, abandoned} \subseteq BOOLEAN
    /\ outcome \in {"none", "own", "foreign", "timeout", "aferr"}

\* A call that wrote CLEAR while the controller was idle puts on the bus only its
\* own words, in order, and never the word past the array that the await loop
\* pushes as well, nor the one an earlier call left behind.
OnlyOwnWordsSent ==
    quiet /\ owner = call =>
        /\ Len(sent) <= len
        /\ \A i \in 1..Len(sent) : sent[i] = <<call, i>>

\* DONE ends the call only when all len words of its own transfer are out, never
\* on account of an earlier transfer, unless that one was abandoned.
DoneMeansSent ==
    outcome = "foreign" => abandoned

\* Until a call times out, calls leave the controller idle, with no more than one
\* word forgotten in the TX FIFO.
LeftoverBounded ==
    ~abandoned /\ pc = "idle" => ~Active /\ Len(fifo) <= 1

\* Both loops of smi_write_await count their turns, so a device that never takes
\* a word, or never finishes, cannot hang the caller.
CallReturns == pc # "idle" ~> pc = "idle"

\* What the caller is promised (TransferService).
Service == INSTANCE TransferService WITH
    phase   <- IF pc \in InCall THEN "busy" ELSE "idle",
    debt    <- IF pc \in {"idle", "clear"} THEN Active ELSE ~quiet,
    outcome <- outcome
ImplementsService == Service!Spec
=============================================================================
