------------------------------ MODULE IrqModule ------------------------------
(***************************************************************************)
(* The smi_irq character device: smi_handler, smi_poll and smi_read, with  *)
(* client processes waiting on the device and one thread of the driver     *)
(* making programmed transfers with INTD set.  Handler and thread run on   *)
(* different cores and both write CS: the handler puts back DONE alone,    *)
(* the thread reads and modifies the register field by field.              *)
(***************************************************************************)
EXTENDS Integers, FiniteSets

CONSTANTS Clients,   \* processes with /dev/smi_irq open
          Kinds,     \* programmed transfers the thread makes
          Serial,    \* does the thread wait for each event before it goes on?
          MaxCalls   \* bound on the transfers of a behaviour

ASSUME IrqConstants ==
    /\ IsFiniteSet(Clients) /\ Kinds \subseteq {"read", "write"}
    /\ Serial \in BOOLEAN /\ MaxCalls \in Nat

VARIABLES cs,        \* CS: [enable, intd, done]
          active,    \* a transfer is under way
          irq,       \* where smi_handler is
          irq_count, \* the atomic counter
          queue,     \* clients on irq_waitq
          at, op,    \* where each client is, and in which file operation
          pc, kind, call,
          latch,     \* CS as read by the thread's read-modify-write under way
          began, completed, \* calls whose transfer has begun, and completed
          taken,     \* reads of the device that returned
          gaveUp     \* history: a call has timed out

device == <<irq_count, queue>>
client == <<at, op, taken>>
thread == <<pc, kind, call, latch, gaveUp>>
vars   == <<cs, active, irq, device, client, thread, began, completed>>

Init ==
    /\ cs = [enable |-> FALSE, intd |-> FALSE, done |-> FALSE] /\ active = FALSE
    /\ irq = "idle" /\ irq_count = 0 /\ queue = {}
    /\ at = [c \in Clients |-> "out"] /\ op = [c \in Clients |-> "none"]
    /\ pc = "idle" /\ kind = "read" /\ call = 0 /\ latch = cs
    /\ began = {} /\ completed = {} /\ taken = 0 /\ gaveUp = FALSE

\* What a 32-bit write leaves in CS: DONE is cleared by writing it as 1.
Written(value) == [value EXCEPT !.done = cs.done /\ ~value.done]

-----------------------------------------------------------------------------
(* smi_handler *)

\* The SMI raises its line for DONE while INTD is set.
Interrupt ==
    /\ irq = "idle" /\ cs.done /\ cs.intd /\ irq' = "enter"
    /\ UNCHANGED <<cs, active, device, client, thread, began, completed>>

\* readl, and the test of DONE
HandlerRead ==
    /\ irq = "enter" /\ irq' = IF cs.done THEN "ack" ELSE "idle"
    /\ UNCHANGED <<cs, active, device, client, thread, began, completed>>

\* Seeded bug: DONE is not written back.
HandlerAck_Missing ==
    /\ irq = "ack" /\ irq' = "inc"
    /\ UNCHANGED <<cs, active, device, client, thread, began, completed>>

\* writel(cs_reg & SMIO_CS_DONE): every other field is written as 0.
HandlerAck ==
    /\ irq = "ack" /\ irq' = "inc"
    /\ cs' = Written([enable |-> FALSE, intd |-> FALSE, done |-> TRUE])
    /\ UNCHANGED <<active, device, client, thread, began, completed>>

\* Seeded bug: the clients are woken before the counter is incremented.
HandlerCount_WakesFirst ==
    \/ /\ irq = "inc" /\ irq' = "wake" /\ queue' = {}
       /\ UNCHANGED <<cs, active, irq_count, client, thread, began, completed>>
    \/ /\ irq = "wake" /\ irq' = "idle" /\ irq_count' = irq_count + 1
       /\ UNCHANGED <<cs, active, queue, client, thread, began, completed>>

\* atomic_inc, then wake_up_interruptible, which wakes every waiting client.
HandlerCount ==
    \/ /\ irq = "inc" /\ irq' = "wake" /\ irq_count' = irq_count + 1
       /\ UNCHANGED <<cs, active, queue, client, thread, began, completed>>
    \/ /\ irq = "wake" /\ irq' = "idle" /\ queue' = {}
       /\ UNCHANGED <<cs, active, irq_count, client, thread, began, completed>>

Handler == HandlerRead \/ HandlerAck \/ HandlerCount

-----------------------------------------------------------------------------
(* smi_poll and smi_read *)

\* A client calls poll, or read: straight away, or because poll said so.
Enter(c, o) ==
    /\ at[c] \in {"out", "polled"} /\ (at[c] = "polled" => o = "read after poll")
    /\ (at[c] = "out" => o \in {"poll", "read"})
    /\ at' = [at EXCEPT ![c] = "enter"] /\ op' = [op EXCEPT ![c] = o]
    /\ UNCHANGED <<cs, active, irq, device, taken, thread, began, completed>>

\* poll_wait, or the prepare_to_wait of wait_event_interruptible
Arm(c) ==
    /\ at[c] = "enter" /\ at' = [at EXCEPT ![c] = "test"] /\ queue' = queue \cup {c}
    /\ UNCHANGED <<cs, active, irq, irq_count, op, taken, thread, began, completed>>

\* atomic_read(&irq_count) > 0
Pending == irq_count > 0

\* Seeded bug: poll itself takes the event it reports.
Test_PollTakes(c) ==
    /\ at[c] = "test"
    /\ \/ /\ Pending /\ queue' = queue \ {c}
          /\ at' = [at EXCEPT ![c] = IF op[c] = "poll" THEN "polled" ELSE "dec"]
          /\ irq_count' = IF op[c] = "poll" THEN irq_count - 1 ELSE irq_count
       \/ /\ ~Pending /\ queue' = queue /\ at' = [at EXCEPT ![c] = "asleep"]
          /\ irq_count' = irq_count
    /\ UNCHANGED <<cs, active, irq, op, taken, thread, began, completed>>

\* poll returns POLLIN, or read goes on to atomic_dec; otherwise to sleep.
Test(c) ==
    /\ at[c] = "test"
    /\ \/ /\ Pending /\ queue' = queue \ {c}
          /\ at' = [at EXCEPT ![c] = IF op[c] = "poll" THEN "polled" ELSE "dec"]
       \/ ~Pending /\ queue' = queue /\ at' = [at EXCEPT ![c] = "asleep"]
    /\ UNCHANGED <<cs, active, irq, irq_count, op, taken, thread, began, completed>>

\* Woken, a client arms itself and looks again.
Wake(c) ==
    /\ at[c] = "asleep" /\ c \notin queue /\ at' = [at EXCEPT ![c] = "enter"]
    /\ UNCHANGED <<cs, active, irq, device, op, taken, thread, began, completed>>

\* A signal: -ERESTARTSYS.
Signal(c) ==
    /\ at[c] = "asleep" /\ at' = [at EXCEPT ![c] = "out"]
    /\ op' = [op EXCEPT ![c] = "none"] /\ queue' = queue \ {c}
    /\ UNCHANGED <<cs, active, irq, irq_count, taken, thread, began, completed>>

\* atomic_dec, and return.
Dec(c) ==
    /\ at[c] = "dec" /\ at' = [at EXCEPT ![c] = "out"]
    /\ op' = [op EXCEPT ![c] = "none"]
    /\ irq_count' = irq_count - 1 /\ taken' = taken + 1
    /\ UNCHANGED <<cs, active, irq, queue, thread, began, completed>>

InOperation(c) == Arm(c) \/ Test(c) \/ Wake(c) \/ Dec(c)

-----------------------------------------------------------------------------
(* The thread of the driver *)

smi_programmed_transfer(k) ==
    /\ pc = "idle" /\ call < MaxCalls /\ (Serial => taken >= Cardinality(completed))
    /\ pc' = "enable" /\ kind' = k /\ call' = call + 1
    /\ UNCHANGED <<cs, active, irq, device, client, latch, gaveUp, began, completed>>

\* The read half of a field assignment.
ReadCS ==
    /\ \/ pc = "enable" /\ pc' = "enable="
       \/ pc = "intd"   /\ pc' = "intd="
       \/ pc = "start"  /\ pc' = "start="
       \/ pc = "abort"  /\ pc' = "abort="
    /\ latch' = cs
    /\ UNCHANGED <<cs, active, irq, device, client, kind, call, gaveUp, began, completed>>

\* A write assigns 1 to DONE; a read writes it back as it found it.
WithDone(value) == [value EXCEPT !.done = value.done \/ kind = "write"]

\* Seeded bug: only the first call enables the SMI.
WriteCS_EnablesOnce ==
    /\ \/ /\ pc = "enable=" /\ pc' = "intd"
          /\ cs' = Written(WithDone([latch EXCEPT !.enable = latch.enable \/ call = 1]))
       \/ pc = "intd="   /\ pc' = "start" /\ cs' = Written([latch EXCEPT !.intd = TRUE])
       \/ pc = "abort="  /\ pc' = "idle" /\ cs' = Written(WithDone(latch))
    /\ UNCHANGED <<active, irq, device, client, kind, call, latch, gaveUp, began, completed>>

\* done = 1, enable = 1, and intd = cxt->intd; at the end of a call that gave up,
\* clear = 1 and done = 1.
WriteCS ==
    /\ \/ pc = "enable=" /\ pc' = "intd" /\ cs' = Written(WithDone([latch EXCEPT !.enable = TRUE]))
       \/ pc = "intd="   /\ pc' = "start" /\ cs' = Written([latch EXCEPT !.intd = TRUE])
       \/ pc = "abort="  /\ pc' = "idle" /\ cs' = Written(WithDone(latch))
    /\ UNCHANGED <<active, irq, device, client, kind, call, latch, gaveUp, began, completed>>

\* start = 1: a disabled or busy controller starts nothing.
smi_start ==
    /\ pc = "start=" /\ pc' = "await" /\ cs' = Written(latch)
    /\ IF latch.enable /\ ~active THEN active' = TRUE /\ began' = began \cup {call}
                                  ELSE UNCHANGED <<active, began>>
    /\ UNCHANGED <<irq, device, client, kind, call, latch, gaveUp, completed>>

\* The await loops end with the last word in the RX FIFO, or with CS.DONE.
Await ==
    /\ pc = "await" /\ (IF kind = "read" THEN ~active ELSE cs.done) /\ pc' = "idle"
    /\ UNCHANGED <<cs, active, irq, device, client, kind, call, latch, gaveUp,
                   began, completed>>

\* The deadline passes after a look at CS in vain.
GiveUp ==
    /\ pc = "await" /\ (IF kind = "read" THEN active \/ call \notin began ELSE ~cs.done)
    /\ pc' = "abort" /\ gaveUp' = TRUE
    /\ UNCHANGED <<cs, active, irq, device, client, kind, call, latch, began, completed>>

\* The transfer's last word is over the bus.
Complete ==
    /\ active /\ cs.enable
    /\ active' = FALSE /\ cs' = [cs EXCEPT !.done = TRUE]
    /\ completed' = completed \cup {CHOOSE n \in began : \A m \in began : m <= n}
    /\ UNCHANGED <<irq, device, client, thread, began>>

Thread == ReadCS \/ WriteCS \/ smi_start \/ Await

Next == \/ Interrupt \/ Handler \/ Complete \/ Thread \/ GiveUp
        \/ \E k \in Kinds : smi_programmed_transfer(k)
        \/ \E c \in Clients : \/ \E o \in {"poll", "read", "read after poll"} : Enter(c, o)
                              \/ InOperation(c) \/ Signal(c)

\* Interrupts are served and the kernel runs a runnable process.
Spec == /\ Init /\ [][Next]_vars
        /\ WF_vars(Handler) /\ \A c \in Clients : WF_vars(InOperation(c))

-----------------------------------------------------------------------------
(* Properties *)

TypeOK ==
    /\ cs \in [enable : BOOLEAN, intd : BOOLEAN, done : BOOLEAN]
    /\ latch \in [enable : BOOLEAN, intd : BOOLEAN, done : BOOLEAN]
    /\ irq \in {"idle", "enter", "ack", "inc", "wake"}
    /\ irq_count \in Int /\ queue \subseteq Clients
    /\ at \in [Clients -> {"out", "enter", "test", "asleep", "polled", "dec"}]
    /\ op \in [Clients -> {"none", "poll", "read", "read after poll"}]
    /\ pc \in {"idle", "enable", "enable=", "intd", "intd=", "start", "start=", "await",
              "abort", "abort="}
    /\ kind \in {"read", "write"} /\ call \in 0..MaxCalls /\ taken \in Nat
    /\ {began, completed} \subseteq SUBSET (1..MaxCalls)
    /\ {active, gaveUp} \subseteq BOOLEAN

\* Every completed transfer is exactly one event: pending in CS or the handler,
\* counted, or taken by one read.  (While no call has timed out.)
OneEventPerTransfer ==
    ~gaveUp => Cardinality(completed)
                 = irq_count + taken + (IF cs.done \/ irq = "inc" THEN 1 ELSE 0)

\* finalreport.tex:328: the handler clears DONE "by writing it back".  What it
\* writes with it, 0 to ENABLE and INTD, never disables the SMI between the set-up of
\* a transfer and its START.  True of a client that waits for its events (Serial).
StartTakesEffect == pc = "await" /\ ~gaveUp => call \in began

\* A read that poll announced does not block.
PolledReadReady ==
    \A c \in Clients : op[c] = "read after poll" => at[c] # "asleep"

\* No wake-up is lost: a client does not sleep on while there is an event.
NoLostWakeUp ==
    \A c \in Clients : at[c] = "asleep" /\ Pending ~> at[c] # "asleep" \/ ~Pending

-----------------------------------------------------------------------------
(* What the report says and the code does not do *)

\* finalreport.tex:330: a read suspends the caller "until the interrupt counter is
\* positive, at which point the counter is decremented", "consuming one interrupt
\* event".
OneEventPerRead == taken <= Cardinality(completed)
=============================================================================
