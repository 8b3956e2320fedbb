--------------------------- MODULE IrqModuleProofs ---------------------------
(***************************************************************************)
(* Theorems about IrqModule: its types for all values of the constants,    *)
(* and, for a thread that waits for its events and one client to collect   *)
(* them, that calls, transfers and events stay in step for any number of   *)
(* calls.  The last part is about IrqLoad: what is held at each place of   *)
(* loading and unloading.                                                  *)
(***************************************************************************)
EXTENDS IrqModule, IrqLoad, FiniteSetTheorems, TLAPS

-----------------------------------------------------------------------------
(* Types *)

CS == [enable : BOOLEAN, intd : BOOLEAN, done : BOOLEAN]

\* TypeOK in parts: the registers with the other Boolean values, the clients, the thread.
Registers == cs \in CS /\ latch \in CS /\ active \in BOOLEAN /\ gaveUp \in BOOLEAN

ClientTypes ==
    /\ irq \in {"idle", "enter", "ack", "inc", "wake"}
    /\ irq_count \in Int /\ queue \subseteq Clients /\ taken \in Nat
    /\ at \in [Clients -> {"out", "enter", "test", "asleep", "polled", "dec"}]
    /\ op \in [Clients -> {"none", "poll", "read", "read after poll"}]

\* A completion always finds the transfer that was begun last.
LatestBegun == active => \E n \in began : \A m \in began : m <= n

ThreadTypes ==
    /\ pc \in {"idle", "enable", "enable=", "intd", "intd=", "start", "start=", "await",
              "abort", "abort="}
    /\ kind \in {"read", "write"} /\ call \in 0..MaxCalls
    /\ began \subseteq 1..call /\ completed \subseteq 1..MaxCalls
    /\ pc \notin {"idle", "abort", "abort="} => call > 0
    /\ LatestBegun

Types == Registers /\ ClientTypes /\ ThreadTypes

LEMMA TypesImply == Types => TypeOK
  <1> SUFFICES ASSUME Types PROVE TypeOK
    OBVIOUS
  <1>1. began \subseteq 1..MaxCalls
    BY IrqConstants DEF Types, ThreadTypes
  <1> QED BY <1>1 DEF Types, Registers, ClientTypes, ThreadTypes, TypeOK, CS

LEMMA WrittenType ==
  ASSUME cs \in CS, NEW v \in CS
  PROVE  /\ Written(v) \in CS /\ Written(v).enable = v.enable
         /\ Written(v).done = (cs.done /\ ~v.done)
  BY Zenon DEF Written, CS

LEMMA WithDoneType ==
  ASSUME NEW v \in CS PROVE WithDone(v) \in CS /\ WithDone(v).enable = v.enable
  BY Zenon DEF WithDone, CS

LEMMA TypesInit == Init => Types
  <1> SUFFICES ASSUME Init PROVE Types
    OBVIOUS
  <1>1. Registers
    BY Zenon DEF Init, Registers, CS
  <1>2. ClientTypes
    BY DEF Init, ClientTypes
  <1>3. ThreadTypes
    BY IrqConstants DEF Init, ThreadTypes, LatestBegun
  <1> QED BY <1>1, <1>2, <1>3 DEF Types

\* What a field assignment of the set-up leaves in CS.
LEMMA WriteCSEffect ==
  ASSUME Registers, WriteCS
  PROVE  /\ cs' \in CS
         /\ cs'.done => cs.done
         /\ pc = "enable=" => cs'.enable
         /\ pc = "intd=" => cs'.enable = latch.enable
  <1> DEFINE v == [latch EXCEPT !.enable = TRUE]
             w == [latch EXCEPT !.intd = TRUE]
  <1>1. v \in CS /\ v.enable /\ w \in CS /\ w.enable = latch.enable
    BY Zenon DEF Registers, CS
  <1>2. cs \in CS /\ latch \in CS
    BY DEF Registers
  <1> HIDE DEF v, w
  <1>3. \/ pc = "enable=" /\ cs' = Written(WithDone(v))
        \/ pc = "intd=" /\ cs' = Written(w)
        \/ pc = "abort=" /\ cs' = Written(WithDone(latch))
    BY DEF WriteCS, v, w
  <1>4. WithDone(v) \in CS /\ WithDone(v).enable = v.enable /\ WithDone(latch) \in CS
    BY <1>1, <1>2, WithDoneType
  <1>5. CASE pc = "enable=" /\ cs' = Written(WithDone(v))
    <2>1. Written(WithDone(v)) \in CS /\ Written(WithDone(v)).enable = WithDone(v).enable
          /\ Written(WithDone(v)).done = (cs.done /\ ~WithDone(v).done)
      BY <1>2, <1>4, WrittenType
    <2> QED BY <1>1, <1>4, <1>5, <2>1
  <1>6. CASE pc = "intd=" /\ cs' = Written(w)
    <2>1. Written(w) \in CS /\ Written(w).enable = w.enable
          /\ Written(w).done = (cs.done /\ ~w.done)
      BY <1>1, <1>2, WrittenType
    <2> QED BY <1>1, <1>6, <2>1
  <1>7. CASE pc = "abort=" /\ cs' = Written(WithDone(latch))
    <2>1. Written(WithDone(latch)) \in CS
          /\ Written(WithDone(latch)).done = (cs.done /\ ~WithDone(latch).done)
      BY <1>2, <1>4, WrittenType
    <2> QED BY <1>7, <2>1
  <1> QED BY <1>3, <1>5, <1>6, <1>7

LEMMA AckEffect ==
  ASSUME Registers, HandlerAck
  PROVE  cs' \in CS /\ ~cs'.done
  <1> DEFINE v == [enable |-> FALSE, intd |-> FALSE, done |-> TRUE]
  <1>1. v \in CS /\ v.done /\ cs \in CS
    BY Zenon DEF CS, Registers
  <1> HIDE DEF v
  <1>2. cs' = Written(v)
    BY DEF HandlerAck, v
  <1> QED BY <1>1, <1>2, WrittenType

LEMMA StartEffect ==
  ASSUME Registers, smi_start
  PROVE  /\ cs' \in CS
         /\ cs'.done => cs.done
         /\ latch.enable /\ ~active => active' = TRUE /\ began' = began \cup {call}
         /\ ~(latch.enable /\ ~active) => active' = active /\ began' = began
  <1>1. cs \in CS /\ latch \in CS /\ cs' = Written(latch)
    BY DEF Registers, smi_start
  <1>2. Written(latch) \in CS /\ Written(latch).done = (cs.done /\ ~latch.done)
    BY <1>1, WrittenType
  <1> QED BY <1>1, <1>2 DEF smi_start

LEMMA CompleteEffect ==
  ASSUME Registers, Complete
  PROVE  /\ active /\ cs.enable /\ active' = FALSE
         /\ cs' \in CS /\ cs'.done /\ cs'.enable = cs.enable
  <1>1. cs' = [cs EXCEPT !.done = TRUE] /\ cs \in CS /\ active /\ cs.enable /\ active' = FALSE
    BY DEF Complete, Registers
  <1> QED BY <1>1, Zenon DEF CS

LEMMA RegistersNext == Registers /\ [Next]_vars => Registers'
  <1> SUFFICES ASSUME Registers, [Next]_vars PROVE Registers'
    OBVIOUS
  <1> USE DEF Registers, device, client, thread
  <1>1. CASE HandlerAck
    BY <1>1, AckEffect DEF HandlerAck
  <1>2. CASE WriteCS
    <2>1. UNCHANGED <<active, latch, gaveUp>>
      BY <1>2 DEF WriteCS
    <2>2. cs' \in CS
      BY <1>2, WriteCSEffect
    <2> QED BY <2>1, <2>2
  <1>3. CASE smi_start
    <2>1. active' \in BOOLEAN /\ UNCHANGED <<latch, gaveUp>>
      BY <1>3, StartEffect DEF smi_start
    <2>2. cs' \in CS
      BY <1>3, StartEffect
    <2> QED BY <2>1, <2>2, Zenon
  <1>4. CASE Complete
    <2>1. UNCHANGED <<latch, gaveUp>>
      BY <1>4 DEF Complete
    <2> QED BY <1>4, <2>1, CompleteEffect
  <1>5. CASE UNCHANGED <<cs, active, gaveUp>> /\ latch' \in {latch, cs}
    BY <1>5
  <1>6. CASE GiveUp
    BY <1>6 DEF GiveUp
  <1>7. ASSUME ~HandlerAck, ~WriteCS, ~smi_start, ~Complete, ~GiveUp
        PROVE  UNCHANGED <<cs, active, gaveUp>> /\ latch' \in {latch, cs}
    BY <1>7 DEF Next, Interrupt, Handler, HandlerRead, HandlerCount, Thread, ReadCS, Await,
                smi_programmed_transfer, Enter, InOperation, Arm, Test, Wake, Dec, Signal, vars
  <1> QED BY <1>1, <1>2, <1>3, <1>4, <1>5, <1>6, <1>7

LEMMA ClientTypesNext == ClientTypes /\ [Next]_vars => ClientTypes'
  <1> SUFFICES ASSUME ClientTypes, [Next]_vars PROVE ClientTypes'
    OBVIOUS
  <1> USE DEF ClientTypes, device, client, thread
  <1>1. CASE Interrupt
    BY <1>1 DEF Interrupt
  <1>2. CASE Handler
    <2>1. CASE HandlerRead
      BY <2>1 DEF HandlerRead
    <2>2. CASE HandlerAck
      BY <2>2 DEF HandlerAck
    <2>3. CASE HandlerCount
      <3>1. /\ UNCHANGED <<taken, at, op>>
            /\ \/ irq' = "wake" /\ irq_count' = irq_count + 1 /\ queue' = queue
               \/ irq' = "idle" /\ irq_count' = irq_count /\ queue' = {}
        BY <2>3 DEF HandlerCount
      <3>2. irq_count' \in Int /\ irq' \in {"idle", "wake"}
        <4>1. irq_count \in Int
          OBVIOUS
        <4>2. irq_count' \in {irq_count, irq_count + 1} /\ irq' \in {"idle", "wake"}
          BY <3>1
        <4> QED BY ONLY <4>1, <4>2
      <3>3. queue' \subseteq Clients
        BY <3>1
      <3>4. taken' = taken /\ at' = at /\ op' = op
        BY <3>1
      <3> QED BY <3>2, <3>3, <3>4
    <2> QED BY <1>2, <2>1, <2>2, <2>3 DEF Handler
  <1>3. ASSUME NEW c \in Clients, NEW o \in {"poll", "read", "read after poll"}, Enter(c, o)
        PROVE  ClientTypes'
    BY <1>3 DEF Enter
  <1>4. ASSUME NEW c \in Clients, InOperation(c) \/ Signal(c) PROVE ClientTypes'
    <2>1. ASSUME Arm(c) PROVE ClientTypes'
      BY <2>1 DEF Arm
    <2>2. ASSUME Test(c) PROVE ClientTypes'
      BY <2>2 DEF Test
    <2>3. ASSUME Wake(c) PROVE ClientTypes'
      BY <2>3 DEF Wake
    <2>4. ASSUME Dec(c) PROVE ClientTypes'
      <3>1. /\ irq_count' = irq_count - 1 /\ taken' = taken + 1 /\ UNCHANGED <<irq, queue>>
            /\ at' = [at EXCEPT ![c] = "out"] /\ op' = [op EXCEPT ![c] = "none"]
        BY <2>4 DEF Dec
      <3>2. irq_count' \in Int /\ taken' \in Nat
        <4>1. irq_count \in Int /\ taken \in Nat
          OBVIOUS
        <4>2. irq_count' = irq_count - 1 /\ taken' = taken + 1
          BY <3>1
        <4> QED BY ONLY <4>1, <4>2
      <3> QED BY <3>1, <3>2
    <2>5. ASSUME Signal(c) PROVE ClientTypes'
      BY <2>5 DEF Signal
    <2> QED BY <1>4, <2>1, <2>2, <2>3, <2>4, <2>5 DEF InOperation
  <1>5. CASE UNCHANGED <<irq, irq_count, queue, taken, at, op>>
    BY <1>5
  <1>6. ASSUME Complete \/ Thread \/ GiveUp \/ (\E k \in Kinds : smi_programmed_transfer(k))
        PROVE  UNCHANGED <<irq, irq_count, queue, taken, at, op>>
    BY <1>6 DEF Complete, Thread, ReadCS, WriteCS, smi_start, Await, GiveUp,
                smi_programmed_transfer
  <1>7. UNCHANGED vars => UNCHANGED <<irq, irq_count, queue, taken, at, op>>
    BY DEF vars
  <1> QED BY <1>1, <1>2, <1>3, <1>4, <1>5, <1>6, <1>7 DEF Next

LEMMA ThreadTypesNext == Types /\ [Next]_vars => ThreadTypes'
  <1> SUFFICES ASSUME Types, [Next]_vars PROVE ThreadTypes'
    OBVIOUS
  <1>0. Registers /\ call \in Nat /\ call <= MaxCalls /\ MaxCalls \in Nat
    BY IrqConstants DEF Types, ThreadTypes
  <1> USE DEF Types, ThreadTypes, device, client, thread
  <1>1. ASSUME NEW k \in Kinds, smi_programmed_transfer(k) PROVE ThreadTypes'
    <2>1. /\ pc' = "enable" /\ kind' = k /\ call' = call + 1 /\ call < MaxCalls
          /\ UNCHANGED <<active, began, completed>>
      BY <1>1 DEF smi_programmed_transfer
    <2>2. began' \subseteq 1..call' /\ call' \in 0..MaxCalls /\ LatestBegun'
      BY <1>0, <2>1 DEF LatestBegun
    <2> QED BY <2>1, <2>2, IrqConstants
  <1>2. CASE ReadCS
    BY <1>2 DEF ReadCS, LatestBegun
  <1>3. CASE WriteCS
    <2>1. /\ \/ pc = "enable=" /\ pc' = "intd"
             \/ pc = "intd="   /\ pc' = "start"
             \/ pc = "abort="  /\ pc' = "idle"
          /\ UNCHANGED <<active, kind, call, began, completed>>
      BY <1>3 DEF WriteCS
    <2> QED BY <2>1 DEF LatestBegun
  <1>4. CASE smi_start
    <2>1. pc' = "await" /\ call > 0 /\ UNCHANGED <<kind, call, completed>>
      BY <1>4 DEF smi_start
    <2>2. CASE latch.enable /\ ~active
      <3>1. began' = began \cup {call}
        BY <1>0, <1>4, <2>2, StartEffect
      <3>2. began' \subseteq 1..call /\ call \in began' /\ \A m \in began' : m <= call
        BY <1>0, <2>1, <3>1
      <3> QED BY <2>1, <3>2 DEF LatestBegun
    <2>3. CASE ~(latch.enable /\ ~active)
      <3>1. UNCHANGED <<active, began>>
        BY <1>0, <1>4, <2>3, StartEffect
      <3> QED BY <2>1, <3>1 DEF LatestBegun
    <2> QED BY <2>2, <2>3
  <1>5. CASE Await
    BY <1>5 DEF Await, LatestBegun
  <1>6. CASE GiveUp
    BY <1>6 DEF GiveUp, LatestBegun
  <1>7. CASE Complete
    <2>1. active /\ active' = FALSE /\ UNCHANGED <<pc, kind, call, began>>
      BY <1>0, <1>7, CompleteEffect DEF Complete
    <2> DEFINE m == CHOOSE n \in began : \A k \in began : k <= n
    <2>2. m \in began
      BY <2>1 DEF LatestBegun
    <2>3. completed' = completed \cup {m}
      BY <1>7 DEF Complete
    <2> HIDE DEF m
    <2>5. m \in 1..MaxCalls
      BY <1>0, <2>2
    <2>4. completed' \subseteq 1..MaxCalls
      BY <2>3, <2>5
    <2> QED BY <2>1, <2>4 DEF LatestBegun
  <1>8. CASE UNCHANGED <<active, pc, kind, call, began, completed>>
    BY <1>8 DEF LatestBegun
  <1>9. ASSUME Interrupt \/ Handler \/ UNCHANGED vars
        PROVE  UNCHANGED <<active, pc, kind, call, began, completed>>
    BY <1>9 DEF Interrupt, Handler, HandlerRead, HandlerAck, HandlerCount, vars
  <1>10. ASSUME NEW c \in Clients,
                \/ \E o \in {"poll", "read", "read after poll"} : Enter(c, o)
                \/ InOperation(c) \/ Signal(c)
         PROVE  UNCHANGED <<active, pc, kind, call, began, completed>>
    BY <1>10 DEF Enter, InOperation, Arm, Test, Wake, Dec, Signal
  <1> QED BY <1>1, <1>2, <1>3, <1>4, <1>5, <1>6, <1>7, <1>8, <1>9, <1>10 DEF Next, Thread

LEMMA TypesNext == Types /\ [Next]_vars => Types'
  BY RegistersNext, ClientTypesNext, ThreadTypesNext DEF Types

-----------------------------------------------------------------------------
(* One client *)

SingleClient == \A c, d \in Clients : c = d

\* Nobody takes the event between a client's look at the counter and its read.
ClientInv ==
    /\ irq_count >= 0
    /\ \A c \in Clients :
         /\ at[c] \in {"dec", "polled"} => irq_count > 0
         /\ op[c] = "read after poll" => irq_count > 0 /\ at[c] # "asleep"

LEMMA ClientInvInit == Init => ClientInv
  BY DEF Init, ClientInv

\* A client's step changes its own entries, and the single client has no others.
LEMMA ClientInvNext ==
  ASSUME SingleClient
  PROVE  ClientTypes /\ ClientInv /\ [Next]_vars => ClientInv'
  <1> SUFFICES ASSUME ClientTypes, ClientInv, [Next]_vars PROVE ClientInv'
    OBVIOUS
  <1>0. /\ at \in [Clients -> {"out", "enter", "test", "asleep", "polled", "dec"}]
        /\ op \in [Clients -> {"none", "poll", "read", "read after poll"}]
    BY DEF ClientTypes
  <1>int. irq_count \in Int
    BY DEF ClientTypes
  <1> USE DEF ClientInv, device, client, thread
  <1>1. CASE HandlerCount
    <2>1. UNCHANGED <<at, op>> /\ irq_count' \in {irq_count, irq_count + 1}
      BY <1>1 DEF HandlerCount
    <2>2. irq_count' \in Int /\ irq_count' >= irq_count
      BY ONLY <1>int, <2>1
    <2>3. irq_count' >= 0 /\ (irq_count > 0 => irq_count' > 0)
      BY ONLY <1>int, <2>1, <2>2, irq_count >= 0
    <2> QED BY <2>1, <2>3
  <1>2. ASSUME NEW c \in Clients, NEW p, NEW o,
               at' = [at EXCEPT ![c] = p], op' = [op EXCEPT ![c] = o],
               irq_count' \in Int, irq_count' >= 0,
               p \in {"dec", "polled"} => irq_count' > 0,
               o = "read after poll" => irq_count' > 0 /\ p # "asleep"
        PROVE  ClientInv'
    <2>1. at'[c] = p /\ op'[c] = o
      BY <1>0, <1>int, <1>2
    <2>2. \A d \in Clients : d = c
      BY SingleClient DEF SingleClient
    <2> QED BY <1>2, <2>1, <2>2
  <1>3. ASSUME NEW c \in Clients, NEW o \in {"poll", "read", "read after poll"}, Enter(c, o)
        PROVE  ClientInv'
    <2>1. o = "read after poll" => irq_count > 0
      BY <1>3 DEF Enter
    <2> QED BY <1>0, <1>int, <1>2, <1>3, <2>1 DEF Enter
  <1>4. ASSUME NEW c \in Clients, Arm(c) PROVE ClientInv'
    <2>1. op' = [op EXCEPT ![c] = op[c]]
      BY <1>0, <1>4 DEF Arm
    <2> QED BY <1>0, <1>int, <1>2, <1>4, <2>1 DEF Arm
  <1>5. ASSUME NEW c \in Clients, Test(c) PROVE ClientInv'
    <2>1. op' = [op EXCEPT ![c] = op[c]] /\ irq_count' = irq_count
      BY <1>0, <1>5 DEF Test
    <2>2. CASE Pending
      <3>1. at' = [at EXCEPT ![c] = IF op[c] = "poll" THEN "polled" ELSE "dec"]
        BY <1>5, <2>2 DEF Test
      <3> QED BY <1>0, <1>int, <1>2, <2>1, <2>2, <3>1 DEF Pending
    <2>3. CASE ~Pending
      <3>1. at' = [at EXCEPT ![c] = "asleep"]
        BY <1>5, <2>3 DEF Test
      <3>2. op[c] # "read after poll"
        BY <2>3 DEF Pending
      <3> QED BY <1>0, <1>int, <1>2, <2>1, <3>1, <3>2
    <2> QED BY <2>2, <2>3
  <1>6. ASSUME NEW c \in Clients, Wake(c) PROVE ClientInv'
    <2>1. op' = [op EXCEPT ![c] = op[c]]
      BY <1>0, <1>6 DEF Wake
    <2> QED BY <1>0, <1>int, <1>2, <1>6, <2>1 DEF Wake
  <1>7. ASSUME NEW c \in Clients, Signal(c) PROVE ClientInv'
    BY <1>0, <1>int, <1>2, <1>7 DEF Signal
  <1>8. ASSUME NEW c \in Clients, Dec(c) PROVE ClientInv'
    <2>1. irq_count > 0 /\ irq_count' = irq_count - 1
      BY <1>8 DEF Dec
    <2>2. irq_count' \in Int /\ irq_count' >= 0
      BY ONLY <1>int, <2>1
    <2> QED BY <1>2, <1>8, <2>2 DEF Dec
  <1>9. CASE UNCHANGED <<irq_count, at, op>>
    BY <1>9
  <1>10. ASSUME \/ Interrupt \/ HandlerRead \/ HandlerAck \/ Complete \/ Thread \/ GiveUp
                \/ UNCHANGED vars \/ \E k \in Kinds : smi_programmed_transfer(k)
         PROVE  UNCHANGED <<irq_count, at, op>>
    BY <1>10 DEF Interrupt, HandlerRead, HandlerAck, Complete, Thread, ReadCS, WriteCS,
                 smi_start, Await, GiveUp, smi_programmed_transfer, vars
  <1> QED BY ONLY <1>1, <1>3, <1>4, <1>5, <1>6, <1>7, <1>8, <1>9, <1>10, [Next]_vars
     DEF Next, Handler, InOperation

-----------------------------------------------------------------------------
(* A thread that waits for its events *)

SetUp == {"enable", "enable=", "intd", "intd=", "start", "start="}

\* Transfers completed so far, when none timed out.
Done == IF active \/ pc \in SetUp THEN call - 1 ELSE call

\* An event that the handler has not counted yet.
Uncounted == IF cs.done \/ irq = "inc" THEN 1 ELSE 0

\* It sets up undisturbed: nothing is pending anywhere, so the handler does not write
\* CS, and ENABLE stays set once it is.
QuietInv ==
    pc \in SetUp =>
      /\ ~active /\ ~cs.done /\ irq \notin {"ack", "inc"} /\ irq_count = 0
      /\ pc \in {"intd", "intd=", "start", "start="} => cs.enable
      /\ pc \in {"intd=", "start="} => latch.enable

\* Where a transfer and its event are.
PlaceInv ==
    /\ pc \notin {"abort", "abort="}
    /\ active => pc = "await" /\ ~cs.done /\ irq \notin {"ack", "inc"}
    /\ irq = "ack" => cs.done
    /\ irq = "inc" => ~cs.done

\* Calls, transfers and events are one and the same sequence.
CountInv ==
    /\ began = 1..(IF pc \in SetUp THEN call - 1 ELSE call)
    /\ completed = 1..Done
    /\ Done = irq_count + taken + Uncounted

InStep == QuietInv /\ PlaceInv /\ CountInv

LEMMA UpTo == ASSUME NEW n \in Nat PROVE Cardinality(1..n) = n
  BY FS_Interval

LEMMA LastUpTo ==
  ASSUME NEW n \in Nat \ {0} PROVE (CHOOSE k \in 1..n : \A m \in 1..n : m <= k) = n
  <1>1. n \in 1..n /\ \A m \in 1..n : m <= n
    OBVIOUS
  <1>2. \A k \in 1..n : (\A m \in 1..n : m <= k) => k = n
    OBVIOUS
  <1> QED BY <1>1, <1>2

LEMMA InStepInit == Init => InStep
  <1> SUFFICES ASSUME Init PROVE InStep
    OBVIOUS
  <1>1. /\ pc = "idle" /\ irq = "idle" /\ call = 0 /\ irq_count = 0 /\ taken = 0
        /\ began = {} /\ completed = {} /\ active = FALSE
    BY DEF Init
  <1>2. ~cs.done
    BY Zenon DEF Init
  <1> QED BY <1>1, <1>2 DEF InStep, QuietInv, PlaceInv, CountInv, Done, Uncounted, SetUp

LEMMA InStepNext ==
  ASSUME Serial = TRUE
  PROVE  Types /\ ClientInv /\ (~gaveUp => InStep) /\ [Next]_vars => (~gaveUp => InStep)'
  <1> SUFFICES ASSUME Types, ClientInv, ~gaveUp => InStep, [Next]_vars, ~gaveUp'
               PROVE  InStep'
    OBVIOUS
  <1>0. /\ cs \in CS /\ latch \in CS /\ active \in BOOLEAN /\ Registers
        /\ irq \in {"idle", "enter", "ack", "inc", "wake"}
    BY DEF Types, Registers, ClientTypes
  <1>int. irq_count \in Nat /\ taken \in Nat /\ call \in Nat
    <2>1. irq_count \in Int /\ taken \in Nat
      BY DEF Types, ClientTypes
    <2>2. irq_count >= 0
      BY DEF ClientInv
    <2>3. call \in Nat
      BY IrqConstants DEF Types, ThreadTypes
    <2> QED BY ONLY <2>1, <2>2, <2>3
  <1> USE DEF SetUp, device, client, thread
  <1>1. CASE Interrupt
    <2>1. /\ ~gaveUp /\ cs.done /\ irq' = "enter" /\ irq = "idle"
          /\ UNCHANGED <<cs, active, irq_count, taken, pc, call, latch, began, completed>>
      BY <1>1 DEF Interrupt
    <2> QED BY <2>1 DEF InStep, QuietInv, PlaceInv, CountInv, Done, Uncounted
  <1>2. CASE HandlerRead
    <2>1. /\ ~gaveUp /\ irq' = (IF cs.done THEN "ack" ELSE "idle") /\ irq = "enter"
          /\ UNCHANGED <<cs, active, irq_count, taken, pc, call, latch, began, completed>>
      BY <1>2 DEF HandlerRead
    <2> QED BY <2>1 DEF InStep, QuietInv, PlaceInv, CountInv, Done, Uncounted
  <1>3. CASE HandlerAck
    <2>1. /\ ~gaveUp /\ irq = "ack" /\ irq' = "inc"
          /\ UNCHANGED <<active, irq_count, taken, pc, call, latch, began, completed>>
      BY <1>3 DEF HandlerAck
    <2>2. ~cs'.done
      BY <1>0, <1>3, AckEffect
    <2> QED BY <2>1, <2>2 DEF InStep, QuietInv, PlaceInv, CountInv, Done, Uncounted
  <1>4. CASE HandlerCount
    <2>1. /\ ~gaveUp
          /\ UNCHANGED <<cs, active, taken, pc, call, latch, began, completed>>
          /\ \/ irq = "inc" /\ irq' = "wake" /\ irq_count' = irq_count + 1
             \/ irq = "wake" /\ irq' = "idle" /\ irq_count' = irq_count
      BY <1>4 DEF HandlerCount
    <2>2. CASE irq = "inc" /\ irq' = "wake" /\ irq_count' = irq_count + 1
      <3>1. InStep /\ Done' = Done /\ ~cs.done /\ pc \notin SetUp
        BY <2>1, <2>2 DEF InStep, QuietInv, PlaceInv, Done
      <3>2. Uncounted = 1 /\ Uncounted' = 0
        BY <2>1, <2>2, <3>1 DEF Uncounted
      <3>3. Done' = irq_count' + taken' + Uncounted'
        BY <1>int, <2>1, <2>2, <3>1, <3>2 DEF InStep, CountInv
      <3>4. QuietInv' /\ PlaceInv'
        BY <2>1, <2>2, <3>1 DEF InStep, QuietInv, PlaceInv
      <3> QED BY <2>1, <3>1, <3>3, <3>4 DEF InStep, CountInv
    <2>3. CASE irq = "wake" /\ irq' = "idle" /\ irq_count' = irq_count
      BY <2>1, <2>3 DEF InStep, QuietInv, PlaceInv, CountInv, Done, Uncounted
    <2> QED BY <2>1, <2>2, <2>3
  <1>5. ASSUME NEW c \in Clients, Dec(c) PROVE InStep'
    <2>1. /\ ~gaveUp /\ at[c] = "dec" /\ irq_count' = irq_count - 1 /\ taken' = taken + 1
          /\ UNCHANGED <<cs, irq, active, pc, call, latch, began, completed>>
      BY <1>5 DEF Dec
    <2>2. irq_count > 0
      BY <2>1 DEF ClientInv
    <2>3. pc \notin SetUp
      BY <2>1, <2>2 DEF InStep, QuietInv
    <2>4. irq_count' + taken' = irq_count + taken
      BY <1>int, <2>1
    <2>5. Done' = Done /\ Uncounted' = Uncounted /\ Uncounted \in {0, 1}
      BY <2>1 DEF Done, Uncounted
    <2>6. Done' = irq_count' + taken' + Uncounted'
      BY <2>1, <2>4, <2>5 DEF InStep, CountInv
    <2> QED BY <2>1, <2>3, <2>5, <2>6 DEF InStep, QuietInv, PlaceInv, CountInv
  <1>6. CASE /\ UNCHANGED <<cs, irq, active, irq_count, taken, pc, call, latch>>
             /\ UNCHANGED <<gaveUp, began, completed>>
    BY <1>6 DEF InStep, QuietInv, PlaceInv, CountInv, Done, Uncounted
  <1>7. ASSUME NEW c \in Clients,
               \/ \E o \in {"poll", "read", "read after poll"} : Enter(c, o)
               \/ Arm(c) \/ Test(c) \/ Wake(c) \/ Signal(c)
        PROVE  InStep'
    <2> DEFINE Same == /\ UNCHANGED <<cs, irq, active, irq_count, taken, pc, call, latch>>
                       /\ UNCHANGED <<gaveUp, began, completed>>
    <2>1. Same
      <3>1. (\E o \in {"poll", "read", "read after poll"} : Enter(c, o)) => Same
        BY DEF Enter
      <3>2. (Arm(c) \/ Wake(c)) => Same
        BY DEF Arm, Wake
      <3>3. Test(c) => Same
        BY DEF Test
      <3>4. Signal(c) => Same
        BY DEF Signal
      <3> QED BY <1>7, <3>1, <3>2, <3>3, <3>4
    <2> QED BY <1>6, <2>1
  <1>8. ASSUME NEW k \in Kinds, smi_programmed_transfer(k) PROVE InStep'
    <2>1. /\ ~gaveUp /\ pc = "idle" /\ pc' = "enable" /\ call' = call + 1
          /\ taken >= Cardinality(completed)
          /\ UNCHANGED <<cs, irq, active, irq_count, taken, latch, began, completed>>
      BY <1>8 DEF smi_programmed_transfer
    <2>2. ~active /\ Done = call
      BY <2>1 DEF InStep, PlaceInv, Done
    <2>3. Cardinality(completed) = call
      BY <1>int, <2>1, <2>2, UpTo DEF InStep, CountInv
    <2>4. call = irq_count + taken + Uncounted /\ Uncounted \in {0, 1}
      BY <2>1, <2>2 DEF InStep, CountInv, Uncounted
    <2>5. irq_count = 0 /\ Uncounted = 0
      BY <1>int, <2>1, <2>3, <2>4
    <2>6. ~cs.done /\ irq # "inc"
      BY <2>5 DEF Uncounted
    <2>7. irq # "ack"
      BY <2>1, <2>6 DEF InStep, PlaceInv
    <2>8. Done' = Done /\ Uncounted' = Uncounted /\ call' - 1 = call
      BY <1>int, <2>1, <2>2 DEF Done, Uncounted
    <2>9. CountInv'
      BY <2>1, <2>2, <2>8 DEF InStep, CountInv
    <2> QED BY <2>1, <2>2, <2>5, <2>6, <2>7, <2>9 DEF InStep, QuietInv, PlaceInv
  <1>9. CASE ReadCS
    <2>1. /\ ~gaveUp /\ latch' = cs
          /\ UNCHANGED <<cs, irq, active, irq_count, taken, call, began, completed>>
          /\ \/ pc = "enable" /\ pc' = "enable="
             \/ pc = "intd"   /\ pc' = "intd="
             \/ pc = "start"  /\ pc' = "start="
             \/ pc = "abort"  /\ pc' = "abort="
      BY <1>9 DEF ReadCS
    <2> QED BY <2>1 DEF InStep, QuietInv, PlaceInv, CountInv, Done, Uncounted
  <1>10. CASE WriteCS
    <2>1. /\ ~gaveUp
          /\ UNCHANGED <<irq, active, irq_count, taken, call, latch, began, completed>>
          /\ \/ pc = "enable=" /\ pc' = "intd"
             \/ pc = "intd="   /\ pc' = "start"
             \/ pc = "abort="  /\ pc' = "idle"
      BY <1>10 DEF WriteCS
    <2>2. /\ cs'.done => cs.done
          /\ pc = "enable=" => cs'.enable
          /\ pc = "intd=" => cs'.enable = latch.enable
      BY <1>0, <1>10, WriteCSEffect
    <2> QED BY <2>1, <2>2 DEF InStep, QuietInv, PlaceInv, CountInv, Done, Uncounted
  <1>11. CASE smi_start
    <2>1. /\ ~gaveUp /\ pc = "start=" /\ pc' = "await"
          /\ UNCHANGED <<irq, irq_count, taken, call, latch, completed>>
      BY <1>11 DEF smi_start
    <2>2. call > 0
      BY <2>1 DEF Types, ThreadTypes
    <2>3. latch.enable /\ ~active /\ ~cs.done /\ irq \notin {"ack", "inc"}
      BY <2>1 DEF InStep, QuietInv
    <2>4. ~cs'.done /\ active' = TRUE /\ began' = began \cup {call}
      BY <1>0, <1>11, <2>3, StartEffect
    <2>5. began' = 1..call
      <3>1. began = 1..(call - 1)
        BY <2>1 DEF InStep, CountInv
      <3> QED BY <1>int, <2>2, <2>4, <3>1
    <2>6. Done' = Done /\ Uncounted' = Uncounted
      BY <2>1, <2>3, <2>4 DEF Done, Uncounted
    <2>7. CountInv'
      BY <2>1, <2>5, <2>6 DEF InStep, CountInv
    <2> QED BY <2>1, <2>3, <2>4, <2>7 DEF InStep, QuietInv, PlaceInv
  <1>12. CASE Await
    <2>1. /\ ~gaveUp /\ pc = "await" /\ pc' = "idle"
          /\ IF kind = "read" THEN ~active ELSE cs.done
          /\ UNCHANGED <<cs, irq, active, irq_count, taken, call, latch, began, completed>>
      BY <1>12 DEF Await
    <2>2. ~active
      BY <2>1 DEF InStep, PlaceInv
    <2> QED BY <2>1, <2>2 DEF InStep, QuietInv, PlaceInv, CountInv, Done, Uncounted
  <1>13. CASE Complete
    <2>1. /\ active /\ active' = FALSE /\ cs'.done
      BY <1>0, <1>13, CompleteEffect
    <2>2. /\ ~gaveUp
          /\ completed' = completed \cup {CHOOSE n \in began : \A m \in began : m <= n}
          /\ UNCHANGED <<irq, irq_count, taken, pc, call, latch, began>>
      BY <1>13 DEF Complete
    <2>3. pc = "await" /\ ~cs.done /\ irq \notin {"ack", "inc"}
      BY <2>1, <2>2 DEF InStep, PlaceInv
    <2>4. call > 0 /\ began = 1..call /\ completed = 1..(call - 1)
      BY <2>1, <2>2, <2>3 DEF InStep, CountInv, Done, Types, ThreadTypes
    <2>5. (CHOOSE n \in began : \A m \in began : m <= n) = call
      BY <1>int, <2>4, LastUpTo
    <2>6. completed' = 1..call
      BY <1>int, <2>2, <2>4, <2>5
    <2>7. Done = call - 1 /\ Done' = call /\ Uncounted = 0 /\ Uncounted' = 1
      BY <2>1, <2>2, <2>3 DEF Done, Uncounted
    <2>8. Done' = irq_count' + taken' + Uncounted'
      BY <1>int, <2>2, <2>7 DEF InStep, CountInv
    <2>9. CountInv'
      BY <2>2, <2>3, <2>4, <2>6, <2>7, <2>8 DEF CountInv
    <2> QED BY <2>1, <2>2, <2>3, <2>9 DEF InStep, QuietInv, PlaceInv
  <1>14. CASE GiveUp
    BY <1>14, Zenon DEF GiveUp
  <1>15. CASE UNCHANGED vars
    BY <1>6, <1>15 DEF vars
  <1> QED BY ONLY <1>1, <1>2, <1>3, <1>4, <1>5, <1>7, <1>8, <1>9, <1>10, <1>11, <1>12,
             <1>13, <1>14, <1>15, [Next]_vars
     DEF Next, Handler, InOperation, Thread

-----------------------------------------------------------------------------
(* Theorems *)

\* Types, and that a completion always finds the transfer begun last, for all constants.
THEOREM TypesHold == Spec => []Types
  BY TypesInit, TypesNext, PTL DEF Spec

\* Types and ranges of CS, the handler, every client and the thread, for any number of
\* clients, serial or not; the counter is only known to be an integer (irq_readers).
THEOREM TypeCorrect == Spec => []TypeOK
  BY TypesHold, TypesImply, PTL

\* smi_irq.c:52-95: an event poll announced to the only client is still there when it
\* reads, whether or not the thread waits for its events.
THEOREM ReadyForTheOnlyClient ==
  ASSUME SingleClient
  PROVE  Spec => []PolledReadReady
  <1>1. Types => ClientTypes
    BY DEF Types
  <1>2. ClientTypes /\ ClientInv /\ [Next]_vars => ClientInv'
    BY SingleClient, ClientInvNext
  <1>3. ClientInv => PolledReadReady
    BY DEF ClientInv, PolledReadReady
  <1> QED BY <1>1, <1>2, <1>3, TypesHold, ClientInvInit, PTL DEF Spec

\* A thread that waits for each of its events and one client that collects them stay in
\* step for any number of calls.
LEMMA StayInStep ==
  ASSUME SingleClient, Serial = TRUE
  PROVE  Spec => [](Types /\ ClientInv /\ (~gaveUp => InStep))
  <1>1. Types => ClientTypes
    BY DEF Types
  <1>2. ClientTypes /\ ClientInv /\ [Next]_vars => ClientInv'
    BY SingleClient, ClientInvNext
  <1>3. Types /\ ClientInv /\ (~gaveUp => InStep) /\ [Next]_vars => (~gaveUp => InStep)'
    BY InStepNext
  <1> QED BY <1>1, <1>2, <1>3, TypesInit, TypesNext, ClientInvInit, InStepInit, PTL DEF Spec

\* smi_irq.c:30-48 with smi_irq.c:52-76: every completed transfer is exactly one event,
\* in CS, in the handler, in the counter or with the client.
THEOREM EventsAreCounted ==
  ASSUME SingleClient, Serial = TRUE
  PROVE  Spec => []OneEventPerTransfer
  <1>1. Types /\ ClientInv /\ (~gaveUp => InStep) => OneEventPerTransfer
    <2> SUFFICES ASSUME Types, ClientInv, InStep, ~gaveUp PROVE OneEventPerTransfer
      BY DEF OneEventPerTransfer
    <2>1. call \in Nat /\ (active \/ pc \in SetUp => call > 0)
      BY IrqConstants DEF Types, ThreadTypes, SetUp, InStep, PlaceInv
    <2>2. Done \in Nat
      BY <2>1 DEF Done
    <2> QED BY <2>2, UpTo DEF OneEventPerTransfer, InStep, CountInv, Uncounted
  <1> QED BY <1>1, StayInStep, PTL

\* smi_irq.c:40: the handler's write of 0 to ENABLE and INTD never falls between the
\* set-up of such a thread and its START.
THEOREM SetUpUndisturbed ==
  ASSUME SingleClient, Serial = TRUE
  PROVE  Spec => []StartTakesEffect
  <1>1. Types /\ ClientInv /\ (~gaveUp => InStep) => StartTakesEffect
    BY IrqConstants DEF StartTakesEffect, Types, ThreadTypes, InStep, CountInv, SetUp
  <1> QED BY <1>1, StayInStep, PTL

-----------------------------------------------------------------------------
(* Loading and unloading *)

\* What a load that has got as far as p holds besides the mapping.
HeldAt(p) ==
    CASE p \in {"out", "ioremap", "region"} -> {}
      [] p = "cdev"     -> {"region"}
      [] p = "class"    -> {"region", "cdev"}
      [] p = "device"   -> {"region", "cdev", "class"}
      [] p \in {"irq", "device_destroy"} -> {"region", "cdev", "class", "device"}
      [] p \in {"in", "free_irq"} -> {"region", "cdev", "class", "device", "irq"}
      [] p = "cdev_del" -> {"region", "cdev"}

\* Every call finds exactly what the calls before it left; the interrupt alone may be
\* missing, once one was refused.  A client has the device open only while it is there.
LoadInv ==
    /\ LoadTypeOK
    /\ held \ {"ioremap", "irq"} = HeldAt(step) \ {"irq"}
    /\ "irq" \in held => step \in {"in", "free_irq"}
    /\ step \in {"in", "free_irq"} /\ ~refused => "irq" \in held
    /\ step \notin {"out", "ioremap"} => "ioremap" \in held
    /\ open # {} => step \in {"irq", "in"}
    /\ stray => refused

LEMMA LoadInvInit == LoadInit => LoadInv
  <1> SUFFICES ASSUME LoadInit PROVE LoadInv
    OBVIOUS
  <1>1. step = "out" /\ held = {} /\ open = {} /\ refused = FALSE /\ stray = FALSE
    BY DEF LoadInit
  <1>2. loads \in 0..MaxLoads
    BY LoadConstants DEF LoadInit
  <1>3. LoadTypeOK
    BY <1>1, <1>2 DEF LoadTypeOK
  <1>4. HeldAt(step) = {}
    BY DEF LoadInit, HeldAt
  <1> QED BY <1>1, <1>3, <1>4 DEF LoadInv

LEMMA LoadInvNext == LoadInv /\ [LoadNext]_loadVars => LoadInv'
  <1> SUFFICES ASSUME LoadInv, [LoadNext]_loadVars PROVE LoadInv'
    OBVIOUS
  <1> USE LoadConstants DEF LoadInv, LoadTypeOK, HeldAt, Resources, InExit
  <1>1. CASE insmod
    BY <1>1 DEF insmod
  <1>2. CASE smi_interrupt_init
    <2>1. ASSUME held' = held \cup {step}, step' = After(step), UNCHANGED <<refused, stray>>
          PROVE  LoadInv'
      BY <1>2, <2>1 DEF smi_interrupt_init, After
    <2>2. ASSUME step = "irq", step' = "in", refused' = TRUE, UNCHANGED <<held, stray>>
          PROVE  LoadInv'
      BY <1>2, <2>2 DEF smi_interrupt_init
    <2>3. ASSUME step # "irq", step' = "out", Release(Undone(step)), refused' = refused
          PROVE  LoadInv'
      <3>1. Undone(step) \subseteq held /\ (held \ Undone(step)) \subseteq {"ioremap"}
        BY <1>2, <2>3 DEF smi_interrupt_init, Undone
      <3> QED BY <1>2, <2>3, <3>1 DEF smi_interrupt_init, Release
    <2> QED BY <1>2, <2>1, <2>2, <2>3 DEF smi_interrupt_init
  <1>3. CASE rmmod
    BY <1>3 DEF rmmod
  <1>4. CASE smi_interrupt_exit
    BY <1>4 DEF smi_interrupt_exit, Release
  <1>5. ASSUME NEW c \in Openers, open_device(c) PROVE LoadInv'
    BY <1>5 DEF open_device
  <1>6. ASSUME NEW c \in Openers, close_device(c) PROVE LoadInv'
    BY <1>6 DEF close_device
  <1>7. CASE UNCHANGED loadVars
    BY <1>7 DEF loadVars
  <1> QED
    BY <1>1, <1>2, <1>3, <1>4, <1>5, <1>6, <1>7 DEF LoadNext

LEMMA LoadInvAlways == LoadSpec => []LoadInv
  BY LoadInvInit, LoadInvNext, PTL DEF LoadSpec

\* Type correctness of loading and unloading.
THEOREM LoadTypeCorrect == LoadSpec => []LoadTypeOK
  <1>1. LoadInv => LoadTypeOK
    BY DEF LoadInv
  <1> QED BY <1>1, LoadInvAlways, PTL

\* smi_interrupt_init, smi_interrupt_exit: a module that is not loaded holds nothing
\* but the mapping, whichever call was refused and however often it was loaded.
THEOREM BacksOut == LoadSpec => []NothingHeldWhenOut
  <1>1. LoadInv => NothingHeldWhenOut
    BY DEF LoadInv, LoadTypeOK, HeldAt, NothingHeldWhenOut, Resources, InExit
  <1> QED BY <1>1, LoadInvAlways, PTL

\* Only an interrupt that request_irq refused is ever released without being held.
THEOREM ReleasesItsOwn == LoadSpec => []ReleasesWhatIsHeld
  <1>1. LoadInv => ReleasesWhatIsHeld
    BY DEF LoadInv, ReleasesWhatIsHeld
  <1> QED BY <1>1, LoadInvAlways, PTL

\* smi_handler and every client that has the device open find what they use.
THEOREM HandlerServed == LoadSpec => []HandlerHasDevice
  <1>1. LoadInv => HandlerHasDevice
    BY DEF LoadInv, LoadTypeOK, HeldAt, HandlerHasDevice, Resources, InExit
  <1> QED BY <1>1, LoadInvAlways, PTL
=============================================================================
