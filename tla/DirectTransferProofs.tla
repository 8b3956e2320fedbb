------------------------ MODULE DirectTransferProofs -------------------------
(***************************************************************************)
(* Theorems about DirectTransfer, for every address space, every set of    *)
(* lengths and first addresses, any spin limits in order and any number of *)
(* calls.                                                                  *)
(***************************************************************************)
EXTENDS DirectTransfer, TLAPS

-----------------------------------------------------------------------------
(* Addresses wrap around *)

LEMMA Remainder ==
  ASSUME NEW x \in Int, NEW n \in Nat \ {0}
  PROVE  /\ x % n \in 0..(n - 1)
         /\ \E q \in Int : x = q * n + (x % n)
  <1> DEFINE q == x \div n
             r == x % n
  <1>1. q \in Int /\ r \in Int
    BY SMT
  <1>2. x = q * n + r /\ 0 <= r /\ r < n
    BY <1>1, SMT
  <1> HIDE DEF q, r
  <1>3. r \in 0..(n - 1)
    BY <1>1, <1>2
  <1>4. \E k \in Int : x = k * n + r
    BY <1>1, <1>2
  <1> QED BY <1>3, <1>4 DEF r

LEMMA RemainderUnique ==
  ASSUME NEW n \in Nat \ {0}, NEW p \in Int, NEW q \in Int,
         NEW r \in 0..(n - 1), NEW s \in 0..(n - 1), p * n + r = q * n + s
  PROVE  r = s
  <1>1. (p - q) * n = s - r
    OBVIOUS
  <1>2. CASE p - q >= 1
    <2>1. (p - q) * n >= n
      BY <1>2
    <2> QED BY <1>1, <2>1
  <1>3. CASE p - q <= -1
    <2>1. (p - q) * n <= -n
      BY <1>3
    <2> QED BY <1>1, <2>1
  <1>4. CASE p = q
    BY <1>1, <1>4
  <1> QED BY <1>2, <1>3, <1>4

\* addr++ on a register that wraps is addr++ on the index behind it.
LEMMA StepWraps ==
  ASSUME NEW x \in Int, NEW d \in Int, NEW n \in Nat \ {0}
  PROVE  ((x % n) + d) % n = (x + d) % n
  <1>1. PICK p \in Int : x = p * n + (x % n)
    BY Remainder
  <1>2. x % n \in Int
    BY Remainder
  <1> DEFINE y == (x % n) + d
             z == x + d
  <1>3. y \in Int /\ z \in Int /\ z = p * n + y
    BY <1>1, <1>2
  <1> HIDE DEF y, z
  <1>4. PICK q \in Int : y = q * n + (y % n)
    BY <1>3, Remainder
  <1>5. PICK r \in Int : z = r * n + (z % n)
    BY <1>3, Remainder
  <1>6. y % n \in 0..(n - 1) /\ z % n \in 0..(n - 1)
    BY <1>3, Remainder
  <1>7. r * n + (z % n) = (p + q) * n + (y % n)
    BY <1>3, <1>4, <1>5, <1>6
  <1>8. p + q \in Int
    OBVIOUS
  <1>9. z % n = y % n
    BY ONLY <1>6, <1>7, <1>8, RemainderUnique, r \in Int, n \in Nat \ {0}
  <1> QED BY <1>9 DEF y, z

-----------------------------------------------------------------------------
(* The inductive invariant *)

Places == {"idle", "first-start", "first-started", "direction", "directed", "loop",
           "start", "started", "poll", "wait", "take", "ack", "next"}
BeforeLoop == {"first-start", "first-started", "direction", "directed"}
BetweenHalves == {"first-started", "directed", "started"}

\* The loop is within its count: a read takes its word before it counts it, a write
\* counts it first.
CountInv ==
    /\ pc \in Places
    /\ pc \in BeforeLoop => count = 0
    /\ pc # "idle" => len > 0
    /\ pc \in {"take", "ack"} => kind = "read"
    /\ kind = "read" /\ pc \in {"start", "started", "poll", "wait", "take"} => count < len

\* As long as nothing was disturbed, a transfer is either under way or reported, never
\* both, one of the two is awaited, and no other is begun before it was seen.
BusyInv ==
    /\ ~(dcs.busy /\ dcs.done)
    /\ pc \in BetweenHalves => latch = dcs.done
    /\ pc \in {"poll", "wait"} => dcs.busy \/ dcs.done
    /\ pc = "take" => dcs.done
    /\ pc \in {"idle", "first-start", "first-started", "take", "ack", "next"} => ~dcs.busy
    /\ pc = "loop" /\ count > 0 => ~dcs.busy

\* DA is the address of the next sample, any transfer under way is a read of it by this
\* call, and what DONE reports when it is polled is its answer.
ReadInv ==
    /\ Len(data) = count
    /\ \A i \in 1..count : data[i] = <<call, AddrOf(i)>>
    /\ pc # "idle" =>
         /\ ~dcs.write /\ da = addr
         /\ addr = AddrOf(IF pc \in {"ack", "next"} THEN count ELSE count + 1)
         /\ dcs.busy => ~xfer.write /\ xfer.call = call /\ xfer.addr = addr
         /\ pc \in {"poll", "wait", "take"} /\ dcs.done => dd = <<call, addr>>

\* Incrementing the register leads from the i-th address to the next.
LEMMA NextAddress ==
  ASSUME TypeOK, NEW i \in Int
  PROVE  (AddrOf(i) + increment) % AddrSpace = AddrOf(i + 1)
  <1>1. base \in Int /\ increment \in Int /\ AddrSpace \in Nat \ {0}
    BY DirectConstants DEF TypeOK, Increments
  <1> DEFINE x == base + (i - 1) * increment
  <1>2. x \in Int
    BY <1>1
  <1>3. x + increment = base + ((i + 1) - 1) * increment
    BY <1>1
  <1> HIDE DEF x
  <1>4. ((x % AddrSpace) + increment) % AddrSpace = (x + increment) % AddrSpace
    BY <1>1, <1>2, StepWraps
  <1> QED BY <1>3, <1>4 DEF x, AddrOf

\* The first address of a call is the one it was given.
LEMMA FirstAddress ==
  ASSUME NEW b \in 0..(AddrSpace - 1), NEW d \in Int
  PROVE  (b + (1 - 1) * d) % AddrSpace = b
  <1>0. AddrSpace \in Nat \ {0} /\ b \in Int
    BY DirectConstants
  <1>1. b + (1 - 1) * d = b
    BY <1>0
  <1>2. PICK q \in Int : b = q * AddrSpace + (b % AddrSpace)
    BY ONLY <1>0, Remainder
  <1>3. b % AddrSpace \in 0..(AddrSpace - 1)
    BY ONLY <1>0, Remainder
  <1>4. 0 * AddrSpace + b = q * AddrSpace + (b % AddrSpace)
    BY <1>0, <1>2
  <1>5. b = b % AddrSpace
    BY ONLY <1>0, <1>3, <1>4, RemainderUnique, q \in Int, 0 \in Int, b \in 0..(AddrSpace - 1)
  <1> QED BY <1>1, <1>5

-----------------------------------------------------------------------------
(* Types *)

LEMMA WordType == ASSUME NEW c \in Nat, NEW i \in Nat PROVE <<c, i>> \in Word
  BY DEF Word

LEMMA SpinType == ASSUME NEW s \in 0..SpinSoft PROVE NextSpin(s) \in 0..SpinSoft
  BY SpinLimits DEF NextSpin

\* TypeOK in three parts: what only takes Boolean values, the latest START, the rest.
Flags == /\ dcs \in [write : BOOLEAN, done : BOOLEAN, busy : BOOLEAN]
         /\ late \in BOOLEAN /\ latch \in BOOLEAN /\ disturbed \in BOOLEAN

Started == xfer \in [write : BOOLEAN, addr : 0..(AddrSpace - 1), data : Word, call : Nat]

Numbers ==
    /\ da \in 0..(AddrSpace - 1) /\ addr \in 0..(AddrSpace - 1) /\ base \in 0..(AddrSpace - 1)
    /\ dd \in Word /\ data \in Seq(Word) /\ bus \in Seq(Word \X (0..(AddrSpace - 1)))
    /\ kind \in {"read", "write"} /\ call \in 0..MaxCalls /\ increment \in Increments
    /\ len \in Nat /\ count \in 0..len /\ spin \in 0..SpinSoft
    /\ ret \in Nat \cup {SMI_ERR_TIMEOUT}

LEMMA TypeParts == TypeOK <=> Flags /\ Started /\ Numbers
  BY DEF TypeOK, Flags, Started, Numbers

LEMMA TypesInit == Init => TypeOK /\ CountInv
  <1> SUFFICES ASSUME Init PROVE TypeOK /\ CountInv
    OBVIOUS
  <1>1. 0 \in 0..(AddrSpace - 1) /\ 0 \in 0..SpinSoft /\ 0 \in 0..MaxCalls
    BY DirectConstants, SpinLimits
  <1>2. <<0, 0>> \in Word
    BY WordType
  <1>3. Flags
    BY Zenon DEF Init, Flags
  <1>4. Started
    BY <1>1, <1>2 DEF Init, Started
  <1>5. Numbers
    BY <1>1, <1>2 DEF Init, Numbers, Increments
  <1>6. CountInv
    BY DEF Init, CountInv, Places, BeforeLoop
  <1> QED BY <1>3, <1>4, <1>5, <1>6, TypeParts

LEMMA FlagsNext == Flags /\ [Next]_vars => Flags'
  <1> SUFFICES ASSUME Flags, [Next]_vars PROVE Flags'
    OBVIOUS
  <1> USE DEF Flags, hw, args, locals
  <1>1. ASSUME NEW k, NEW a, NEW n, NEW inc, SetUp(k, a, n, inc) PROVE Flags'
    BY <1>1, Zenon DEF SetUp
  <1>2. ASSUME NEW from, NEW to, ReadDCS(from, to) PROVE Flags'
    BY <1>2, Zenon DEF ReadDCS
  <1>3. CASE FirstStart
    BY <1>3, Zenon DEF FirstStart, StartDCS
  <1>4. CASE SetDirection
    BY <1>4, Zenon DEF SetDirection
  <1>5. CASE Loop
    BY <1>5, Zenon DEF Loop
  <1>6. CASE Start
    BY <1>6, Zenon DEF Start, StartDCS
  <1>7. CASE Poll
    BY <1>7, Zenon DEF Poll
  <1>8. CASE Wait
    <2>1. late' \in BOOLEAN
      BY <1>8, Zenon DEF Wait
    <2> QED BY <1>8, <2>1, Zenon DEF Wait
  <1>9. CASE TakeSample
    BY <1>9, Zenon DEF TakeSample
  <1>10. CASE AckDone
    BY <1>10, Zenon DEF AckDone
  <1>11. CASE NextAddr
    BY <1>11, Zenon DEF NextAddr
  <1>12. CASE Complete
    BY <1>12, Zenon DEF Complete
  <1>13. CASE Clock
    BY <1>13, Zenon DEF Clock
  <1>14. CASE UNCHANGED vars
    BY <1>14, Zenon DEF vars
  <1> QED BY <1>1, <1>2, <1>3, <1>4, <1>5, <1>6, <1>7, <1>8, <1>9, <1>10, <1>11, <1>12,
             <1>13, <1>14
          DEF Next, CallStep, smi_direct_write_arr, smi_direct_read_arr, smi_direct_read

LEMMA StartedNext == TypeOK /\ [Next]_vars => Started'
  <1> SUFFICES ASSUME TypeOK, [Next]_vars PROVE Started'
    OBVIOUS
  <1>1. xfer' = xfer \/ xfer' = [write |-> dcs.write, addr |-> da, data |-> dd, call |-> call]
    <2>1. CASE FirstStart \/ Start
      BY <2>1 DEF FirstStart, Start, StartDCS
    <2>2. CASE UNCHANGED xfer
      BY <2>2
    <2>3. FirstStart \/ Start \/ UNCHANGED xfer
      BY DEF Next, CallStep, vars, hw, SetUp, smi_direct_write_arr, smi_direct_read_arr,
             smi_direct_read, ReadDCS, SetDirection, Loop, Poll, Wait, TakeSample, AckDone,
             NextAddr, Complete, Clock
    <2> QED BY <2>1, <2>2, <2>3
  <1>2. dcs.write \in BOOLEAN
    BY TypeParts, Zenon DEF Flags
  <1>3. da \in 0..(AddrSpace - 1) /\ dd \in Word /\ call \in Nat
    BY TypeParts, DirectConstants DEF Numbers
  <1>4. Started
    BY TypeParts
  <1>5. [write |-> dcs.write, addr |-> da, data |-> dd, call |-> call]
          \in [write : BOOLEAN, addr : 0..(AddrSpace - 1), data : Word, call : Nat]
    BY ONLY <1>2, <1>3, Zenon
  <1> QED BY <1>1, <1>4, <1>5, Zenon DEF Started

LEMMA NumbersNext == TypeOK /\ CountInv /\ [Next]_vars => Numbers' /\ CountInv'
  <1> SUFFICES ASSUME TypeOK, CountInv, [Next]_vars PROVE Numbers' /\ CountInv'
    OBVIOUS
  <1>0. Flags /\ Started /\ Numbers
    BY TypeParts
  <1> USE <1>0, DirectConstants, SpinLimits DEF Numbers, CountInv, Places, BeforeLoop,
          hw, args, locals
  <1>1. ASSUME NEW k \in {"read", "write"}, NEW a \in Bases, NEW n \in Lens \cup {1},
               NEW inc \in Increments, SetUp(k, a, n, inc)
        PROVE  Numbers' /\ CountInv'
    <2>1. n \in Nat /\ n > 0 /\ a \in 0..(AddrSpace - 1)
      OBVIOUS
    <2>6. call < MaxCalls /\ call' = call + 1 /\ dd' = <<call', 0>>
      BY ONLY <1>1 DEF SetUp
    <2>2. call' \in 0..MaxCalls
      BY <2>6
    <2>3. dd' \in Word
      BY ONLY <2>2, <2>6, DirectConstants DEF Word
    <2>4. bus' = <<>> /\ data' = <<>> /\ UNCHANGED <<spin, ret>>
      BY <1>1 DEF SetUp
    <2>5. /\ pc' = "first-start" /\ kind' = k /\ base' = a /\ len' = n /\ increment' = inc
          /\ da' = a /\ addr' = a /\ count' = 0
      BY <1>1 DEF SetUp
    <2> QED BY <2>1, <2>2, <2>3, <2>4, <2>5
  <1>2. ASSUME NEW from, NEW to, ReadDCS(from, to),
               <<from, to>> \in {<<"first-start", "first-started">>,
                                 <<"direction", "directed">>, <<"start", "started">>}
        PROVE  Numbers' /\ CountInv'
    BY <1>2 DEF ReadDCS
  <1>3. CASE FirstStart
    BY <1>3 DEF FirstStart
  <1>4. CASE SetDirection
    <2>1. /\ pc = "directed" /\ pc' = "loop" /\ spin' = 0
          /\ da' = IF kind = "read" THEN addr ELSE da
          /\ UNCHANGED <<dd, bus, args, addr, count, ret, data>>
      BY <1>4 DEF SetDirection
    <2> QED BY <2>1
  <1>5. CASE Loop
    <2>1. LoopDone => ret' \in Nat
      BY <1>5 DEF Loop
    <2>2. ~LoopDone => count < len /\ count + 1 \in 0..len /\ <<call, count + 1>> \in Word
      BY WordType DEF LoopDone
    <2> QED BY <1>5, <2>1, <2>2 DEF Loop
  <1>6. CASE Start
    BY <1>6 DEF Start
  <1>7. CASE Poll
    BY <1>7 DEF Poll
  <1>8. CASE Wait
    <2>1. /\ pc = "wait" /\ pc' \in {"idle", "poll"} /\ spin' \in {spin, NextSpin(spin)}
          /\ ret' \in {ret, 1, SMI_ERR_TIMEOUT}
          /\ UNCHANGED <<da, dd, bus, args, addr, count, data>>
      BY <1>8 DEF Wait, SpinWaiting
    <2>2. NextSpin(spin) \in 0..SpinSoft
      BY SpinType
    <2> QED BY <2>1, <2>2 DEF SMI_ERR_TIMEOUT
  <1>9. CASE TakeSample
    <2>1. data' = Append(data, dd) /\ data' \in Seq(Word)
      BY <1>9 DEF TakeSample
    <2> QED BY <1>9, <2>1 DEF TakeSample
  <1>10. CASE AckDone
    BY <1>10 DEF AckDone
  <1>11. CASE NextAddr
    <2>1. addr + increment \in Int
      BY DEF Increments
    <2>2. addr' \in 0..(AddrSpace - 1)
      BY <1>11, <2>1, Remainder DEF NextAddr
    <2> QED BY <1>11, <2>2, SpinType DEF NextAddr
  <1>12. CASE Complete
    <2> DEFINE answer == IF xfer.write THEN xfer.data ELSE <<xfer.call, xfer.addr>>
    <2>1. xfer.data \in Word /\ xfer.call \in Nat /\ xfer.addr \in 0..(AddrSpace - 1)
      BY DEF Started
    <2>2. answer \in Word
      BY <2>1 DEF Word
    <2>3. <<answer, xfer.addr>> \in Word \X (0..(AddrSpace - 1))
      BY <2>1, <2>2
    <2>4. /\ bus' = Append(bus, <<answer, xfer.addr>>) /\ dd' \in {dd, answer}
          /\ UNCHANGED <<da, xfer, pc, args, locals>>
      BY <1>12 DEF Complete
    <2> HIDE DEF answer
    <2>5. bus' \in Seq(Word \X (0..(AddrSpace - 1)))
      BY <2>3, <2>4
    <2> QED BY <2>2, <2>4, <2>5
  <1>13. CASE Clock
    BY <1>13 DEF Clock
  <1>14. CASE UNCHANGED vars
    BY <1>14 DEF vars
  <1> QED BY <1>1, <1>2, <1>3, <1>4, <1>5, <1>6, <1>7, <1>8, <1>9, <1>10, <1>11, <1>12,
             <1>13, <1>14
          DEF Next, CallStep, smi_direct_write_arr, smi_direct_read_arr, smi_direct_read,
              Increments

LEMMA TypesNext == TypeOK /\ CountInv /\ [Next]_vars => TypeOK' /\ CountInv'
  <1>1. TypeOK' <=> (Flags /\ Started /\ Numbers)'
    BY DEF TypeOK, Flags, Started, Numbers
  <1> QED BY <1>1, TypeParts, FlagsNext, StartedNext, NumbersNext

-----------------------------------------------------------------------------
(* Undisturbed calls *)

\* The write half of an assignment of START, when no completion fell before it.
LEMMA StartEffect ==
  ASSUME TypeOK, BusyInv, pc \in BetweenHalves, StartDCS
  PROVE  /\ dcs'.busy /\ ~dcs'.done /\ dcs'.write = dcs.write
         /\ dcs.busy => xfer' = xfer
         /\ ~dcs.busy => /\ xfer'.write = dcs.write /\ xfer'.addr = da
                         /\ xfer'.call = call /\ xfer'.data = dd
  <1>1. dcs \in [write : BOOLEAN, done : BOOLEAN, busy : BOOLEAN]
    BY DEF TypeOK
  <1>2. latch = dcs.done /\ ~(dcs.busy /\ dcs.done)
    BY DEF BusyInv
  <1>3. CASE dcs.busy
    <2>1. dcs' = [dcs EXCEPT !.done = dcs.done /\ ~latch] /\ xfer' = xfer
      BY <1>3 DEF StartDCS
    <2> QED BY <1>1, <1>2, <1>3, <2>1, Zenon
  <1>4. CASE ~dcs.busy
    <2>1. dcs' = [dcs EXCEPT !.done = dcs.done /\ ~latch, !.busy = TRUE]
      BY <1>4 DEF StartDCS
    <2>2. xfer' = [write |-> dcs.write, addr |-> da, data |-> dd, call |-> call]
      BY <1>4 DEF StartDCS
    <2>3. dcs'.busy /\ ~dcs'.done /\ dcs'.write = dcs.write
      BY <1>1, <1>2, <1>4, <2>1, Zenon
    <2>4. xfer'.write = dcs.write /\ xfer'.addr = da /\ xfer'.call = call /\ xfer'.data = dd
      BY <2>2, Zenon
    <2> QED BY <1>4, <2>3, <2>4
  <1> QED BY <1>3, <1>4

\* What each step does to the flags of DCS.
LEMMA BusyNext ==
  TypeOK /\ CountInv /\ (~disturbed => BusyInv) /\ [Next]_vars => (~disturbed => BusyInv)'
  <1> SUFFICES ASSUME TypeOK, CountInv, ~disturbed => BusyInv, [Next]_vars, ~disturbed'
               PROVE  BusyInv'
    OBVIOUS
  <1>0. dcs \in [write : BOOLEAN, done : BOOLEAN, busy : BOOLEAN]
    BY DEF TypeOK
  <1> USE DEF BusyInv, BetweenHalves, hw, args, locals
  <1>1. ASSUME NEW k, NEW a, NEW n, NEW inc, SetUp(k, a, n, inc) PROVE BusyInv'
    <2>1. ~disturbed /\ pc = "idle" /\ pc' = "first-start"
      BY <1>1 DEF SetUp
    <2>2. dcs' = [dcs EXCEPT !.done = FALSE, !.write = (k = "write")]
      BY <1>1 DEF SetUp
    <2>3. ~dcs.busy
      BY <2>1
    <2>4. ~dcs'.busy /\ ~dcs'.done
      BY <1>0, <2>2, <2>3, Zenon
    <2> QED BY <2>1, <2>4
  <1>2. ASSUME NEW from, NEW to, ReadDCS(from, to),
               <<from, to>> \in {<<"first-start", "first-started">>,
                                 <<"direction", "directed">>, <<"start", "started">>}
        PROVE  BusyInv'
    BY <1>2 DEF ReadDCS
  <1>3. CASE FirstStart
    <2>1. ~disturbed /\ pc = "first-started" /\ pc' = "direction" /\ StartDCS
      BY <1>3 DEF FirstStart
    <2>2. dcs'.busy /\ ~dcs'.done
      BY <2>1, StartEffect
    <2> QED BY <2>1, <2>2
  <1>4. CASE SetDirection
    <2>1. /\ ~disturbed /\ pc = "directed" /\ pc' = "loop" /\ count = 0 /\ count' = 0
          /\ dcs' = [dcs EXCEPT !.done = dcs.done /\ ~latch, !.write = (kind = "write")]
      BY <1>4 DEF SetDirection, CountInv, BeforeLoop
    <2>2. latch = dcs.done
      BY <2>1
    <2>3. ~dcs'.done
      BY <1>0, <2>1, <2>2, Zenon
    <2> QED BY <2>1, <2>3
  <1>5. CASE Loop
    <2>1. pc = "loop" /\ ~disturbed /\ UNCHANGED dcs
      BY <1>5 DEF Loop
    <2>2. CASE LoopDone
      <3>1. pc' = "idle" /\ count > 0
        BY <1>5, <2>1, <2>2 DEF Loop, LoopDone, CountInv, TypeOK
      <3> QED BY <2>1, <3>1
    <2>3. CASE ~LoopDone
      <3>1. pc' = "start"
        BY <1>5, <2>3 DEF Loop
      <3> QED BY <2>1, <3>1
    <2> QED BY <2>2, <2>3
  <1>6. CASE Start
    <2>1. ~disturbed /\ pc = "started" /\ pc' = "poll" /\ StartDCS
      BY <1>6 DEF Start
    <2>2. dcs'.busy /\ ~dcs'.done
      BY <2>1, StartEffect
    <2> QED BY <2>1, <2>2
  <1>7. CASE Poll
    <2>1. /\ ~disturbed /\ pc = "poll" /\ UNCHANGED dcs
          /\ pc' = IF ~dcs.done THEN "wait" ELSE IF kind = "read" THEN "take" ELSE "next"
      BY <1>7 DEF Poll
    <2> QED BY <2>1
  <1>8. CASE Wait
    <2>1. ~disturbed /\ pc = "wait" /\ pc' = "poll" /\ UNCHANGED dcs
      BY <1>8 DEF Wait
    <2> QED BY <2>1
  <1>9. CASE TakeSample
    BY <1>9 DEF TakeSample
  <1>10. CASE AckDone
    <2>1. /\ ~disturbed /\ pc = "ack" /\ pc' = "next"
          /\ dcs' = [dcs EXCEPT !.done = FALSE]
      BY <1>10 DEF AckDone
    <2>2. ~dcs'.busy /\ ~dcs'.done
      BY <1>0, <2>1, Zenon
    <2> QED BY <2>1, <2>2
  <1>11. CASE NextAddr
    BY <1>11 DEF NextAddr
  <1>12. CASE Complete
    <2>1. /\ dcs.busy /\ ~disturbed /\ pc' = pc /\ pc \notin BetweenHalves
          /\ count' = count /\ dcs' = [dcs EXCEPT !.busy = FALSE, !.done = TRUE]
      BY <1>12, Zenon DEF Complete
    <2>2. ~dcs'.busy /\ dcs'.done
      BY <1>0, <2>1, Zenon
    <2> QED BY <2>1, <2>2
  <1>13. CASE Clock
    BY <1>13 DEF Clock
  <1>14. CASE UNCHANGED vars
    BY <1>14 DEF vars
  <1> QED BY ONLY <1>1, <1>2, <1>3, <1>4, <1>5, <1>6, <1>7, <1>8, <1>9, <1>10, <1>11,
             <1>12, <1>13, <1>14, [Next]_vars
          DEF Next, CallStep, smi_direct_write_arr, smi_direct_read_arr, smi_direct_read

-----------------------------------------------------------------------------
(* Reads *)

\* ReadInv in parts: the samples, the address, and the transfer.
SamplesStored == Len(data) = count /\ \A i \in 1..count : data[i] = <<call, AddrOf(i)>>

NextIndex == IF pc \in {"ack", "next"} THEN count ELSE count + 1

AtAddress == pc # "idle" => ~dcs.write /\ da = addr /\ addr = AddrOf(NextIndex)

OwnTransfer ==
    pc # "idle" =>
      /\ dcs.busy => ~xfer.write /\ xfer.call = call /\ xfer.addr = addr
      /\ pc \in {"poll", "wait", "take"} /\ dcs.done => dd = <<call, addr>>

LEMMA ReadParts == ReadInv <=> SamplesStored /\ AtAddress /\ OwnTransfer
  BY DEF ReadInv, SamplesStored, AtAddress, NextIndex, OwnTransfer

\* A step that keeps the arguments and the samples keeps what is said of them.
LEMMA SamplesKept ==
  ASSUME SamplesStored, UNCHANGED <<data, count, call, base, increment>>
  PROVE  SamplesStored'
  BY DEF SamplesStored, AddrOf

LEMMA AddressKept ==
  ASSUME AtAddress, pc # "idle", UNCHANGED <<da, addr, base, increment>>,
         dcs'.write = dcs.write, NextIndex' = NextIndex
  PROVE  AtAddress'
  BY DEF AtAddress, AddrOf

LEMMA ReadNext ==
  TypeOK /\ CountInv /\ (~disturbed => BusyInv) /\ (~disturbed /\ kind = "read" => ReadInv)
    /\ [Next]_vars => (~disturbed /\ kind = "read" => ReadInv)'
  <1> SUFFICES ASSUME TypeOK, CountInv, ~disturbed => BusyInv,
                      ~disturbed /\ kind = "read" => ReadInv, [Next]_vars,
                      ~disturbed', kind' = "read"
               PROVE  SamplesStored' /\ AtAddress' /\ OwnTransfer'
    BY DEF ReadInv, SamplesStored, AtAddress, NextIndex, OwnTransfer
  <1>0. /\ dcs \in [write : BOOLEAN, done : BOOLEAN, busy : BOOLEAN]
        /\ count \in Nat /\ len \in Nat /\ data \in Seq(Word)
        /\ increment \in Increments /\ addr \in 0..(AddrSpace - 1)
    BY DEF TypeOK
  <1>old. ASSUME ~disturbed, kind = "read"
          PROVE  BusyInv /\ SamplesStored /\ AtAddress /\ OwnTransfer
    BY <1>old, ReadParts
  <1>1. ASSUME NEW k \in {"read", "write"}, NEW a \in Bases, NEW n \in Lens \cup {1},
               NEW inc \in Increments, SetUp(k, a, n, inc)
        PROVE  SamplesStored' /\ AtAddress' /\ OwnTransfer'
    <2>1. /\ ~disturbed /\ pc = "idle" /\ pc' = "first-start" /\ k = "read"
          /\ da' = a /\ addr' = a /\ base' = a /\ data' = <<>> /\ count' = 0
      BY <1>1 DEF SetUp
    <2>2. dcs' = [dcs EXCEPT !.done = FALSE, !.write = (k = "write")]
      BY <1>1 DEF SetUp
    <2>3. ~dcs.busy
      BY <2>1 DEF BusyInv
    <2>4. ~dcs'.busy /\ ~dcs'.done /\ ~dcs'.write
      BY <1>0, <2>1, <2>2, <2>3, Zenon
    <2>5. SamplesStored'
      BY <2>1 DEF SamplesStored
    <2>6. a \in 0..(AddrSpace - 1) /\ inc \in Int /\ increment' = inc
      BY <1>1, DirectConstants DEF SetUp, Increments
    <2>7. (a + (1 - 1) * inc) % AddrSpace = a
      BY <2>6, FirstAddress
    <2>8. AddrOf(1)' = a /\ NextIndex' = 1
      BY <2>1, <2>6, <2>7 DEF AddrOf, NextIndex
    <2> QED BY <2>1, <2>4, <2>5, <2>8 DEF AtAddress, OwnTransfer, AddrOf
  <1>2. ASSUME NEW from, NEW to, ReadDCS(from, to),
               <<from, to>> \in {<<"first-start", "first-started">>,
                                 <<"direction", "directed">>, <<"start", "started">>}
        PROVE  SamplesStored' /\ AtAddress' /\ OwnTransfer'
    <2>1. /\ ~disturbed /\ kind = "read" /\ pc = from /\ pc' = to
          /\ UNCHANGED <<dcs, da, dd, xfer, addr, data, count, call, base, increment>>
      BY <1>2 DEF ReadDCS, hw, args
    <2>2. SamplesStored'
      BY <1>old, <2>1, SamplesKept
    <2>3. NextIndex' = NextIndex /\ pc # "idle"
      BY <1>2, <2>1 DEF NextIndex
    <2>4. AtAddress'
      BY <1>old, <2>1, <2>3, AddressKept
    <2> QED BY <1>2, <1>old, <2>1, <2>2, <2>4 DEF OwnTransfer
  <1>3. CASE FirstStart \/ Start
    <2>1. /\ ~disturbed /\ kind = "read" /\ pc \in {"first-started", "started"}
          /\ pc' \in {"direction", "poll"} /\ StartDCS
          /\ UNCHANGED <<da, dd, addr, data, count, call, base, increment>>
      BY <1>3 DEF FirstStart, Start, args, locals
    <2>2. /\ dcs'.busy /\ ~dcs'.done /\ dcs'.write = dcs.write
          /\ dcs.busy => xfer' = xfer
          /\ ~dcs.busy => xfer'.write = dcs.write /\ xfer'.addr = da /\ xfer'.call = call
      BY <1>old, <2>1, StartEffect DEF BetweenHalves
    <2>3. SamplesStored'
      BY <1>old, <2>1, SamplesKept
    <2>4. NextIndex' = NextIndex /\ pc # "idle"
      BY <2>1 DEF NextIndex
    <2>5. AtAddress'
      BY <1>old, <2>1, <2>2, <2>4, AddressKept
    <2>6. ~dcs.write /\ da = addr
      BY <1>old, <2>1, <2>4 DEF AtAddress
    <2> QED BY <1>old, <2>1, <2>2, <2>3, <2>5, <2>6 DEF OwnTransfer
  <1>4. CASE SetDirection
    <2>1. /\ ~disturbed /\ kind = "read" /\ pc = "directed" /\ pc' = "loop" /\ da' = addr
          /\ UNCHANGED <<dd, xfer, addr, data, count, call, base, increment>>
      BY <1>4 DEF SetDirection, args
    <2>2. dcs' = [dcs EXCEPT !.done = dcs.done /\ ~latch, !.write = (kind = "write")]
      BY <1>4 DEF SetDirection
    <2>3. dcs'.busy = dcs.busy /\ ~dcs'.write
      BY <1>0, <2>1, <2>2, Zenon
    <2>4. SamplesStored'
      BY <1>old, <2>1, SamplesKept
    <2>5. NextIndex' = NextIndex
      BY <2>1 DEF NextIndex
    <2>6. AtAddress'
      BY <1>old, <2>1, <2>3, <2>5 DEF AtAddress, AddrOf
    <2> QED BY <1>old, <2>1, <2>3, <2>4, <2>6 DEF OwnTransfer
  <1>5. CASE Loop
    <2>1. /\ ~disturbed /\ kind = "read" /\ pc = "loop" /\ pc' \in {"idle", "start"}
          /\ UNCHANGED <<dcs, da, dd, xfer, addr, data, count, call, base, increment>>
      BY <1>5 DEF Loop, args
    <2>2. SamplesStored'
      BY <1>old, <2>1, SamplesKept
    <2>3. NextIndex' = NextIndex
      BY <2>1 DEF NextIndex
    <2>4. AtAddress'
      BY <1>old, <2>1, <2>3, AddressKept
    <2> QED BY <1>old, <2>1, <2>2, <2>4 DEF OwnTransfer
  <1>7. CASE Poll \/ Wait
    <2>1. /\ ~disturbed /\ kind = "read" /\ pc \in {"poll", "wait"}
          /\ pc' \in {"poll", "wait", "take"}
          /\ UNCHANGED <<dcs, da, dd, xfer, addr, data, count, call, base, increment>>
      BY <1>7 DEF Poll, Wait, hw, args, locals
    <2>2. SamplesStored'
      BY <1>old, <2>1, SamplesKept
    <2>3. NextIndex' = NextIndex
      BY <2>1 DEF NextIndex
    <2>4. AtAddress'
      BY <1>old, <2>1, <2>3, AddressKept
    <2> QED BY <1>old, <2>1, <2>2, <2>4 DEF OwnTransfer
  <1>9. CASE TakeSample
    <2>1. /\ ~disturbed /\ kind = "read" /\ pc = "take" /\ pc' = "ack"
          /\ data' = Append(data, dd) /\ count' = count + 1
          /\ UNCHANGED <<dcs, da, dd, xfer, addr, call, base, increment>>
      BY <1>9 DEF TakeSample, hw, args
    <2>2. dd = <<call, addr>> /\ addr = AddrOf(count + 1) /\ ~dcs.busy
      BY <1>old, <2>1 DEF OwnTransfer, AtAddress, NextIndex, BusyInv
    <2>3. NextIndex' = NextIndex
      BY <2>1 DEF NextIndex
    <2>4. AtAddress'
      BY <1>old, <2>1, <2>3, AddressKept
    <2>5. Len(data') = count + 1 /\ data'[count + 1] = dd
          /\ \A i \in 1..count : data'[i] = data[i]
      <3>1. Len(data) = count /\ dd \in Word
        BY <1>old, <2>1 DEF SamplesStored, TypeOK
      <3> QED BY ONLY <1>0, <2>1, <3>1
    <2>6. ASSUME NEW i \in 1..(count + 1) PROVE data'[i] = <<call, AddrOf(i)>>
      <3>1. CASE i = count + 1
        BY <2>2, <2>5, <3>1
      <3>2. CASE i \in 1..count
        BY <1>old, <2>1, <2>5, <3>2 DEF SamplesStored
      <3> QED BY <1>0, <3>1, <3>2
    <2>7. \A i : AddrOf(i)' = AddrOf(i)
      BY <2>1 DEF AddrOf
    <2>8. SamplesStored'
      BY <2>1, <2>5, <2>6, <2>7 DEF SamplesStored
    <2> QED BY <2>1, <2>2, <2>4, <2>8 DEF OwnTransfer
  <1>10. CASE AckDone
    <2>1. /\ ~disturbed /\ kind = "read" /\ pc = "ack" /\ pc' = "next"
          /\ dcs' = [dcs EXCEPT !.done = FALSE]
          /\ UNCHANGED <<da, dd, xfer, addr, data, count, call, base, increment>>
      BY <1>10 DEF AckDone, args, locals
    <2>2. dcs'.busy = dcs.busy /\ dcs'.write = dcs.write
      BY <1>0, <2>1, Zenon
    <2>3. SamplesStored'
      BY <1>old, <2>1, SamplesKept
    <2>4. NextIndex' = NextIndex
      BY <2>1 DEF NextIndex
    <2>5. AtAddress'
      BY <1>old, <2>1, <2>2, <2>4, AddressKept
    <2> QED BY <1>old, <2>1, <2>2, <2>3, <2>5 DEF OwnTransfer
  <1>11. CASE NextAddr
    <2>1. /\ ~disturbed /\ kind = "read" /\ pc = "next" /\ pc' = "loop"
          /\ addr' = (addr + increment) % AddrSpace
          /\ da' = IF increment # 0 THEN addr' ELSE da
          /\ UNCHANGED <<dcs, dd, xfer, data, count, call, base, increment>>
      BY <1>11 DEF NextAddr, args
    <2>2. SamplesStored'
      BY <1>old, <2>1, SamplesKept
    <2>3. da = addr /\ addr = AddrOf(count) /\ ~dcs.write /\ ~dcs.busy
      BY <1>old, <2>1 DEF AtAddress, NextIndex, BusyInv
    <2>4. addr' = AddrOf(count + 1)
      BY <1>0, <2>1, <2>3, NextAddress
    <2>5. increment = 0 => addr' = addr
      <3> SUFFICES ASSUME increment = 0 PROVE addr' = addr
        OBVIOUS
      <3>1. (addr + (1 - 1) * 0) % AddrSpace = addr
        BY <1>0, FirstAddress
      <3>2. addr + (1 - 1) * 0 = addr + increment
        BY <1>0
      <3> QED BY <2>1, <3>1, <3>2
    <2>6. da' = addr'
      BY <2>1, <2>3, <2>5
    <2>7. AddrOf(count + 1)' = AddrOf(count + 1) /\ NextIndex' = count + 1
      BY <2>1 DEF AddrOf, NextIndex
    <2>8. AtAddress'
      BY <2>1, <2>3, <2>4, <2>6, <2>7 DEF AtAddress, NextIndex, AddrOf
    <2> QED BY <2>1, <2>2, <2>3, <2>8 DEF OwnTransfer
  <1>12. CASE Complete
    <2>1. /\ ~disturbed /\ kind = "read" /\ dcs.busy /\ pc' = pc
          /\ UNCHANGED <<da, xfer, addr, data, count, call, base, increment>>
      BY <1>12, Zenon DEF Complete, args, locals
    <2>2. dcs' = [dcs EXCEPT !.busy = FALSE, !.done = TRUE]
      BY <1>12 DEF Complete
    <2>3. dd' = IF xfer.write THEN dd ELSE <<xfer.call, xfer.addr>>
      BY <1>12 DEF Complete
    <2>4. ~dcs'.busy /\ dcs'.write = dcs.write
      BY <1>0, <2>2, Zenon
    <2>5. SamplesStored'
      BY <1>old, <2>1, SamplesKept
    <2>6. NextIndex' = NextIndex /\ pc # "idle"
      BY <1>old, <2>1 DEF NextIndex, BusyInv
    <2>7. AtAddress'
      BY <1>old, <2>1, <2>4, <2>6, AddressKept
    <2>8. ~xfer.write /\ xfer.call = call /\ xfer.addr = addr
      BY <1>old, <2>1, <2>6 DEF OwnTransfer
    <2> QED BY <2>1, <2>3, <2>4, <2>5, <2>7, <2>8 DEF OwnTransfer
  <1>13. CASE Clock \/ UNCHANGED vars
    <2>1. /\ ~disturbed /\ kind = "read" /\ pc' = pc
          /\ UNCHANGED <<dcs, da, dd, xfer, addr, data, count, call, base, increment>>
      BY <1>13 DEF Clock, vars, hw, args, locals
    <2> QED BY <1>old, <2>1
       DEF SamplesStored, AtAddress, NextIndex, OwnTransfer, AddrOf
  <1> QED BY ONLY <1>1, <1>2, <1>3, <1>4, <1>5, <1>7, <1>9, <1>10, <1>11,
             <1>12, <1>13, [Next]_vars, DirectConstants
          DEF Next, CallStep, smi_direct_write_arr, smi_direct_read_arr, smi_direct_read,
              Increments

-----------------------------------------------------------------------------
(* Writes *)

\* The transfers of this call that began.
Begun == Len(bus) + (IF dcs.busy THEN 1 ELSE 0)

\* How many that should be: the zero and the words so far, unless the first word's START
\* was the one ignored.
Expected(missing) ==
    CASE pc \in {"first-start", "first-started"} -> 0
      [] pc \in {"start", "started"} -> count - missing
      [] OTHER -> count + 1 - missing

\* What the j-th transfer carries, and its address.
Datum(j, missing) == IF j = 1 THEN <<call, 0>> ELSE <<call, j - 1 + missing>>
Place(j, missing) == IF j = 1 THEN base ELSE AddrOf(j - 1 + missing)

OnBus(missing) ==
    /\ \A j \in 1..Len(bus) : bus[j] = <<Datum(j, missing), Place(j, missing)>>
    /\ dcs.busy => /\ xfer.write
                   /\ xfer.data = Datum(Len(bus) + 1, missing)
                   /\ xfer.addr = Place(Len(bus) + 1, missing)

InStep(missing) ==
    /\ Begun = Expected(missing)
    /\ pc \notin {"first-start", "first-started"} => Begun >= 1
    /\ pc \in {"start", "started"} /\ count > 1 => ~dcs.busy
    /\ pc = "idle" => count = len

\* DA and DD are those of the next transfer to begin.
AtWord ==
    /\ pc # "idle" =>
         /\ dcs.write /\ da = addr
         /\ addr = AddrOf(IF pc \in BeforeLoop \cup {"loop"} THEN count + 1 ELSE count)
    /\ pc \in {"first-start", "first-started"} => dd = <<call, 0>>
    /\ pc \in {"start", "started"} => dd = <<call, count>> /\ count >= 1

WriteInv == AtWord /\ \E missing \in {0, 1} : OnBus(missing) /\ InStep(missing)

LEMMA OnBusKept ==
  ASSUME NEW m, OnBus(m), UNCHANGED <<bus, xfer, call, base, increment>>, dcs'.busy = dcs.busy
  PROVE  OnBus(m)'
  BY DEF OnBus, Datum, Place, AddrOf

LEMMA WriteNext ==
  TypeOK /\ CountInv /\ (~disturbed => BusyInv) /\ (~disturbed /\ kind = "write" => WriteInv)
    /\ [Next]_vars => (~disturbed /\ kind = "write" => WriteInv)'
  <1> SUFFICES ASSUME TypeOK, CountInv, ~disturbed => BusyInv,
                      ~disturbed /\ kind = "write" => WriteInv, [Next]_vars,
                      ~disturbed', kind' = "write"
               PROVE  WriteInv'
    OBVIOUS
  <1>0. /\ dcs \in [write : BOOLEAN, done : BOOLEAN, busy : BOOLEAN]
        /\ count \in Nat /\ len \in Nat /\ count <= len
        /\ bus \in Seq(Word \X (0..(AddrSpace - 1)))
        /\ increment \in Int /\ addr \in 0..(AddrSpace - 1) /\ base \in 0..(AddrSpace - 1)
    BY DEF TypeOK, Increments
  <1>len. Len(bus) \in Nat
    BY <1>0
  <1>old. ASSUME ~disturbed, kind = "write"
          PROVE  BusyInv /\ AtWord /\ \E m \in {0, 1} : OnBus(m) /\ InStep(m)
    BY <1>old DEF WriteInv
  <1> USE DEF BeforeLoop
  <1>1. ASSUME NEW k \in {"read", "write"}, NEW a \in Bases, NEW n \in Lens \cup {1},
               NEW inc \in Increments, SetUp(k, a, n, inc)
        PROVE  WriteInv'
    <2>1. /\ ~disturbed /\ pc = "idle" /\ pc' = "first-start" /\ k = "write"
          /\ da' = a /\ addr' = a /\ base' = a /\ bus' = <<>> /\ count' = 0
          /\ dd' = <<call', 0>> /\ increment' = inc
      BY <1>1 DEF SetUp
    <2>2. dcs' = [dcs EXCEPT !.done = FALSE, !.write = (k = "write")]
      BY <1>1 DEF SetUp
    <2>3. ~dcs.busy
      BY <2>1 DEF BusyInv
    <2>4. ~dcs'.busy /\ dcs'.write
      BY <1>0, <2>1, <2>2, <2>3, Zenon
    <2>5. a \in 0..(AddrSpace - 1) /\ inc \in Int
      BY DirectConstants DEF Increments
    <2>6. (a + (1 - 1) * inc) % AddrSpace = a
      BY <2>5, FirstAddress
    <2>7. AddrOf(1)' = a
      BY <2>1, <2>6 DEF AddrOf
    <2>8. AtWord'
      BY <2>1, <2>4, <2>7 DEF AtWord, AddrOf
    <2>9. OnBus(0)' /\ InStep(0)'
      BY <2>1, <2>4 DEF OnBus, InStep, Begun, Expected
    <2> QED BY <2>8, <2>9 DEF WriteInv
  <1>2. ASSUME NEW from, NEW to, ReadDCS(from, to),
               <<from, to>> \in {<<"first-start", "first-started">>,
                                 <<"direction", "directed">>, <<"start", "started">>}
        PROVE  WriteInv'
    <2>1. /\ ~disturbed /\ kind = "write" /\ pc = from /\ pc' = to
          /\ UNCHANGED <<dcs, da, dd, xfer, bus, addr, count, len, call, base, increment>>
      BY <1>2 DEF ReadDCS, hw, args
    <2>2. PICK m \in {0, 1} : OnBus(m) /\ InStep(m)
      BY <1>old, <2>1
    <2>3. OnBus(m)'
      BY <2>1, <2>2, OnBusKept
    <2>4. InStep(m)'
      BY <1>2, <2>1, <2>2 DEF InStep, Begun, Expected
    <2>5. AtWord'
      BY <1>2, <1>old, <2>1 DEF AtWord, AddrOf
    <2> QED BY <2>3, <2>4, <2>5 DEF WriteInv
  <1>3. CASE FirstStart
    <2>1. /\ ~disturbed /\ kind = "write" /\ pc = "first-started" /\ pc' = "direction"
          /\ StartDCS /\ count = 0
          /\ UNCHANGED <<da, dd, bus, addr, count, len, call, base, increment>>
      BY <1>3 DEF FirstStart, args, locals, CountInv
    <2>2. ~dcs.busy
      BY <1>old, <2>1 DEF BusyInv
    <2>3. /\ dcs'.busy /\ dcs'.write = dcs.write /\ xfer'.write = dcs.write
          /\ xfer'.addr = da /\ xfer'.data = dd
      BY <1>old, <2>1, <2>2, StartEffect DEF BetweenHalves
    <2>4. PICK m \in {0, 1} : OnBus(m) /\ InStep(m)
      BY <1>old, <2>1
    <2>5. Len(bus) = 0
      BY <1>len, <2>1, <2>2, <2>4 DEF InStep, Begun, Expected
    <2>6. dcs.write /\ da = AddrOf(1) /\ dd = <<call, 0>>
      BY <1>old, <2>1 DEF AtWord
    <2>7. AddrOf(1) = base
      BY <1>0, FirstAddress DEF AddrOf
    <2>8. OnBus(0)'
      BY <2>1, <2>3, <2>5, <2>6, <2>7 DEF OnBus, Datum, Place
    <2>9. InStep(0)'
      BY <2>1, <2>3, <2>5 DEF InStep, Begun, Expected
    <2>10. AtWord'
      BY <1>old, <2>1, <2>3, <2>6 DEF AtWord, AddrOf
    <2> QED BY <2>8, <2>9, <2>10 DEF WriteInv
  <1>4. CASE SetDirection
    <2>1. /\ ~disturbed /\ kind = "write" /\ pc = "directed" /\ pc' = "loop" /\ da' = da
          /\ UNCHANGED <<dd, xfer, bus, addr, count, len, call, base, increment>>
      BY <1>4 DEF SetDirection, args
    <2>2. dcs' = [dcs EXCEPT !.done = dcs.done /\ ~latch, !.write = (kind = "write")]
      BY <1>4 DEF SetDirection
    <2>3. dcs'.busy = dcs.busy /\ dcs'.write
      BY <1>0, <2>1, <2>2, Zenon
    <2>4. PICK m \in {0, 1} : OnBus(m) /\ InStep(m)
      BY <1>old, <2>1
    <2>5. OnBus(m)'
      BY <2>1, <2>3, <2>4, OnBusKept
    <2>6. InStep(m)'
      BY <2>1, <2>3, <2>4 DEF InStep, Begun, Expected
    <2>7. AtWord'
      BY <1>old, <2>1, <2>3 DEF AtWord, AddrOf
    <2> QED BY <2>5, <2>6, <2>7 DEF WriteInv
  <1>5. CASE Loop
    <2>1. /\ ~disturbed /\ kind = "write" /\ pc = "loop"
          /\ UNCHANGED <<dcs, da, xfer, bus, addr, len, call, base, increment>>
      BY <1>5 DEF Loop, args
    <2>2. PICK m \in {0, 1} : OnBus(m) /\ InStep(m)
      BY <1>old, <2>1
    <2>3. OnBus(m)'
      BY <2>1, <2>2, OnBusKept
    <2>4. CASE LoopDone
      <3>1. pc' = "idle" /\ UNCHANGED <<dd, count>> /\ count = len
        BY <1>0, <1>5, <2>4 DEF Loop, LoopDone
      <3>2. InStep(m)'
        BY <2>1, <2>2, <3>1 DEF InStep, Begun, Expected
      <3>3. AtWord'
        BY <3>1 DEF AtWord
      <3> QED BY <2>3, <3>2, <3>3 DEF WriteInv
    <2>5. CASE ~LoopDone
      <3>1. pc' = "start" /\ dd' = <<call, count + 1>> /\ count' = count + 1
        BY <1>5, <2>1, <2>5 DEF Loop
      <3>2. count > 0 => ~dcs.busy
        BY <1>old, <2>1 DEF BusyInv
      <3>3. InStep(m)'
        BY <1>0, <1>len, <2>1, <2>2, <3>1, <3>2 DEF InStep, Begun, Expected
      <3>4. AtWord'
        BY <1>0, <1>old, <2>1, <3>1 DEF AtWord, AddrOf
      <3> QED BY <2>3, <3>3, <3>4 DEF WriteInv
    <2> QED BY <2>4, <2>5
  <1>6. CASE Start
    <2>1. /\ ~disturbed /\ kind = "write" /\ pc = "started" /\ pc' = "poll" /\ StartDCS
          /\ UNCHANGED <<da, dd, bus, addr, count, len, call, base, increment>>
      BY <1>6 DEF Start, args, locals
    <2>2. /\ dcs'.busy /\ dcs'.write = dcs.write
          /\ dcs.busy => xfer' = xfer
          /\ ~dcs.busy => /\ xfer'.write = dcs.write /\ xfer'.addr = da
                          /\ xfer'.data = dd
      BY <1>old, <2>1, StartEffect DEF BetweenHalves
    <2>3. PICK m \in {0, 1} : OnBus(m) /\ InStep(m)
      BY <1>old, <2>1
    <2>4. /\ dcs.write /\ da = AddrOf(count) /\ dd = <<call, count>> /\ count >= 1
          /\ da = addr
      BY <1>old, <2>1 DEF AtWord
    <2>5. AtWord'
      BY <1>old, <2>1, <2>2, <2>4 DEF AtWord, AddrOf
    <2>6. CASE dcs.busy
      <3>1. count = 1 /\ Len(bus) = 0
        BY <1>0, <1>len, <2>1, <2>3, <2>4, <2>6 DEF InStep, Begun, Expected
      <3>2. OnBus(1)'
        BY <2>1, <2>2, <2>3, <2>6, <3>1 DEF OnBus, Datum, Place
      <3>3. InStep(1)'
        BY <2>1, <2>2, <3>1 DEF InStep, Begun, Expected
      <3> QED BY <2>5, <3>2, <3>3 DEF WriteInv
    <2>7. CASE ~dcs.busy
      <3>1. Len(bus) = count - m /\ Len(bus) >= 1
        BY <1>len, <2>1, <2>3, <2>7 DEF InStep, Begun, Expected
      <3>2. Len(bus) + 1 # 1 /\ Len(bus) + 1 - 1 + m = count
        BY <1>0, <1>len, <3>1
      <3>3. Datum(Len(bus) + 1, m) = dd /\ Place(Len(bus) + 1, m) = da
        <4> DEFINE k == Len(bus) + 1
        <4>1. Datum(k, m) = <<call, k - 1 + m>> /\ Place(k, m) = AddrOf(k - 1 + m)
          BY <3>2 DEF Datum, Place
        <4>2. k - 1 + m = count
          BY <3>2
        <4> HIDE DEF k
        <4>3. Datum(k, m) = dd /\ Place(k, m) = da
          BY ONLY <2>4, <4>1, <4>2, Zenon
        <4> QED BY <4>3 DEF k
      <3>4. /\ \A j \in 1..Len(bus) : bus[j] = <<Datum(j, m), Place(j, m)>>
            /\ xfer'.write /\ xfer'.data = dd /\ xfer'.addr = da
        BY <2>2, <2>3, <2>4, <2>7 DEF OnBus
      <3>5. OnBus(m)'
        BY <2>1, <3>3, <3>4 DEF OnBus, Datum, Place, AddrOf
      <3>6. InStep(m)'
        BY <1>0, <1>len, <2>1, <2>2, <3>1 DEF InStep, Begun, Expected
      <3> QED BY <2>5, <3>5, <3>6 DEF WriteInv
    <2> QED BY <2>6, <2>7
  <1>7. CASE Poll \/ Wait
    <2>1. /\ ~disturbed /\ kind = "write" /\ pc \in {"poll", "wait"}
          /\ pc' \in {"poll", "wait", "next"}
          /\ UNCHANGED <<dcs, da, dd, xfer, bus, addr, count, len, call, base, increment>>
      BY <1>7 DEF Poll, Wait, hw, args, locals
    <2>2. PICK m \in {0, 1} : OnBus(m) /\ InStep(m)
      BY <1>old, <2>1
    <2>3. OnBus(m)'
      BY <2>1, <2>2, OnBusKept
    <2>4. InStep(m)'
      BY <2>1, <2>2 DEF InStep, Begun, Expected
    <2>5. AtWord'
      BY <1>old, <2>1 DEF AtWord, AddrOf
    <2> QED BY <2>3, <2>4, <2>5 DEF WriteInv
  <1>8. CASE TakeSample \/ AckDone
    BY <1>8 DEF TakeSample, AckDone, args, CountInv
  <1>11. CASE NextAddr
    <2>1. /\ ~disturbed /\ kind = "write" /\ pc = "next" /\ pc' = "loop"
          /\ addr' = (addr + increment) % AddrSpace
          /\ da' = IF increment # 0 THEN addr' ELSE da
          /\ UNCHANGED <<dcs, dd, xfer, bus, count, len, call, base, increment>>
      BY <1>11 DEF NextAddr, args
    <2>2. PICK m \in {0, 1} : OnBus(m) /\ InStep(m)
      BY <1>old, <2>1
    <2>3. OnBus(m)'
      BY <2>1, <2>2, OnBusKept
    <2>4. InStep(m)'
      BY <2>1, <2>2 DEF InStep, Begun, Expected
    <2>5. da = addr /\ addr = AddrOf(count) /\ dcs.write
      BY <1>old, <2>1 DEF AtWord
    <2>6. addr' = AddrOf(count + 1)
      BY <1>0, <2>1, <2>5, NextAddress
    <2>7. increment = 0 => addr' = addr
      <3> SUFFICES ASSUME increment = 0 PROVE addr' = addr
        OBVIOUS
      <3>1. (addr + (1 - 1) * 0) % AddrSpace = addr
        BY <1>0, FirstAddress
      <3>2. addr + (1 - 1) * 0 = addr + increment
        BY <1>0
      <3> QED BY <2>1, <3>1, <3>2
    <2>8. da' = addr' /\ AddrOf(count + 1)' = AddrOf(count + 1)
      BY <2>1, <2>5, <2>7 DEF AddrOf
    <2>9. AtWord'
      BY <2>1, <2>5, <2>6, <2>8 DEF AtWord, AddrOf
    <2> QED BY <2>3, <2>4, <2>9 DEF WriteInv
  <1>12. CASE Complete
    <2>1. /\ ~disturbed /\ kind = "write" /\ dcs.busy /\ pc' = pc
          /\ UNCHANGED <<da, xfer, addr, count, len, call, base, increment>>
      BY <1>12, Zenon DEF Complete, args, locals
    <2>2. dcs' = [dcs EXCEPT !.busy = FALSE, !.done = TRUE]
      BY <1>12 DEF Complete
    <2>3. ~dcs'.busy /\ dcs'.write = dcs.write
      BY <1>0, <2>2, Zenon
    <2>4. PICK m \in {0, 1} : OnBus(m) /\ InStep(m)
      BY <1>old, <2>1
    <2>5. xfer.write /\ xfer.data = Datum(Len(bus) + 1, m) /\ xfer.addr = Place(Len(bus) + 1, m)
      BY <2>1, <2>4 DEF OnBus
    <2>6. bus' = Append(bus, <<xfer.data, xfer.addr>>) /\ dd' = dd
      BY <1>12, <2>5 DEF Complete
    <2>7. <<xfer.data, xfer.addr>> \in Word \X (0..(AddrSpace - 1))
      BY DEF TypeOK
    <2>8. /\ Len(bus') = Len(bus) + 1 /\ bus'[Len(bus) + 1] = <<xfer.data, xfer.addr>>
          /\ \A j \in 1..Len(bus) : bus'[j] = bus[j]
      BY ONLY <1>0, <2>6, <2>7
    <2>9. ASSUME NEW j \in 1..(Len(bus) + 1) PROVE bus'[j] = <<Datum(j, m), Place(j, m)>>
      <3>1. CASE j = Len(bus) + 1
        BY <2>5, <2>8, <3>1
      <3>2. CASE j \in 1..Len(bus)
        BY <2>4, <2>8, <3>2 DEF OnBus
      <3> QED BY <1>len, <3>1, <3>2
    <2>10. OnBus(m)'
      BY <2>1, <2>3, <2>8, <2>9 DEF OnBus, Datum, Place, AddrOf
    <2>11. InStep(m)'
      BY <1>len, <2>1, <2>3, <2>4, <2>8 DEF InStep, Begun, Expected
    <2>12. AtWord'
      BY <1>old, <2>1, <2>3, <2>6 DEF AtWord, AddrOf
    <2> QED BY <2>10, <2>11, <2>12 DEF WriteInv
  <1>13. CASE Clock \/ UNCHANGED vars
    <2>1. /\ ~disturbed /\ kind = "write" /\ pc' = pc
          /\ UNCHANGED <<dcs, da, dd, xfer, bus, addr, count, len, call, base, increment>>
      BY <1>13 DEF Clock, vars, hw, args, locals
    <2>2. PICK m \in {0, 1} : OnBus(m) /\ InStep(m)
      BY <1>old, <2>1
    <2>3. OnBus(m)'
      BY <2>1, <2>2, OnBusKept
    <2>4. InStep(m)' /\ AtWord'
      BY <1>old, <2>1, <2>2 DEF InStep, Begun, Expected, AtWord, AddrOf
    <2> QED BY <2>3, <2>4 DEF WriteInv
  <1> QED BY ONLY <1>1, <1>2, <1>3, <1>4, <1>5, <1>6, <1>7, <1>8, <1>11, <1>12, <1>13,
             [Next]_vars, DirectConstants
          DEF Next, CallStep, smi_direct_write_arr, smi_direct_read_arr, smi_direct_read,
              Increments

-----------------------------------------------------------------------------
(* Theorems *)

IInv ==
    /\ TypeOK /\ CountInv
    /\ ~disturbed => BusyInv
    /\ ~disturbed /\ kind = "read" => ReadInv
    /\ ~disturbed /\ kind = "write" => WriteInv

LEMMA IInvInit == Init => IInv
  <1> SUFFICES ASSUME Init PROVE IInv
    OBVIOUS
  <1>1. TypeOK /\ CountInv
    BY TypesInit
  <1>2. BusyInv
    <2>1. pc = "idle" /\ dcs = [write |-> FALSE, done |-> FALSE, busy |-> FALSE]
      BY DEF Init
    <2>2. ~dcs.busy
      BY <2>1, Zenon
    <2> QED BY <2>1, <2>2 DEF BusyInv, BetweenHalves
  <1>3. ReadInv /\ kind = "read"
    BY DEF Init, ReadInv
  <1> QED BY <1>1, <1>2, <1>3 DEF IInv

LEMMA IInvNext == IInv /\ [Next]_vars => IInv'
  BY TypesNext, BusyNext, ReadNext, WriteNext DEF IInv

\* Undisturbed direct calls follow the samples, the words and the flags of DCS.
THEOREM Invariance == Spec => []IInv
  BY IInvInit, IInvNext, PTL DEF Spec

\* Types and ranges of every register and local of a direct call.
THEOREM TypeCorrect == Spec => []TypeOK
  <1>1. IInv => TypeOK
    BY DEF IInv
  <1> QED BY <1>1, Invariance, PTL

\* smi.c:285-382: whatever the address space, sample i of an undisturbed direct read is
\* what the device held at the i-th address, whether the first START and that of the
\* loop made one transfer or two.
THEOREM SamplesAreOrdered == Spec => []SamplesInOrder
  <1>1. IInv => SamplesInOrder
    BY DEF IInv, ReadInv, SamplesInOrder
  <1> QED BY <1>1, Invariance, PTL

\* smi.c:285-382, 506-582: an undisturbed direct call of either kind leaves no transfer under
\* way, so the START of the next call is never the one ignored.
THEOREM LeavesIdle == Spec => []IdleBetweenCalls
  <1>1. IInv => IdleBetweenCalls
    BY DEF IInv, BusyInv, IdleBetweenCalls
  <1> QED BY <1>1, Invariance, PTL

\* smi.c:506-582: the bus carries the zero and then the words of an undisturbed direct
\* write, each once, in order and at its own address; at most the first is missing.
THEOREM WordsAreOrdered == Spec => []WordsInOrder
  <1>1. IInv => WordsInOrder
    <2> SUFFICES ASSUME IInv, ~disturbed, kind = "write" PROVE WordsInOrder
      BY DEF WordsInOrder
    <2>1. PICK m \in {0, 1} : OnBus(m) /\ InStep(m)
      BY DEF IInv, WriteInv
    <2>2. \A j \in 1..Len(bus) :
            bus[j] = IF j = 1 THEN <<<<call, 0>>, base>>
                     ELSE <<<<call, j - 1 + m>>, AddrOf(j - 1 + m)>>
      BY <2>1 DEF OnBus, Datum, Place
    <2>3. pc = "idle" => Len(bus) = len + 1 - m
      <3> SUFFICES ASSUME pc = "idle" PROVE Len(bus) = len + 1 - m
        OBVIOUS
      <3>1. ~dcs.busy /\ count = len
        BY <2>1 DEF IInv, BusyInv, InStep
      <3>2. Len(bus) \in Nat
        BY DEF IInv, TypeOK
      <3> QED BY <2>1, <3>1, <3>2 DEF InStep, Begun, Expected
    <2> QED BY <2>2, <2>3 DEF WordsInOrder
  <1> QED BY <1>1, Invariance, PTL
=============================================================================
