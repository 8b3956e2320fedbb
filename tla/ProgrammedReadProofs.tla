------------------------ MODULE ProgrammedReadProofs ------------------------
(***************************************************************************)
(* Theorems about ProgrammedRead, for every value of its constants.        *)
(***************************************************************************)
EXTENDS ProgrammedRead, SequenceTheorems, TLAPS

\* What TypeOK needs to be inductive: a pop finds a word, and the value handed
\* to smi_truncate is a count.
TypeInv == /\ TypeOK
           /\ pc = "pop" => fifo # <<>>
           /\ pc = "deliver" => ret \in Nat

LEMMA DivCeilNat ==
    ASSUME NEW a \in Nat, NEW b \in Nat \ {0}
    PROVE  SMI_DIV_CEIL(a, b) \in Nat
  BY SMT DEF SMI_DIV_CEIL

LEMMA ProductNat == \A a, b \in Nat : a * b \in Nat
  BY SMT

LEMMA WordReadsNat ==
    ASSUME NEW n \in Nat, NEW f \in [packed : BOOLEAN, read : Nat \ {0}, out_pixels : Nat \ {0}]
    PROVE  word_reads(n, f) \in Nat
  <1>1. n * f.read \in Nat
    BY ProductNat
  <1> QED BY <1>1, DivCeilNat DEF word_reads

LEMMA UnpackNat ==
    ASSUME NEW w \in Nat, NEW f \in [packed : BOOLEAN, read : Nat \ {0}, out_pixels : Nat \ {0}]
    PROVE  smi_unpack(w, f) \in Nat
  <1>1. w \div f.read \in Nat
    BY SMT
  <1> QED BY <1>1, ProductNat DEF smi_unpack

LEMMA TypeInvInit == Init => TypeInv
  <1> SUFFICES ASSUME Init PROVE TypeInv
    OBVIOUS
  <1>1. fmt \in [packed : BOOLEAN, read : Nat \ {0}, out_pixels : Nat \ {0}]
    BY DEF Init
  <1>2. raw \in Seq(Nat \X Nat) /\ fifo \in Seq(Nat \X Nat)
    BY DEF Init, HwInit
  <1>3. spin \in 0..SpinSoft /\ call \in 0..MaxCalls /\ rawSize \in Nat
    BY SpinLimits, ReadConstants DEF Init
  <1>4. owner \in Nat /\ moved \in Nat /\ total \in Nat /\ len \in Nat /\ words \in Nat
    BY DEF Init, HwInit
  <1>5. ret \in Nat /\ stored \in Nat /\ pc = "idle" /\ outcome = "none"
    BY DEF Init
  <1>6. late \in BOOLEAN /\ quiet \in BOOLEAN /\ abandoned \in BOOLEAN
    BY DEF Init
  <1> QED
    BY <1>1, <1>2, <1>3, <1>4, <1>5, <1>6 DEF TypeInv, TypeOK, InCall, Awaiting

LEMMA TypeInvNext == TypeInv /\ [Next]_vars => TypeInv'
  <1> SUFFICES ASSUME TypeInv, [Next]_vars PROVE TypeInv'
    OBVIOUS
  <1> USE SpinLimits, FifoDepthPositive, ReadConstants DEF TypeInv, TypeOK, InCall, Awaiting
  <1>1. ASSUME NEW n \in Lens, NEW f \in Formats, smi_programmed_read_arr(n, f)
        PROVE  TypeInv'
    <2>1. word_reads(n, f) \in Nat
      BY WordReadsNat
    <2>2. call' \in 0..MaxCalls /\ len' \in Nat /\ words' \in Nat /\ rawSize' \in Nat
      BY <1>1, <2>1 DEF smi_programmed_read_arr
    <2>3. raw' \in Seq(Nat \X Nat) /\ stored' \in Nat /\ ret' \in Int /\ fmt' = f
      BY <1>1 DEF smi_programmed_read_arr
    <2>4. /\ pc' \in {"clear", "idle"} /\ outcome' \in {"none", "nomem"}
          /\ UNCHANGED <<hw, spin, late, quiet, abandoned>>
      BY <1>1 DEF smi_programmed_read_arr
    <2> QED BY <2>2, <2>3, <2>4 DEF hw
  <1>2. CASE ClearFifos
    BY <1>2 DEF ClearFifos, HwClear, Active
  <1>3. CASE smi_start
    <2>1. BusWords(len, fmt) \in Nat
      BY WordReadsNat DEF BusWords, word_reads
    <2>2. /\ owner' \in Nat /\ moved' \in Nat /\ total' \in Nat
          /\ fifo' \in Seq(Nat \X Nat)
      BY <1>3, <2>1 DEF smi_start, HwStart
    <2>3. spin' \in 0..SpinSoft
      BY <1>3 DEF smi_start
    <2> QED BY <1>3, <2>2, <2>3 DEF smi_start
  <1>4. CASE PollData
    BY <1>4 DEF PollData, AwaitUnchanged, hw
  <1>5. CASE PopWord
    BY <1>5 DEF PopWord, AwaitUnchanged
  <1>6. CASE PollEmpty
    BY <1>6 DEF PollEmpty, AwaitUnchanged, hw
  <1>7. CASE Wait
    <2>1. spin' \in 0..SpinSoft
      BY <1>7 DEF Wait, NextSpin
    <2>2. late' \in BOOLEAN
      BY <1>7 DEF Wait
    <2> QED BY <1>7, <2>1, <2>2 DEF Wait, AwaitUnchanged, hw
  <1>8. CASE AbortRead
    BY <1>8 DEF AbortRead, HwClear, AwaitUnchanged, SMI_ERR_TIMEOUT
  <1>9. CASE PollDone
    BY <1>9 DEF PollDone, AwaitUnchanged, hw
  <1>10. CASE Deliver
    BY <1>10, UnpackNat DEF Deliver, hw
  <1>11. ASSUME NEW n \in Lens, smi_resize_raw_buffer(n) PROVE TypeInv'
    BY <1>11 DEF smi_resize_raw_buffer, hw
  <1>12. CASE BusRead
    <2>1. <<owner, moved + 1>> \in Nat \X Nat
      OBVIOUS
    <2>2. fifo' \in Seq(Nat \X Nat) /\ fifo' # <<>>
      BY <1>12, <2>1, AppendProperties DEF BusRead
    <2> QED BY <1>12, <2>2 DEF BusRead, driver
  <1>13. CASE Clock
    BY <1>13 DEF Clock, hw
  <1>14. CASE UNCHANGED vars
    BY <1>14 DEF vars, hw, driver
  <1> QED
    BY <1>1, <1>2, <1>3, <1>4, <1>5, <1>6, <1>7, <1>8, <1>9, <1>10, <1>11, <1>12,
       <1>13, <1>14 DEF Next, CallStep

\* Type correctness of every call, with any lengths, formats and buffer sizes.
THEOREM TypeCorrect == Spec => []TypeOK
  <1>1. Init => TypeInv
    BY TypeInvInit
  <1>2. TypeInv /\ [Next]_vars => TypeInv'
    BY TypeInvNext
  <1>3. TypeInv => TypeOK
    BY DEF TypeInv
  <1> QED BY <1>1, <1>2, <1>3, PTL DEF Spec

-----------------------------------------------------------------------------
(* The inductive invariant *)

\* The loop collects at most word_reads words, into a buffer that holds them.
SizeInv ==
    /\ pc \in InCall => /\ words = word_reads(len, fmt) /\ words > 0
                        /\ words <= rawSize /\ Len(raw) <= words
    /\ pc = "pop" => Len(raw) < words
    /\ pc \in {"clear", "start"} => raw = <<>>

\* In a quiet call every word of its transfer is in raw, in the FIFO or still on
\* the other side of the bus, and the two hold consecutive words.
QuietFlow ==
    /\ owner = call /\ total = words /\ moved = Len(raw) + Len(fifo)
    /\ Own(raw)
    /\ \A i \in 1..Len(fifo) : fifo[i] = <<call, Len(raw) + i>>

FlowInv ==
    /\ moved <= total
    /\ quiet /\ pc = "start" => ~Active /\ fifo = <<>>
    /\ quiet /\ pc \in Awaiting => QuietFlow
    /\ quiet /\ pc \in {"abort", "deliver"} => Own(raw)
    /\ ~abandoned => /\ quiet
                     /\ pc \in {"idle", "clear", "deliver"} => ~Active /\ fifo = <<>>

\* In a call that is not quiet the first word to come is of an earlier transfer.
ForeignFlow ==
    \/ raw # <<>> /\ raw[1][1] # call
    \/ raw = <<>> /\ fifo # <<>> /\ fifo[1][1] # call
    \/ raw = <<>> /\ fifo = <<>> /\ Active /\ owner # call

ForeignInv ==
    /\ owner <= call
    /\ pc \in {"clear", "start"} => owner < call
    /\ ~quiet /\ pc \in Awaiting \cup {"start"} => ForeignFlow

IInv == TypeInv /\ SizeInv /\ FlowInv /\ ForeignInv

LEMMA WordReadsPositive ==
    ASSUME NEW n \in Nat \ {0},
           NEW f \in [packed : BOOLEAN, read : Nat \ {0}, out_pixels : Nat \ {0}]
    PROVE  word_reads(n, f) > 0
  <1>1. n * f.read \in Nat \ {0}
    BY SMT
  <1>2. \A a, b \in Nat \ {0} : (a + b - 1) \div b > 0
    BY SMT
  <1> QED BY <1>1, <1>2 DEF word_reads, SMI_DIV_CEIL

LEMMA SizeInvNext == TypeInv /\ SizeInv /\ [Next]_vars => SizeInv'
  <1> SUFFICES ASSUME TypeInv, SizeInv, [Next]_vars PROVE SizeInv'
    OBVIOUS
  <1> USE DEF SizeInv, TypeInv, TypeOK, InCall, Awaiting
  <1>1. ASSUME NEW n \in Lens, NEW f \in Formats, smi_programmed_read_arr(n, f)
        PROVE  SizeInv'
    <2>1. word_reads(n, f) \in Nat /\ word_reads(n, f) > 0
      BY ReadConstants, WordReadsNat, WordReadsPositive
    <2> QED BY <1>1, <2>1 DEF smi_programmed_read_arr, TooSmall, word_reads
  <1>2. CASE ClearFifos
    BY <1>2 DEF ClearFifos, word_reads
  <1>3. CASE smi_start
    BY <1>3 DEF smi_start, word_reads
  <1>4. CASE PollData
    BY <1>4 DEF PollData, AwaitUnchanged, word_reads
  <1>5. CASE PopWord
    BY <1>5, HeadTailProperties, AppendProperties DEF PopWord, AwaitUnchanged, word_reads
  <1>6. CASE PollEmpty
    BY <1>6 DEF PollEmpty, AwaitUnchanged, word_reads
  <1>7. CASE Wait
    BY <1>7 DEF Wait, AwaitUnchanged, word_reads
  <1>8. CASE AbortRead
    BY <1>8 DEF AbortRead, AwaitUnchanged, word_reads
  <1>9. CASE PollDone
    BY <1>9 DEF PollDone, AwaitUnchanged, word_reads
  <1>10. CASE Deliver
    BY <1>10 DEF Deliver
  <1>11. ASSUME NEW n \in Lens, smi_resize_raw_buffer(n) PROVE SizeInv'
    BY <1>11 DEF smi_resize_raw_buffer
  <1>12. CASE BusRead
    BY <1>12 DEF BusRead, driver, word_reads
  <1>13. CASE Clock
    BY <1>13 DEF Clock, word_reads
  <1>14. CASE UNCHANGED vars
    BY <1>14 DEF vars, driver, word_reads
  <1> QED
    BY <1>1, <1>2, <1>3, <1>4, <1>5, <1>6, <1>7, <1>8, <1>9, <1>10, <1>11, <1>12,
       <1>13, <1>14 DEF Next, CallStep

LEMMA FlowInvNext == TypeInv /\ SizeInv /\ FlowInv /\ [Next]_vars => FlowInv'
  <1> SUFFICES ASSUME TypeInv, SizeInv, FlowInv, [Next]_vars PROVE FlowInv'
    OBVIOUS
  <1> USE DEF FlowInv, TypeInv, TypeOK, InCall, Awaiting, Active
  <1>0. Len(raw) \in Nat /\ Len(fifo) \in Nat
    BY LenProperties
  <1>1. ASSUME NEW n \in Lens, NEW f \in Formats, smi_programmed_read_arr(n, f)
        PROVE  FlowInv'
    BY <1>1 DEF smi_programmed_read_arr, hw
  <1>2. CASE ClearFifos
    BY <1>2 DEF ClearFifos, HwClear
  <1>3. CASE smi_start
    <2>1. CASE quiet
      <3>1. owner' = call /\ moved' = 0 /\ total' = words /\ fifo' = <<>> /\ raw' = <<>>
        BY <1>3, <2>1 DEF smi_start, HwStart, SizeInv, BusWords, word_reads
      <3>2. QuietFlow'
        BY <1>3, <3>1 DEF smi_start, QuietFlow, Own
      <3> QED BY <1>3, <2>1, <3>1, <3>2 DEF smi_start, SizeInv
    <2>2. CASE ~quiet
      <3>1. BusWords(len, fmt) \in Nat
        BY WordReadsNat DEF BusWords, word_reads
      <3>2. moved' <= total'
        BY <1>3, <3>1 DEF smi_start, HwStart
      <3> QED BY <1>3, <2>2, <3>2 DEF smi_start
    <2> QED BY <2>1, <2>2
  <1>4. CASE PollData
    BY <1>4 DEF PollData, AwaitUnchanged, hw, QuietFlow, Own
  <1>5. CASE PopWord
    <2>1. ASSUME quiet PROVE QuietFlow'
      <3>1. /\ Head(fifo) = <<call, Len(raw) + 1>> /\ Len(fifo) > 0
            /\ Head(fifo) \in Nat \X Nat
        <4>1. QuietFlow /\ fifo # <<>>
          BY <1>5, <2>1 DEF PopWord
        <4>2. fifo \in Seq(Nat \X Nat)
          OBVIOUS
        <4>3. Len(fifo) \in Nat /\ Len(fifo) > 0 /\ Head(fifo) = fifo[1] /\ fifo[1] \in Nat \X Nat
          BY ONLY <4>1, <4>2
        <4>4. fifo[1] = <<call, Len(raw) + 1>>
          BY ONLY <4>1, <4>3 DEF QuietFlow
        <4> QED BY ONLY <4>3, <4>4
      <3>2. Len(raw') = Len(raw) + 1 /\ Len(fifo') = Len(fifo) - 1
        BY <1>5, <3>1, HeadTailProperties, AppendProperties DEF PopWord
      <3>3. ASSUME NEW i \in 1..Len(raw') PROVE raw'[i] = <<call, i>>
        <4>1. CASE i = Len(raw) + 1
          BY <1>5, <3>1, <4>1, AppendProperties DEF PopWord
        <4>2. CASE i \in 1..Len(raw)
          <5>1. raw'[i] = raw[i]
            BY <1>5, <3>1, <4>2, AppendProperties DEF PopWord
          <5> QED BY <1>5, <2>1, <4>2, <5>1 DEF PopWord, QuietFlow, Own
        <4>3. i \in 1..(Len(raw) + 1)
          BY <3>2
        <4>4. i = Len(raw) + 1 \/ i \in 1..Len(raw)
          BY <1>0, <4>3
        <4> QED BY <4>1, <4>2, <4>4
      <3>4. ASSUME NEW i \in 1..Len(fifo') PROVE fifo'[i] = <<call, Len(raw') + i>>
        <4>1. fifo'[i] = fifo[i + 1]
          BY <1>5, <3>1, HeadTailProperties DEF PopWord
        <4>2. i + 1 \in 1..Len(fifo) /\ Len(raw') + i = Len(raw) + (i + 1)
          BY <3>2
        <4> QED BY <1>5, <2>1, <4>1, <4>2 DEF PopWord, QuietFlow
      <3>5. /\ QuietFlow /\ owner' = owner /\ total' = total /\ moved' = moved
            /\ call' = call /\ words' = words
        BY <1>5, <2>1 DEF PopWord, AwaitUnchanged
      <3>6. Own(raw)'
        BY <3>3, <3>5 DEF Own
      <3>7. moved' = Len(raw') + Len(fifo')
        BY <1>0, <3>2, <3>5 DEF QuietFlow
      <3>8. \A i \in 1..Len(fifo') : fifo'[i] = <<call', Len(raw') + i>>
        BY <3>4, <3>5
      <3> QED BY <3>5, <3>6, <3>7, <3>8 DEF QuietFlow
    <2> QED BY <1>5, <2>1 DEF PopWord, AwaitUnchanged
  <1>6. CASE PollEmpty
    BY <1>6 DEF PollEmpty, AwaitUnchanged, hw, QuietFlow, Own
  <1>7. CASE Wait
    BY <1>7 DEF Wait, AwaitUnchanged, hw, QuietFlow, Own
  <1>8. CASE AbortRead
    BY <1>8 DEF AbortRead, HwClear, AwaitUnchanged, Own
  <1>9. CASE PollDone
    <2>1. ASSUME quiet PROVE moved = total /\ fifo = <<>> /\ Own(raw)
      BY <1>9, <2>1, EmptySeq DEF PollDone, QuietFlow
    <2> QED BY <1>9, <2>1 DEF PollDone, AwaitUnchanged, hw, Own
  <1>10. CASE Deliver
    BY <1>10 DEF Deliver, hw
  <1>11. ASSUME NEW n \in Lens, smi_resize_raw_buffer(n) PROVE FlowInv'
    BY <1>11 DEF smi_resize_raw_buffer, hw
  <1>12. CASE BusRead
    <2>1. <<owner, moved + 1>> \in Nat \X Nat
      OBVIOUS
    <2>2. /\ Len(fifo') = Len(fifo) + 1
          /\ \A i \in 1..Len(fifo) : fifo'[i] = fifo[i]
          /\ fifo'[Len(fifo) + 1] = <<owner, moved + 1>>
      BY <1>12, <2>1, AppendProperties DEF BusRead
    <2>3. ASSUME QuietFlow PROVE QuietFlow'
      <3>1. ASSUME NEW i \in 1..Len(fifo') PROVE fifo'[i] = <<call, Len(raw) + i>>
        <4>1. CASE i = Len(fifo) + 1
          BY <2>2, <2>3, <4>1 DEF QuietFlow
        <4>2. CASE i \in 1..Len(fifo)
          BY <2>2, <2>3, <4>2 DEF QuietFlow
        <4>3. i \in 1..(Len(fifo) + 1)
          BY <2>2
        <4>4. i = Len(fifo) + 1 \/ i \in 1..Len(fifo)
          BY <1>0, <4>3
        <4> QED BY <4>1, <4>2, <4>4
      <3>2. /\ owner' = owner /\ total' = total /\ moved' = moved + 1
            /\ call' = call /\ raw' = raw /\ words' = words
        BY <1>12 DEF BusRead, driver
      <3>3. Own(raw)'
        BY <2>3, <3>2 DEF QuietFlow, Own
      <3>4. moved' = Len(raw') + Len(fifo')
        BY <1>0, <2>2, <2>3, <3>2 DEF QuietFlow
      <3>5. \A i \in 1..Len(fifo') : fifo'[i] = <<call', Len(raw') + i>>
        BY <3>1, <3>2
      <3> QED BY <2>3, <3>2, <3>3, <3>4, <3>5 DEF QuietFlow
    <2>4. /\ moved < total /\ moved' = moved + 1 /\ total' = total
          /\ UNCHANGED <<pc, call, raw, quiet, abandoned>>
      BY <1>12 DEF BusRead, driver
    <2>5. moved' <= total'
      BY <2>4
    <2>6. ~(quiet' /\ pc' = "start")
      BY <1>12, <2>4
    <2>7. quiet' /\ pc' \in Awaiting' => QuietFlow'
      BY <2>3, <2>4
    <2>8. quiet' /\ pc' \in {"abort", "deliver"} => Own(raw)'
      BY <2>4 DEF Own
    <2>9. ~abandoned' => /\ quiet'
                         /\ pc' \notin {"idle", "clear", "deliver"}
      BY <1>12, <2>4
    <2> QED BY <2>5, <2>6, <2>7, <2>8, <2>9
  <1>13. CASE Clock
    BY <1>13 DEF Clock, hw, QuietFlow, Own
  <1>14. CASE UNCHANGED vars
    BY <1>14 DEF vars, hw, driver, QuietFlow, Own
  <1> QED
    BY <1>1, <1>2, <1>3, <1>4, <1>5, <1>6, <1>7, <1>8, <1>9, <1>10, <1>11, <1>12,
       <1>13, <1>14 DEF Next, CallStep

\* A word appended to a non-empty sequence leaves its first element in place.
LEMMA AppendKeepsFirst ==
    ASSUME NEW s \in Seq(Nat \X Nat), NEW w \in Nat \X Nat, 1 \in 1..Len(s)
    PROVE  Append(s, w)[1] = s[1] /\ Append(s, w) # <<>>
  BY AppendProperties

LEMMA ForeignInvNext ==
    TypeInv /\ SizeInv /\ FlowInv /\ ForeignInv /\ [Next]_vars => ForeignInv'
  <1> SUFFICES ASSUME TypeInv, SizeInv, FlowInv, ForeignInv, [Next]_vars
               PROVE  ForeignInv'
    OBVIOUS
  <1> USE DEF ForeignInv, TypeInv, TypeOK, InCall, Awaiting, Active
  <1>1. ASSUME NEW n \in Lens, NEW f \in Formats, smi_programmed_read_arr(n, f)
        PROVE  ForeignInv'
    BY <1>1 DEF smi_programmed_read_arr, hw
  <1>2. CASE ClearFifos
    <2>1. /\ pc = "clear" /\ pc' = "start" /\ fifo' = <<>> /\ quiet' = ~Active
          /\ UNCHANGED <<raw, call, owner, moved, total>>
      BY <1>2 DEF ClearFifos, HwClear
    <2>2. raw = <<>> /\ owner < call
      BY <2>1 DEF SizeInv
    <2>3. ASSUME ~quiet' PROVE ForeignFlow'
      <3>1. moved' < total'
        BY <2>1, <2>3
      <3>2. raw' = <<>> /\ owner' # call'
        BY <2>1, <2>2
      <3> QED BY <2>1, <3>1, <3>2 DEF ForeignFlow
    <2> QED BY <2>1, <2>2, <2>3
  <1>3. CASE smi_start
    <2>1. /\ raw = <<>> /\ raw' = raw /\ fifo' = fifo /\ call' = call /\ quiet' = quiet
          /\ pc' = "poll" /\ owner' \in {owner, call}
          /\ Active => UNCHANGED <<owner, moved, total>>
      BY <1>3 DEF smi_start, HwStart, SizeInv
    <2>2. ~quiet => ForeignFlow /\ pc = "start"
      BY <1>3 DEF smi_start
    <2>3. ~quiet => ForeignFlow'
      BY <2>1, <2>2 DEF ForeignFlow
    <2> QED BY <2>1, <2>3
  <1>4. CASE PollData
    BY <1>4 DEF PollData, AwaitUnchanged, hw, ForeignFlow
  <1>5. CASE PopWord
    <2>1. ASSUME ForeignFlow PROVE ForeignFlow'
      <3>1. fifo # <<>> /\ Head(fifo) = fifo[1] /\ Head(fifo) \in Nat \X Nat
        BY <1>5, HeadTailProperties DEF PopWord
      <3>2. raw' # <<>> /\ raw'[1] = IF raw = <<>> THEN fifo[1] ELSE raw[1]
        <4>1. CASE raw = <<>>
          BY <1>5, <3>1, <4>1, AppendProperties DEF PopWord
        <4>2. CASE raw # <<>>
          <5>1. 1 \in 1..Len(raw)
            BY <4>2, EmptySeq, LenProperties
          <5>2. /\ Append(raw, Head(fifo))[1] = raw[1]
                /\ Append(raw, Head(fifo)) # <<>>
            BY <3>1, <5>1, AppendKeepsFirst
          <5>3. raw' = Append(raw, Head(fifo))
            BY <1>5 DEF PopWord
          <5> QED BY <4>2, <5>2, <5>3
        <4> QED BY <4>1, <4>2
      <3> QED BY <1>5, <2>1, <3>2 DEF PopWord, AwaitUnchanged, ForeignFlow
    <2> QED BY <1>5, <2>1 DEF PopWord, AwaitUnchanged
  <1>6. CASE PollEmpty
    BY <1>6 DEF PollEmpty, AwaitUnchanged, hw, ForeignFlow
  <1>7. CASE Wait
    BY <1>7 DEF Wait, AwaitUnchanged, hw, ForeignFlow
  <1>8. CASE AbortRead
    BY <1>8 DEF AbortRead, HwClear, AwaitUnchanged
  <1>9. CASE PollDone
    BY <1>9 DEF PollDone, AwaitUnchanged, hw
  <1>10. CASE Deliver
    BY <1>10 DEF Deliver, hw
  <1>11. ASSUME NEW n \in Lens, smi_resize_raw_buffer(n) PROVE ForeignInv'
    BY <1>11 DEF smi_resize_raw_buffer, hw
  <1>12. CASE BusRead
    <2>1. <<owner, moved + 1>> \in Nat \X Nat
      OBVIOUS
    <2>2. fifo' # <<>> /\ fifo'[1] = IF fifo = <<>> THEN <<owner, moved + 1>> ELSE fifo[1]
      BY <1>12, <2>1, AppendProperties, EmptySeq, LenProperties DEF BusRead
    <2>3. UNCHANGED <<pc, call, raw, quiet, owner>>
      BY <1>12 DEF BusRead, driver
    <2>4. ForeignFlow => ForeignFlow'
      BY <2>2, <2>3 DEF ForeignFlow
    <2> QED BY <2>3, <2>4
  <1>13. CASE Clock
    BY <1>13 DEF Clock, hw, ForeignFlow
  <1>14. CASE UNCHANGED vars
    BY <1>14 DEF vars, hw, driver, ForeignFlow
  <1> QED
    BY <1>1, <1>2, <1>3, <1>4, <1>5, <1>6, <1>7, <1>8, <1>9, <1>10, <1>11, <1>12,
       <1>13, <1>14 DEF Next, CallStep

LEMMA IInvInit == Init => IInv
  <1> SUFFICES ASSUME Init PROVE IInv
    OBVIOUS
  <1>1. TypeInv
    BY TypeInvInit
  <1>2. SizeInv /\ FlowInv /\ ForeignInv
    BY DEF Init, HwInit, SizeInv, FlowInv, ForeignInv, InCall, Awaiting, Active
  <1> QED BY <1>1, <1>2 DEF IInv

LEMMA IInvNext == IInv /\ [Next]_vars => IInv'
  BY TypeInvNext, SizeInvNext, FlowInvNext, ForeignInvNext DEF IInv

LEMMA Invariance == Spec => []IInv
  BY IInvInit, IInvNext, PTL DEF Spec

\* No read of a quiet call ever returns a word of another transfer, loses one or
\* swaps two, however the device stalls and the controller and caller interleave.
THEOREM FreshReads == Spec => []FreshWhenQuiet
  <1>1. IInv => FreshWhenQuiet
    BY DEF IInv, FlowInv, QuietFlow, FreshWhenQuiet, Awaiting
  <1> QED BY <1>1, Invariance, PTL

\* Stale words need a timed-out call: calls that return in time leave controller
\* and FIFO as they found them.
THEOREM CleanReads == Spec => []CleanUntilTimeout
  <1>1. IInv => CleanUntilTimeout
    BY DEF IInv, FlowInv, CleanUntilTimeout
  <1> QED BY <1>1, Invariance, PTL

\* raw_buffer is always large enough for the call in progress, whatever sizes
\* smi_resize_raw_buffer left it with.
THEOREM BufferSuffices == Spec => []WithinRawBuffer
  <1>1. IInv => WithinRawBuffer
    <2> SUFFICES ASSUME IInv, pc \in InCall PROVE words <= rawSize /\ Len(raw) <= rawSize
      BY DEF WithinRawBuffer
    <2>1. words <= rawSize /\ Len(raw) <= words
      BY DEF IInv, SizeInv
    <2>2. words \in Nat /\ rawSize \in Nat /\ Len(raw) \in Nat
      BY LenProperties DEF IInv, TypeInv, TypeOK
    <2> QED BY <2>1, <2>2
  <1> QED BY <1>1, Invariance, PTL

-----------------------------------------------------------------------------
(* Reads keep the promise of TransferService *)

\* A full count is the call's own words, and the controller is then done with
\* them, exactly when the call was quiet.
LEMMA FullCount ==
    ASSUME IInv, PollDone
    PROVE  IF quiet THEN Own(raw) /\ ~Active ELSE ~Own(raw)
  <1>1. pc = "poll" /\ words > 0 /\ Len(raw) >= words /\ words \in Nat
    BY DEF IInv, TypeInv, TypeOK, SizeInv, PollDone, InCall, Awaiting
  <1>2. raw \in Seq(Nat \X Nat) /\ fifo \in Seq(Nat \X Nat) /\ call \in Nat
    BY DEF IInv, TypeInv, TypeOK
  <1>3. Len(raw) \in Nat /\ Len(fifo) \in Nat
    BY <1>2, LenProperties
  <1>4. CASE quiet
    <2>1. QuietFlow
      BY <1>1, <1>4 DEF IInv, FlowInv, Awaiting
    <2> QED BY <1>1, <1>3, <1>4, <2>1 DEF QuietFlow, Active
  <1>5. CASE ~quiet
    <2>1. ForeignFlow
      BY <1>1, <1>5 DEF IInv, ForeignInv, Awaiting
    <2>2. raw # <<>> /\ 1 \in 1..Len(raw)
      BY <1>1, <1>3, EmptySeq
    <2>3. raw[1][1] # call
      BY <2>1, <2>2 DEF ForeignFlow
    <2>4. ~Own(raw)
      <3>1. SUFFICES ASSUME Own(raw) PROVE FALSE
        OBVIOUS
      <3>2. raw[1] = <<call, 1>>
        BY <2>2, <3>1 DEF Own
      <3> QED BY <2>3, <3>2
    <2> QED BY <1>5, <2>4
  <1> QED BY <1>4, <1>5

LEMMA ServiceInit == Init => Service!Init
  BY DEF Init, HwInit, InCall, Awaiting, Active, Service!Init

LEMMA ServiceNext == IInv /\ [Next]_vars => [Service!Next]_(Service!vars)
  <1> SUFFICES ASSUME IInv, [Next]_vars PROVE [Service!Next]_(Service!vars)
    OBVIOUS
  <1> DEFINE phase == IF pc \in InCall \ {"deliver"} THEN "busy" ELSE "idle"
             debt  == IF pc \in {"idle", "clear", "deliver"} THEN Active ELSE ~quiet
  <1> SUFFICES \/ UNCHANGED <<phase, debt, outcome>>
               \/ phase = "idle" /\ phase' = "busy" /\ outcome' = "none" /\ UNCHANGED debt
               \/ phase = "idle" /\ outcome' = "nomem" /\ UNCHANGED <<phase, debt>>
               \/ debt /\ debt' = FALSE /\ UNCHANGED <<phase, outcome>>
               \/ /\ phase = "busy" /\ phase' = "idle"
                  /\ outcome' = (IF debt THEN "foreign" ELSE "own")
                  /\ debt' \in {FALSE, debt}
               \/ /\ phase = "busy" /\ phase' = "idle"
                  /\ outcome' = "timeout" /\ debt' \in BOOLEAN
    BY DEF Service!Next, Service!vars, Service!Request, Service!Refuse, Service!Settle,
           Service!Succeed, Service!GiveUp
  <1> USE DEF InCall, Awaiting, Active
  <1>0. /\ quiet \in BOOLEAN /\ moved \in Nat /\ total \in Nat
        /\ (moved < total) \in BOOLEAN
    BY DEF IInv, TypeInv, TypeOK
  <1>1. ASSUME NEW n \in Lens, NEW f \in Formats, smi_programmed_read_arr(n, f)
        PROVE  \/ phase = "idle" /\ phase' = "busy" /\ outcome' = "none" /\ UNCHANGED debt
               \/ phase = "idle" /\ outcome' = "nomem" /\ UNCHANGED <<phase, debt>>
    BY <1>1 DEF smi_programmed_read_arr, hw
  <1>2. CASE ClearFifos
    BY <1>0, <1>2 DEF ClearFifos, HwClear
  <1>3. CASE smi_start
    BY <1>3 DEF smi_start
  <1>4. CASE PollData
    BY <1>4 DEF PollData, AwaitUnchanged, hw
  <1>5. CASE PopWord
    BY <1>5 DEF PopWord, AwaitUnchanged
  <1>6. CASE PollEmpty
    BY <1>6 DEF PollEmpty, AwaitUnchanged, hw
  <1>7. CASE Wait
    BY <1>7 DEF Wait, AwaitUnchanged, hw
  <1>8. CASE AbortRead
    <2>1. phase = "busy" /\ phase' = "idle" /\ outcome' = "timeout" /\ debt' = Active
      BY <1>8 DEF AbortRead, HwClear
    <2> QED BY <1>0, <2>1
  <1>9. CASE PollDone
    <2>1. /\ phase = "busy" /\ phase' = "idle" /\ debt = ~quiet /\ debt' = Active
          /\ outcome' = IF Own(raw) THEN "own" ELSE "foreign"
      BY <1>9 DEF PollDone, hw
    <2>2. IF quiet THEN Own(raw) /\ ~Active ELSE ~Own(raw)
      BY <1>9, FullCount
    <2> QED BY <1>0, <2>1, <2>2
  <1>10. CASE Deliver
    BY <1>10 DEF Deliver, hw
  <1>11. ASSUME NEW n \in Lens, smi_resize_raw_buffer(n)
         PROVE  UNCHANGED <<phase, debt, outcome>>
    BY <1>11 DEF smi_resize_raw_buffer, hw
  <1>12. CASE BusRead
    <2>1. Active /\ UNCHANGED <<pc, quiet, outcome>>
      BY <1>12 DEF BusRead, driver
    <2>2. Active' \in BOOLEAN
      BY <1>0, <1>12 DEF BusRead
    <2> QED BY <1>0, <2>1, <2>2
  <1>13. CASE Clock
    BY <1>13 DEF Clock, hw
  <1>14. CASE UNCHANGED vars
    BY <1>14 DEF vars, hw, driver
  <1> QED
    BY <1>1, <1>2, <1>3, <1>4, <1>5, <1>6, <1>7, <1>8, <1>9, <1>10, <1>11, <1>12,
       <1>13, <1>14 DEF Next, CallStep

\* Every read, step by step, does what TransferService allows: a successful call has
\* moved its own words unless an abandoned transfer still held the controller when
\* the call cleared the FIFO, and only a call that times out leaves such a debt.
THEOREM ReadsKeepThePromise == Spec => Service!Init /\ [][Service!Next]_(Service!vars)
  <1>1. Init => Service!Init
    BY ServiceInit
  <1>2. IInv /\ [Next]_vars => [Service!Next]_(Service!vars)
    BY ServiceNext
  <1> QED BY <1>1, <1>2, Invariance, PTL DEF Spec

-----------------------------------------------------------------------------
(* What a full count delivers *)

LEMMA DivCeilBounds ==
    ASSUME NEW n \in Nat, NEW p \in Nat \ {0}
    PROVE  /\ SMI_DIV_CEIL(n, p) * p >= n
           /\ SMI_DIV_CEIL(n, p) * p < n + p
  <1> DEFINE x == n + p - 1
             q == x \div p
  <1>1. x \in Nat /\ q \in Int
    BY SMT
  <1>2. x = q * p + (x % p) /\ 0 <= x % p /\ x % p < p
    BY <1>1, SMT
  <1>3. q * p <= x /\ x < q * p + p
    BY <1>1, <1>2, SMT
  <1> QED BY <1>3 DEF SMI_DIV_CEIL

\* The format is a legal one; a call under way has no outcome yet; a full count is
\* word_reads words, and what is stored from them stays until the next call.
DeliverInv ==
    /\ ~fmt.packed => fmt.read = 1 /\ fmt.out_pixels = 1
    /\ pc \in InCall \ {"deliver"} => outcome # "own" /\ outcome # "foreign"
    /\ pc \in {"deliver", "idle"} /\ outcome \in {"own", "foreign"} =>
         words = word_reads(len, fmt)
    /\ pc = "deliver" /\ outcome \in {"own", "foreign"} => ret = words
    /\ pc = "idle" /\ outcome \in {"own", "foreign"} =>
         stored = IF fmt.packed THEN smi_unpack(words, fmt) ELSE words

LEMMA DeliverInvNext == IInv /\ DeliverInv /\ [Next]_vars => DeliverInv'
  <1> SUFFICES ASSUME IInv, DeliverInv, [Next]_vars PROVE DeliverInv'
    OBVIOUS
  <1> USE DEF DeliverInv, InCall, Awaiting
  <1>1. ASSUME NEW n \in Lens, NEW f \in Formats, smi_programmed_read_arr(n, f)
        PROVE  DeliverInv'
    <2>1. ~f.packed => f.read = 1 /\ f.out_pixels = 1
      BY ReadConstants
    <2>2. /\ fmt' = f /\ pc' \in {"clear", "idle"} /\ outcome' \in {"none", "nomem"}
      BY <1>1 DEF smi_programmed_read_arr
    <2> QED BY <2>1, <2>2
  <1>2. CASE ClearFifos
    BY <1>2 DEF ClearFifos
  <1>3. CASE smi_start
    BY <1>3 DEF smi_start
  <1>4. CASE PollData
    BY <1>4 DEF PollData, AwaitUnchanged
  <1>5. CASE PopWord
    BY <1>5 DEF PopWord, AwaitUnchanged
  <1>6. CASE PollEmpty
    BY <1>6 DEF PollEmpty, AwaitUnchanged
  <1>7. CASE Wait
    BY <1>7 DEF Wait, AwaitUnchanged
  <1>8. CASE AbortRead
    BY <1>8 DEF AbortRead, AwaitUnchanged
  <1>9. CASE PollDone
    <2>1. words = word_reads(len, fmt) /\ Len(raw) <= words /\ Len(raw) >= words
      BY <1>9 DEF IInv, SizeInv, PollDone
    <2>2. words \in Nat /\ Len(raw) \in Nat
      BY LenProperties DEF IInv, TypeInv, TypeOK
    <2>3. Len(raw) = words
      BY <2>1, <2>2
    <2>4. /\ pc' = "deliver" /\ ret' = Len(raw) /\ fmt' = fmt /\ words' = words /\ len' = len
      BY <1>9 DEF PollDone, AwaitUnchanged
    <2> QED BY <2>1, <2>3, <2>4
  <1>10. CASE Deliver
    BY <1>10 DEF Deliver
  <1>11. ASSUME NEW n \in Lens, smi_resize_raw_buffer(n) PROVE DeliverInv'
    BY <1>11 DEF smi_resize_raw_buffer
  <1>12. CASE BusRead
    BY <1>12 DEF BusRead, driver
  <1>13. CASE Clock
    BY <1>13 DEF Clock
  <1>14. CASE UNCHANGED vars
    BY <1>14 DEF vars, driver
  <1> QED
    BY <1>1, <1>2, <1>3, <1>4, <1>5, <1>6, <1>7, <1>8, <1>9, <1>10, <1>11, <1>12,
       <1>13, <1>14 DEF Next, CallStep

LEMMA Delivered == IInv /\ DeliverInv => DeliversRequest
  <1> SUFFICES ASSUME IInv, DeliverInv, pc = "idle", outcome \in {"own", "foreign"},
                      fmt.read = 1
               PROVE  stored >= len /\ stored < len + fmt.out_pixels
    BY DEF DeliversRequest
  <1>1. len \in Nat /\ fmt.out_pixels \in Nat \ {0} /\ fmt.packed \in BOOLEAN
    BY DEF IInv, TypeInv, TypeOK
  <1>2. words = SMI_DIV_CEIL(len, fmt.out_pixels)
    BY <1>1 DEF DeliverInv, word_reads
  <1>3. words \in Nat
    BY DEF IInv, TypeInv, TypeOK
  <1>4. stored = words * fmt.out_pixels
    <2>1. CASE fmt.packed
      BY <1>3, <2>1 DEF DeliverInv, smi_unpack
    <2>2. CASE ~fmt.packed
      BY <1>3, <2>2 DEF DeliverInv
    <2> QED BY <1>1, <2>1, <2>2
  <1> QED BY <1>1, <1>2, <1>4, DivCeilBounds

\* The rounding up of word_reads is exact: a full count stores all the samples asked
\* for, and never as many as a whole packed word more.
THEOREM RequestDelivered == Spec => []DeliversRequest
  <1>1. Init => DeliverInv
    BY DEF Init, DeliverInv, InCall, Awaiting
  <1>2. IInv /\ DeliverInv /\ [Next]_vars => DeliverInv'
    BY DeliverInvNext
  <1>3. IInv /\ DeliverInv => DeliversRequest
    BY Delivered
  <1> QED BY <1>1, <1>2, <1>3, Invariance, PTL DEF Spec
=============================================================================
