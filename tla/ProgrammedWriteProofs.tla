----------------------- MODULE ProgrammedWriteProofs -----------------------
(***************************************************************************)
(* Theorems about ProgrammedWrite, for every value of its constants.       *)
(***************************************************************************)
EXTENDS ProgrammedWrite, SequenceTheorems, TLAPS

Word == Nat \X Nat

\* TypeOK conjunct by conjunct, with the flags apart.
Types ==
    /\ pc \in InCall \cup {"idle"}
    /\ call \in 0..MaxCalls /\ len \in Nat /\ count \in 0..(len + 1)
    /\ fifo \in Seq(Word) /\ sent \in Seq(Word)
    /\ owner \in Nat /\ moved \in Nat /\ total \in Nat
    /\ spin \in 0..SpinSoft /\ ret \in Nat \cup {SMI_ERR_TIMEOUT}

Flags ==
    /\ done \in BOOLEAN /\ aferr \in BOOLEAN /\ late \in BOOLEAN
    /\ quiet \in BOOLEAN /\ abandoned \in BOOLEAN

Outcomes == outcome \in {"none", "own", "foreign", "timeout", "aferr"}

LEMMA TypesInit == Init => Types
  <1> SUFFICES ASSUME Init PROVE Types
    OBVIOUS
  <1>1. fifo \in Seq(Word) /\ sent \in Seq(Word)
    BY DEF Init, HwInit
  <1>2. spin \in 0..SpinSoft /\ call \in 0..MaxCalls
    BY SpinLimits, WriteConstants DEF Init
  <1>3. owner \in Nat /\ moved \in Nat /\ total \in Nat /\ len \in Nat /\ count \in 0..(len + 1)
    BY DEF Init, HwInit
  <1> QED BY <1>1, <1>2, <1>3 DEF Init, Types, InCall, Looping

LEMMA TypesNext == Types /\ [Next]_vars => Types'
  <1> SUFFICES ASSUME Types, [Next]_vars PROVE Types'
    OBVIOUS
  <1> USE SpinLimits, FifoDepthPositive, WriteConstants DEF Types, InCall, Looping
  <1>1. ASSUME NEW n \in Lens, smi_programmed_write_arr(n) PROVE Types'
    BY <1>1 DEF smi_programmed_write_arr, hw
  <1>2. CASE SetUpCS
    BY <1>2 DEF SetUpCS, HwClear
  <1>3. CASE smi_start
    <2>1. /\ owner' \in Nat /\ moved' \in Nat /\ total' \in Nat
          /\ fifo' \in Seq(Word) /\ sent' \in Seq(Word)
      BY <1>3 DEF smi_start, HwStart
    <2>2. spin' \in 0..SpinSoft
      BY <1>3 DEF smi_start
    <2> QED BY <1>3, <2>1, <2>2 DEF smi_start
  <1>4. CASE PollDone
    BY <1>4 DEF PollDone, hw
  <1>5. CASE PollFull
    BY <1>5 DEF PollFull, hw, history
  <1>6. CASE PushWord
    <2>1. <<call, count + 1>> \in Word
      BY DEF Word
    <2>2. fifo' \in Seq(Word)
      <3>1. fifo' = fifo \/ fifo' = Append(fifo, <<call, count + 1>>)
        BY ONLY <1>6 DEF PushWord
      <3>2. Append(fifo, <<call, count + 1>>) \in Seq(Word)
        BY ONLY <2>1, fifo \in Seq(Word), AppendProperties
      <3> QED BY ONLY <3>1, <3>2, fifo \in Seq(Word)
    <2>3. count' \in 0..(len + 1) /\ len' = len
      BY <1>6 DEF PushWord, MorePending
    <2> QED BY <1>6, <2>2, <2>3 DEF PushWord
  <1>7. CASE Wait
    <2>1. spin' \in 0..SpinSoft
      BY <1>7 DEF Wait, NextSpin
    <2>2. fifo' \in Seq(Word) /\ UNCHANGED <<owner, moved, total>>
      <3>1. HwClear \/ UNCHANGED hw
        BY ONLY <1>7 DEF Wait
      <3>2. <<>> \in Seq(Word)
        OBVIOUS
      <3> QED BY ONLY <3>1, <3>2, fifo \in Seq(Word) DEF HwClear, hw
    <2>3. pc' \in InCall \cup {"idle"} /\ ret' \in {ret, count}
      BY <1>7 DEF Wait
    <2>4. UNCHANGED <<sent, call, len, count>>
      BY <1>7 DEF Wait
    <2> QED BY <2>1, <2>2, <2>3, <2>4
  <1>8. CASE AbortWrite
    BY <1>8 DEF AbortWrite, HwClear
  <1>9. CASE BusWrite
    <2>1. Head(fifo) \in Word /\ fifo' \in Seq(Word)
      BY <1>9, HeadTailProperties DEF BusWrite
    <2>2. sent' \in Seq(Word)
      BY <1>9, <2>1, AppendProperties DEF BusWrite
    <2> QED BY <1>9, <2>1, <2>2 DEF BusWrite, driver
  <1>10. CASE Clock
    BY <1>10 DEF Clock, hw
  <1>11. CASE UNCHANGED vars
    BY <1>11 DEF vars, hw, driver
  <1> QED
    BY ONLY <1>1, <1>2, <1>3, <1>4, <1>5, <1>6, <1>7, <1>8, <1>9, <1>10, <1>11,
       [Next]_vars DEF Next, CallStep

LEMMA FlagsNext == Flags /\ [Next]_vars => Flags'
  <1> SUFFICES ASSUME Flags, [Next]_vars PROVE Flags'
    OBVIOUS
  <1> USE DEF Flags
  <1>1. ASSUME NEW n \in Lens, smi_programmed_write_arr(n) PROVE Flags'
    BY <1>1 DEF smi_programmed_write_arr
  <1>2. CASE SetUpCS
    <2>1. Active \in BOOLEAN
      BY DEF Active
    <2> QED BY <1>2, <2>1 DEF SetUpCS
  <1>3. CASE smi_start
    BY <1>3 DEF smi_start, history
  <1>4. CASE PollDone \/ PollFull
    BY <1>4 DEF PollDone, PollFull, history
  <1>5. CASE PushWord
    BY <1>5 DEF PushWord, history
  <1>6. CASE Wait
    BY <1>6 DEF Wait
  <1>7. CASE AbortWrite
    BY <1>7 DEF AbortWrite
  <1>8. CASE BusWrite
    BY <1>8 DEF BusWrite, driver, history
  <1>9. CASE Clock
    BY <1>9 DEF Clock, history
  <1>10. CASE UNCHANGED vars
    BY <1>10 DEF vars, driver, history
  <1> QED
    BY ONLY <1>1, <1>2, <1>3, <1>4, <1>5, <1>6, <1>7, <1>8, <1>9, <1>10,
       [Next]_vars DEF Next, CallStep

LEMMA OutcomesNext == Outcomes /\ [Next]_vars => Outcomes'
  BY DEF Outcomes, Next, CallStep, vars, history, smi_programmed_write_arr, SetUpCS, smi_start,
         PollDone, PollFull, PushWord, Wait, AbortWrite, BusWrite, Clock

LEMMA TypeParts == TypeOK <=> Types /\ Flags /\ Outcomes
  <1>1. {done, aferr, late, quiet, abandoned} \subseteq BOOLEAN <=> Flags
    BY DEF Flags
  <1> QED BY <1>1 DEF TypeOK, Types, Outcomes, Word

LEMMA TypePartsAlways == Spec => [](Types /\ Flags /\ Outcomes)
  <1>1. Init => Types /\ Flags /\ Outcomes
    BY TypesInit DEF Init, Flags, Outcomes
  <1> QED BY <1>1, TypesNext, FlagsNext, OutcomesNext, PTL DEF Spec

\* Type correctness of every write, of any length.
THEOREM TypeCorrect == Spec => []TypeOK
  BY TypeParts, TypePartsAlways, PTL

-----------------------------------------------------------------------------
(* The inductive invariant *)

\* The transfer on the bus is this call's, and has put its first words there in order.
Sends ==
    /\ owner = call /\ total = len /\ moved = Len(sent)
    /\ \A i \in 1..Len(sent) : sent[i] = <<call, i>>

\* The words pushed so far are those sent followed by those in the FIFO.
Flow ==
    /\ Sends /\ count = Len(sent) + Len(fifo)
    /\ \A i \in 1..Len(fifo) : fifo[i] = <<call, Len(sent) + i>>

Awaiting == Looping \cup {"abort"}

\* Whose transfer is on the bus.  One of an earlier call, found active by CLEAR, cannot
\* end before START, for want of words; so START is ignored, and the call is not quiet.
OwnerInv ==
    /\ moved <= total /\ owner <= call
    /\ pc \in {"clear", "start"} => owner < call /\ count = 0
    /\ pc = "start" => fifo = <<>> /\ (quiet <=> ~Active)
    /\ ~quiet /\ pc \in Awaiting => owner < call

FlowInv ==
    /\ quiet /\ pc \in Awaiting => Flow /\ (done => moved = total)
    /\ quiet /\ pc = "idle" => Sends /\ (Active => fifo = <<>>)

\* Until a call is given up on, every call is quiet and cleans up.
CleanInv ==
    /\ ~aferr /\ outcome # "aferr"
    /\ ~abandoned => /\ quiet /\ outcome # "foreign"
                     /\ pc \in {"idle", "clear"} => ~Active
                     /\ pc = "idle" => Len(fifo) <= 1

IInv == Types /\ Flags /\ OwnerInv /\ FlowInv /\ CleanInv

LEMMA IInvInit == Init => IInv
  <1> SUFFICES ASSUME Init PROVE IInv
    OBVIOUS
  <1>1. Types /\ Flags
    BY TypesInit DEF Init, Flags
  <1>2. fifo = <<>> /\ Len(fifo) = 0 /\ sent = <<>> /\ Len(sent) = 0
    BY DEF Init, HwInit
  <1>3. OwnerInv /\ FlowInv /\ CleanInv
    BY <1>2 DEF Init, HwInit, OwnerInv, FlowInv, CleanInv, Sends, Awaiting, Looping, Active
  <1> QED BY <1>1, <1>3 DEF IInv

\* CLEAR leaves the FIFO empty, so that nothing moves between it and START.
LEMMA OwnerInvNext == Types /\ Flags /\ OwnerInv /\ [Next]_vars => OwnerInv'
  <1> SUFFICES ASSUME Types, Flags, OwnerInv, [Next]_vars PROVE OwnerInv'
    OBVIOUS
  <1>0. /\ owner \in Nat /\ call \in Nat /\ moved \in Nat /\ total \in Nat
        /\ quiet \in BOOLEAN /\ (moved < total) \in BOOLEAN
    BY WriteConstants DEF Types, Flags
  <1> USE <1>0 DEF OwnerInv, Awaiting, Looping, Active
  <1>1. ASSUME NEW n \in Lens, smi_programmed_write_arr(n) PROVE OwnerInv'
    BY <1>1 DEF smi_programmed_write_arr, hw
  <1>2. CASE SetUpCS
    BY <1>2 DEF SetUpCS, HwClear
  <1>3. CASE smi_start
    <2>1. len \in Nat
      BY DEF Types
    <2>2. CASE Active
      BY <1>3, <2>2 DEF smi_start, HwStart, history
    <2>3. CASE ~Active
      BY <1>3, <2>1, <2>3 DEF smi_start, HwStart, history
    <2> QED BY <2>2, <2>3
  <1>4. CASE PollDone \/ PollFull
    BY <1>4 DEF PollDone, PollFull, hw, history
  <1>5. CASE PushWord
    BY <1>5 DEF PushWord, history
  <1>6. CASE Wait
    <2>1. UNCHANGED <<owner, moved, total, call, quiet>>
      BY ONLY <1>6 DEF Wait, HwClear, hw
    <2>2. pc \in Looping /\ pc' \in Looping \cup {"abort", "idle"}
      BY ONLY <1>6 DEF Wait, Looping
    <2> QED BY <2>1, <2>2
  <1>7. CASE AbortWrite
    BY <1>7 DEF AbortWrite, HwClear
  <1>8. CASE BusWrite
    BY <1>8 DEF BusWrite, driver, history
  <1>9. CASE Clock
    BY <1>9 DEF Clock, hw, history
  <1>10. CASE UNCHANGED vars
    BY <1>10 DEF vars, hw, driver, history
  <1> QED
    BY ONLY <1>1, <1>2, <1>3, <1>4, <1>5, <1>6, <1>7, <1>8, <1>9, <1>10,
       [Next]_vars DEF Next, CallStep

\* One more word at the end of a sequence of consecutive words.
LEMMA Consecutive ==
    ASSUME NEW s \in Seq(Word), NEW c \in Nat, NEW n \in Nat,
           \A i \in 1..Len(s) : s[i] = <<c, n + i>>
    PROVE  /\ Append(s, <<c, n + Len(s) + 1>>) \in Seq(Word)
           /\ Len(Append(s, <<c, n + Len(s) + 1>>)) = Len(s) + 1
           /\ \A i \in 1..(Len(s) + 1) : Append(s, <<c, n + Len(s) + 1>>)[i] = <<c, n + i>>
  <1>1. <<c, n + Len(s) + 1>> \in Word /\ Len(s) \in Nat
    BY LenProperties DEF Word
  <1>2. ASSUME NEW i \in 1..(Len(s) + 1)
        PROVE  Append(s, <<c, n + Len(s) + 1>>)[i] = <<c, n + i>>
    <2>1. CASE i = Len(s) + 1
      BY <1>1, <2>1, AppendProperties
    <2>2. CASE i \in 1..Len(s)
      BY <1>1, <2>2, AppendProperties
    <2> QED BY <1>1, <2>1, <2>2
  <1> QED BY <1>1, <1>2, AppendProperties

\* The tail of a sequence of consecutive words.
LEMMA ConsecutiveTail ==
    ASSUME NEW s \in Seq(Word), NEW c \in Nat, NEW n \in Nat, s # <<>>,
           \A i \in 1..Len(s) : s[i] = <<c, n + i>>
    PROVE  /\ Head(s) = <<c, n + 1>> /\ Len(Tail(s)) = Len(s) - 1
           /\ \A i \in 1..Len(Tail(s)) : Tail(s)[i] = <<c, n + 1 + i>>
  <1>1. Len(s) \in Nat \ {0} /\ Head(s) = s[1]
    BY HeadTailProperties, EmptySeq, LenProperties
  <1>2. Tail(s) \in Seq(Word) /\ Len(Tail(s)) = Len(s) - 1
        /\ \A i \in 1..Len(Tail(s)) : Tail(s)[i] = s[i + 1]
    BY HeadTailProperties
  <1>3. ASSUME NEW i \in 1..Len(Tail(s)) PROVE Tail(s)[i] = <<c, n + 1 + i>>
    <2>1. i + 1 \in 1..Len(s) /\ n + (i + 1) = n + 1 + i
      BY <1>1, <1>2
    <2> QED BY <1>2, <2>1
  <1> QED BY <1>1, <1>2, <1>3

\* Flow and Sends speak of these alone.
flow == <<owner, moved, total, call, len, count, sent, fifo>>

LEMMA FlowUnchanged == UNCHANGED flow => (Flow => Flow') /\ (Sends => Sends')
  BY DEF flow, Flow, Sends

LEMMA PushKeepsFlow ==
    ASSUME Types, Flow, PushWord
    PROVE  Flow'
  <1>1. CASE fifo' = fifo /\ count' = count
    BY <1>1, FlowUnchanged DEF PushWord, flow
  <1>2. CASE fifo' = Append(fifo, <<call, count + 1>>) /\ count' = count + 1
    <2>1. fifo \in Seq(Word) /\ call \in Nat /\ Len(sent) \in Nat /\ Len(fifo) \in Nat
      BY WriteConstants, LenProperties DEF Types
    <2>2. /\ \A i \in 1..Len(fifo) : fifo[i] = <<call, Len(sent) + i>>
          /\ count = Len(sent) + Len(fifo)
      BY DEF Flow
    <2>3. fifo' = Append(fifo, <<call, Len(sent) + Len(fifo) + 1>>)
      BY <1>2, <2>2
    <2>4. /\ Len(fifo') = Len(fifo) + 1
          /\ \A i \in 1..Len(fifo') : fifo'[i] = <<call, Len(sent) + i>>
      <3> DEFINE f == Append(fifo, <<call, Len(sent) + Len(fifo) + 1>>)
      <3>1. /\ Len(f) = Len(fifo) + 1
            /\ \A i \in 1..(Len(fifo) + 1) : f[i] = <<call, Len(sent) + i>>
        BY ONLY <2>1, <2>2, Consecutive
      <3> HIDE DEF f
      <3> QED BY ONLY <2>3, <3>1 DEF f
    <2>5. UNCHANGED <<owner, moved, total, call, len, sent>>
      BY DEF PushWord
    <2>6. Sends'
      BY <2>5 DEF Flow, Sends
    <2>7. count' = Len(sent') + Len(fifo')
      BY <1>2, <2>1, <2>2, <2>4, <2>5
    <2> QED BY <2>4, <2>5, <2>6, <2>7 DEF Flow
  <1>3. (fifo' = fifo /\ count' = count)
        \/ (fifo' = Append(fifo, <<call, count + 1>>) /\ count' = count + 1)
    BY DEF PushWord, txd
  <1> QED BY <1>1, <1>2, <1>3

LEMMA BusKeepsFlow ==
    ASSUME Types, Flow, BusWrite
    PROVE  Flow'
  <1>1. /\ fifo \in Seq(Word) /\ sent \in Seq(Word) /\ call \in Nat
        /\ Len(sent) \in Nat /\ Len(fifo) \in Nat /\ fifo # <<>>
    BY WriteConstants, LenProperties DEF Types, BusWrite
  <1>2. /\ \A i \in 1..Len(fifo) : fifo[i] = <<call, Len(sent) + i>>
        /\ \A i \in 1..Len(sent) : sent[i] = <<call, 0 + i>>
        /\ count = Len(sent) + Len(fifo) /\ moved = Len(sent)
    BY <1>1 DEF Flow, Sends
  <1>3. /\ Head(fifo) = <<call, Len(sent) + 1>> /\ Len(Tail(fifo)) = Len(fifo) - 1
        /\ \A i \in 1..Len(Tail(fifo)) : Tail(fifo)[i] = <<call, Len(sent) + 1 + i>>
    BY <1>1, <1>2, ConsecutiveTail
  <1>4. /\ fifo' = Tail(fifo) /\ sent' = Append(sent, <<call, 0 + Len(sent) + 1>>)
        /\ moved' = moved + 1 /\ UNCHANGED <<owner, total, call, len, count>>
    BY <1>1, <1>3 DEF BusWrite, driver
  <1>5. /\ Len(sent') = Len(sent) + 1
        /\ \A i \in 1..Len(sent') : sent'[i] = <<call, 0 + i>>
    <2>1. /\ Len(Append(sent, <<call, 0 + Len(sent) + 1>>)) = Len(sent) + 1
          /\ \A i \in 1..(Len(sent) + 1) :
               Append(sent, <<call, 0 + Len(sent) + 1>>)[i] = <<call, 0 + i>>
      BY <1>1, <1>2, Consecutive
    <2> QED BY <1>4, <2>1
  <1>6. Sends'
    BY <1>2, <1>4, <1>5 DEF Flow, Sends
  <1>7. count' = Len(sent') + Len(fifo')
    BY <1>1, <1>2, <1>3, <1>4, <1>5
  <1>8. \A i \in 1..Len(fifo') : fifo'[i] = <<call', Len(sent') + i>>
    BY <1>3, <1>4, <1>5
  <1> QED BY <1>6, <1>7, <1>8 DEF Flow

LEMMA FlowInvNext ==
    Types /\ Flags /\ OwnerInv /\ FlowInv /\ CleanInv /\ [Next]_vars => FlowInv'
  <1> SUFFICES ASSUME Types, Flags, OwnerInv, FlowInv, CleanInv, [Next]_vars
               PROVE  FlowInv'
    OBVIOUS
  <1> USE DEF FlowInv, Awaiting, Looping
  <1>1. ASSUME NEW n \in Lens, smi_programmed_write_arr(n) PROVE FlowInv'
    BY <1>1 DEF smi_programmed_write_arr
  <1>2. CASE SetUpCS
    BY <1>2 DEF SetUpCS
  <1>3. CASE smi_start
    <2> SUFFICES ASSUME quiet' PROVE Flow' /\ ~done' /\ pc' \in Awaiting
      BY <1>3 DEF smi_start
    <2>1. ~Active /\ fifo = <<>> /\ count = 0
      BY <1>3 DEF OwnerInv, smi_start, history
    <2>2. /\ owner' = call /\ total' = len /\ moved' = 0 /\ sent' = <<>> /\ fifo' = <<>>
          /\ call' = call /\ len' = len /\ count' = 0
      BY <1>3, <2>1 DEF smi_start, HwStart
    <2>3. Flow'
      BY <2>2 DEF Flow, Sends
    <2> QED BY <1>3, <2>3 DEF smi_start
  <1>4. CASE PollDone
    <2>1. UNCHANGED flow /\ quiet' = quiet /\ done' = done /\ pc = "done?"
      BY <1>4 DEF PollDone, flow, hw
    <2>2. CASE done
      <3>1. ASSUME quiet PROVE Sends' /\ ~Active'
        BY <2>1, <2>2, <3>1, FlowUnchanged DEF Flow, flow, Active, Types
      <3> QED BY <1>4, <2>1, <2>2, <3>1 DEF PollDone
    <2>3. CASE ~done
      <3>1. UNCHANGED <<moved, total>> /\ pc' = "txd?"
        BY <1>4, <2>3 DEF PollDone, hw
      <3> QED BY <2>1, <2>3, <3>1, FlowUnchanged
    <2> QED BY <2>2, <2>3
  <1>5. CASE PollFull
    <2>1. UNCHANGED flow /\ UNCHANGED <<quiet, done, moved, total>>
      BY <1>5 DEF PollFull, flow, hw, history
    <2> QED BY <1>5, <2>1, FlowUnchanged DEF PollFull
  <1>6. CASE PushWord
    <2>1. UNCHANGED <<quiet, done, moved, total>>
      BY <1>6 DEF PushWord, history
    <2>2. pc = "txd?" /\ pc' = "check"
      BY <1>6 DEF PushWord
    <2>3. Flow => Flow'
      BY <1>6, PushKeepsFlow
    <2> QED BY <2>1, <2>2, <2>3
  <1>7. CASE Wait
    <2>1. ~aferr
      BY DEF CleanInv
    <2>2. /\ pc \in Looping /\ pc' \in Awaiting /\ quiet' = quiet
          /\ UNCHANGED <<hw, done, sent, call, len, count>>
      BY ONLY <1>7, <2>1 DEF Wait, Awaiting, Looping
    <2>3. UNCHANGED flow /\ UNCHANGED <<moved, total>>
      BY ONLY <2>2 DEF flow, hw
    <2> QED BY <2>2, <2>3, FlowUnchanged
  <1>8. CASE AbortWrite
    <2>1. /\ pc = "abort" /\ pc' = "idle" /\ fifo' = <<>>
          /\ UNCHANGED <<quiet, owner, moved, total, call, len, sent>>
      BY <1>8 DEF AbortWrite, HwClear
    <2>2. quiet => Sends'
      BY <2>1 DEF Flow, Sends
    <2> QED BY <2>1, <2>2
  <1>9. CASE BusWrite
    <2>1. UNCHANGED <<pc, quiet>> /\ Active /\ fifo # <<>>
      BY <1>9 DEF BusWrite, driver, history
    <2>2. (done' => moved' = total') \/ ~done' \/ done
      BY <1>9 DEF BusWrite
    <2>3. ASSUME quiet, pc \in Awaiting PROVE ~done
      BY <2>1, <2>3 DEF Active, Types
    <2> QED BY <1>9, <2>1, <2>2, <2>3, BusKeepsFlow
  <1>10. CASE Clock
    <2>1. UNCHANGED flow /\ UNCHANGED <<pc, quiet, done, moved, total>>
      BY <1>10 DEF Clock, flow, hw, history
    <2> QED BY <2>1, FlowUnchanged DEF Active, flow
  <1>11. CASE UNCHANGED vars
    <2>1. UNCHANGED flow /\ UNCHANGED <<pc, quiet, done, moved, total>>
      BY <1>11 DEF vars, driver, flow, hw, history
    <2> QED BY <2>1, FlowUnchanged DEF Active, flow
  <1> QED
    BY ONLY <1>1, <1>2, <1>3, <1>4, <1>5, <1>6, <1>7, <1>8, <1>9, <1>10, <1>11,
       [Next]_vars DEF Next, CallStep

-----------------------------------------------------------------------------
(* How a call ends *)

\* DONE means the call's own words exactly when the call was quiet; then at most the
\* word too many is left behind.
LEMMA DoneOutcome ==
    ASSUME Types, Flags, OwnerInv, FlowInv, pc = "done?", done
    PROVE  IF quiet THEN owner = call /\ sent = OwnWords /\ ~Active /\ Len(fifo) <= 1
                    ELSE owner # call
  <1>1. pc \in Awaiting
    BY DEF Awaiting, Looping
  <1>2. CASE quiet
    <2>1. Flow /\ Sends /\ moved = total
      BY <1>1, <1>2 DEF FlowInv, Flow
    <2>2. /\ sent \in Seq(Word) /\ Len(sent) = len /\ len \in Nat /\ owner = call
          /\ \A i \in 1..Len(sent) : sent[i] = <<call, i>>
          /\ count = Len(sent) + Len(fifo) /\ count \in 0..(len + 1)
      BY <2>1 DEF Types, Sends, Flow
    <2>3. Len(fifo) <= 1
      <3>1. Len(fifo) \in Nat
        BY LenProperties DEF Types
      <3> QED BY <2>2, <3>1
    <2>4. sent = OwnWords
      <3>1. sent \in [1..len -> Word]
        BY <2>2, LenProperties
      <3> QED BY <2>2, <3>1 DEF OwnWords
    <2> QED BY <1>2, <2>1, <2>2, <2>3, <2>4 DEF Active, Types
  <1>3. CASE ~quiet
    <2>1. owner < call /\ owner \in Nat /\ call \in Nat
      BY <1>1, <1>3, WriteConstants DEF OwnerInv, Types
    <2> QED BY <1>3, <2>1
  <1> QED BY <1>2, <1>3

LEMMA CleanInvNext ==
    Types /\ Flags /\ OwnerInv /\ FlowInv /\ CleanInv /\ [Next]_vars => CleanInv'
  <1> SUFFICES ASSUME Types, Flags, OwnerInv, FlowInv, CleanInv, [Next]_vars
               PROVE  CleanInv'
    OBVIOUS
  <1> USE DEF CleanInv
  <1>1. ASSUME NEW n \in Lens, smi_programmed_write_arr(n) PROVE CleanInv'
    BY <1>1 DEF smi_programmed_write_arr, hw, Active
  <1>2. CASE SetUpCS
    BY <1>2 DEF SetUpCS
  <1>3. CASE smi_start
    BY <1>3 DEF smi_start, history
  <1>4. CASE PollDone
    <2>1. CASE done
      <3>1. IF quiet THEN owner = call /\ sent = OwnWords /\ ~Active /\ Len(fifo) <= 1
                     ELSE owner # call
        BY <1>4, <2>1, DoneOutcome DEF PollDone
      <3>2. /\ outcome' = IF owner = call /\ sent = OwnWords THEN "own" ELSE "foreign"
            /\ UNCHANGED <<fifo, moved, total, quiet, abandoned, aferr>>
        BY <1>4, <2>1 DEF PollDone, hw
      <3> QED BY <3>1, <3>2 DEF Active
    <2>2. CASE ~done
      BY <1>4, <2>2 DEF PollDone
    <2> QED BY <2>1, <2>2
  <1>5. CASE PollFull
    BY <1>5 DEF PollFull, history
  <1>6. CASE PushWord
    <2>1. aferr' = aferr
      BY <1>6 DEF PushWord, txd
    <2> QED BY <1>6, <2>1 DEF PushWord, history
  <1>7. CASE Wait
    <2>1. /\ pc' \in {"abort", "done?", "txd?"}
          /\ UNCHANGED <<aferr, outcome, quiet, abandoned>>
      BY <1>7 DEF Wait
    <2> QED BY <2>1
  <1>8. CASE AbortWrite
    BY <1>8 DEF AbortWrite
  <1>9. CASE BusWrite
    <2>1. Active /\ UNCHANGED <<pc, quiet, abandoned, aferr, outcome>>
      BY <1>9 DEF BusWrite, driver, history
    <2> QED BY <2>1
  <1>10. CASE Clock
    BY <1>10 DEF Clock, history, hw, Active
  <1>11. CASE UNCHANGED vars
    BY <1>11 DEF vars, driver, history, hw, Active
  <1> QED
    BY ONLY <1>1, <1>2, <1>3, <1>4, <1>5, <1>6, <1>7, <1>8, <1>9, <1>10, <1>11,
       [Next]_vars DEF Next, CallStep

LEMMA IInvNext == IInv /\ [Next]_vars => IInv'
  BY TypesNext, FlagsNext, OwnerInvNext, FlowInvNext, CleanInvNext DEF IInv

LEMMA Invariance == Spec => []IInv
  BY IInvInit, IInvNext, PTL DEF Spec

\* smi_write_await: a quiet call puts its own words on the bus, in order and no more
\* than were asked for, however the FIFO fills and the loop's extra word falls.
THEOREM OwnWordsOnly == Spec => []OnlyOwnWordsSent
  <1>1. IInv => OnlyOwnWordsSent
    <2> SUFFICES ASSUME IInv, quiet, owner = call
                 PROVE  Len(sent) <= len /\ \A i \in 1..Len(sent) : sent[i] = <<call, i>>
      BY DEF OnlyOwnWordsSent
    <2>1. pc \in Awaiting \cup {"idle"}
      <3>1. pc \notin {"clear", "start"}
        BY WriteConstants DEF IInv, OwnerInv, Types
      <3> QED BY <3>1 DEF IInv, Types, InCall, Awaiting
    <2>2. Sends /\ moved <= total
      BY <2>1 DEF IInv, FlowInv, Flow, OwnerInv
    <2> QED BY <2>2 DEF Sends
  <1> QED BY <1>1, Invariance, PTL

\* DONE is never taken for the call's own unless it is, until a call was given up on.
THEOREM DoneIsOwn == Spec => []DoneMeansSent
  <1>1. IInv => DoneMeansSent
    BY DEF IInv, CleanInv, DoneMeansSent
  <1> QED BY <1>1, Invariance, PTL

\* What a successful write leaves behind is one word, on an idle controller.
THEOREM LeavesOneWord == Spec => []LeftoverBounded
  <1>1. IInv => LeftoverBounded
    BY DEF IInv, CleanInv, LeftoverBounded
  <1> QED BY <1>1, Invariance, PTL

-----------------------------------------------------------------------------
(* Writes keep the promise of TransferService *)

LEMMA ServiceInit == Init => Service!Init
  BY DEF Init, HwInit, InCall, Looping, Active, Service!Init

LEMMA ServiceNext == IInv /\ [Next]_vars => [Service!Next]_(Service!vars)
  <1> SUFFICES ASSUME IInv, [Next]_vars PROVE [Service!Next]_(Service!vars)
    OBVIOUS
  <1> DEFINE phase == IF pc \in InCall THEN "busy" ELSE "idle"
             debt  == IF pc \in {"idle", "clear"} THEN Active ELSE ~quiet
  <1> SUFFICES \/ UNCHANGED <<phase, debt, outcome>>
               \/ phase = "idle" /\ phase' = "busy" /\ outcome' = "none" /\ UNCHANGED debt
               \/ debt /\ debt' = FALSE /\ UNCHANGED <<phase, outcome>>
               \/ /\ phase = "busy" /\ phase' = "idle"
                  /\ outcome' = (IF debt THEN "foreign" ELSE "own")
                  /\ debt' \in {FALSE, debt}
               \/ /\ phase = "busy" /\ phase' = "idle"
                  /\ outcome' = "timeout" /\ debt' \in BOOLEAN
    BY DEF Service!Next, Service!vars, Service!Request, Service!Settle,
           Service!Succeed, Service!GiveUp
  <1> USE DEF InCall, Looping, Active
  <1>0. /\ quiet \in BOOLEAN /\ moved \in Nat /\ total \in Nat
        /\ (moved < total) \in BOOLEAN
    BY DEF IInv, Types, Flags
  <1>1. ASSUME NEW n \in Lens, smi_programmed_write_arr(n)
        PROVE  phase = "idle" /\ phase' = "busy" /\ outcome' = "none" /\ UNCHANGED debt
    BY <1>1 DEF smi_programmed_write_arr, hw
  <1>2. CASE SetUpCS
    BY <1>0, <1>2 DEF SetUpCS, HwClear
  <1>3. CASE smi_start
    BY <1>3 DEF smi_start, history
  <1>4. CASE PollDone
    <2>1. CASE done
      <3>1. /\ phase = "busy" /\ phase' = "idle" /\ debt = ~quiet /\ debt' = Active
            /\ outcome' = IF owner = call /\ sent = OwnWords THEN "own" ELSE "foreign"
        BY <1>4, <2>1 DEF PollDone, hw
      <3>2. IF quiet THEN owner = call /\ sent = OwnWords /\ ~Active ELSE owner # call
        <4>1. pc = "done?"
          BY <1>4 DEF PollDone
        <4> QED BY <2>1, <4>1, DoneOutcome DEF IInv
      <3> QED BY <1>0, <3>1, <3>2
    <2>2. CASE ~done
      BY <1>4, <2>2 DEF PollDone
    <2> QED BY <2>1, <2>2
  <1>5. CASE PollFull
    BY <1>5 DEF PollFull, history
  <1>6. CASE PushWord
    BY <1>6 DEF PushWord, history
  <1>7. CASE Wait
    <2>1. ~aferr
      BY DEF IInv, CleanInv
    <2>2. /\ pc \in Looping /\ pc' \in Looping \cup {"abort"}
          /\ UNCHANGED <<outcome, quiet>>
      BY <1>7, <2>1 DEF Wait
    <2> QED BY <2>2
  <1>8. CASE AbortWrite
    <2>1. phase = "busy" /\ phase' = "idle" /\ outcome' = "timeout" /\ debt' = Active
      BY <1>8 DEF AbortWrite, HwClear
    <2> QED BY <1>0, <2>1
  <1>9. CASE BusWrite
    <2>1. Active /\ UNCHANGED <<pc, quiet, outcome>>
      BY <1>9 DEF BusWrite, driver, history
    <2>2. Active' \in BOOLEAN
      BY <1>0, <1>9 DEF BusWrite
    <2> QED BY <1>0, <2>1, <2>2
  <1>10. CASE Clock
    BY <1>10 DEF Clock, hw, history
  <1>11. CASE UNCHANGED vars
    BY <1>11 DEF vars, hw, driver, history
  <1> QED
    BY ONLY <1>1, <1>2, <1>3, <1>4, <1>5, <1>6, <1>7, <1>8, <1>9, <1>10, <1>11,
       [Next]_vars DEF Next, CallStep

\* Every write, step by step, does what TransferService allows: it ends with its own
\* words on the bus, or with a timeout, or, after one, with another call's DONE.
THEOREM WritesKeepThePromise == Spec => Service!Init /\ [][Service!Next]_(Service!vars)
  <1>1. Init => Service!Init
    BY ServiceInit
  <1>2. IInv /\ [Next]_vars => [Service!Next]_(Service!vars)
    BY ServiceNext
  <1> QED BY <1>1, <1>2, Invariance, PTL DEF Spec
=============================================================================
