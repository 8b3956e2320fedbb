---------------------------- MODULE LiteAwaitProofs ---------------------------
(***************************************************************************)
(* Theorems about the await loops of smilite.h, for every depth of the     *)
(* FIFO, every spin limit and every set of lengths.                        *)
(***************************************************************************)
EXTENDS LiteAwait, SequenceTheorems, TLAPS

\* Where a write may go on to push without having looked at TXD: there is room.
RoomAt(p) == p \in {"enter", "test", "word", "limit"} => Len(fifo) < FifoDepth

IInv ==
    /\ kind \in {"read", "write"}
    /\ fifo \in Seq(Nat \X Nat)
    /\ call \in Nat /\ owner \in Nat /\ moved \in Nat /\ total \in Nat
    /\ len \in Nat /\ count \in Nat
    /\ kind = "write" => RoomAt(pc)
    /\ ~aferr

LEMMA EmptyHasRoom == <<>> \in Seq(Nat \X Nat) /\ Len(<<>>) < FifoDepth
  BY FifoDepthPositive

\* There is no access error to end a call with.
LEMMA NoAccessError ==
    ASSUME IInv, Limit
    PROVE  /\ pc \in {"stalled", "limit"}
           /\ UNCHANGED <<kind, call, len, count, late, data, quiet>>
           /\ \/ GiveUp
              \/ /\ pc' = (IF pc = "stalled" THEN "txd?" ELSE "test")
                 /\ UNCHANGED <<hw, done, aferr, ret, outcome>>
  <1>1. ~aferr
    BY DEF IInv
  <1> QED BY <1>1 DEF Limit

LEMMA IInvInit == Init => IInv
  BY EmptyHasRoom DEF Init, HwInit, IInv, RoomAt

LEMMA IInvNext == IInv /\ [Next]_vars => IInv'
  <1> SUFFICES ASSUME IInv, [Next]_vars PROVE IInv'
    OBVIOUS
  <1> USE FifoDepthPositive, LiteConstants DEF IInv, RoomAt
  <1>1. ASSUME NEW n \in Lens, Client(n) PROVE IInv'
    BY <1>1, EmptyHasRoom DEF Client, HwClear
  <1>2. CASE Enter
    BY <1>2 DEF Enter, HwStart, history
  <1>3. CASE Test
    BY <1>3 DEF Test, hw
  <1>4. CASE TakeWord
    <2>1. CASE fifo = <<>>
      BY <1>4, <2>1 DEF TakeWord, history
    <2>2. CASE fifo # <<>>
      <3>1. fifo' = Tail(fifo) /\ count' = count + 1
        BY <1>4, <2>2 DEF TakeWord
      <3>2. Tail(fifo) \in Seq(Nat \X Nat) /\ Len(Tail(fifo)) = Len(fifo) - 1
        BY <2>2
      <3> QED BY <1>4, <3>1, <3>2 DEF TakeWord, history
    <2> QED BY <2>1, <2>2
  <1>5. CASE PushWord
    <2>1. CASE MorePending
      <3>1. ~aferr'
        <4>1. aferr' = (aferr \/ Len(fifo) = FifoDepth)
          BY ONLY <1>5, <2>1 DEF PushWord
        <4>2. Len(fifo) # FifoDepth
          BY <1>5 DEF PushWord, history
        <4> QED BY ONLY <4>1, <4>2, IInv DEF IInv
      <3>2. fifo' = Append(fifo, <<call, count + 1>>)
        BY <1>5, <2>1, <3>1 DEF PushWord
      <3>3. fifo' \in Seq(Nat \X Nat) /\ count' \in Nat
        BY <1>5, <2>1, <3>2 DEF PushWord
      <3> QED BY <1>5, <3>1, <3>3 DEF PushWord
    <2>2. CASE ~MorePending
      BY <1>5, <2>2 DEF PushWord
    <2> QED BY <2>1, <2>2
  <1>6. CASE PollTXD
    BY <1>6 DEF PollTXD, hw, history
  <1>7. CASE Limit
    <2>1. CASE GiveUp
      BY <1>7, <2>1, EmptyHasRoom, NoAccessError DEF GiveUp, Leave, HwClear
    <2>2. CASE /\ pc' = (IF pc = "stalled" THEN "txd?" ELSE "test")
               /\ UNCHANGED <<hw, aferr>>
      BY <1>7, <2>2, NoAccessError DEF hw
    <2> QED BY <1>7, <2>1, <2>2, NoAccessError
  <1>8. CASE BusMove
    <2>1. CASE kind = "read"
      <3>1. fifo' = Append(fifo, <<owner, moved'>>) /\ moved' \in Nat
        BY <1>8, <2>1 DEF BusMove
      <3> QED BY <1>8, <2>1, <3>1 DEF BusMove, driver, history
    <2>2. CASE kind = "write"
      <3>1. fifo # <<>> /\ fifo' = Tail(fifo) /\ moved' \in Nat
        BY <1>8, <2>2 DEF BusMove
      <3>2. fifo' \in Seq(Nat \X Nat) /\ Len(fifo') < Len(fifo)
        BY <3>1
      <3> QED BY <1>8, <2>2, <3>1, <3>2 DEF BusMove, driver, history
    <2> QED BY <2>1, <2>2
  <1>9. CASE Clock
    BY <1>9 DEF Clock, hw, history
  <1>10. CASE UNCHANGED vars
    BY <1>10 DEF vars, hw, driver, history
  <1> QED BY ONLY <1>1, <1>2, <1>3, <1>4, <1>5, <1>6, <1>7, <1>8, <1>9, <1>10, [Next]_vars
          DEF Next, Loop

\* smilite.h:672-690: whatever the depth of the FIFO and however the device stalls, a
\* word is pushed only when there is room for it, although TXD is looked at afterwards.
THEOREM PushHasRoom == Spec => []PushFitsFifo
  <1>1. IInv => PushFitsFifo
    BY DEF IInv, PushFitsFifo
  <1> QED BY <1>1, IInvInit, IInvNext, PTL DEF Spec

-----------------------------------------------------------------------------
(* What a call returns: the invariant *)

Word == Nat \X Nat

\* A call that found the controller busy has not begun a transfer, unless, in a read,
\* the one it found has ended since.
OwnerInv ==
    /\ pc \in {"idle", "enter"} \cup InLoop
    /\ data \in Seq(Word) /\ quiet \in BOOLEAN /\ done \in BOOLEAN
    /\ moved <= total /\ owner <= call
    /\ pc # "idle" => len > 0
    /\ pc = "enter" => owner < call /\ count = 0 /\ (quiet => ~Active /\ fifo = <<>>)

\* Word by word, what a quiet call has moved and what is in the FIFO.
ReadFlow ==
    /\ owner = call /\ total = len /\ moved = count + Len(fifo)
    /\ \A i \in 1..Len(data) : data[i] = <<call, i>>
    /\ \A i \in 1..Len(fifo) : fifo[i] = <<call, Len(data) + i>>

WriteFlow ==
    /\ owner = call /\ total = len /\ moved = Len(data) /\ (done => moved = total)
    /\ count = Len(data) + Len(fifo)
    /\ \A i \in 1..Len(data) : data[i] = <<call, i>>
    /\ \A i \in 1..Len(fifo) : fifo[i] = <<call, Len(data) + i>>

QuietInv == quiet /\ pc \in InLoop => IF kind = "read" THEN ReadFlow ELSE WriteFlow

\* A read that was not quiet meets a word of the transfer it found before one of its own.
ForeignFirst ==
    IF data = <<>> THEN fifo # <<>> /\ fifo[1][1] < call ELSE data[1][1] < call

ForeignInv ==
    pc # "idle" =>
      /\ kind = "read" => /\ count = Len(data)
                          /\ pc = "enter" => \A i \in 1..Len(fifo) : fifo[i][1] < call
                          /\ ~quiet => ForeignFirst \/ (owner < call /\ (pc = "enter" => Active))
      /\ kind = "write" /\ ~quiet => owner < call /\ (pc = "enter" => Active /\ fifo = <<>>)

SInv == IInv /\ OwnerInv /\ QuietInv /\ ForeignInv

LEMMA EmptyIsSeq == <<>> \in Seq(Word) /\ Len(<<>>) = 0
  OBVIOUS

\* A word put at the end of a sequence, and one taken from its head.
LEMMA Appended ==
    ASSUME NEW s \in Seq(Word), NEW w \in Word
    PROVE  /\ Append(s, w) \in Seq(Word) /\ Len(s) \in Nat /\ Append(s, w) # <<>>
           /\ Len(Append(s, w)) = Len(s) + 1 /\ Append(s, w)[Len(s) + 1] = w
           /\ \A i \in 1..Len(s) : Append(s, w)[i] = s[i]
           /\ s # <<>> => Append(s, w)[1] = s[1]
  <1>1. /\ Append(s, w) \in Seq(Word) /\ Len(s) \in Nat
        /\ Len(Append(s, w)) = Len(s) + 1 /\ Append(s, w)[Len(s) + 1] = w
        /\ \A i \in 1..Len(s) : Append(s, w)[i] = s[i]
    BY AppendProperties, LenProperties
  <1>2. Append(s, w) # <<>>
    BY <1>1, EmptyIsSeq
  <1>3. s # <<>> => 1 \in 1..Len(s)
    BY <1>1, EmptySeq
  <1> QED BY <1>1, <1>2, <1>3

LEMMA Taken ==
    ASSUME NEW s \in Seq(Word), s # <<>>
    PROVE  /\ Head(s) \in Word /\ Head(s) = s[1] /\ Len(s) \in Nat /\ Len(s) > 0
           /\ Tail(s) \in Seq(Word) /\ Len(Tail(s)) = Len(s) - 1
           /\ \A i \in 1..Len(Tail(s)) : Tail(s)[i] = s[i + 1] /\ i + 1 \in 1..Len(s)
  <1>1. /\ Head(s) \in Word /\ Tail(s) \in Seq(Word) /\ Len(Tail(s)) = Len(s) - 1
        /\ \A i \in 1..Len(Tail(s)) : Tail(s)[i] = s[i + 1]
    BY HeadTailProperties
  <1>2. Head(s) = s[1] /\ Len(s) \in Nat /\ Len(s) > 0
    BY EmptySeq, LenProperties
  <1> QED BY <1>1, <1>2

\* Words of call c, numbered from n + 1, stay so at both ends of a FIFO.
LEMMA Consecutive ==
    ASSUME NEW s \in Seq(Word), NEW c \in Nat, NEW n \in Nat,
           \A i \in 1..Len(s) : s[i] = <<c, n + i>>
    PROVE  /\ Len(Append(s, <<c, n + Len(s) + 1>>)) = Len(s) + 1
           /\ \A i \in 1..(Len(s) + 1) : Append(s, <<c, n + Len(s) + 1>>)[i] = <<c, n + i>>
  <1>1. <<c, n + Len(s) + 1>> \in Word /\ Len(s) \in Nat
    BY LenProperties DEF Word
  <1>2. ASSUME NEW i \in 1..(Len(s) + 1)
        PROVE  Append(s, <<c, n + Len(s) + 1>>)[i] = <<c, n + i>>
    <2>1. CASE i = Len(s) + 1
      BY <1>1, <2>1, AppendProperties
    <2>2. CASE i \in 1..Len(s)
      BY <1>1, <2>2, AppendProperties
    <2> QED BY <1>1, <2>1, <2>2
  <1> QED BY <1>1, <1>2, AppendProperties

LEMMA ConsecutiveTail ==
    ASSUME NEW s \in Seq(Word), NEW c \in Nat, NEW n \in Nat, s # <<>>,
           \A i \in 1..Len(s) : s[i] = <<c, n + i>>
    PROVE  /\ Head(s) = <<c, n + 1>> /\ Len(Tail(s)) = Len(s) - 1
           /\ \A i \in 1..Len(Tail(s)) : Tail(s)[i] = <<c, n + 1 + i>>
  <1>1. Head(s) = <<c, n + 1>>
    BY Taken
  <1>2. ASSUME NEW i \in 1..Len(Tail(s)) PROVE Tail(s)[i] = <<c, n + 1 + i>>
    <2>1. Tail(s)[i] = s[i + 1] /\ i + 1 \in 1..Len(s) /\ n + (i + 1) = n + 1 + i
      BY <1>2, Taken
    <2> QED BY <2>1
  <1> QED BY <1>1, <1>2, Taken

LEMMA OwnerInvNext == IInv /\ OwnerInv /\ [Next]_vars => OwnerInv'
  <1> SUFFICES ASSUME IInv, OwnerInv, [Next]_vars PROVE OwnerInv'
    OBVIOUS
  <1>0. /\ owner \in Nat /\ call \in Nat /\ moved \in Nat /\ total \in Nat /\ len \in Nat
        /\ count \in Nat /\ fifo \in Seq(Word) /\ data \in Seq(Word)
    BY DEF IInv, OwnerInv, Word
  <1> USE DEF OwnerInv, InLoop
  <1>1. ASSUME NEW n \in Lens, Client(n) PROVE OwnerInv'
    <2>1. /\ pc' = "enter" /\ call' = call + 1 /\ len' = n /\ n > 0 /\ n \in Nat /\ count' = 0
          /\ fifo' = <<>> /\ UNCHANGED <<owner, moved, total>> /\ done' = FALSE
          /\ data' \in {data, <<>>}
      BY <1>1, LiteConstants DEF Client, HwClear
    <2>2. quiet' = ~Active
      BY <1>1 DEF Client
    <2>3. quiet' \in BOOLEAN /\ (quiet' => ~Active')
      BY <2>1, <2>2 DEF Active
    <2>4. data' \in Seq(Word)
      BY <1>0, <2>1, EmptyIsSeq
    <2>5. owner' < call' /\ owner' <= call' /\ moved' <= total' /\ len' > 0
      BY <1>0, <2>1
    <2> QED BY <2>1, <2>3, <2>4, <2>5
  <1>2. CASE Enter
    <2>1. /\ pc' = "test" /\ UNCHANGED <<call, len, count, quiet>> /\ done' = FALSE
          /\ data' \in {data, <<>>}
          /\ IF Active THEN UNCHANGED <<owner, moved, total>>
                       ELSE owner' = call /\ moved' = 0 /\ total' = len
      BY <1>2 DEF Enter, HwStart, history
    <2>2. data' \in Seq(Word) /\ pc = "enter" /\ len > 0
      BY <1>0, <1>2, <2>1, EmptyIsSeq DEF Enter
    <2>3. moved' <= total' /\ owner' <= call'
      BY <1>0, <2>1
    <2> QED BY <2>1, <2>2, <2>3
  <1>3. CASE Test
    BY <1>3 DEF Test, hw
  <1>4. CASE TakeWord
    <2>1. UNCHANGED <<owner, moved, total, call, len, quiet, done>> /\ pc = "word" /\ pc' = "limit"
      BY <1>4 DEF TakeWord, history
    <2>2. data' \in Seq(Word)
      BY <1>0, <1>4, Taken, Appended DEF TakeWord
    <2> QED BY <2>1, <2>2
  <1>5. CASE PushWord
    BY <1>5 DEF PushWord, history
  <1>6. CASE PollTXD
    BY <1>6 DEF PollTXD, hw, history
  <1>7. CASE Limit
    <2>1. /\ UNCHANGED <<owner, moved, total, call, len, quiet, data>> /\ pc \in InLoop
          /\ pc' \in {"idle", "txd?", "test"} /\ done' \in {FALSE, done}
      BY <1>7, NoAccessError DEF GiveUp, Leave, HwClear, hw
    <2> QED BY <2>1
  <1>8. CASE BusMove
    <2>1. /\ UNCHANGED <<owner, total, pc, call, len, count, quiet>> /\ Active
          /\ moved' = moved + 1 /\ done' \in BOOLEAN
      BY <1>8 DEF BusMove, driver, history
    <2>2. data' \in Seq(Word)
      BY <1>0, <1>8, Taken, Appended DEF BusMove
    <2> QED BY <1>0, <2>1, <2>2 DEF Active
  <1>9. CASE Clock
    BY <1>9 DEF Clock, hw, history, Active
  <1>10. CASE UNCHANGED vars
    BY <1>10 DEF vars, hw, driver, history, Active
  <1> QED BY ONLY <1>1, <1>2, <1>3, <1>4, <1>5, <1>6, <1>7, <1>8, <1>9, <1>10, [Next]_vars
          DEF Next, Loop

LEMMA QuietKept ==
    ASSUME QuietInv, done' => done, pc' \in InLoop => pc \in InLoop,
           UNCHANGED <<owner, moved, total, call, len, count, fifo, data, kind, quiet>>
    PROVE  QuietInv'
  BY DEF QuietInv, ReadFlow, WriteFlow

LEMMA TakeKeepsFlow ==
    ASSUME IInv, OwnerInv, ReadFlow, TakeWord
    PROVE  ReadFlow'
  <1>0. /\ call \in Nat /\ moved \in Nat /\ count \in Nat /\ fifo \in Seq(Word) /\ data \in Seq(Word)
        /\ Len(data) \in Nat /\ Len(fifo) \in Nat
    BY LenProperties DEF IInv, OwnerInv, Word
  <1>1. UNCHANGED <<owner, moved, total, call, len>>
    BY DEF TakeWord
  <1>2. CASE fifo = <<>>
    <2>1. UNCHANGED <<fifo, data, count>>
      BY <1>2 DEF TakeWord
    <2> QED BY ONLY <1>1, <2>1, ReadFlow DEF ReadFlow
  <1>3. CASE fifo # <<>>
    <2>1. data' = Append(data, Head(fifo)) /\ fifo' = Tail(fifo) /\ count' = count + 1
      BY <1>3 DEF TakeWord
    <2>2. /\ \A i \in 1..Len(data) : data[i] = <<call, 0 + i>>
          /\ \A i \in 1..Len(fifo) : fifo[i] = <<call, Len(data) + i>>
      BY <1>0 DEF ReadFlow
    <2>3. /\ Head(fifo) = <<call, Len(data) + 1>> /\ Head(fifo) \in Word
          /\ Len(fifo') = Len(fifo) - 1
          /\ \A i \in 1..Len(fifo') : fifo'[i] = <<call, Len(data) + 1 + i>>
      BY ONLY <1>0, <1>3, <2>1, <2>2, ConsecutiveTail, Taken
    <2>4. Len(data') = Len(data) + 1 /\ \A i \in 1..Len(data') : data'[i] = <<call, 0 + i>>
      <3>1. Head(fifo) = <<call, 0 + Len(data) + 1>>
        BY <1>0, <2>3
      <3> DEFINE f == Append(data, <<call, 0 + Len(data) + 1>>)
      <3>2. Len(f) = Len(data) + 1 /\ \A i \in 1..(Len(data) + 1) : f[i] = <<call, 0 + i>>
        BY ONLY <1>0, <2>2, Consecutive
      <3>3. data' = f
        BY ONLY <2>1, <3>1
      <3> HIDE DEF f
      <3> QED BY ONLY <3>2, <3>3
    <2>5. \A i \in 1..Len(data') : data'[i] = <<call', i>>
      BY <1>1, <2>4
    <2>6. moved' = count' + Len(fifo')
      <3>1. moved = count + Len(fifo)
        BY DEF ReadFlow
      <3>2. moved' = moved /\ count' = count + 1 /\ Len(fifo') = Len(fifo) - 1
        BY <1>1, <2>1, <2>3
      <3> QED BY ONLY <1>0, <3>1, <3>2
    <2> QED BY <1>0, <1>1, <2>3, <2>4, <2>5, <2>6 DEF ReadFlow
  <1> QED BY <1>2, <1>3

LEMMA PushKeepsFlow ==
    ASSUME IInv, IInv', OwnerInv, WriteFlow, PushWord
    PROVE  WriteFlow'
  <1>0. /\ call \in Nat /\ count \in Nat /\ fifo \in Seq(Word) /\ data \in Seq(Word)
        /\ Len(data) \in Nat /\ Len(fifo) \in Nat /\ ~aferr'
    BY LenProperties DEF IInv, OwnerInv, Word
  <1>1. UNCHANGED <<owner, moved, total, call, len, data, done>>
    BY DEF PushWord
  <1>2. CASE ~MorePending
    <2>1. UNCHANGED <<fifo, count>>
      BY <1>2 DEF PushWord
    <2> QED BY ONLY <1>1, <2>1, WriteFlow DEF WriteFlow
  <1>3. CASE MorePending
    <2> DEFINE w == <<call, count + 1>>
    <2>1. count' = count + 1 /\ fifo' = Append(fifo, w)
      BY <1>0, <1>3 DEF PushWord
    <2>2. w = <<call, Len(data) + Len(fifo) + 1>>
      BY <1>0 DEF WriteFlow
    <2>3. \A i \in 1..Len(fifo) : fifo[i] = <<call, Len(data) + i>>
      BY DEF WriteFlow
    <2> HIDE DEF w
    <2>4. Len(fifo') = Len(fifo) + 1 /\ \A i \in 1..Len(fifo') : fifo'[i] = <<call, Len(data) + i>>
      <3> DEFINE f == Append(fifo, <<call, Len(data) + Len(fifo) + 1>>)
      <3>1. /\ Len(f) = Len(fifo) + 1
            /\ \A i \in 1..(Len(fifo) + 1) : f[i] = <<call, Len(data) + i>>
        BY ONLY <1>0, <2>3, Consecutive
      <3>2. fifo' = f
        BY ONLY <2>1, <2>2
      <3> HIDE DEF f
      <3> QED BY ONLY <3>1, <3>2
    <2>5. count' = Len(data') + Len(fifo')
      BY <1>0, <1>1, <2>1, <2>4 DEF WriteFlow
    <2> QED BY <1>1, <2>4, <2>5 DEF WriteFlow
  <1> QED BY <1>2, <1>3

LEMMA BusKeepsFlow ==
    ASSUME IInv, OwnerInv, ForeignInv, QuietInv, quiet, pc \in InLoop, BusMove
    PROVE  IF kind = "read" THEN ReadFlow' ELSE WriteFlow'
  <1>0. /\ call \in Nat /\ moved \in Nat /\ count \in Nat /\ fifo \in Seq(Word) /\ data \in Seq(Word)
        /\ Len(data) \in Nat /\ Len(fifo) \in Nat /\ kind \in {"read", "write"} /\ total \in Nat
    BY LenProperties DEF IInv, OwnerInv, Word
  <1>1. UNCHANGED <<owner, total, call, len, count>> /\ moved' = moved + 1 /\ Active
    BY DEF BusMove, driver
  <1>2. CASE kind = "read"
    <2>1. ReadFlow
      BY <1>2 DEF QuietInv
    <2> DEFINE w == <<owner, moved'>>
    <2>2. fifo' = Append(fifo, w) /\ data' = data
      BY <1>2 DEF BusMove
    <2>3. count = Len(data)
      BY <1>2 DEF ForeignInv, InLoop
    <2>4. w = <<call, Len(data) + Len(fifo) + 1>>
      BY <1>0, <1>1, <2>1, <2>3 DEF ReadFlow
    <2>5. \A i \in 1..Len(fifo) : fifo[i] = <<call, Len(data) + i>>
      BY <2>1 DEF ReadFlow
    <2> HIDE DEF w
    <2>6. Len(fifo') = Len(fifo) + 1 /\ \A i \in 1..Len(fifo') : fifo'[i] = <<call, Len(data) + i>>
      <3> DEFINE f == Append(fifo, <<call, Len(data) + Len(fifo) + 1>>)
      <3>1. /\ Len(f) = Len(fifo) + 1
            /\ \A i \in 1..(Len(fifo) + 1) : f[i] = <<call, Len(data) + i>>
        BY ONLY <1>0, <2>5, Consecutive
      <3>2. fifo' = f
        BY ONLY <2>2, <2>4
      <3> HIDE DEF f
      <3> QED BY ONLY <3>1, <3>2
    <2>7. moved' = count' + Len(fifo')
      BY <1>0, <1>1, <2>1, <2>6 DEF ReadFlow
    <2> QED BY <1>1, <1>2, <2>1, <2>2, <2>6, <2>7 DEF ReadFlow
  <1>3. CASE kind = "write"
    <2>1. WriteFlow
      BY <1>3 DEF QuietInv
    <2>2. fifo # <<>> /\ fifo' = Tail(fifo) /\ data' = Append(data, Head(fifo))
          /\ (done' => done \/ moved' = total)
      BY <1>3 DEF BusMove
    <2>3. /\ \A i \in 1..Len(data) : data[i] = <<call, 0 + i>>
          /\ \A i \in 1..Len(fifo) : fifo[i] = <<call, Len(data) + i>>
      <3>1. /\ \A i \in 1..Len(data) : data[i] = <<call, i>>
            /\ \A i \in 1..Len(fifo) : fifo[i] = <<call, Len(data) + i>>
        BY <2>1 DEF WriteFlow
      <3>2. \A i \in 1..Len(data) : 0 + i = i
        BY <1>0
      <3> QED BY ONLY <3>1, <3>2
    <2>4. /\ Head(fifo) = <<call, Len(data) + 1>> /\ Head(fifo) \in Word
          /\ Len(fifo') = Len(fifo) - 1
          /\ \A i \in 1..Len(fifo') : fifo'[i] = <<call, Len(data) + 1 + i>>
      BY ONLY <1>0, <2>2, <2>3, ConsecutiveTail, Taken
    <2>5. Len(data') = Len(data) + 1 /\ \A i \in 1..Len(data') : data'[i] = <<call, 0 + i>>
      <3>1. Head(fifo) = <<call, 0 + Len(data) + 1>>
        BY <1>0, <2>4
      <3> DEFINE f == Append(data, <<call, 0 + Len(data) + 1>>)
      <3>2. Len(f) = Len(data) + 1 /\ \A i \in 1..(Len(data) + 1) : f[i] = <<call, 0 + i>>
        BY ONLY <1>0, <2>3, Consecutive
      <3>3. data' = f
        BY ONLY <2>2, <3>1
      <3> HIDE DEF f
      <3> QED BY ONLY <3>2, <3>3
    <2>6. \A i \in 1..Len(data') : data'[i] = <<call', i>>
      BY <1>1, <2>5
    <2>7. moved' = Len(data') /\ count' = Len(data') + Len(fifo')
      BY <1>0, <1>1, <2>1, <2>4, <2>5 DEF WriteFlow
    <2>8. ~done
      BY <1>0, <1>1, <2>1 DEF WriteFlow, Active
    <2>9. WriteFlow'
      BY <1>1, <2>1, <2>2, <2>4, <2>5, <2>6, <2>7, <2>8 DEF WriteFlow
    <2> QED BY <1>3, <2>9
  <1> QED BY <1>0, <1>2, <1>3

LEMMA QuietInvNext ==
    IInv /\ IInv' /\ OwnerInv /\ QuietInv /\ ForeignInv /\ [Next]_vars => QuietInv'
  <1> SUFFICES ASSUME IInv, IInv', OwnerInv, QuietInv, ForeignInv, [Next]_vars PROVE QuietInv'
    OBVIOUS
  <1>0. kind \in {"read", "write"} /\ data \in Seq(Word)
    BY DEF IInv, OwnerInv
  <1>1. ASSUME NEW n \in Lens, Client(n) PROVE QuietInv'
    BY <1>1 DEF Client, QuietInv, InLoop
  <1>2. CASE Enter
    <2> SUFFICES ASSUME quiet' PROVE IF kind' = "read" THEN ReadFlow' ELSE WriteFlow'
      BY DEF QuietInv
    <2>1. UNCHANGED <<kind, call, len, count, fifo, quiet>> /\ pc = "enter" /\ done' = FALSE
      BY <1>2 DEF Enter, HwStart, history
    <2>2. ~Active /\ fifo = <<>> /\ count = 0 /\ Len(fifo) = 0
      BY <2>1, EmptyIsSeq DEF OwnerInv
    <2>3. owner' = call /\ moved' = 0 /\ total' = len
      BY <1>2, <2>2 DEF Enter, HwStart
    <2>4. Len(data') = 0
      <3>1. CASE kind = "read"
        <4>1. data' = data
          BY <1>2, <3>1 DEF Enter
        <4> QED BY <2>1, <2>2, <3>1, <4>1 DEF ForeignInv
      <3>2. CASE kind = "write"
        <4>1. data' = <<>>
          BY <1>2, <2>2, <3>2 DEF Enter
        <4> QED BY <4>1, EmptyIsSeq
      <3> QED BY <1>0, <3>1, <3>2
    <2> QED BY <2>1, <2>2, <2>3, <2>4 DEF ReadFlow, WriteFlow
  <1>3. CASE Test
    BY <1>3, QuietKept DEF Test, hw, InLoop
  <1>4. CASE TakeWord
    <2>1. UNCHANGED <<kind, quiet>> /\ kind = "read" /\ pc = "word"
      BY <1>4 DEF TakeWord, history
    <2> QED BY <1>4, <2>1, TakeKeepsFlow DEF QuietInv, InLoop
  <1>5. CASE PushWord
    <2>1. UNCHANGED <<kind, quiet>> /\ kind = "write" /\ pc = "word"
      BY <1>5 DEF PushWord, history
    <2> QED BY <1>5, <2>1, PushKeepsFlow DEF QuietInv, InLoop
  <1>6. CASE PollTXD
    BY <1>6, QuietKept DEF PollTXD, hw, history, InLoop
  <1>7. CASE Limit
    <2>1. CASE GiveUp
      BY <2>1 DEF GiveUp, Leave, QuietInv, InLoop
    <2>2. CASE UNCHANGED <<hw, done, ret, outcome>>
      <3>1. /\ pc \in InLoop /\ done' = done
            /\ UNCHANGED <<owner, moved, total, call, len, count, fifo, data, kind, quiet>>
        BY <1>7, <2>2, NoAccessError DEF hw, InLoop
      <3> QED BY <3>1, QuietKept
    <2> QED BY <1>7, <2>1, <2>2, NoAccessError
  <1>8. CASE BusMove
    <2>1. UNCHANGED <<kind, quiet, pc>>
      BY <1>8 DEF BusMove, driver, history
    <2> QED BY <1>8, <2>1, BusKeepsFlow DEF QuietInv
  <1>9. CASE Clock
    BY <1>9, QuietKept DEF Clock, hw, history
  <1>10. CASE UNCHANGED vars
    BY <1>10, QuietKept DEF vars, hw, driver, history
  <1> QED BY ONLY <1>1, <1>2, <1>3, <1>4, <1>5, <1>6, <1>7, <1>8, <1>9, <1>10, [Next]_vars
          DEF Next, Loop

LEMMA ForeignKept ==
    ASSUME ForeignInv, pc' # "idle" => pc # "idle", pc' = "enter" <=> pc = "enter",
           UNCHANGED <<owner, moved, total, call, count, fifo, data, kind, quiet>>
    PROVE  ForeignInv'
  BY DEF ForeignInv, ForeignFirst, Active

LEMMA ForeignInvNext ==
    IInv /\ OwnerInv /\ ForeignInv /\ [Next]_vars => ForeignInv'
  <1> SUFFICES ASSUME IInv, OwnerInv, ForeignInv, [Next]_vars PROVE ForeignInv'
    OBVIOUS
  <1>0. /\ call \in Nat /\ owner \in Nat /\ moved \in Nat /\ count \in Nat /\ fifo \in Seq(Word)
        /\ data \in Seq(Word) /\ Len(data) \in Nat /\ Len(fifo) \in Nat
        /\ kind \in {"read", "write"}
    BY LenProperties DEF IInv, OwnerInv, Word
  <1>1. ASSUME NEW n \in Lens, Client(n) PROVE ForeignInv'
    <2>1. /\ call' = call + 1 /\ UNCHANGED <<owner, moved, total, kind>> /\ fifo' = <<>>
          /\ count' = 0 /\ quiet' = ~Active /\ (kind = "read" => data' = <<>>)
      BY <1>1 DEF Client, HwClear
    <2>2. owner' < call' /\ (~quiet' => Active')
      <3>1. owner <= call
        BY DEF OwnerInv
      <3>2. owner' < call'
        BY <1>0, <2>1, <3>1
      <3>3. Active' = Active
        BY <2>1 DEF Active
      <3> QED BY <2>1, <3>2, <3>3
    <2> QED BY <2>1, <2>2, EmptyIsSeq DEF ForeignInv
  <1>2. CASE Enter
    <2>1. /\ UNCHANGED <<kind, call, count, fifo, quiet>> /\ pc = "enter" /\ pc' = "test"
          /\ (kind = "read" => data' = data)
          /\ Active => owner' = owner
      BY <1>2 DEF Enter, HwStart, history
    <2>2. (ForeignFirst /\ kind = "read") => ForeignFirst'
      BY <2>1 DEF ForeignFirst
    <2> QED BY <1>0, <2>1, <2>2 DEF ForeignInv
  <1>3. CASE Test
    BY <1>3, ForeignKept DEF Test, hw
  <1>4. CASE TakeWord
    <2>1. /\ UNCHANGED <<owner, moved, total, call, kind, quiet>> /\ kind = "read"
          /\ pc = "word" /\ pc' = "limit"
      BY <1>4 DEF TakeWord, history
    <2>2. CASE fifo = <<>>
      <3>1. UNCHANGED <<fifo, data, count>>
        BY <1>4, <2>2 DEF TakeWord
      <3> QED BY <2>1, <3>1, ForeignKept
    <2>3. CASE fifo # <<>>
      <3>1. data' = Append(data, Head(fifo)) /\ count' = count + 1
        BY <1>4, <2>3 DEF TakeWord
      <3>2. Head(fifo) \in Word /\ Head(fifo) = fifo[1]
        BY <1>0, <2>3, Taken
      <3>3. Len(data') = Len(data) + 1 /\ data' # <<>> /\ (data # <<>> => data'[1] = data[1])
            /\ data'[Len(data) + 1] = Head(fifo)
        BY <1>0, <3>1, <3>2, Appended
      <3>4. data = <<>> => data'[1] = fifo[1]
        <4>1. data = <<>> => Len(data) + 1 = 1
          BY EmptyIsSeq
        <4> QED BY <3>2, <3>3, <4>1
      <3>5. ForeignFirst => ForeignFirst'
        BY <2>1, <3>3, <3>4 DEF ForeignFirst
      <3>6. count' = Len(data')
        BY <2>1, <3>1, <3>3 DEF ForeignInv
      <3> QED BY <2>1, <3>5, <3>6 DEF ForeignInv
    <2> QED BY <2>2, <2>3
  <1>5. CASE PushWord
    BY <1>5 DEF PushWord, ForeignInv, history
  <1>6. CASE PollTXD
    BY <1>6, ForeignKept DEF PollTXD, hw, history
  <1>7. CASE Limit
    <2>1. CASE GiveUp
      BY <2>1 DEF GiveUp, Leave, ForeignInv
    <2>2. CASE /\ pc' = (IF pc = "stalled" THEN "txd?" ELSE "test")
               /\ UNCHANGED <<hw, done, ret, outcome>>
      <3>1. /\ pc \notin {"idle", "enter"} /\ pc' \notin {"idle", "enter"}
            /\ UNCHANGED <<owner, moved, total, call, count, fifo, data, kind, quiet>>
        BY <1>7, <2>2, NoAccessError DEF hw
      <3> QED BY <3>1, ForeignKept
    <2> QED BY <1>7, <2>1, <2>2, NoAccessError
  <1>8. CASE BusMove
    <2>1. /\ UNCHANGED <<owner, total, kind, quiet, pc, call, count>> /\ moved' = moved + 1
          /\ Active
      BY <1>8 DEF BusMove, driver, history
    <2>2. CASE kind = "write"
      <3>1. fifo # <<>>
        BY <1>8, <2>2 DEF BusMove
      <3> QED BY <2>1, <2>2, <3>1 DEF ForeignInv
    <2>3. CASE kind = "read"
      <3> SUFFICES ASSUME pc # "idle" PROVE ForeignInv'
        BY <2>1 DEF ForeignInv
      <3> DEFINE w == <<owner, moved'>>
      <3>1. fifo' = Append(fifo, w) /\ data' = data /\ w \in Word /\ w[1] = owner
        <4>1. fifo' = Append(fifo, <<owner, moved'>>) /\ data' = data
          BY <1>8, <2>3 DEF BusMove
        <4>2. owner \in Nat /\ moved' \in Nat
          BY <1>0, <2>1
        <4>3. <<owner, moved'>> \in Word /\ <<owner, moved'>>[1] = owner
          BY ONLY <4>2 DEF Word
        <4> QED BY <4>1, <4>3
      <3> HIDE DEF w
      <3>2. /\ Len(fifo') = Len(fifo) + 1 /\ fifo' # <<>> /\ fifo'[Len(fifo) + 1] = w
            /\ \A i \in 1..Len(fifo) : fifo'[i] = fifo[i]
            /\ fifo # <<>> => fifo'[1] = fifo[1]
        BY <1>0, <3>1, Appended
      <3>3. ForeignFirst => ForeignFirst'
        BY <2>1, <3>1, <3>2 DEF ForeignFirst
      <3>4. pc = "enter" => \A i \in 1..Len(fifo') : fifo'[i][1] < call
        <4> SUFFICES ASSUME pc = "enter", NEW i \in 1..Len(fifo') PROVE fifo'[i][1] < call
          OBVIOUS
        <4>1. owner < call /\ \A j \in 1..Len(fifo) : fifo[j][1] < call
          BY <2>3 DEF OwnerInv, ForeignInv
        <4>2. CASE i = Len(fifo) + 1
          BY <3>1, <3>2, <4>1, <4>2
        <4>3. CASE i \in 1..Len(fifo)
          BY <3>2, <4>1, <4>3
        <4> QED BY <1>0, <3>2, <4>2, <4>3
      <3>5. pc = "enter" => ForeignFirst'
        <4> SUFFICES ASSUME pc = "enter" PROVE fifo'[1][1] < call /\ data = <<>>
          BY <2>1, <3>1, <3>2 DEF ForeignFirst
        <4>1. 1 \in 1..Len(fifo')
          BY <1>0, <3>2
        <4>2. Len(data) = 0
          BY <2>3 DEF OwnerInv, ForeignInv
        <4> QED BY <1>0, <3>4, <4>1, <4>2, EmptySeq
      <3> QED BY <2>1, <2>3, <3>1, <3>3, <3>4, <3>5 DEF ForeignInv
    <2> QED BY <1>0, <2>2, <2>3
  <1>9. CASE Clock
    BY <1>9, ForeignKept DEF Clock, hw, history
  <1>10. CASE UNCHANGED vars
    BY <1>10, ForeignKept DEF vars, hw, driver, history
  <1> QED BY ONLY <1>1, <1>2, <1>3, <1>4, <1>5, <1>6, <1>7, <1>8, <1>9, <1>10, [Next]_vars
          DEF Next, Loop

LEMMA SInvInit == Init => SInv
  <1> SUFFICES ASSUME Init PROVE SInv
    OBVIOUS
  <1>1. OwnerInv
    <2>1. data \in Seq(Word) /\ quiet \in BOOLEAN /\ done \in BOOLEAN /\ pc = "idle"
      BY EmptyIsSeq DEF Init
    <2>2. moved = 0 /\ total = 0 /\ owner = 0 /\ call = 0
      BY DEF Init, HwInit
    <2> QED BY <2>1, <2>2 DEF OwnerInv
  <1>2. QuietInv /\ ForeignInv
    BY DEF Init, QuietInv, ForeignInv, InLoop
  <1> QED BY <1>1, <1>2, IInvInit DEF SInv

LEMMA SInvNext == SInv /\ [Next]_vars => SInv'
  BY IInvNext, OwnerInvNext, QuietInvNext, ForeignInvNext DEF SInv

-----------------------------------------------------------------------------
(* The loops keep the promise of TransferService *)

\* A call that counts its words, or sees DONE, has moved its own exactly when it was
\* quiet, and then the controller is idle.
LEMMA HowItEnds ==
    ASSUME SInv, pc = "test", Finished
    PROVE  IF quiet THEN owner = call /\ Own(data) /\ ~Active
                    ELSE ~(owner = call /\ Own(data))
  <1>0. /\ call \in Nat /\ owner \in Nat /\ moved \in Nat /\ total \in Nat /\ count \in Nat
        /\ len \in Nat /\ len > 0 /\ moved <= total /\ data \in Seq(Word)
        /\ Len(data) \in Nat /\ Len(fifo) \in Nat /\ kind \in {"read", "write"}
    BY LenProperties DEF SInv, IInv, OwnerInv, Word
  <1>1. QuietInv /\ ForeignInv /\ pc \in InLoop
    BY DEF SInv, InLoop
  <1>2. kind = "read" => count = Len(data) /\ (~quiet => ForeignFirst \/ owner < call)
    BY <1>1 DEF ForeignInv
  <1>3. CASE quiet
    <2>1. /\ owner = call /\ total = len /\ Len(data) = len /\ moved = len
          /\ \A i \in 1..Len(data) : data[i] = <<call, i>>
      <3>1. CASE kind = "read"
        <4>1. ReadFlow /\ count >= len
          BY <1>1, <1>3, <3>1 DEF QuietInv, Finished
        <4>2. moved = count + Len(fifo) /\ total = len
          BY <4>1 DEF ReadFlow
        <4>3. count = len /\ moved = len
          BY <1>0, <4>1, <4>2
        <4> QED BY <1>2, <3>1, <4>1, <4>3 DEF ReadFlow
      <3>2. CASE kind = "write"
        BY <1>0, <1>1, <1>3, <3>2 DEF QuietInv, Finished, WriteFlow
      <3> QED BY <1>0, <3>1, <3>2
    <2>2. Own(data)
      <3>1. data \in [1..len -> Word]
        BY <1>0, <2>1, LenProperties
      <3> QED BY <2>1, <3>1 DEF Own
    <2> QED BY <1>0, <1>3, <2>1, <2>2 DEF Active
  <1>4. CASE ~quiet
    <2> SUFFICES ASSUME owner = call, Own(data) PROVE FALSE
      BY <1>4
    <2>1. kind = "read"
      BY <1>0, <1>1, <1>4 DEF ForeignInv
    <2>2. ForeignFirst /\ Len(data) > 0
      BY <1>0, <1>2, <1>4, <2>1 DEF Finished
    <2>3. data[1][1] < call
      BY <2>2, EmptyIsSeq DEF ForeignFirst
    <2>4. data[1] = <<call, 1>>
      BY <1>0 DEF Own
    <2> QED BY <1>0, <2>3, <2>4
  <1> QED BY <1>3, <1>4

LEMMA ServiceInit == Init => Service!Init
  BY DEF Init, HwInit, Active, Service!Init

LEMMA ServiceNext == SInv /\ [Next]_vars => [Service!Next]_(Service!vars)
  <1> SUFFICES ASSUME SInv, [Next]_vars PROVE [Service!Next]_(Service!vars)
    OBVIOUS
  <1> DEFINE phase == IF pc = "idle" THEN "idle" ELSE "busy"
             debt  == IF pc = "idle" THEN Active ELSE ~quiet
  <1> SUFFICES \/ UNCHANGED <<phase, debt, outcome>>
               \/ phase = "idle" /\ phase' = "busy" /\ outcome' = "none" /\ UNCHANGED debt
               \/ debt /\ debt' = FALSE /\ UNCHANGED <<phase, outcome>>
               \/ /\ phase = "busy" /\ phase' = "idle"
                  /\ outcome' = (IF debt THEN "foreign" ELSE "own")
                  /\ debt' \in {FALSE, debt}
               \/ /\ phase = "busy" /\ phase' = "idle"
                  /\ outcome' = "timeout" /\ debt' \in BOOLEAN
    BY DEF Service!Next, Service!vars, Service!Request, Service!Settle,
           Service!Succeed, Service!GiveUp
  <1>0. quiet \in BOOLEAN /\ (moved < total) \in BOOLEAN
    BY DEF SInv, OwnerInv
  <1>1. ASSUME NEW n \in Lens, Client(n)
        PROVE  phase = "idle" /\ phase' = "busy" /\ outcome' = "none" /\ UNCHANGED debt
    BY <1>0, <1>1 DEF Client, Active
  <1>2. CASE Enter
    BY <1>2 DEF Enter, history
  <1>3. CASE Test
    <2>1. CASE Finished
      <3>1. /\ phase = "busy" /\ phase' = "idle" /\ debt = ~quiet /\ debt' = Active
            /\ outcome' = IF owner = call /\ Own(data) THEN "own" ELSE "foreign"
        BY <1>3, <2>1 DEF Test, hw, Active
      <3>2. IF quiet THEN owner = call /\ Own(data) /\ ~Active
                     ELSE ~(owner = call /\ Own(data))
        BY <1>3, <2>1, HowItEnds DEF Test
      <3>3. Active \in BOOLEAN
        BY <1>0 DEF Active
      <3> QED BY <1>0, <3>1, <3>2, <3>3
    <2>2. CASE ~Finished
      BY <1>3, <2>2 DEF Test
    <2> QED BY <2>1, <2>2
  <1>4. CASE TakeWord
    BY <1>4 DEF TakeWord, history
  <1>5. CASE PushWord
    BY <1>5 DEF PushWord, history
  <1>6. CASE PollTXD
    BY <1>6 DEF PollTXD, history
  <1>7. CASE Limit
    <2>1. pc \in {"stalled", "limit"} /\ quiet' = quiet
      BY <1>7, NoAccessError DEF SInv
    <2>2. CASE GiveUp
      <3>1. pc' = "idle" /\ outcome' = "timeout"
        BY <2>2 DEF GiveUp, Leave
      <3>2. debt' \in BOOLEAN
        BY <3>1 DEF Active
      <3> QED BY <2>1, <3>1, <3>2
    <2>3. CASE pc' \in {"txd?", "test"} /\ outcome' = outcome
      BY <2>1, <2>3
    <2> QED BY <1>7, <2>1, <2>2, <2>3, NoAccessError DEF SInv
  <1>8. CASE BusMove
    <2>1. UNCHANGED <<pc, quiet, outcome>> /\ Active /\ Active' \in BOOLEAN
      BY <1>8 DEF BusMove, driver, history, Active
    <2>2. CASE pc = "idle"
      BY <1>0, <2>1, <2>2 DEF Active
    <2>3. CASE pc # "idle"
      BY <2>1, <2>3
    <2> QED BY <2>2, <2>3
  <1>9. CASE Clock
    BY <1>9 DEF Clock, hw, history, Active
  <1>10. CASE UNCHANGED vars
    BY <1>10 DEF vars, hw, driver, history, Active
  <1> QED BY ONLY <1>1, <1>2, <1>3, <1>4, <1>5, <1>6, <1>7, <1>8, <1>9, <1>10, [Next]_vars
          DEF Next, Loop

\* smi_read_await and smi_write_await of smilite.h (smilite.h:556-712): they too end a
\* call with its own words, with a timeout, or, only while a transfer given up on holds
\* the controller, with words of that one.
THEOREM LiteKeepsThePromise == Spec => Service!Init /\ [][Service!Next]_(Service!vars)
  <1>1. Spec => []SInv
    BY SInvInit, SInvNext, PTL DEF Spec
  <1> QED BY <1>1, ServiceInit, ServiceNext, PTL DEF Spec
=============================================================================
