-------------------------- MODULE DmaTransferProofs --------------------------
(***************************************************************************)
(* Theorems about DmaTransfer, for all lengths, ratios, channels and       *)
(* numbers of calls.                                                       *)
(***************************************************************************)
EXTENDS DmaTransfer, SequenceTheorems, TLAPS

Channel == [active : BOOLEAN, end : BOOLEAN, left : Nat, pos : Nat]

PackRatio ==
    {r \in [read : Nat \ {0}, out_pixels : Nat \ {0}] : r.read <= r.out_pixels}

LEMMA RatiosPack == Ratios \subseteq PackRatio
  BY DmaConstants DEF PackRatio

\* The types the control of a transfer rests on: the channels, and the length in the
\* control block, in memory and in the cache.
CallTypes ==
    /\ op \in {"read", "write"} /\ len \in Nat /\ ratio \in PackRatio
    /\ pc \in {"idle", "setup", "smi", "dma", "await", "late?"}
    /\ channel \in Channels \cup {0}

BlockTypes ==
    /\ DOMAIN mem = Regions /\ DOMAIN cache = Regions
    /\ mem["cb"] \in Nat /\ \A v \in cache["cb"] : v \in Nat

ChannelTypes == chan \in [Engines -> Channel]

\* A transfer has at most a FIFO word a sample, and at least one.
LEMMA WordReadsBounds ==
    ASSUME NEW n \in Nat, NEW r \in PackRatio
    PROVE  /\ word_reads(n, r) \in Nat /\ word_reads(n, r) <= n
           /\ n > 0 => word_reads(n, r) > 0
  <1> DEFINE p == r.out_pixels
             m == n * r.read
             q == (m + p - 1) \div p
  <1>0. r.read \in Nat \ {0} /\ p \in Nat \ {0} /\ r.read <= p
    BY DEF PackRatio
  <1>1. m \in Nat /\ m <= n * p /\ (n > 0 => m > 0)
    <2> DEFINE k == r.read
    <2>1. k \in Nat \ {0} /\ p \in Nat \ {0} /\ k <= p /\ m = n * k
      BY <1>0
    <2> HIDE DEF k, m, p
    <2>2. n * k \in Nat /\ n * k <= n * p
      BY ONLY <2>1, n \in Nat
    <2>3. n > 0 => n * k > 0
      BY ONLY <2>1, n \in Nat
    <2> QED BY <2>1, <2>2, <2>3
  <1>2. word_reads(n, r) = q
    BY DEF word_reads
  <1> HIDE DEF m, p
  <1>3. q \in Int /\ q * p <= m + p - 1 /\ m + p - 1 < q * p + p
    BY <1>0, <1>1, SMT
  <1> HIDE DEF q
  <1>4. q >= 0
    <2>1. CASE q <= -1
      <3>1. q * p <= -p
        BY <1>0, <1>3, <2>1
      <3> QED BY <1>0, <1>1, <1>3, <3>1
    <2> QED BY <1>3, <2>1
  <1>5. q <= n
    <2>1. CASE q >= n + 1
      <3>1. q * p >= (n + 1) * p
        BY <1>0, <1>3, <2>1
      <3>2. (n + 1) * p = n * p + p
        BY <1>0
      <3>3. n * p \in Int /\ q * p \in Int
        BY <1>0, <1>3
      <3> QED BY ONLY <1>0, <1>1, <1>3, <3>1, <3>2, <3>3
    <2> QED BY <1>3, <2>1
  <1>6. n > 0 => q > 0
    <2>1. CASE q <= 0 /\ n > 0
      <3>1. q = 0
        BY <1>3, <1>4, <2>1
      <3>2. m + p - 1 < p
        BY <1>0, <1>3, <3>1
      <3> QED BY <1>0, <1>1, <2>1, <3>2
    <2> QED BY <1>3, <2>1
  <1> QED BY <1>2, <1>3, <1>4, <1>5, <1>6

LEMMA BlockWordsNat == ASSUME CallTypes PROVE BlockWords \in Nat
  BY WordReadsBounds DEF BlockWords, BusWords, CallTypes

LEMMA ViewNat == ASSUME BlockTypes PROVE View("cb") \in Nat
  <1>1. CASE cache["cb"] = {}
    BY <1>1 DEF View, BlockTypes
  <1>2. CASE cache["cb"] # {}
    <2>1. (CHOOSE v \in cache["cb"] : TRUE) \in cache["cb"]
      BY <1>2
    <2> QED BY <1>2, <2>1 DEF View, BlockTypes
  <1> QED BY <1>1, <1>2

LEMMA CallTypesNext == CallTypes /\ [Next]_vars => CallTypes'
  <1> SUFFICES ASSUME CallTypes, [Next]_vars PROVE CallTypes'
    OBVIOUS
  <1> USE DEF CallTypes
  <1>1. ASSUME NEW n \in Lens, NEW r \in Ratios, NEW c \in Channels, Client(n, r, c)
        PROVE  CallTypes'
    BY <1>1, DmaConstants, RatiosPack DEF Client
  <1>2. CASE smi_dma_setup
    BY <1>2 DEF smi_dma_setup, driver
  <1>3. CASE SetUp
    BY <1>3 DEF SetUp
  <1>4. CASE smi_start
    BY <1>4 DEF smi_start
  <1>5. CASE start_dma
    BY <1>5 DEF start_dma
  <1>6. CASE Poll
    BY <1>6 DEF Poll
  <1>7. CASE timeout_complete
    BY <1>7 DEF timeout_complete
  <1>8. ASSUME UNCHANGED <<op, pc, len, ratio, channel>> PROVE CallTypes'
    BY <1>8
  <1>9. ASSUME NEW c \in Engines, DmaMove(c) PROVE CallTypes'
    BY <1>8, <1>9 DEF DmaMove, driver
  <1>10. ASSUME NEW r \in Regions, WriteBack(r) PROVE CallTypes'
    BY <1>8, <1>10 DEF WriteBack, driver
  <1>11. CASE BusMove \/ Clock \/ UNCHANGED vars
    BY <1>8, <1>11 DEF BusMove, Clock, vars, driver
  <1> QED
    BY ONLY <1>1, <1>2, <1>3, <1>4, <1>5, <1>6, <1>7, <1>9, <1>10, <1>11, [Next]_vars
       DEF Next, CallStep

LEMMA CpuWriteBlock ==
    ASSUME BlockTypes, NEW n \in Nat, NEW R \in SUBSET Regions,
           NEW STATE new, new["cb"] = n, CpuWrite(R, new)
    PROVE  BlockTypes'
  <1>1. CASE build = "cached"
    BY <1>1 DEF CpuWrite, BlockTypes, Regions
  <1>2. CASE build # "cached"
    BY <1>2 DEF CpuWrite, BlockTypes, Regions
  <1> QED BY <1>1, <1>2

LEMMA SyncBlock == ASSUME BlockTypes, sync_for_cpu PROVE BlockTypes'
  <1>1. PICK cleaned \in SUBSET Regions :
          /\ mem' = [r \in Regions |-> IF r \in cleaned THEN View(r) ELSE mem[r]]
          /\ cache' = [r \in Regions |-> {}]
    BY DEF sync_for_cpu
  <1>2. "cb" \in Regions
    BY DEF Regions
  <1>3. mem'["cb"] \in Nat
    BY <1>1, <1>2, ViewNat DEF BlockTypes
  <1>4. DOMAIN mem' = Regions /\ DOMAIN cache' = Regions /\ cache'["cb"] = {}
    BY <1>1, <1>2
  <1> QED BY <1>3, <1>4 DEF BlockTypes

LEMMA BlockTypesNext == CallTypes /\ BlockTypes /\ [Next]_vars => BlockTypes'
  <1> SUFFICES ASSUME CallTypes, BlockTypes, [Next]_vars PROVE BlockTypes'
    OBVIOUS
  <1>1. ASSUME NEW n \in Lens, NEW r \in Ratios, NEW c \in Channels, Client(n, r, c)
        PROVE  BlockTypes'
    <2> DEFINE new == [Blank EXCEPT !.data = [i \in 1..MaxWord |->
                         IF op = "write" /\ i <= n THEN <<call', i>> ELSE <<0, 0>>]]
    <2>1. CpuWrite(Regions, new)
      BY <1>1 DEF Client
    <2>2. new["cb"] = 0
      BY DEF Blank
    <2> HIDE DEF new
    <2>3. CASE build = "cached"
      BY <2>1, <2>2, <2>3 DEF CpuWrite, BlockTypes, Regions
    <2>4. CASE build # "cached"
      BY <2>1, <2>2, <2>4 DEF CpuWrite, BlockTypes, Regions
    <2> QED BY <2>3, <2>4
  <1>2. CASE SetUp
    <2>1. CpuWrite({"cb"}, [Blank EXCEPT !.cb = BlockWords])
      BY <1>2 DEF SetUp
    <2>2. [Blank EXCEPT !.cb = BlockWords]["cb"] = BlockWords
      BY DEF Blank
    <2> QED BY <2>1, <2>2, BlockWordsNat, CpuWriteBlock DEF Regions
  <1>3. CASE start_dma
    <2>1. CASE sync_for_cpu
      BY <2>1, SyncBlock
    <2>2. CASE UNCHANGED memory
      BY <2>2 DEF memory, BlockTypes
    <2> QED BY <1>3, <2>1, <2>2 DEF start_dma
  <1>4. ASSUME UNCHANGED memory PROVE BlockTypes'
    BY <1>4 DEF memory, BlockTypes
  <1>5. CASE smi_dma_setup \/ smi_start \/ Poll \/ timeout_complete \/ BusMove \/ Clock
    BY <1>4, <1>5 DEF smi_dma_setup, smi_start, Poll, timeout_complete, BusMove, Clock
  <1>6. ASSUME NEW c \in Engines, DmaMove(c) PROVE BlockTypes'
    BY <1>6 DEF DmaMove, BlockTypes, Regions
  <1>7. ASSUME NEW r \in Regions, WriteBack(r) PROVE BlockTypes'
    BY <1>7, ViewNat DEF WriteBack, BlockTypes, Regions
  <1>8. CASE UNCHANGED vars
    BY <1>4, <1>8 DEF vars
  <1> QED
    BY ONLY <1>1, <1>2, <1>3, <1>5, <1>6, <1>7, <1>8, [Next]_vars DEF Next, CallStep

LEMMA ChannelTypesNext == CallTypes /\ BlockTypes /\ ChannelTypes /\ [Next]_vars => ChannelTypes'
  <1> SUFFICES ASSUME CallTypes, BlockTypes, ChannelTypes, [Next]_vars PROVE ChannelTypes'
    OBVIOUS
  <1> USE DEF ChannelTypes
  <1>0. 0 \in Engines
    BY DEF Engines
  <1>1. CASE start_dma
    <2>1. ASSUME sync_for_cpu, channel \in Engines
          PROVE  [chan EXCEPT ![channel] = Launched(channel)] \in [Engines -> Channel]
      <3>1. mem'.cb \in Nat
        BY <2>1, SyncBlock DEF BlockTypes
      <3>2. Launched(channel) \in Channel
        BY <3>1 DEF Launched, Channel
      <3> QED BY <2>1, <3>2
    <2>2. channel <= 14 => channel \in Engines
      BY DEF CallTypes, Engines
    <2>3. \/ UNCHANGED chan
          \/ /\ ~(channel > 14) /\ sync_for_cpu
             /\ chan' = [chan EXCEPT ![channel] = Launched(channel)]
      BY <1>1 DEF start_dma
    <2>4. channel \in Nat
      BY DmaConstants DEF CallTypes
    <2> QED BY <2>1, <2>2, <2>3, <2>4
  <1>2. CASE timeout_complete
    <2>1. ASSUME NEW e \in BOOLEAN PROVE Aborted(e) \in [Engines -> Channel]
      BY <1>0, <2>1 DEF Aborted, Channel
    <2> QED BY <1>2, <2>1 DEF timeout_complete
  <1>3. ASSUME NEW c \in Engines, DmaMove(c) PROVE ChannelTypes'
    <2>1. chan[c] \in Channel
      BY <1>3
    <2>2. chan' = [chan EXCEPT ![c] =
                     [active |-> chan[c].left > 1, end |-> chan[c].end \/ chan[c].left <= 1,
                      left |-> IF chan[c].left = 0 THEN 0 ELSE chan[c].left - 1,
                      pos |-> chan[c].pos + 1]]
      BY <1>3, <2>1 DEF DmaMove, Moved
    <2>3. /\ (chan[c].left > 1) \in BOOLEAN /\ (chan[c].end \/ chan[c].left <= 1) \in BOOLEAN
      OBVIOUS
    <2>4. /\ (IF chan[c].left = 0 THEN 0 ELSE chan[c].left - 1) \in Nat
          /\ chan[c].pos + 1 \in Nat
      BY <2>1 DEF Channel
    <2> QED BY <2>2, <2>3, <2>4 DEF Channel
  <1>4. ASSUME UNCHANGED chan PROVE ChannelTypes'
    BY <1>4
  <1>5. ASSUME NEW n \in Lens, NEW r \in Ratios, NEW c \in Channels, Client(n, r, c)
        PROVE  ChannelTypes'
    BY <1>4, <1>5 DEF Client
  <1>6. CASE smi_dma_setup \/ SetUp \/ smi_start \/ Poll \/ BusMove \/ Clock
    BY <1>4, <1>6 DEF smi_dma_setup, SetUp, smi_start, Poll, BusMove, Clock
  <1>7. ASSUME NEW r \in Regions, WriteBack(r) PROVE ChannelTypes'
    BY <1>4, <1>7 DEF WriteBack
  <1>8. CASE UNCHANGED vars
    BY <1>4, <1>8 DEF vars
  <1> QED
    BY ONLY <1>1, <1>2, <1>3, <1>5, <1>6, <1>7, <1>8, [Next]_vars DEF Next, CallStep

-----------------------------------------------------------------------------
(* Channel 0 *)

\* END and ACTIVE exclude one another, and channel 0 runs only between its launch and
\* the end of the wait.
ZeroInv ==
    /\ ~(chan[0].active /\ chan[0].end)
    /\ chan[0].active => pc \in {"await", "late?"} \/ (pc = "smi" /\ op = "read")
    /\ refused => channel # 0

IInv == CallTypes /\ BlockTypes /\ ChannelTypes /\ ZeroInv

LEMMA IInvInit == Init => IInv
  <1> SUFFICES ASSUME Init PROVE IInv
    OBVIOUS
  <1>1. CallTypes
    BY DEF Init, CallTypes, PackRatio
  <1>2. BlockTypes
    BY DEF Init, BlockTypes, Blank, Regions
  <1>3. 0 \in Engines
    BY DEF Engines
  <1>4. chan = [c \in Engines |-> [active |-> FALSE, end |-> FALSE, left |-> 0, pos |-> 0]]
    BY DEF Init
  <1>5. ChannelTypes
    BY <1>4 DEF ChannelTypes, Channel
  <1>6. ZeroInv
    BY <1>3, <1>4 DEF Init, ZeroInv
  <1> QED BY <1>1, <1>2, <1>5, <1>6 DEF IInv

LEMMA ZeroInvNext == IInv /\ [Next]_vars => ZeroInv'
  <1> SUFFICES ASSUME IInv, [Next]_vars PROVE ZeroInv'
    OBVIOUS
  <1> USE DEF ZeroInv
  <1>0. /\ 0 \in Engines /\ chan \in [Engines -> Channel] /\ ZeroInv /\ CallTypes
        /\ channel \in Nat
    BY DmaConstants DEF IInv, ChannelTypes, CallTypes, Engines
  <1>1. ASSUME NEW n \in Lens, NEW r \in Ratios, NEW c \in Channels, Client(n, r, c)
        PROVE  ZeroInv'
    BY <1>0, <1>1 DEF Client
  <1>2. CASE smi_dma_setup
    BY <1>0, <1>2 DEF smi_dma_setup, driver
  <1>3. CASE SetUp
    BY <1>0, <1>3 DEF SetUp
  <1>4. CASE smi_start
    BY <1>0, <1>4 DEF smi_start, history, CallTypes
  <1>5. CASE start_dma
    <2>1. pc = "dma" /\ ~chan[0].active /\ op' = op /\ channel' = channel
          /\ pc' = (IF op = "write" THEN "await" ELSE "smi")
      BY <1>0, <1>5 DEF start_dma
    <2>2. CASE channel > 14
      BY <1>0, <1>5, <2>1, <2>2 DEF start_dma
    <2>3. CASE ~(channel > 14)
      <3>1. refused' => channel # 0
        BY <1>5, <2>1, <2>3 DEF start_dma
      <3>2. \/ chan' = chan
            \/ chan' = [chan EXCEPT ![channel] = Launched(channel)]
        BY <1>5, <2>3 DEF start_dma
      <3>3. ~(chan'[0].active /\ chan'[0].end)
        BY <1>0, <3>2 DEF Launched
      <3> QED BY <1>0, <2>1, <3>1, <3>3 DEF CallTypes
    <2> QED BY <2>2, <2>3
  <1>6. CASE Poll
    BY <1>0, <1>6 DEF Poll, history
  <1>7. CASE timeout_complete
    <2>1. ASSUME NEW e \in BOOLEAN, chan' = Aborted(e) PROVE ~chan'[0].active
      BY <1>0, <2>1 DEF Aborted, Channel
    <2>2. UNCHANGED <<refused, channel, op>> /\ pc = "late?"
      BY <1>7 DEF timeout_complete, history
    <2>3. \/ pc' = "await" /\ chan' = chan
          \/ pc' = "idle" /\ \E e \in BOOLEAN : chan' = Aborted(e)
      BY <1>7 DEF timeout_complete
    <2> QED BY <1>0, <2>1, <2>2, <2>3
  <1>8. ASSUME NEW c \in Engines, DmaMove(c) PROVE ZeroInv'
    <2>1. UNCHANGED <<pc, op, refused, channel>>
      BY <1>8 DEF DmaMove, driver, history
    <2>2. CASE c # 0
      <3>1. chan'[0] = chan[0]
        BY <1>0, <1>8, <2>2 DEF DmaMove, Moved
      <3> QED BY <1>0, <2>1, <3>1
    <2>3. CASE c = 0
      <3>1. chan[0].active /\ chan[0] \in Channel
        BY <1>0, <1>8, <2>3 DEF DmaMove
      <3>2. /\ chan'[0].active <=> chan[0].left > 1
            /\ chan'[0].end <=> chan[0].end \/ chan[0].left <= 1
        BY <1>0, <1>8, <2>3 DEF DmaMove, Moved
      <3>3. chan[0].left \in Nat
        BY <3>1 DEF Channel
      <3> QED BY <1>0, <2>1, <3>1, <3>2, <3>3
    <2> QED BY <2>2, <2>3
  <1>9. ASSUME UNCHANGED <<chan, pc, op, refused, channel>> PROVE ZeroInv'
    BY <1>0, <1>9
  <1>10. CASE BusMove \/ Clock \/ UNCHANGED vars
    BY <1>9, <1>10 DEF BusMove, Clock, vars, driver, history
  <1>11. ASSUME NEW r \in Regions, WriteBack(r) PROVE ZeroInv'
    BY <1>9, <1>11 DEF WriteBack, driver, history
  <1> QED
    BY ONLY <1>1, <1>2, <1>3, <1>4, <1>5, <1>6, <1>7, <1>8, <1>10, <1>11, [Next]_vars
       DEF Next, CallStep

\* smi_dma_await never leaves channel 0 running, whatever channels the calls name, so
\* that start_dma never refuses channel 0.
THEOREM ZeroIsFree == Spec => []ChannelZeroFree
  <1>1. IInv /\ [Next]_vars => IInv'
    BY CallTypesNext, BlockTypesNext, ChannelTypesNext, ZeroInvNext DEF IInv
  <1>2. IInv => ChannelZeroFree
    BY DEF IInv, ZeroInv, ChannelZeroFree
  <1> QED BY IInvInit, <1>1, <1>2, PTL DEF Spec

-----------------------------------------------------------------------------
(* Whose words a transfer moves: the invariant *)

Word     == Nat \X Nat
Payloads == [1..MaxWord -> Word]

BufferTypes ==
    /\ mem["cb"] <= MaxWord /\ \A v \in cache["cb"] : v <= MaxWord
    /\ mem["data"] \in Payloads /\ cache["data"] \subseteq Payloads

\* Nothing but words, and no channel reaches beyond the payload.
DataTypes ==
    /\ build \in {"coherent", "cached"} /\ len <= MaxWord
    /\ call \in Nat /\ owner \in Nat /\ moved \in Nat /\ total \in Nat
    /\ fifo \in Seq(Word) /\ sent \in Seq(Word)
    /\ BufferTypes
    /\ \A c \in Engines : chan[c].active => chan[c].pos + chan[c].left <= MaxWord

\* Has this call started the SMI, and has it handed the buffer to its channel?
Begun  == pc \in {"await", "late?", "idle"} \/ (pc = "dma" /\ op = "write")
Handed == pc \in {"await", "late?", "idle"} \/ (pc = "smi" /\ op = "read")

CallInv ==
    /\ owner <= call /\ (~Begun => owner < call)
    /\ pc # "idle" => len > 0

\* What a write hands over.
Payload == [i \in 1..MaxWord |-> IF i <= len THEN <<call, i>> ELSE <<0, 0>>]

\* Until it hands the buffer over, the program sees in it what it wrote.
BufferInv ==
    /\ build # "cached" => \A r \in Regions : cache[r] = {}
    /\ ~Handed /\ op = "write" => View("data") = Payload
    /\ ~Handed /\ pc # "setup" => View("cb") = BlockWords

\* A call set up on idle hardware has it to itself.
QuietInv ==
    quiet /\ pc # "setup" =>
      /\ \A c \in Engines : chan[c].active => Handed /\ c = channel
      /\ IF Begun THEN owner = call /\ moved = Len(sent) ELSE ~Active /\ fifo = <<>>
      /\ op = "write" /\ Begun /\ ~Handed => sent = <<>> /\ fifo = <<>>
      /\ op = "read" /\ Begun => \A i \in 1..Len(sent) : sent[i] = <<call, i>>

\* Words its channel has moved; a channel out of range moves none.
Pos == IF channel \in Engines THEN chan[channel].pos ELSE 0

\* The words of a write are those on the bus, those in the FIFO, and those its channel
\* still has to fetch from a buffer that holds the payload.
WriteFlow ==
    /\ Len(sent) + Len(fifo) = Pos
    /\ \A i \in 1..Len(sent) : sent[i] = <<call, i>>
    /\ \A i \in 1..Len(fifo) : fifo[i] = <<call, Len(sent) + i>>
    /\ channel \in Engines => mem["data"] = Payload

\* The words of a read are those in memory, those in the FIFO, and those the SMI still
\* has to fetch.
ReadFlow ==
    /\ pc = "smi" => Pos = 0
    /\ pc # "smi" => moved = Pos + Len(fifo)
    /\ \A i \in 1..Len(fifo) : fifo[i] = <<call, Pos + i>>
    /\ \A i \in 1..Pos : mem["data"][i] = <<call, i>>

\* Its channel was given the whole transfer, and ends with the last word.
ChannelFlow ==
    /\ \A r \in Regions : cache[r] = {}
    /\ chan[channel].pos + chan[channel].left = BlockWords
    /\ chan[channel].active => chan[channel].left > 0
    /\ channel = 0 /\ (IF pc = "idle" THEN ret = 1 ELSE chan[0].end) => chan[0].left = 0

FlowInv ==
    quiet /\ Handed /\ ~lost =>
      /\ IF op = "write" THEN WriteFlow ELSE ReadFlow
      /\ channel \in Engines => ChannelFlow

\* An uncached buffer loses nothing.
LostInv == build # "cached" => ~lost

DInv == IInv /\ DataTypes /\ CallInv /\ BufferInv /\ QuietInv /\ LostInv /\ FlowInv

LEMMA MaxWordIs == MaxWord \in Lens /\ MaxWord \in Nat \ {0} /\ \A m \in Lens : m <= MaxWord
  BY DmaConstants DEF MaxWord

LEMMA BlockWordsBounds ==
    ASSUME CallTypes, DataTypes
    PROVE  /\ BlockWords \in Nat /\ BlockWords <= MaxWord
           /\ len > 0 => BlockWords > 0
  <1>1. /\ word_reads(len, ratio) \in Nat /\ word_reads(len, ratio) <= len
        /\ len > 0 => word_reads(len, ratio) > 0
    BY WordReadsBounds DEF CallTypes
  <1> QED BY <1>1, MaxWordIs DEF BlockWords, BusWords, CallTypes, DataTypes

LEMMA PayloadIs == ASSUME len \in Nat, call \in Nat PROVE Payload \in Payloads
  BY DEF Payload, Payloads, Word

\* What the CPU sees of a region is in memory or in the cache.
LEMMA ViewIn ==
    ASSUME NEW r \in Regions
    PROVE  (cache[r] = {} /\ View(r) = mem[r]) \/ View(r) \in cache[r]
  BY DEF View

\* The CPU sees what it has written, and what it has not written stays.
LEMMA ViewWritten ==
    ASSUME BlockTypes, build # "cached" => \A r \in Regions : cache[r] = {},
           NEW R \in SUBSET Regions, NEW ACTION new, CpuWrite(R, new), NEW r \in Regions
    PROVE  View(r)' = IF r \in R THEN new[r] ELSE View(r)
  <1>1. CASE build = "cached"
    <2>1. cache'[r] = (IF r \in R THEN {new[r]} ELSE cache[r]) /\ mem'[r] = mem[r]
      BY <1>1 DEF CpuWrite
    <2>2. \A x : (CHOOSE v \in {x} : TRUE) = x
      OBVIOUS
    <2>3. CASE r \in R
      <3>1. cache'[r] = {new[r]}
        BY <2>1, <2>3
      <3>2. View(r)' = (CHOOSE v \in {new[r]} : TRUE)
        BY <3>1 DEF View
      <3> QED BY <2>2, <2>3, <3>2
    <2>4. CASE r \notin R
      BY <2>1, <2>4 DEF View
    <2> QED BY <2>3, <2>4
  <1>2. CASE build # "cached"
    <2>1. mem'[r] = (IF r \in R THEN new[r] ELSE mem[r]) /\ cache'[r] = {} /\ cache[r] = {}
      BY <1>2 DEF CpuWrite
    <2> QED BY <2>1 DEF View
  <1> QED BY <1>1, <1>2

LEMMA CpuWriteTypes ==
    ASSUME BlockTypes, BufferTypes, NEW R \in SUBSET Regions, NEW ACTION new,
           "cb" \in R => new["cb"] <= MaxWord, "data" \in R => new["data"] \in Payloads,
           CpuWrite(R, new)
    PROVE  BufferTypes'
  <1>0. "cb" \in Regions /\ "data" \in Regions
    BY DEF Regions
  <1>1. CASE build = "cached"
    <2>1. /\ cache'["cb"] = (IF "cb" \in R THEN {new["cb"]} ELSE cache["cb"])
          /\ cache'["data"] = (IF "data" \in R THEN {new["data"]} ELSE cache["data"])
          /\ mem' = mem
      BY <1>0, <1>1 DEF CpuWrite
    <2> QED BY <2>1 DEF BufferTypes
  <1>2. CASE build # "cached"
    <2>1. /\ mem'["cb"] = (IF "cb" \in R THEN new["cb"] ELSE mem["cb"])
          /\ mem'["data"] = (IF "data" \in R THEN new["data"] ELSE mem["data"])
          /\ cache' = cache
      BY <1>0, <1>2 DEF CpuWrite
    <2> QED BY <2>1 DEF BufferTypes
  <1> QED BY <1>1, <1>2

LEMMA ViewTypes == ASSUME BufferTypes PROVE View("cb") <= MaxWord /\ View("data") \in Payloads
  <1>1. "cb" \in Regions /\ "data" \in Regions
    BY DEF Regions
  <1>2. View("cb") <= MaxWord
    BY <1>1, ViewIn DEF BufferTypes
  <1>3. View("data") \in Payloads
    BY <1>1, ViewIn DEF BufferTypes
  <1> QED BY <1>2, <1>3

\* The sync moves a region the CPU sees to memory or forgets it, and leaves the cache empty.
LEMMA Synced ==
    ASSUME sync_for_cpu
    PROVE  /\ \A r \in Regions : cache'[r] = {} /\ mem'[r] \in {View(r), mem[r]}
           /\ ~lost' => mem'["cb"] = View("cb") /\ (op = "write" => mem'["data"] = View("data"))
  <1>1. PICK cleaned \in SUBSET Regions :
          /\ mem' = [r \in Regions |-> IF r \in cleaned THEN View(r) ELSE mem[r]]
          /\ cache' = [r \in Regions |-> {}]
          /\ lost' = (mem'.cb # View("cb") \/ (op = "write" /\ mem'.data # View("data")))
    BY DEF sync_for_cpu
  <1>2. ASSUME NEW r \in Regions PROVE cache'[r] = {} /\ mem'[r] \in {View(r), mem[r]}
    BY <1>1
  <1>3. ~lost' => mem'["cb"] = View("cb") /\ (op = "write" => mem'["data"] = View("data"))
    BY ONLY <1>1
  <1> QED BY <1>2, <1>3

LEMMA SyncTypes == ASSUME BufferTypes, sync_for_cpu PROVE BufferTypes'
  <1>1. "cb" \in Regions /\ "data" \in Regions
    BY DEF Regions
  <1>2. /\ cache'["cb"] = {} /\ cache'["data"] = {}
        /\ mem'["cb"] \in {View("cb"), mem["cb"]}
        /\ mem'["data"] \in {View("data"), mem["data"]}
    BY <1>1, Synced
  <1> QED BY <1>2, ViewTypes DEF BufferTypes

\* What a channel does to memory and FIFO when it moves a word.
LEMMA MoveEffect ==
    ASSUME ChannelTypes, BlockTypes, DataTypes, NEW c \in Engines, DmaMove(c)
    PROVE  /\ chan' = [chan EXCEPT ![c] = chan'[c]]
           /\ chan'[c].pos = chan[c].pos + 1 /\ (chan'[c].active <=> chan[c].left > 1)
           /\ chan'[c].left = (IF chan[c].left = 0 THEN 0 ELSE chan[c].left - 1)
           /\ (chan'[c].end <=> chan[c].end \/ chan[c].left <= 1)
           /\ chan[c].left # 0 => chan[c].pos + 1 \in 1..MaxWord
           /\ cache' = cache /\ DOMAIN mem' = Regions /\ mem'["cb"] = mem["cb"]
           /\ \/ UNCHANGED <<fifo, mem>> /\ chan[c].left = 0
              \/ /\ op = "write" /\ chan[c].left # 0 /\ mem' = mem
                 /\ fifo' = Append(fifo, mem["data"][chan[c].pos + 1])
              \/ /\ op = "read" /\ chan[c].left # 0 /\ fifo # <<>> /\ fifo' = Tail(fifo)
                 /\ mem'["data"] = [mem["data"] EXCEPT ![chan[c].pos + 1] = Head(fifo)]
  <1>1. chan \in [Engines -> Channel] /\ chan[c] \in Channel
    BY DEF ChannelTypes
  <1>2. chan' = [chan EXCEPT ![c] =
                   [active |-> chan[c].left > 1, end |-> chan[c].end \/ chan[c].left <= 1,
                    left |-> IF chan[c].left = 0 THEN 0 ELSE chan[c].left - 1,
                    pos |-> chan[c].pos + 1]]
    BY <1>1 DEF DmaMove, Moved
  <1>3. /\ chan' = [chan EXCEPT ![c] = chan'[c]]
        /\ chan'[c].pos = chan[c].pos + 1 /\ (chan'[c].active <=> chan[c].left > 1)
        /\ chan'[c].left = (IF chan[c].left = 0 THEN 0 ELSE chan[c].left - 1)
        /\ (chan'[c].end <=> chan[c].end \/ chan[c].left <= 1)
    BY <1>1, <1>2
  <1>4. chan[c].left # 0 => chan[c].pos + 1 \in 1..MaxWord
    <2>1. chan[c].active /\ chan[c].pos + chan[c].left <= MaxWord
      BY DEF DmaMove, DataTypes
    <2> QED BY <1>1, <2>1, MaxWordIs DEF Channel
  <1>5. /\ cache' = cache /\ DOMAIN mem' = Regions /\ mem'["cb"] = mem["cb"]
        /\ \/ UNCHANGED <<fifo, mem>> /\ chan[c].left = 0
           \/ /\ op = "write" /\ chan[c].left # 0 /\ mem' = mem
              /\ fifo' = Append(fifo, mem["data"][chan[c].pos + 1])
           \/ /\ op = "read" /\ chan[c].left # 0 /\ fifo # <<>> /\ fifo' = Tail(fifo)
              /\ mem'["data"] = [mem["data"] EXCEPT ![chan[c].pos + 1] = Head(fifo)]
    <2>1. "data" \in Regions /\ "cb" \in Regions
      BY DEF Regions
    <2>2. CASE chan[c].left = 0
      BY <1>1, <2>1, <2>2 DEF DmaMove, BlockTypes, Channel
    <2>3. CASE chan[c].left # 0
      <3>1. \/ op = "write" /\ mem' = mem /\ fifo' = Append(fifo, mem["data"][chan[c].pos + 1])
            \/ /\ op = "read" /\ fifo # <<>> /\ fifo' = Tail(fifo)
               /\ mem' = [mem EXCEPT !["data"] = [mem["data"] EXCEPT ![chan[c].pos + 1] = Head(fifo)]]
        BY <1>1, <2>3 DEF DmaMove
      <3> QED BY <2>1, <2>3, <3>1 DEF DmaMove, BlockTypes
    <2> QED BY <2>2, <2>3
  <1> QED BY <1>3, <1>4, <1>5

LEMMA BufferTypesNext ==
    CallTypes /\ BlockTypes /\ ChannelTypes /\ DataTypes /\ [Next]_vars => BufferTypes'
  <1> SUFFICES ASSUME CallTypes, BlockTypes, ChannelTypes, DataTypes, [Next]_vars
               PROVE  BufferTypes'
    OBVIOUS
  <1>0. BufferTypes
    BY DEF DataTypes
  <1>1. ASSUME NEW n \in Lens, NEW r \in Ratios, NEW c \in Channels, Client(n, r, c)
        PROVE  BufferTypes'
    <2> DEFINE data == [i \in 1..MaxWord |-> IF op = "write" /\ i <= n
                                               THEN <<call', i>> ELSE <<0, 0>>]
               new  == [Blank EXCEPT !.data = data]
    <2>1. CpuWrite(Regions, new)
      BY <1>1 DEF Client
    <2>2. data \in Payloads
      <3>1. call' \in Nat
        BY <1>1 DEF Client, DataTypes
      <3>2. <<call', 0>> \in Word /\ <<0, 0>> \in Word /\ \A i \in 1..MaxWord : <<call', i>> \in Word
        BY ONLY <3>1, MaxWordIs DEF Word
      <3> QED BY ONLY <3>2 DEF Payloads
    <2>3. new["cb"] = 0 /\ new["data"] = data
      BY DEF Blank
    <2> HIDE DEF new, data
    <2>4. /\ BlockTypes /\ Regions \in SUBSET Regions
          /\ new["cb"] <= MaxWord /\ new["data"] \in Payloads
      BY <2>2, <2>3, MaxWordIs
    <2> QED BY ONLY <1>0, <2>1, <2>4, CpuWriteTypes
  <1>2. CASE SetUp
    <2> DEFINE new == [Blank EXCEPT !.cb = BlockWords]
    <2>1. CpuWrite({"cb"}, new)
      BY <1>2 DEF SetUp
    <2>2. new["cb"] = BlockWords
      BY DEF Blank
    <2>3. {"cb"} \in SUBSET Regions
      BY DEF Regions
    <2> HIDE DEF new
    <2> QED BY <1>0, <2>1, <2>2, <2>3, BlockWordsBounds, CpuWriteTypes
  <1>3. CASE start_dma
    <2>1. CASE sync_for_cpu
      BY <1>0, <2>1, SyncTypes
    <2>2. CASE UNCHANGED memory
      BY <1>0, <2>2 DEF memory, BufferTypes
    <2> QED BY <1>3, <2>1, <2>2 DEF start_dma
  <1>4. ASSUME UNCHANGED memory PROVE BufferTypes'
    BY <1>0, <1>4 DEF memory, BufferTypes
  <1>5. CASE smi_dma_setup \/ smi_start \/ Poll \/ timeout_complete \/ BusMove \/ Clock
    BY <1>4, <1>5 DEF smi_dma_setup, smi_start, Poll, timeout_complete, BusMove, Clock
  <1>6. ASSUME NEW c \in Engines, DmaMove(c) PROVE BufferTypes'
    <2>1. /\ cache' = cache /\ mem'["cb"] = mem["cb"]
          /\ \/ mem' = mem
             \/ /\ fifo # <<>>
                /\ mem'["data"] = [mem["data"] EXCEPT ![chan[c].pos + 1] = Head(fifo)]
      BY <1>6, MoveEffect
    <2>2. mem'["data"] \in Payloads
      <3>1. CASE mem' = mem
        BY <1>0, <3>1 DEF BufferTypes
      <3>2. CASE fifo # <<>> /\ mem'["data"] = [mem["data"] EXCEPT ![chan[c].pos + 1] = Head(fifo)]
        <4>1. Head(fifo) \in Word
          BY <3>2, HeadTailProperties DEF DataTypes
        <4> QED BY <1>0, <3>2, <4>1 DEF BufferTypes, Payloads
      <3> QED BY <2>1, <3>1, <3>2
    <2> QED BY <1>0, <2>1, <2>2 DEF BufferTypes
  <1>7. ASSUME NEW r \in Regions, WriteBack(r) PROVE BufferTypes'
    <2>1. cache' = cache /\ mem' = [mem EXCEPT ![r] = View(r)]
      BY <1>7 DEF WriteBack
    <2>2. /\ mem'["cb"] = (IF r = "cb" THEN View("cb") ELSE mem["cb"])
          /\ mem'["data"] = (IF r = "data" THEN View("data") ELSE mem["data"])
      BY <2>1 DEF BlockTypes, Regions
    <2> QED BY <1>0, <2>1, <2>2, ViewTypes DEF BufferTypes
  <1>8. CASE UNCHANGED vars
    BY <1>4, <1>8 DEF vars
  <1> QED
    BY ONLY <1>1, <1>2, <1>3, <1>5, <1>6, <1>7, <1>8, [Next]_vars DEF Next, CallStep

WordTypes ==
    /\ call \in Nat /\ owner \in Nat /\ moved \in Nat /\ total \in Nat
    /\ fifo \in Seq(Word) /\ sent \in Seq(Word)

LEMMA EmptyIsSeq == <<>> \in Seq(Word)
  OBVIOUS

LEMMA WordTypesNext ==
    CallTypes /\ BlockTypes /\ ChannelTypes /\ DataTypes /\ [Next]_vars => WordTypes'
  <1> SUFFICES ASSUME CallTypes, BlockTypes, ChannelTypes, DataTypes, [Next]_vars
               PROVE  WordTypes'
    OBVIOUS
  <1>0. WordTypes
    BY DEF DataTypes, WordTypes
  <1> USE DEF WordTypes
  <1>1. ASSUME NEW n \in Lens, NEW r \in Ratios, NEW c \in Channels, Client(n, r, c)
        PROVE  WordTypes'
    BY <1>0, <1>1 DEF Client, hw
  <1>2. CASE SetUp
    BY <1>0, <1>2, EmptyIsSeq DEF SetUp, HwClear
  <1>3. CASE smi_dma_setup
    BY <1>0, <1>3, EmptyIsSeq DEF smi_dma_setup, HwClear, driver
  <1>4. CASE smi_start
    <2>1. BusWords \in Nat
      BY WordReadsBounds DEF CallTypes, BusWords
    <2>2. /\ owner' \in {owner, call} /\ moved' \in {moved, 0} /\ total' \in {total, BusWords}
          /\ fifo' = fifo /\ sent' \in {sent, <<>>} /\ call' = call
      BY <1>4 DEF smi_start, HwStart
    <2>3. owner' \in Nat /\ moved' \in Nat /\ total' \in Nat /\ call' \in Nat
      BY <1>0, <2>1, <2>2
    <2>4. fifo' \in Seq(Word) /\ sent' \in Seq(Word)
      BY <1>0, <2>2, EmptyIsSeq
    <2> QED BY <2>3, <2>4
  <1>5. ASSUME NEW c \in Engines, DmaMove(c) PROVE WordTypes'
    <2>1. UNCHANGED <<call, owner, moved, total, sent>>
      BY <1>5 DEF DmaMove, driver
    <2>2. fifo' \in Seq(Word)
      <3>1. CASE fifo' = fifo
        BY <1>0, <3>1
      <3>2. CASE /\ chan[c].left # 0
                 /\ fifo' = Append(fifo, mem["data"][chan[c].pos + 1])
        <4>1. mem["data"][chan[c].pos + 1] \in Word
          BY <1>5, <3>2, MoveEffect DEF DataTypes, BufferTypes, Payloads
        <4> QED BY <1>0, <3>2, <4>1, AppendProperties
      <3>3. CASE fifo # <<>> /\ fifo' = Tail(fifo)
        BY <1>0, <3>3, HeadTailProperties
      <3> QED BY <1>5, <3>1, <3>2, <3>3, MoveEffect
    <2> QED BY <1>0, <2>1, <2>2
  <1>6. CASE BusMove
    <2>1. UNCHANGED <<call, owner, total>> /\ moved' = moved + 1
      BY <1>6 DEF BusMove, driver
    <2>2. <<owner, moved'>> \in Word
      BY <1>0, <2>1 DEF Word
    <2>3. fifo' \in Seq(Word) /\ sent' \in Seq(Word)
      <3>1. CASE fifo # <<>> /\ fifo' = Tail(fifo) /\ sent' = Append(sent, Head(fifo))
        BY <1>0, <3>1, HeadTailProperties, AppendProperties
      <3>2. CASE /\ fifo' = Append(fifo, <<owner, moved'>>)
                 /\ sent' = Append(sent, <<owner, moved'>>)
        BY <1>0, <2>2, <3>2, AppendProperties
      <3> QED BY <1>6, <3>1, <3>2 DEF BusMove
    <2> QED BY <1>0, <2>1, <2>3
  <1>7. ASSUME UNCHANGED <<hw, sent, call>> PROVE WordTypes'
    BY <1>0, <1>7 DEF hw
  <1>8. CASE start_dma \/ Poll \/ timeout_complete \/ Clock
    BY <1>7, <1>8 DEF start_dma, Poll, timeout_complete, Clock
  <1>9. ASSUME NEW r \in Regions, WriteBack(r) PROVE WordTypes'
    BY <1>7, <1>9 DEF WriteBack, driver
  <1>10. CASE UNCHANGED vars
    BY <1>7, <1>10 DEF vars, driver
  <1> QED
    BY ONLY <1>1, <1>2, <1>3, <1>4, <1>5, <1>6, <1>8, <1>9, <1>10, [Next]_vars
       DEF Next, CallStep

\* No channel reaches beyond the payload.
WithinPayload == \A c \in Engines : chan[c].active => chan[c].pos + chan[c].left <= MaxWord

LEMMA WithinPayloadNext ==
    CallTypes /\ BlockTypes /\ ChannelTypes /\ DataTypes /\ [Next]_vars => WithinPayload'
  <1> SUFFICES ASSUME CallTypes, BlockTypes, ChannelTypes, DataTypes, [Next]_vars,
                      NEW c \in Engines, chan'[c].active
               PROVE  chan'[c].pos + chan'[c].left <= MaxWord
    BY DEF WithinPayload
  <1>0. /\ chan \in [Engines -> Channel] /\ chan[c] \in Channel
        /\ chan[c].active => chan[c].pos + chan[c].left <= MaxWord
    BY DEF ChannelTypes, DataTypes
  <1>1. CASE start_dma
    <2>1. CASE chan' = chan
      BY <1>0, <2>1
    <2>2. CASE sync_for_cpu /\ chan' = [chan EXCEPT ![channel] = Launched(channel)]
      <3>1. mem'["cb"] <= MaxWord /\ mem'["cb"] \in Nat
        BY <2>2, SyncTypes, SyncBlock DEF DataTypes, BufferTypes, BlockTypes
      <3>2. CASE c = channel
        <4>1. chan'[c].pos = 0 /\ chan'[c].left = mem'["cb"]
          BY <1>0, <2>2, <3>2 DEF Launched
        <4> QED BY <3>1, <4>1
      <3>3. CASE c # channel
        BY <1>0, <2>2, <3>3
      <3> QED BY <3>2, <3>3
    <2> QED BY <1>1, <2>1, <2>2 DEF start_dma
  <1>2. CASE timeout_complete
    <2>1. CASE chan' = chan
      BY <1>0, <2>1
    <2>2. ASSUME NEW e \in BOOLEAN, chan' = Aborted(e) PROVE chan'[c] = chan[c]
      <3>1. 0 \in Engines
        BY DEF Engines
      <3>2. c # 0
        BY <1>0, <2>2, <3>1 DEF Aborted, Channel
      <3> QED BY <1>0, <2>2, <3>2 DEF Aborted
    <2> QED BY <1>0, <1>2, <2>1, <2>2 DEF timeout_complete
  <1>3. ASSUME NEW d \in Engines, DmaMove(d)
        PROVE  chan'[c].pos + chan'[c].left <= MaxWord
    <2>1. CASE c = d
      <3>1. /\ chan[c].active /\ chan'[c].pos = chan[c].pos + 1
            /\ chan'[c].left = (IF chan[c].left = 0 THEN 0 ELSE chan[c].left - 1)
            /\ (chan'[c].active <=> chan[c].left > 1)
        BY <1>3, <2>1, MoveEffect DEF DmaMove
      <3>2. chan[c].left > 1 /\ chan[c].left \in Nat /\ chan[c].pos \in Nat
        BY <1>0, <3>1 DEF Channel
      <3> QED BY <1>0, <3>1, <3>2, MaxWordIs
    <2>2. CASE c # d
      <3>1. chan' = [chan EXCEPT ![d] = chan'[d]]
        BY <1>3, MoveEffect
      <3>2. chan'[c] = chan[c]
        BY <1>0, <2>2, <3>1
      <3> QED BY <1>0, <3>2
    <2> QED BY <2>1, <2>2
  <1>4. ASSUME UNCHANGED chan PROVE chan'[c].pos + chan'[c].left <= MaxWord
    BY <1>0, <1>4
  <1>5. ASSUME NEW n \in Lens, NEW r \in Ratios, NEW d \in Channels, Client(n, r, d)
        PROVE  UNCHANGED chan
    BY <1>5 DEF Client
  <1>6. CASE smi_dma_setup \/ SetUp \/ smi_start \/ Poll \/ BusMove \/ Clock
    BY <1>4, <1>6 DEF smi_dma_setup, SetUp, smi_start, Poll, BusMove, Clock
  <1>7. ASSUME NEW r \in Regions, WriteBack(r) PROVE UNCHANGED chan
    BY <1>7 DEF WriteBack
  <1>8. CASE UNCHANGED vars
    BY <1>4, <1>8 DEF vars
  <1> QED
    BY ONLY <1>1, <1>2, <1>3, <1>4, <1>5, <1>6, <1>7, <1>8, [Next]_vars DEF Next, CallStep

LEMMA DataTypesNext ==
    CallTypes /\ BlockTypes /\ ChannelTypes /\ DataTypes /\ [Next]_vars => DataTypes'
  <1> SUFFICES ASSUME CallTypes, BlockTypes, ChannelTypes, DataTypes, [Next]_vars
               PROVE  DataTypes'
    OBVIOUS
  <1>1. build' \in {"coherent", "cached"} /\ len' <= MaxWord
    <2>1. build \in {"coherent", "cached"} /\ len <= MaxWord
      BY DEF DataTypes
    <2>2. ASSUME NEW n \in Lens, NEW r \in Ratios, NEW c \in Channels, Client(n, r, c)
          PROVE  build' = build /\ len' = n
      BY <2>2 DEF Client
    <2>3. CASE CallStep
      BY <2>1, <2>3 DEF CallStep, SetUp, smi_start, start_dma, Poll, timeout_complete
    <2>4. ASSUME NEW c \in Engines, DmaMove(c) PROVE UNCHANGED <<build, len>>
      BY <2>4 DEF DmaMove, driver
    <2>5. ASSUME NEW r \in Regions, WriteBack(r) PROVE UNCHANGED <<build, len>>
      BY <2>5 DEF WriteBack, driver
    <2>6. CASE smi_dma_setup \/ BusMove \/ Clock \/ UNCHANGED vars
      BY <2>1, <2>6 DEF smi_dma_setup, BusMove, Clock, vars, driver
    <2> QED BY ONLY <2>1, <2>2, <2>3, <2>4, <2>5, <2>6, MaxWordIs, [Next]_vars DEF Next
  <1> QED
    BY <1>1, BufferTypesNext, WordTypesNext, WithinPayloadNext
       DEF DataTypes, WordTypes, WithinPayload

-----------------------------------------------------------------------------
(* Whose words a transfer moves: the steps *)

LEMMA CallInvNext == IInv /\ DataTypes /\ CallInv /\ [Next]_vars => CallInv'
  <1> SUFFICES ASSUME IInv, DataTypes, CallInv, [Next]_vars PROVE CallInv'
    OBVIOUS
  <1>0. CallTypes /\ call \in Nat /\ owner \in Nat
    BY DEF IInv, DataTypes
  <1> USE DEF CallInv, Begun
  <1>1. ASSUME NEW n \in Lens, NEW r \in Ratios, NEW c \in Channels, Client(n, r, c)
        PROVE  CallInv'
    <2>1. n > 0
      BY DmaConstants
    <2> QED BY <1>0, <1>1, <2>1 DEF Client, hw
  <1>2. CASE SetUp
    <2>1. owner' = owner /\ call' = call /\ len' = len /\ op' = op
      BY <1>2 DEF SetUp, HwClear
    <2> QED BY <1>0, <1>2, <2>1 DEF SetUp
  <1>3. CASE smi_start
    <2>1. owner' \in {owner, call} /\ call' = call /\ len' = len /\ op' = op
      BY <1>3 DEF smi_start, HwStart
    <2>2. pc = "smi" /\ pc' = (IF op = "write" THEN "dma" ELSE "await")
      BY <1>3 DEF smi_start
    <2> QED BY <1>0, <2>1, <2>2
  <1>4. CASE start_dma
    <2>1. /\ pc = "dma" /\ pc' = (IF op = "write" THEN "await" ELSE "smi")
          /\ owner' = owner /\ call' = call /\ len' = len /\ op' = op
      BY <1>4 DEF start_dma, hw
    <2> QED BY <1>0, <2>1 DEF CallTypes
  <1>5. CASE Poll
    BY <1>5 DEF Poll, hw
  <1>6. CASE timeout_complete
    BY <1>6 DEF timeout_complete, hw
  <1>7. ASSUME UNCHANGED <<owner, call, len, op, pc>> PROVE CallInv'
    BY <1>7
  <1>8. CASE smi_dma_setup \/ BusMove \/ Clock \/ UNCHANGED vars
    BY <1>7, <1>8 DEF smi_dma_setup, HwClear, BusMove, Clock, vars, hw, driver
  <1>9. ASSUME NEW c \in Engines, DmaMove(c) PROVE CallInv'
    BY <1>7, <1>9 DEF DmaMove, driver
  <1>10. ASSUME NEW r \in Regions, WriteBack(r) PROVE CallInv'
    BY <1>7, <1>10 DEF WriteBack, hw, driver
  <1> QED
    BY ONLY <1>1, <1>2, <1>3, <1>4, <1>5, <1>6, <1>8, <1>9, <1>10, [Next]_vars
       DEF Next, CallStep

\* A region is seen to change only through the CPU, the sync or a channel.
LEMMA ViewKept ==
    ASSUME NEW r \in Regions, UNCHANGED memory
    PROVE  View(r)' = View(r)
  BY DEF View, memory

LEMMA ViewWrittenBack ==
    ASSUME BlockTypes, NEW d \in Regions, WriteBack(d), NEW r \in Regions
    PROVE  View(r)' = View(r)
  <1>1. cache' = cache /\ cache[d] # {} /\ mem'[r] = (IF r = d THEN View(d) ELSE mem[r])
    BY DEF WriteBack, BlockTypes
  <1>2. CASE cache[r] = {}
    <2>1. r # d
      BY <1>1, <1>2
    <2> QED BY <1>1, <1>2, <2>1 DEF View
  <1>3. CASE cache[r] # {}
    BY <1>1, <1>3 DEF View
  <1> QED BY <1>2, <1>3

LEMMA BufferInvNext ==
    IInv /\ DataTypes /\ CallInv /\ BufferInv /\ [Next]_vars => BufferInv'
  <1> SUFFICES ASSUME IInv, DataTypes, CallInv, BufferInv, [Next]_vars PROVE BufferInv'
    OBVIOUS
  <1>0. CallTypes /\ BlockTypes /\ "cb" \in Regions /\ "data" \in Regions
    BY DEF IInv, Regions
  <1> USE DEF BufferInv, Handed
  <1>1. ASSUME NEW n \in Lens, NEW r \in Ratios, NEW c \in Channels, Client(n, r, c)
        PROVE  BufferInv'
    <2> DEFINE data == [i \in 1..MaxWord |-> IF op = "write" /\ i <= n
                                               THEN <<call', i>> ELSE <<0, 0>>]
               new  == [Blank EXCEPT !.data = data]
    <2>1. CpuWrite(Regions, new) /\ pc' = "setup" /\ len' = n /\ op' = op /\ build' = build
      BY <1>1 DEF Client
    <2>2. new["data"] = data
      BY DEF Blank
    <2>3. op = "write" => data = Payload'
      BY <2>1 DEF Payload
    <2> HIDE DEF new, data
    <2>4. View("data")' = data
      BY <1>0, <2>1, <2>2, ViewWritten
    <2>5. build # "cached" => cache' = cache
      BY <2>1 DEF CpuWrite
    <2> QED BY <2>1, <2>3, <2>4, <2>5
  <1>2. CASE SetUp
    <2> DEFINE new == [Blank EXCEPT !.cb = BlockWords]
    <2>1. /\ CpuWrite({"cb"}, new) /\ pc = "setup"
          /\ UNCHANGED <<op, build, call, len, ratio>>
      BY <1>2 DEF SetUp
    <2>2. new["cb"] = BlockWords
      BY DEF Blank
    <2>3. {"cb"} \in SUBSET Regions
      BY <1>0
    <2> HIDE DEF new
    <2>4. View("cb")' = BlockWords
      BY <1>0, <2>1, <2>2, <2>3, ViewWritten
    <2>5. View("data")' = View("data")
      BY <1>0, <2>1, <2>3, ViewWritten
    <2>6. BlockWords' = BlockWords /\ Payload' = Payload
      BY <2>1 DEF BlockWords, BusWords, Payload
    <2>7. build # "cached" => cache' = cache
      BY <2>1 DEF CpuWrite
    <2> QED BY <2>1, <2>4, <2>5, <2>6, <2>7
  <1>3. ASSUME UNCHANGED <<memory, op, build, call, len, ratio>>, Handed' <=> Handed,
               pc' = "setup" <=> pc = "setup"
        PROVE  BufferInv'
    <2>1. View("cb")' = View("cb") /\ View("data")' = View("data") /\ cache' = cache
      BY <1>0, <1>3, ViewKept DEF memory
    <2>2. BlockWords' = BlockWords /\ Payload' = Payload
      BY <1>3 DEF BlockWords, BusWords, Payload
    <2> QED BY <1>3, <2>1, <2>2
  <1>4. CASE smi_start
    <2>1. /\ UNCHANGED <<memory, op, build, call, len, ratio>>
          /\ pc = "smi" /\ pc' = (IF op = "write" THEN "dma" ELSE "await")
      BY <1>4 DEF smi_start
    <2>2. (Handed' <=> Handed) /\ (pc' = "setup" <=> pc = "setup")
      BY <1>0, <2>1 DEF CallTypes
    <2> QED BY ONLY <1>3, <2>1, <2>2
  <1>5. CASE start_dma
    <2>1. /\ pc' = (IF op = "write" THEN "await" ELSE "smi") /\ op' = op /\ build' = build
          /\ sync_for_cpu \/ UNCHANGED memory
      BY <1>5 DEF start_dma
    <2>2. Handed'
      BY <1>0, <2>1 DEF CallTypes
    <2>3. build # "cached" => \A r \in Regions : cache'[r] = {}
      BY <2>1, Synced DEF memory
    <2> QED BY <2>1, <2>2, <2>3
  <1>6. CASE Poll \/ timeout_complete \/ Clock \/ BusMove \/ UNCHANGED vars
    BY <1>3, <1>6 DEF Poll, timeout_complete, Clock, BusMove, vars, driver
  <1>7. CASE smi_dma_setup
    BY <1>3, <1>7 DEF smi_dma_setup, driver
  <1>8. ASSUME NEW c \in Engines, DmaMove(c) PROVE BufferInv'
    <2>1. /\ UNCHANGED <<op, build, pc, call, len, ratio>> /\ cache' = cache
          /\ mem'["cb"] = mem["cb"] /\ (op = "write" => mem'["data"] = mem["data"])
      <3>1. UNCHANGED <<op, build, pc, call, len, ratio>>
        BY <1>8 DEF DmaMove, driver
      <3>2. /\ cache' = cache /\ mem'["cb"] = mem["cb"]
            /\ mem' = mem \/ op = "read"
        BY <1>0, <1>8, MoveEffect DEF IInv
      <3> QED BY <3>1, <3>2
    <2>2. View("cb")' = View("cb") /\ (op = "write" => View("data")' = View("data"))
      BY <2>1 DEF View
    <2>3. BlockWords' = BlockWords /\ Payload' = Payload
      BY <2>1 DEF BlockWords, BusWords, Payload
    <2> QED BY <2>1, <2>2, <2>3
  <1>9. ASSUME NEW d \in Regions, WriteBack(d) PROVE BufferInv'
    <2>1. UNCHANGED <<op, build, pc, call, len, ratio, cache>>
      BY <1>9 DEF WriteBack, driver
    <2>2. View("cb")' = View("cb") /\ View("data")' = View("data")
      BY <1>0, <1>9, ViewWrittenBack
    <2>3. BlockWords' = BlockWords /\ Payload' = Payload
      BY <2>1 DEF BlockWords, BusWords, Payload
    <2> QED BY <2>1, <2>2, <2>3
  <1> QED
    BY ONLY <1>1, <1>2, <1>4, <1>5, <1>6, <1>7, <1>8, <1>9, [Next]_vars DEF Next, CallStep

\* An empty sequence, and one to which a word is appended.
LEMMA EmptySent == Len(<<>>) = 0 /\ \A i \in 1..Len(<<>>) : FALSE
  OBVIOUS

LEMMA Appended ==
    ASSUME NEW s \in Seq(Word), NEW w \in Word
    PROVE  /\ Append(s, w) \in Seq(Word) /\ Len(s) \in Nat
           /\ Len(Append(s, w)) = Len(s) + 1 /\ Append(s, w)[Len(s) + 1] = w
           /\ \A i \in 1..Len(s) : Append(s, w)[i] = s[i]
           /\ \A i \in 1..Len(Append(s, w)) : i \in 1..Len(s) \/ i = Len(s) + 1
  <1>1. /\ Append(s, w) \in Seq(Word) /\ Len(s) \in Nat
        /\ Len(Append(s, w)) = Len(s) + 1 /\ Append(s, w)[Len(s) + 1] = w
        /\ \A i \in 1..Len(s) : Append(s, w)[i] = s[i]
    BY AppendProperties, LenProperties
  <1>2. \A i \in 1..(Len(s) + 1) : i \in 1..Len(s) \/ i = Len(s) + 1
    BY <1>1
  <1> QED BY <1>1, <1>2

LEMMA QuietInvNext ==
    IInv /\ DataTypes /\ CallInv /\ QuietInv /\ [Next]_vars => QuietInv'
  <1> SUFFICES ASSUME IInv, DataTypes, CallInv, QuietInv, [Next]_vars, quiet', pc' # "setup"
               PROVE  QuietInv'
    BY DEF QuietInv
  <1>0. /\ CallTypes /\ ChannelTypes /\ BlockTypes /\ chan \in [Engines -> Channel]
        /\ moved \in Nat /\ total \in Nat /\ fifo \in Seq(Word) /\ sent \in Seq(Word)
    BY DEF IInv, ChannelTypes, DataTypes
  <1> USE DEF Begun, Handed
  <1>1. ASSUME NEW n \in Lens, NEW r \in Ratios, NEW c \in Channels, Client(n, r, c)
        PROVE  FALSE
    BY <1>1 DEF Client
  <1>2. CASE SetUp
    <2>1. /\ pc' = (IF op = "write" THEN "smi" ELSE "dma") /\ op' = op
          /\ ~Active /\ Active' = Active /\ fifo' = <<>> /\ chan' = chan
          /\ \A c \in Engines : ~chan[c].active
      BY <1>2 DEF SetUp, HwClear, Active
    <2>2. ~Begun'
      BY <2>1
    <2> QED BY <2>1, <2>2 DEF QuietInv
  <1>3. CASE smi_start
    <2>1. /\ quiet /\ pc = "smi" /\ pc' = (IF op = "write" THEN "dma" ELSE "await")
          /\ UNCHANGED <<op, chan, call, channel, fifo>>
      BY <1>3 DEF smi_start, HwStart, history
    <2>2. /\ ~Active /\ fifo = <<>>
          /\ \A c \in Engines : chan[c].active => Handed /\ c = channel
      BY <2>1 DEF QuietInv
    <2>3. owner' = call /\ moved' = 0 /\ sent' = <<>>
      BY <1>3, <2>2 DEF smi_start, HwStart
    <2>4. Begun' /\ (Handed' <=> Handed)
      BY <1>0, <2>1 DEF CallTypes
    <2> QED BY <2>1, <2>2, <2>3, <2>4, EmptySent DEF QuietInv
  <1>4. CASE start_dma
    <2>1. /\ quiet /\ pc = "dma" /\ pc' = (IF op = "write" THEN "await" ELSE "smi")
          /\ UNCHANGED <<op, call, channel, owner, moved, total, fifo, sent>>
          /\ chan' = chan \/ chan' = [chan EXCEPT ![channel] = Launched(channel)]
      BY <1>4 DEF start_dma, hw
    <2>2. Handed' /\ ~Handed /\ (Begun' <=> Begun)
      BY <1>0, <2>1 DEF CallTypes
    <2>3. \A c \in Engines : ~chan[c].active
      BY <2>1, <2>2 DEF QuietInv
    <2>4. \A c \in Engines : chan'[c].active => c = channel'
      BY <1>0, <2>1, <2>3
    <2> QED BY <2>1, <2>2, <2>4 DEF QuietInv, Active
  <1>5. ASSUME UNCHANGED <<op, call, channel, owner, moved, total, fifo, sent, quiet>>,
               \A c \in Engines : chan'[c].active => chan[c].active, pc # "setup",
               Handed' <=> Handed, Begun' <=> Begun
        PROVE  QuietInv'
    BY <1>5 DEF QuietInv, Active
  <1>6. CASE Poll \/ timeout_complete
    <2>1. /\ pc \in {"await", "late?"} /\ pc' \in {"await", "late?", "idle"}
          /\ UNCHANGED <<op, call, channel, owner, moved, total, fifo, sent, quiet>>
      BY <1>6 DEF Poll, timeout_complete, hw, history
    <2>2. \A c \in Engines : chan'[c].active => chan[c].active
      <3>1. ASSUME NEW e \in BOOLEAN, chan' = Aborted(e), NEW c \in Engines
            PROVE  chan'[c].active => chan[c].active
        BY <1>0, <3>1 DEF Aborted, Channel
      <3>2. chan' = chan \/ \E e \in BOOLEAN : chan' = Aborted(e)
        BY <1>6 DEF Poll, timeout_complete
      <3> QED BY <3>1, <3>2
    <2> QED BY ONLY <1>5, <2>1, <2>2 DEF Begun, Handed
  <1>7. ASSUME NEW d \in Engines, DmaMove(d) PROVE QuietInv'
    <2>1. /\ UNCHANGED <<op, pc, call, channel, owner, moved, total, sent, quiet>>
          /\ chan[d].active
      BY <1>7 DEF DmaMove, driver, history
    <2>2. /\ Handed /\ d = channel
          /\ \A c \in Engines : chan[c].active => c = channel
      BY <2>1 DEF QuietInv
    <2>3. chan' = [chan EXCEPT ![d] = chan'[d]]
      BY <1>0, <1>7, MoveEffect
    <2>4. \A c \in Engines : chan'[c].active => c = channel
      BY <1>0, <2>2, <2>3
    <2>5. ~Begun => fifo' = <<>>
      <3>1. ~Begun => op = "read" /\ fifo = <<>>
        BY <2>1, <2>2 DEF QuietInv
      <3> QED BY <1>0, <1>7, <3>1, MoveEffect
    <2> QED BY <2>1, <2>2, <2>4, <2>5 DEF QuietInv, Active
  <1>8. CASE BusMove
    <2>1. /\ UNCHANGED <<op, pc, call, channel, owner, total, chan, quiet>>
          /\ Active /\ moved' = moved + 1
      BY <1>8 DEF BusMove, driver, history
    <2>2. /\ Begun /\ owner = call /\ moved = Len(sent)
          /\ \A c \in Engines : chan[c].active => Handed /\ c = channel
      BY <2>1 DEF QuietInv
    <2>3. PICK w \in Word : /\ sent' = Append(sent, w)
                            /\ op = "write" => fifo # <<>>
                            /\ op = "read" => w = <<owner, moved + 1>>
      <3>1. CASE op = "write" /\ fifo # <<>> /\ sent' = Append(sent, Head(fifo))
        <4>1. Head(fifo) \in Word
          BY <1>0, <3>1, HeadTailProperties
        <4> QED BY <3>1, <4>1
      <3>2. CASE op = "read" /\ sent' = Append(sent, <<owner, moved'>>)
        <4>1. <<owner, moved + 1>> \in Word
          BY <1>0 DEF Word, DataTypes
        <4> QED BY <2>1, <3>2, <4>1
      <3> QED BY <1>8, <3>1, <3>2 DEF BusMove
    <2>4. Len(sent') = Len(sent) + 1
      BY <1>0, <2>3, Appended
    <2>5. op = "write" => Handed
      BY <2>1, <2>2, <2>3 DEF QuietInv
    <2>6. ASSUME op = "read", NEW i \in 1..Len(sent') PROVE sent'[i] = <<call, i>>
      <3>1. CASE i \in 1..Len(sent)
        <4>1. sent[i] = <<call, i>>
          BY <2>1, <2>2, <2>6, <3>1 DEF QuietInv
        <4> QED BY <1>0, <2>3, <3>1, <4>1, Appended
      <3>2. CASE i = Len(sent) + 1
        BY <1>0, <2>2, <2>3, <2>6, <3>2, Appended
      <3>3. i \in 1..Len(sent) \/ i = Len(sent) + 1
        BY <1>0, <2>3, <2>6, Appended
      <3> QED BY <3>1, <3>2, <3>3
    <2> QED BY <2>1, <2>2, <2>4, <2>5, <2>6 DEF QuietInv
  <1>9. CASE Clock \/ UNCHANGED vars
    BY <1>5, <1>9 DEF Clock, vars, hw, driver, history
  <1>10. CASE smi_dma_setup
    BY <1>10 DEF smi_dma_setup
  <1>11. ASSUME NEW r \in Regions, WriteBack(r) PROVE QuietInv'
    BY <1>5, <1>11 DEF WriteBack, hw, driver, history
  <1> QED
    BY ONLY <1>1, <1>2, <1>3, <1>4, <1>6, <1>7, <1>8, <1>9, <1>10, <1>11, [Next]_vars
       DEF Next, CallStep

-----------------------------------------------------------------------------
(* Whose words a transfer moves: the steps *)

LEMMA FlowKept ==
    ASSUME CallTypes, FlowInv,
           UNCHANGED <<op, call, len, ratio, channel, chan, mem, cache, fifo, sent, moved, quiet, lost>>,
           Handed' => Handed /\ (pc' = "smi" <=> pc = "smi"),
           (IF pc' = "idle" THEN ret' = 1 ELSE chan[0].end)
             => (IF pc = "idle" THEN ret = 1 ELSE chan[0].end)
    PROVE  FlowInv'
  <1> SUFFICES ASSUME quiet', Handed', ~lost'
               PROVE  /\ IF op' = "write" THEN WriteFlow' ELSE ReadFlow'
                      /\ channel' \in Engines => ChannelFlow'
    BY DEF FlowInv
  <1>1. /\ IF op = "write" THEN WriteFlow ELSE ReadFlow
        /\ channel \in Engines => ChannelFlow
    BY DEF FlowInv
  <1>2. Pos' = Pos /\ Payload' = Payload /\ BlockWords' = BlockWords
    BY DEF Pos, Payload, BlockWords, BusWords
  <1>3. WriteFlow => WriteFlow'
    BY <1>2 DEF WriteFlow
  <1>4. ReadFlow => ReadFlow'
    BY <1>2 DEF ReadFlow
  <1>5. ChannelFlow => ChannelFlow'
    BY <1>2 DEF ChannelFlow
  <1> QED BY <1>1, <1>3, <1>4, <1>5

\* start_dma gives the channel the whole of this call, or gives it nothing.
LEMMA LaunchFlow ==
    ASSUME IInv, DataTypes, CallInv, BufferInv, QuietInv, start_dma, quiet', ~lost'
    PROVE  /\ IF op' = "write" THEN WriteFlow' ELSE ReadFlow'
           /\ channel' \in Engines => ChannelFlow'
  <1>0. /\ CallTypes /\ BlockTypes /\ chan \in [Engines -> Channel] /\ channel \in Nat
        /\ "data" \in Regions /\ "cb" \in Regions /\ 0 \in Engines
    BY DmaConstants DEF IInv, ChannelTypes, CallTypes, Regions, Engines
  <1>1. /\ pc = "dma" /\ pc' = (IF op = "write" THEN "await" ELSE "smi") /\ quiet
        /\ UNCHANGED <<op, call, len, ratio, channel, owner, moved, total, fifo, sent>>
    BY DEF start_dma, hw
  <1>2. ~Handed /\ pc # "setup" /\ len > 0 /\ BlockWords' = BlockWords /\ Payload' = Payload
    BY <1>1 DEF Handed, CallInv, BlockWords, BusWords, Payload
  <1>3. BlockWords \in Nat /\ BlockWords > 0
    BY <1>0, <1>2, BlockWordsBounds
  <1>4. fifo = <<>> /\ (op = "write" => sent = <<>>)
    BY <1>1, <1>2 DEF QuietInv, Begun
  <1>5. channel > 14 => channel' \notin Engines
    BY <1>0, <1>1 DEF Engines
  <1>6. CASE channel > 14
    <2>1. Pos' = 0
      BY <1>5, <1>6 DEF Pos
    <2>2. WriteFlow' \/ op = "read"
      BY <1>0, <1>1, <1>4, <1>5, <1>6, <2>1, EmptySent DEF WriteFlow, CallTypes
    <2>3. ReadFlow' \/ op = "write"
      BY <1>0, <1>1, <1>4, <2>1, EmptySent DEF ReadFlow, CallTypes
    <2> QED BY <1>0, <1>1, <1>5, <1>6, <2>2, <2>3 DEF CallTypes
  <1>7. CASE ~(channel > 14)
    <2>1. channel \in Engines
      BY <1>0, <1>7 DEF Engines, CallTypes
    <2>2. sync_for_cpu /\ chan' = [chan EXCEPT ![channel] = Launched(channel)]
      <3>1. ~chan[channel].active
        BY <1>1, <1>2, <2>1 DEF QuietInv
      <3> QED BY <1>7, <3>1 DEF start_dma
    <2>3. /\ \A r \in Regions : cache'[r] = {}
          /\ mem'["cb"] = BlockWords /\ (op = "write" => mem'["data"] = Payload)
      BY <1>0, <1>2, <2>2, Synced DEF BufferInv
    <2>4. /\ chan'[channel].pos = 0 /\ chan'[channel].left = BlockWords
          /\ chan'[channel].end = FALSE
      BY <1>0, <2>1, <2>2, <2>3 DEF Launched
    <2>5. Pos' = 0
      BY <1>1, <2>1, <2>4 DEF Pos
    <2>6. WriteFlow' \/ op = "read"
      BY <1>0, <1>1, <1>2, <1>4, <2>3, <2>5, EmptySent DEF WriteFlow, CallTypes
    <2>7. ReadFlow' \/ op = "write"
      BY <1>0, <1>1, <1>4, <2>5, EmptySent DEF ReadFlow, CallTypes
    <2>8. ChannelFlow'
      <3>1. pc' # "idle"
        BY <1>1
      <3> QED BY <1>1, <1>2, <1>3, <2>3, <2>4, <3>1 DEF ChannelFlow
    <2> QED BY <1>0, <1>1, <2>6, <2>7, <2>8 DEF CallTypes
  <1> QED BY <1>6, <1>7

\* A word taken from the head of a sequence.
LEMMA Taken ==
    ASSUME NEW s \in Seq(Word), s # <<>>
    PROVE  /\ Head(s) \in Word /\ Head(s) = s[1] /\ Len(s) \in Nat /\ Len(s) > 0
           /\ Tail(s) \in Seq(Word) /\ Len(Tail(s)) = Len(s) - 1
           /\ \A i \in 1..Len(Tail(s)) : Tail(s)[i] = s[i + 1] /\ i + 1 \in 1..Len(s)
  <1>1. /\ Head(s) \in Word /\ Tail(s) \in Seq(Word) /\ Len(Tail(s)) = Len(s) - 1
        /\ \A i \in 1..Len(Tail(s)) : Tail(s)[i] = s[i + 1]
    BY HeadTailProperties
  <1>2. Head(s) = s[1] /\ Len(s) \in Nat /\ Len(s) > 0
    BY EmptySeq, LenProperties
  <1> QED BY <1>1, <1>2

\* A channel moves the next word of this call, and ends with its last.
LEMMA MoveFlow ==
    ASSUME IInv, DataTypes, CallInv, QuietInv, FlowInv, NEW d \in Engines, DmaMove(d),
           quiet', Handed', ~lost'
    PROVE  /\ IF op' = "write" THEN WriteFlow' ELSE ReadFlow'
           /\ channel' \in Engines => ChannelFlow'
  <1>0. /\ CallTypes /\ BlockTypes /\ ChannelTypes /\ chan \in [Engines -> Channel]
        /\ moved \in Nat /\ fifo \in Seq(Word) /\ sent \in Seq(Word) /\ BlockWords \in Nat
    BY BlockWordsBounds DEF IInv, ChannelTypes, DataTypes
  <1>1. /\ UNCHANGED <<op, pc, call, len, ratio, channel, owner, moved, sent, ret, quiet, lost>>
        /\ chan[d].active
    BY DEF DmaMove, driver, history
  <1>2. quiet /\ Handed /\ ~lost /\ pc # "setup" /\ Payload' = Payload /\ BlockWords' = BlockWords
    BY <1>1 DEF Handed, Payload, BlockWords, BusWords
  <1>3. d = channel
    BY <1>1, <1>2 DEF QuietInv
  <1>4. ChannelFlow /\ chan[d].left > 0
    BY <1>1, <1>2, <1>3 DEF FlowInv, ChannelFlow
  <1>5. /\ chan[d].pos \in Nat /\ chan[d].left \in Nat /\ chan[d].left # 0
        /\ Pos = chan[d].pos
    BY <1>0, <1>3, <1>4 DEF Channel, Pos
  <1>6. /\ chan'[d].pos = chan[d].pos + 1 /\ (chan'[d].active <=> chan[d].left > 1)
        /\ chan'[d].left = chan[d].left - 1
        /\ (chan'[d].end <=> chan[d].end \/ chan[d].left <= 1)
        /\ chan[d].pos + 1 \in 1..MaxWord /\ cache' = cache
    BY <1>0, <1>4, <1>5, MoveEffect
  <1>7. Pos' = Pos + 1
    BY <1>1, <1>3, <1>5, <1>6 DEF Pos
  <1>8. ChannelFlow'
    <2>1. \A r \in Regions : cache'[r] = {}
      BY <1>4, <1>6 DEF ChannelFlow
    <2>2. chan'[d].pos + chan'[d].left = BlockWords'
      BY <1>2, <1>3, <1>4, <1>5, <1>6 DEF ChannelFlow
    <2>3. chan'[d].active => chan'[d].left > 0
      BY <1>5, <1>6
    <2>4. /\ d = 0 /\ (IF pc = "idle" THEN ret = 1 ELSE chan[0].end) => FALSE
      BY <1>3, <1>4 DEF ChannelFlow
    <2>5. d = 0 /\ (IF pc = "idle" THEN ret = 1 ELSE chan'[0].end) => chan'[0].left = 0
      BY <1>5, <1>6, <2>4
    <2> QED BY <1>1, <1>3, <2>1, <2>2, <2>3, <2>5 DEF ChannelFlow
  <1>9. CASE op = "write"
    <2>1. WriteFlow /\ mem["data"] = Payload
      BY <1>2, <1>3, <1>9 DEF FlowInv, WriteFlow
    <2> DEFINE w == mem["data"][chan[d].pos + 1]
    <2>2. mem' = mem /\ fifo' = Append(fifo, w)
      BY <1>0, <1>4, <1>5, <1>9, MoveEffect
    <2>3. chan[d].pos + 1 <= len
      <3>1. BlockWords = len
        BY <1>9 DEF BlockWords
      <3> QED BY <1>3, <1>4, <1>5, <3>1 DEF ChannelFlow
    <2>4. w = <<call, Pos + 1>> /\ w \in Word
      BY <1>0, <1>5, <1>6, <2>1, <2>3 DEF Payload, Word, CallTypes, DataTypes
    <2> HIDE DEF w
    <2>5. Len(fifo) \in Nat /\ Len(sent) \in Nat /\ Len(sent) + Len(fifo) = Pos
      BY <1>0, <2>1, LenProperties DEF WriteFlow
    <2>6. Len(fifo') = Len(fifo) + 1
      BY <1>0, <2>2, <2>4, Appended
    <2>7. ASSUME NEW i \in 1..Len(fifo') PROVE fifo'[i] = <<call, Len(sent) + i>>
      <3>1. CASE i \in 1..Len(fifo)
        <4>1. fifo'[i] = fifo[i]
          BY <1>0, <2>2, <2>4, <3>1, Appended
        <4> QED BY <2>1, <3>1, <4>1 DEF WriteFlow
      <3>2. CASE i = Len(fifo) + 1
        <4>1. fifo'[i] = w
          BY <1>0, <2>2, <2>4, <3>2, Appended
        <4>2. Len(sent) + i = Pos + 1
          BY <2>5, <3>2
        <4> QED BY <2>4, <4>1, <4>2
      <3> QED BY <2>5, <2>6, <3>1, <3>2
    <2>8. Len(sent') + Len(fifo') = Pos'
      BY <1>1, <1>7, <2>5, <2>6
    <2>9. WriteFlow'
      BY <1>1, <1>2, <2>1, <2>2, <2>7, <2>8 DEF WriteFlow
    <2> QED BY <1>1, <1>8, <1>9, <2>9
  <1>10. CASE op = "read"
    <2>1. ReadFlow
      BY <1>2, <1>10 DEF FlowInv
    <2>2. /\ fifo # <<>> /\ fifo' = Tail(fifo)
          /\ mem'["data"] = [mem["data"] EXCEPT ![chan[d].pos + 1] = Head(fifo)]
      BY <1>0, <1>4, <1>5, <1>10, MoveEffect
    <2>3. pc # "smi"
      BY <1>2, <1>10, <2>2 DEF QuietInv, Begun
    <2>4. moved = Pos + Len(fifo) /\ Len(fifo) \in Nat /\ Len(fifo) > 0
      BY <1>0, <2>1, <2>2, <2>3, Taken DEF ReadFlow
    <2>5. Head(fifo) = <<call, Pos + 1>>
      BY <1>0, <2>1, <2>2, <2>4, Taken DEF ReadFlow
    <2>6. moved = Pos' + Len(fifo')
      <3>1. Len(fifo') = Len(fifo) - 1
        BY <1>0, <2>2, Taken
      <3> QED BY <1>5, <1>7, <2>4, <3>1
    <2>7. ASSUME NEW i \in 1..Len(fifo') PROVE fifo'[i] = <<call, Pos' + i>>
      <3>1. fifo'[i] = fifo[i + 1] /\ i + 1 \in 1..Len(fifo)
        BY <1>0, <2>2, <2>7, Taken
      <3>2. fifo[i + 1] = <<call, Pos + (i + 1)>>
        BY <2>1, <3>1 DEF ReadFlow
      <3>3. Pos + (i + 1) = Pos' + i
        BY <1>5, <1>7
      <3> QED BY <3>1, <3>2, <3>3
    <2>8. ASSUME NEW i \in 1..Pos' PROVE mem'["data"][i] = <<call, i>>
      <3>1. mem["data"] \in [1..MaxWord -> Word]
        BY DEF DataTypes, BufferTypes, Payloads
      <3>2. chan[d].pos + 1 = Pos + 1 /\ Pos \in Nat
        BY <1>5
      <3>3. CASE i = Pos + 1
        BY <1>6, <2>2, <2>5, <3>1, <3>2, <3>3
      <3>4. CASE i # Pos + 1
        <4>1. i \in 1..Pos
          BY <1>7, <2>8, <3>2, <3>4
        <4>2. mem["data"][i] = <<call, i>>
          BY <2>1, <4>1 DEF ReadFlow
        <4>3. i \in 1..MaxWord
          BY <1>6, <3>2, <4>1, MaxWordIs
        <4> QED BY <2>2, <3>1, <3>2, <3>4, <4>2, <4>3
      <3> QED BY <3>3, <3>4
    <2>9. ReadFlow'
      BY <1>1, <2>3, <2>6, <2>7, <2>8 DEF ReadFlow
    <2> QED BY <1>1, <1>8, <1>10, <2>9
  <1> QED BY <1>0, <1>9, <1>10 DEF CallTypes

\* The SMI takes the next word of a write, or appends the next of a read.
LEMMA BusFlow ==
    ASSUME IInv, DataTypes, CallInv, QuietInv, FlowInv, BusMove, quiet', Handed', ~lost'
    PROVE  /\ IF op' = "write" THEN WriteFlow' ELSE ReadFlow'
           /\ channel' \in Engines => ChannelFlow'
  <1>0. /\ CallTypes /\ chan \in [Engines -> Channel] /\ call \in Nat /\ owner \in Nat
        /\ moved \in Nat /\ fifo \in Seq(Word) /\ sent \in Seq(Word)
        /\ Len(fifo) \in Nat /\ Len(sent) \in Nat
    BY LenProperties DEF IInv, ChannelTypes, DataTypes
  <1>1. /\ UNCHANGED <<op, pc, call, len, ratio, channel, owner, chan, mem, cache, ret, quiet, lost>>
        /\ Active /\ moved' = moved + 1
    BY DEF BusMove, driver, history, memory
  <1>2. /\ quiet /\ Handed /\ ~lost /\ pc # "setup"
        /\ Payload' = Payload /\ BlockWords' = BlockWords /\ Pos' = Pos
    BY <1>1 DEF Handed, Payload, BlockWords, BusWords, Pos
  <1>3. Begun /\ owner = call
    BY <1>1, <1>2 DEF QuietInv
  <1>4. channel' \in Engines => ChannelFlow'
    BY <1>1, <1>2 DEF FlowInv, ChannelFlow
  <1>5. Pos \in Nat
    BY <1>0 DEF Pos, Channel
  <1>6. CASE op = "write"
    <2>1. WriteFlow
      BY <1>2, <1>6 DEF FlowInv
    <2>2. fifo # <<>> /\ fifo' = Tail(fifo) /\ sent' = Append(sent, Head(fifo))
      BY <1>6 DEF BusMove
    <2>3. Head(fifo) = <<call, Len(sent) + 1>> /\ Head(fifo) \in Word
      BY <1>0, <2>1, <2>2, Taken DEF WriteFlow
    <2>4. Len(sent') = Len(sent) + 1 /\ Len(fifo') = Len(fifo) - 1
      BY <1>0, <2>2, <2>3, Appended, Taken
    <2>5. ASSUME NEW i \in 1..Len(sent') PROVE sent'[i] = <<call, i>>
      <3>1. CASE i \in 1..Len(sent)
        <4>1. sent'[i] = sent[i]
          BY <1>0, <2>2, <2>3, <3>1, Appended
        <4> QED BY <2>1, <3>1, <4>1 DEF WriteFlow
      <3>2. CASE i = Len(sent) + 1
        BY <1>0, <2>2, <2>3, <3>2, Appended
      <3> QED BY <1>0, <2>4, <3>1, <3>2
    <2>6. ASSUME NEW i \in 1..Len(fifo') PROVE fifo'[i] = <<call, Len(sent') + i>>
      <3>1. fifo'[i] = fifo[i + 1] /\ i + 1 \in 1..Len(fifo)
        BY <1>0, <2>2, <2>6, Taken
      <3>2. fifo[i + 1] = <<call, Len(sent) + (i + 1)>>
        BY <2>1, <3>1 DEF WriteFlow
      <3>3. Len(sent) + (i + 1) = Len(sent') + i
        BY <1>0, <2>4
      <3> QED BY <3>1, <3>2, <3>3
    <2>7. Len(sent') + Len(fifo') = Pos'
      BY <1>0, <1>2, <2>1, <2>4 DEF WriteFlow
    <2>8. WriteFlow'
      BY <1>1, <1>2, <2>1, <2>5, <2>6, <2>7 DEF WriteFlow
    <2> QED BY <1>1, <1>4, <1>6, <2>8
  <1>7. CASE op = "read"
    <2>1. ReadFlow /\ pc # "smi"
      BY <1>2, <1>3, <1>7 DEF FlowInv, Begun
    <2>2. fifo' = Append(fifo, <<call, moved + 1>>) /\ <<call, moved + 1>> \in Word
      BY <1>0, <1>1, <1>3, <1>7 DEF BusMove, Word
    <2>3. Len(fifo') = Len(fifo) + 1 /\ moved = Pos + Len(fifo)
      BY <1>0, <2>1, <2>2, Appended DEF ReadFlow
    <2>4. ASSUME NEW i \in 1..Len(fifo') PROVE fifo'[i] = <<call, Pos + i>>
      <3>1. CASE i \in 1..Len(fifo)
        <4>1. fifo'[i] = fifo[i]
          BY <1>0, <2>2, <3>1, Appended
        <4> QED BY <2>1, <3>1, <4>1 DEF ReadFlow
      <3>2. CASE i = Len(fifo) + 1
        <4>1. fifo'[i] = <<call, moved + 1>>
          BY <1>0, <2>2, <3>2, Appended
        <4>2. moved + 1 = Pos + i
          BY <1>0, <1>5, <2>3, <3>2
        <4> QED BY <4>1, <4>2
      <3> QED BY <1>0, <2>3, <3>1, <3>2
    <2>5. moved' = Pos' + Len(fifo')
      BY <1>0, <1>1, <1>2, <1>5, <2>3
    <2>6. ReadFlow'
      BY <1>1, <1>2, <2>1, <2>4, <2>5 DEF ReadFlow
    <2> QED BY <1>1, <1>4, <1>7, <2>6
  <1> QED BY <1>0, <1>6, <1>7 DEF CallTypes

LEMMA FlowInvNext == DInv /\ [Next]_vars => FlowInv'
  <1> SUFFICES ASSUME DInv, [Next]_vars PROVE FlowInv'
    OBVIOUS
  <1>0. /\ IInv /\ CallTypes /\ ChannelTypes /\ DataTypes /\ CallInv /\ BufferInv /\ QuietInv
        /\ FlowInv /\ chan \in [Engines -> Channel] /\ 0 \in Engines
    BY DEF DInv, IInv, ChannelTypes, Engines
  <1>1. ASSUME NEW n \in Lens, NEW r \in Ratios, NEW c \in Channels, Client(n, r, c)
        PROVE  FlowInv'
    BY <1>1 DEF Client, FlowInv, Handed
  <1>2. CASE SetUp
    <2>1. pc' = (IF op = "write" THEN "smi" ELSE "dma") /\ op' = op
      BY <1>2 DEF SetUp
    <2> QED BY <2>1 DEF FlowInv, Handed
  <1>3. CASE smi_start
    <2>1. /\ UNCHANGED <<op, call, len, ratio, channel, chan, mem, cache, fifo, quiet, lost>>
          /\ pc = "smi" /\ pc' = (IF op = "write" THEN "dma" ELSE "await")
      BY <1>3 DEF smi_start, HwStart, history, memory
    <2> SUFFICES ASSUME quiet', Handed', ~lost'
                 PROVE  /\ IF op' = "write" THEN WriteFlow' ELSE ReadFlow'
                        /\ channel' \in Engines => ChannelFlow'
      BY DEF FlowInv
    <2>2. op = "read" /\ pc' = "await" /\ Handed /\ quiet /\ ~lost
      BY <1>0, <2>1 DEF Handed, CallTypes
    <2>3. fifo = <<>> /\ ~Active
      BY <1>0, <2>1, <2>2 DEF QuietInv, Begun
    <2>4. moved' = 0 /\ Len(fifo) = 0
      BY <1>3, <2>3, EmptySent DEF smi_start, HwStart
    <2>5. ReadFlow /\ Pos = 0 /\ Pos' = Pos
      BY <1>0, <2>1, <2>2 DEF FlowInv, ReadFlow, Pos
    <2>6. ReadFlow'
      BY <2>1, <2>2, <2>4, <2>5 DEF ReadFlow
    <2>7. BlockWords' = BlockWords
      BY <2>1 DEF BlockWords, BusWords
    <2>8. channel \in Engines => ChannelFlow'
      BY <1>0, <2>1, <2>2, <2>7 DEF FlowInv, ChannelFlow
    <2> QED BY <2>1, <2>2, <2>6, <2>8
  <1>4. CASE start_dma
    BY <1>0, <1>4, LaunchFlow DEF FlowInv
  <1>5. CASE Poll
    <2>1. /\ UNCHANGED <<op, call, len, ratio, channel, chan, mem, cache, fifo, sent, moved, quiet, lost>>
          /\ pc = "await"
          /\ \/ pc' = "idle" /\ chan[0].end
             \/ pc' = "late?"
      BY <1>5 DEF Poll, hw, history, memory
    <2> QED BY <1>0, <2>1, FlowKept DEF Handed
  <1>6. CASE timeout_complete
    <2>1. /\ UNCHANGED <<op, call, len, ratio, channel, mem, cache, fifo, sent, moved, quiet, lost>>
          /\ pc = "late?"
          /\ \/ pc' = "await" /\ chan' = chan
             \/ pc' = "idle" /\ ret' = -ETIMEDOUT /\ \E e \in BOOLEAN : chan' = Aborted(e)
      BY <1>6 DEF timeout_complete, hw, history, memory
    <2>2. CASE pc' = "await" /\ chan' = chan
      BY <1>0, <2>1, <2>2, FlowKept DEF Handed
    <2>3. CASE pc' = "idle" /\ ret' = -ETIMEDOUT /\ \E e \in BOOLEAN : chan' = Aborted(e)
      <3>1. \A c \in Engines : /\ chan'[c].pos = chan[c].pos /\ chan'[c].left = chan[c].left
                               /\ chan'[c].active => chan[c].active
        <4>1. ASSUME NEW e \in BOOLEAN, chan' = Aborted(e), NEW c \in Engines
              PROVE  /\ chan'[c].pos = chan[c].pos /\ chan'[c].left = chan[c].left
                     /\ chan'[c].active => chan[c].active
          BY <1>0, <4>1 DEF Aborted, Channel
        <4> QED BY <2>3, <4>1
      <3>2. ret' # 1
        BY <2>3 DEF ETIMEDOUT
      <3>3. Pos' = Pos /\ Payload' = Payload /\ BlockWords' = BlockWords
        BY <2>1, <3>1 DEF Pos, Payload, BlockWords, BusWords
      <3> SUFFICES ASSUME quiet', ~lost'
                   PROVE  /\ IF op' = "write" THEN WriteFlow' ELSE ReadFlow'
                          /\ channel' \in Engines => ChannelFlow'
        BY DEF FlowInv
      <3>4. /\ IF op = "write" THEN WriteFlow ELSE ReadFlow
            /\ channel \in Engines => ChannelFlow
        BY <1>0, <2>1 DEF FlowInv, Handed
      <3>5. WriteFlow => WriteFlow'
        BY <2>1, <3>3 DEF WriteFlow
      <3>6. ReadFlow => ReadFlow'
        BY <2>1, <2>3, <3>3 DEF ReadFlow
      <3>7. channel \in Engines /\ ChannelFlow => ChannelFlow'
        BY <2>1, <2>3, <3>1, <3>2, <3>3 DEF ChannelFlow
      <3> QED BY <2>1, <3>4, <3>5, <3>6, <3>7
    <2> QED BY <2>1, <2>2, <2>3
  <1>7. ASSUME NEW d \in Engines, DmaMove(d) PROVE FlowInv'
    BY <1>0, <1>7, MoveFlow DEF FlowInv
  <1>8. CASE BusMove
    BY <1>0, <1>8, BusFlow DEF FlowInv
  <1>9. ASSUME NEW r \in Regions, WriteBack(r) PROVE FlowInv'
    <2>1. /\ UNCHANGED <<op, pc, call, len, ratio, channel, chan, cache, fifo, sent, moved, ret, quiet, lost>>
          /\ cache[r] # {}
      BY <1>9 DEF WriteBack, hw, driver, history
    <2> SUFFICES ASSUME quiet', Handed', ~lost'
                 PROVE  /\ IF op' = "write" THEN WriteFlow' ELSE ReadFlow'
                        /\ channel' \in Engines => ChannelFlow'
      BY DEF FlowInv
    <2>2. /\ IF op = "write" THEN WriteFlow ELSE ReadFlow
          /\ channel \notin Engines
      BY <1>0, <2>1 DEF FlowInv, Handed, ChannelFlow
    <2>3. Pos = 0 /\ Pos' = 0
      BY <2>1, <2>2 DEF Pos
    <2>4. WriteFlow => WriteFlow'
      BY <2>1, <2>2, <2>3 DEF WriteFlow
    <2>5. ReadFlow => ReadFlow'
      BY <2>1, <2>3 DEF ReadFlow
    <2> QED BY <2>1, <2>2, <2>4, <2>5
  <1>10. CASE smi_dma_setup
    BY <1>10 DEF smi_dma_setup, FlowInv
  <1>11. CASE Clock \/ UNCHANGED vars
    <2>1. UNCHANGED <<op, pc, call, len, ratio, channel, chan, mem, cache, fifo, sent, moved, ret, quiet, lost>>
      BY <1>11 DEF Clock, vars, hw, driver, history, memory
    <2> QED BY <1>0, <2>1, FlowKept DEF Handed
  <1> QED
    BY ONLY <1>1, <1>2, <1>3, <1>4, <1>5, <1>6, <1>7, <1>8, <1>9, <1>10, <1>11, [Next]_vars
       DEF Next, CallStep

LEMMA DInvInit == Init => DInv
  <1> SUFFICES ASSUME Init PROVE DInv
    OBVIOUS
  <1>1. IInv
    BY IInvInit
  <1>2. DataTypes
    <2>1. Blank.cb = 0 /\ Blank.data \in Payloads /\ 0 <= MaxWord
      BY MaxWordIs DEF Blank, Payloads, Word
    <2>2. BufferTypes
      BY <2>1 DEF Init, BufferTypes, Regions
    <2>3. \A c \in Engines : ~chan[c].active
      BY DEF Init
    <2> QED BY <2>2, <2>3, EmptyIsSeq, MaxWordIs DEF Init, HwInit, DataTypes
  <1>3. CallInv /\ BufferInv
    BY DEF Init, HwInit, CallInv, BufferInv, Begun, Handed
  <1>4. QuietInv
    BY EmptySent DEF Init, HwInit, QuietInv, Begun
  <1>5. FlowInv
    <2>1. chan = [c \in Engines |-> [active |-> FALSE, end |-> FALSE, left |-> 0, pos |-> 0]]
      BY DEF Init
    <2>2. Pos = 0
      BY <2>1 DEF Pos
    <2>3. channel = 0 /\ 0 \in Engines /\ pc = "idle" /\ ret = 0 /\ len = 0 /\ call = 0
          /\ fifo = <<>> /\ sent = <<>> /\ moved = 0 /\ mem = Blank
          /\ \A r \in Regions : cache[r] = {}
      BY DEF Init, HwInit, Engines
    <2>4. MaxWord \in Nat /\ mem["data"] = Payload
      BY <2>3, MaxWordIs DEF Blank, Payload
    <2>5. WriteFlow
      BY <2>2, <2>3, <2>4, EmptySent DEF WriteFlow
    <2>6. ReadFlow
      BY <2>2, <2>3, EmptySent DEF ReadFlow
    <2>7. BlockWords = 0
      <3>1. word_reads(0, [read |-> 1, out_pixels |-> 1]) = 0
        BY DEF word_reads
      <3> QED BY <2>3, <3>1 DEF Init, BlockWords, BusWords
    <2>8. ChannelFlow
      BY <2>1, <2>3, <2>7 DEF ChannelFlow
    <2> QED BY <2>5, <2>6, <2>8 DEF FlowInv
  <1>6. LostInv
    BY DEF Init, LostInv
  <1> QED BY <1>1, <1>2, <1>3, <1>4, <1>5, <1>6 DEF DInv

LEMMA LostInvNext == BufferInv /\ LostInv /\ [Next]_vars => LostInv'
  <1> SUFFICES ASSUME BufferInv, LostInv, [Next]_vars, build' # "cached" PROVE ~lost'
    BY DEF LostInv
  <1>1. ASSUME NEW n \in Lens, NEW r \in Ratios, NEW c \in Channels, Client(n, r, c)
        PROVE  ~lost'
    BY <1>1 DEF Client
  <1>2. ASSUME UNCHANGED <<build, lost>> PROVE ~lost'
    BY <1>2 DEF LostInv
  <1>3. CASE start_dma
    <2>1. build' = build /\ (sync_for_cpu \/ UNCHANGED lost)
      BY <1>3 DEF start_dma
    <2>2. CASE sync_for_cpu
      <3>1. "cb" \in Regions /\ "data" \in Regions
        BY DEF Regions
      <3>2. mem' = [r \in Regions |-> mem[r]]
            /\ lost' = (mem'.cb # View("cb") \/ (op = "write" /\ mem'.data # View("data")))
        BY <2>1, <2>2 DEF sync_for_cpu
      <3>3. View("cb") = mem["cb"] /\ View("data") = mem["data"]
        BY <2>1, <3>1 DEF View, BufferInv
      <3>4. mem'.cb = mem["cb"] /\ mem'.data = mem["data"]
        BY <3>1, <3>2
      <3> QED BY ONLY <3>2, <3>3, <3>4
    <2> QED BY <1>2, <2>1, <2>2
  <1>4. CASE smi_dma_setup \/ SetUp \/ smi_start \/ Poll \/ timeout_complete
    BY <1>2, <1>4 DEF smi_dma_setup, SetUp, smi_start, Poll, timeout_complete, history
  <1>5. ASSUME NEW c \in Engines, DmaMove(c) PROVE ~lost'
    BY <1>2, <1>5 DEF DmaMove, history
  <1>6. ASSUME NEW r \in Regions, WriteBack(r) PROVE ~lost'
    BY <1>2, <1>6 DEF WriteBack, history
  <1>7. CASE BusMove \/ Clock \/ UNCHANGED vars
    BY <1>2, <1>7 DEF BusMove, Clock, vars, history
  <1> QED BY ONLY <1>1, <1>3, <1>4, <1>5, <1>6, <1>7, [Next]_vars DEF Next, CallStep

LEMMA DInvNext == DInv /\ [Next]_vars => DInv'
  <1> SUFFICES ASSUME DInv, [Next]_vars PROVE DInv'
    OBVIOUS
  <1>1. IInv' 
    BY CallTypesNext, BlockTypesNext, ChannelTypesNext, ZeroInvNext DEF DInv, IInv
  <1>2. DataTypes'
    BY DataTypesNext DEF DInv, IInv
  <1>3. CallInv' /\ BufferInv' /\ QuietInv' /\ LostInv' /\ FlowInv'
    BY CallInvNext, BufferInvNext, QuietInvNext, LostInvNext, FlowInvNext DEF DInv
  <1> QED BY <1>1, <1>2, <1>3 DEF DInv

LEMMA DInvAlways == Spec => []DInv
  BY DInvInit, DInvNext, PTL DEF Spec

\* smi_programmed_write_dma and smi_programmed_read_dma (smi.c:648-743): once such a call
\* has found the hardware idle and the SMI works for it, the bus sees its words and no
\* others, in order, for every length, packing and channel; in a 64-bit build, unless the
\* sync of start_dma dropped what the call had written.
THEOREM OwnWordsOnly == Spec => []OwnWordsMoved
  <1>1. ASSUME DInv PROVE OwnWordsMoved
    <2> SUFFICES ASSUME quiet, owner = call, ~lost, NEW i \in 1..Len(sent)
                 PROVE  sent[i] = <<call, i>>
      BY <1>1 DEF OwnWordsMoved, Kept, DInv, LostInv
    <2>1. Begun /\ pc # "setup" /\ op \in {"read", "write"}
      BY <1>1 DEF DInv, IInv, DataTypes, CallInv, CallTypes, Begun
    <2>2. CASE op = "read"
      BY <1>1, <2>1, <2>2 DEF DInv, QuietInv
    <2>3. CASE op = "write" /\ Handed
      BY <1>1, <2>3 DEF DInv, FlowInv, WriteFlow
    <2>4. CASE op = "write" /\ ~Handed
      BY <1>1, <2>1, <2>4, EmptySent DEF DInv, QuietInv
    <2> QED BY <2>1, <2>2, <2>3, <2>4
  <1> QED BY <1>1, DInvAlways, PTL

\* smi_dma_await (smi.c:621-646): when it returns success on channel 0 to a call that
\* found the hardware idle, the whole transfer of this very call has taken place: a read's
\* words are all in the buffer, a write's all with the controller, in order and none
\* beside them.  Always in a 32-bit build, and in a 64-bit one when nothing was lost.
THEOREM SuccessIsWhole == Spec => []SuccessMeansMoved
  <1>1. ASSUME DInv PROVE SuccessMeansMoved
    <2> SUFFICES ASSUME pc = "idle", ret = 1, quiet, channel = 0, ~lost
                 PROVE  IF op = "read" THEN \A i \in 1..BusWords : mem.data[i] = <<call, i>>
                                       ELSE sent \o fifo = [i \in 1..len |-> <<call, i>>]
      BY <1>1 DEF SuccessMeansMoved, Kept, DInv, LostInv
    <2>1. /\ IF op = "write" THEN WriteFlow ELSE ReadFlow
          /\ ChannelFlow /\ 0 \in Engines
      BY <1>1 DEF DInv, FlowInv, Handed, Engines
    <2>2. chan[0].pos \in Nat /\ fifo \in Seq(Word) /\ sent \in Seq(Word)
          /\ op \in {"read", "write"} /\ len \in Nat /\ BlockWords \in Nat
      BY <1>1, <2>1, BlockWordsBounds
         DEF DInv, IInv, ChannelTypes, Channel, DataTypes, CallTypes
    <2>3. Pos = BlockWords
      BY <2>1, <2>2 DEF ChannelFlow, Pos
    <2>4. CASE op = "read"
      BY <2>1, <2>3, <2>4 DEF ReadFlow, BlockWords
    <2>5. CASE op = "write"
      <3> DEFINE words == [i \in 1..len |-> <<call, i>>]
      <3>1. Len(sent) \in Nat /\ Len(fifo) \in Nat /\ Len(sent) + Len(fifo) = len
        BY <2>1, <2>2, <2>3, <2>5, LenProperties DEF WriteFlow, BlockWords
      <3>2. words \in Seq(Word) /\ Len(words) = len
        <4>1. \A i \in 1..len : <<call, i>> \in Word
          BY <1>1, <2>2 DEF DInv, DataTypes, Word
        <4> QED BY <2>2, <4>1
      <3>3. sent \o fifo \in Seq(Word) /\ Len(sent \o fifo) = len
        BY <2>2, <3>1, ConcatProperties
      <3>4. ASSUME NEW i \in 1..len PROVE (sent \o fifo)[i] = <<call, i>>
        <4>1. CASE i <= Len(sent)
          <5>1. (sent \o fifo)[i] = sent[i]
            BY <2>2, <3>1, <3>3, <4>1, ConcatProperties
          <5> QED BY <2>1, <2>5, <3>1, <4>1, <5>1 DEF WriteFlow
        <4>2. CASE i > Len(sent)
          <5>1. (sent \o fifo)[i] = fifo[i - Len(sent)]
            BY <2>2, <3>1, <3>3, <4>2, ConcatProperties
          <5>2. i - Len(sent) \in 1..Len(fifo) /\ Len(sent) + (i - Len(sent)) = i
            BY <3>1, <4>2
          <5>3. fifo[i - Len(sent)] = <<call, Len(sent) + (i - Len(sent))>>
            BY <2>1, <2>5, <5>2 DEF WriteFlow
          <5> QED BY <5>1, <5>2, <5>3
        <4> QED BY <3>1, <4>1, <4>2
      <3>5. sent \o fifo = words
        BY <3>2, <3>3, <3>4, SeqEqual
      <3> QED BY <2>5, <3>5
    <2> QED BY <2>2, <2>4, <2>5
  <1> QED BY <1>1, DInvAlways, PTL
=============================================================================
