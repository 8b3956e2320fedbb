----------------------------- MODULE DmaTransfer -----------------------------
(***************************************************************************)
(* DMA transfers: smi_programmed_write_dma, smi_programmed_read_dma,       *)
(* start_dma and smi_dma_await, between a u-dma-buf buffer and the SMI.    *)
(* The channels of the DMA controller and the SMI go on by themselves; a   *)
(* channel given up on may still run when the next call is made.           *)
(*                                                                         *)
(* The buffer holds a control block and the payload.  A 32-bit build maps  *)
(* it uncached (dma.c:20).  A 64-bit build maps it cached: what the CPU    *)
(* writes stays in its cache until the cache or a sync moves it.           *)
(*                                                                         *)
(* A word is <<c, i>>, word i of call c.  The calls of a behaviour all go  *)
(* in one direction, and all use the same addresses in the buffer.         *)
(***************************************************************************)
EXTENDS SmiController

CONSTANTS Lens,     \* transfer lengths the client asks for
          Ratios,   \* FIFO words to samples: 1 to 1 plain, fewer words with pxldata
          Channels, \* channel numbers the client passes
          MaxCalls  \* bound on the calls of a behaviour

ASSUME DmaConstants ==
    /\ Lens \subseteq Nat \ {0}
    /\ Ratios \subseteq [read : Nat \ {0}, out_pixels : Nat \ {0}]
    /\ \A r \in Ratios : r.read <= r.out_pixels
    /\ Channels \subseteq Nat /\ MaxCalls \in Nat
    /\ \E n \in Lens : \A m \in Lens : m <= n   \* the u-dma-buf has a size

\* start_dma refuses channels above 14; smi_dma_await looks at channel 0.
Engines == {0} \cup {c \in Channels : c <= 14}
Regions == {"cb", "data"}
MaxWord == CHOOSE n \in Lens : \A m \in Lens : m <= n
Blank   == [cb |-> 0, data |-> [i \in 1..MaxWord |-> <<0, 0>>]]

VARIABLES op, build, \* direction of the calls, and "coherent" or "cached"
          chan,     \* DMA channels: [active, end, left, pos]
          mem,      \* the buffer in memory; the control block is its tfr_len in words
          cache,    \* region -> {} or {what the CPU cache holds of it}
          pc, call, len, ratio, channel, late, ret,
          sent,     \* history: words the latest transfer put on the bus
          refused,  \* history: start_dma refused
          quiet,    \* history: this call found SMI and channels idle, and none cleared since
          lost      \* history: start_dma's sync dropped what this call had written

memory  == <<mem, cache>>
driver  == <<pc, call, len, ratio, channel, late, ret>>
history == <<refused, quiet, lost>>
vars    == <<hw, op, build, chan, memory, driver, sent, history>>

ETIMEDOUT == 110

word_reads(n, r) == (n * r.read + r.out_pixels - 1) \div r.out_pixels

\* FIFO words of the transfer.
BusWords == word_reads(len, ratio)

\* Words the control block is set up for: a packed write is given a word a sample.
BlockWords == IF op = "write" THEN len ELSE BusWords

View(r) == IF cache[r] = {} THEN mem[r] ELSE CHOOSE v \in cache[r] : TRUE

\* Memory and cache once the CPU has written new[r] to the regions in R.
CpuWrite(R, new) ==
    IF build = "cached"
      THEN cache' = [r \in Regions |-> IF r \in R THEN {new[r]} ELSE cache[r]] /\ mem' = mem
      ELSE mem' = [r \in Regions |-> IF r \in R THEN new[r] ELSE mem[r]] /\ cache' = cache

Init ==
    /\ op \in {"read", "write"} /\ build \in {"coherent", "cached"}
    /\ HwInit /\ sent = <<>> /\ mem = Blank /\ cache = [r \in Regions |-> {}]
    /\ chan = [c \in Engines |-> [active |-> FALSE, end |-> FALSE, left |-> 0, pos |-> 0]]
    /\ pc = "idle" /\ call = 0 /\ len = 0 /\ channel = 0
    /\ ratio = [read |-> 1, out_pixels |-> 1]
    /\ late = FALSE /\ ret = 0 /\ refused = FALSE /\ quiet = TRUE /\ lost = FALSE

-----------------------------------------------------------------------------
(* The client *)

\* Clear the buffer, lay out the payload of a write, and call.
Client(n, r, c) ==
    /\ pc = "idle" /\ call < MaxCalls
    /\ pc' = "setup" /\ call' = call + 1 /\ len' = n /\ ratio' = r /\ channel' = c
    /\ CpuWrite(Regions, [Blank EXCEPT !.data = [i \in 1..MaxWord |->
                  IF op = "write" /\ i <= n THEN <<call', i>> ELSE <<0, 0>>]])
    /\ refused' = FALSE /\ lost' = FALSE /\ late' = FALSE
    /\ UNCHANGED <<hw, op, build, chan, ret, sent, quiet>>

\* CLEAR and ENABLE; its DMAEN goes to DCS, where it means nothing.
smi_dma_setup ==
    /\ pc = "idle" /\ fifo # <<>> /\ HwClear /\ quiet' = FALSE
    /\ UNCHANGED <<op, build, chan, memory, driver, sent, refused, lost>>

-----------------------------------------------------------------------------
(* smi_programmed_write_dma and smi_programmed_read_dma *)

\* Seeded bug: no CLEAR.
SetUp_NoClear ==
    /\ pc = "setup" /\ pc' = IF op = "write" THEN "smi" ELSE "dma"
    /\ CpuWrite({"cb"}, [Blank EXCEPT !.cb = BlockWords]) /\ UNCHANGED hw
    /\ quiet' = (~Active /\ \A c \in Engines : ~chan[c].active)
    /\ UNCHANGED <<op, build, chan, call, len, ratio, channel, late, ret, sent, refused, lost>>

\* The control block, and CS with its CLEAR.
SetUp ==
    /\ pc = "setup" /\ pc' = IF op = "write" THEN "smi" ELSE "dma"
    /\ CpuWrite({"cb"}, [Blank EXCEPT !.cb = BlockWords]) /\ HwClear
    /\ quiet' = (~Active /\ \A c \in Engines : ~chan[c].active)
    /\ UNCHANGED <<op, build, chan, call, len, ratio, channel, late, ret, sent, refused, lost>>

\* A write starts the SMI first, a read the channel.
smi_start ==
    /\ pc = "smi" /\ pc' = IF op = "write" THEN "dma" ELSE "await"
    /\ HwStart(call, BusWords) /\ sent' = IF Active THEN sent ELSE <<>>
    /\ UNCHANGED <<op, build, chan, memory, call, len, ratio, channel, late, ret, history>>

\* In a 64-bit build the cache gives the buffer up: a dirty region is dropped, or
\* cleaned first.
sync_for_cpu ==
    \E cleaned \in IF build = "cached" THEN SUBSET Regions ELSE {{}} :
      /\ mem' = [r \in Regions |-> IF r \in cleaned THEN View(r) ELSE mem[r]]
      /\ cache' = [r \in Regions |-> {}]
      /\ lost' = (mem'.cb # View("cb") \/ (op = "write" /\ mem'.data # View("data")))

\* Seeded bug: ACTIVE is written alone, so a stale END stays.
Launched_KeepsEnd(c) == [chan[c] EXCEPT !.active = TRUE, !.left = mem'.cb, !.pos = 0]

\* active = 1 writes a set END back, and so clears it; the engine fetches the block.
Launched(c) == [active |-> TRUE, end |-> FALSE, left |-> mem'.cb, pos |-> 0]

\* The callers ignore what start_dma returns.
start_dma ==
    /\ pc = "dma" /\ pc' = IF op = "write" THEN "await" ELSE "smi"
    /\ IF channel > 14 THEN refused' = TRUE /\ UNCHANGED <<chan, memory, lost>>
       ELSE /\ sync_for_cpu
            /\ refused' = chan[channel].active
            /\ chan' = IF refused' THEN chan
                                   ELSE [chan EXCEPT ![channel] = Launched(channel)]
    /\ UNCHANGED <<hw, op, build, call, len, ratio, channel, late, ret, sent, quiet>>

-----------------------------------------------------------------------------
(* smi_dma_await, on channel 0 whatever the call's channel *)

Poll ==
    /\ pc = "await"
    /\ IF chan[0].end THEN pc' = "idle" /\ ret' = 1 ELSE pc' = "late?" /\ ret' = ret
    /\ UNCHANGED <<hw, op, build, chan, memory, call, len, ratio, channel, late, sent, history>>

\* Seeded bug: a timeout leaves the channel running.
Aborted_Not(e) == chan

\* ABORT stops the channel; whether that raises END is left open.
Aborted(e) == [chan EXCEPT ![0].active = FALSE, ![0].end = e]

\* Seeded bug: the deadline is computed anew in every turn.
timeout_complete_Restarted ==
    /\ pc = "late?" /\ pc' = "await" /\ late' = FALSE
    /\ UNCHANGED <<hw, op, build, chan, memory, call, len, ratio, channel, ret, sent, history>>

timeout_complete ==
    /\ pc = "late?"
    /\ IF late THEN pc' = "idle" /\ ret' = -ETIMEDOUT /\ \E e \in BOOLEAN : chan' = Aborted(e)
               ELSE pc' = "await" /\ UNCHANGED <<ret, chan>>
    /\ UNCHANGED <<hw, op, build, memory, call, len, ratio, channel, late, sent, history>>

-----------------------------------------------------------------------------
(* Environment *)

Moved(c) ==
    [chan EXCEPT ![c] = [active |-> @.left > 1, end |-> @.end \/ @.left <= 1,
                         left |-> IF @.left = 0 THEN 0 ELSE @.left - 1, pos |-> @.pos + 1]]

\* A channel moves a word between memory and FIFO when the SMI requests it, and
\* raises END with the last one; an empty control block ends at once.
DmaMove(c) ==
    /\ chan[c].active /\ chan' = Moved(c)
    /\ LET i == chan[c].pos + 1
       IN  \/ chan[c].left = 0 /\ UNCHANGED <<fifo, mem>>
           \/ /\ chan[c].left > 0 /\ op = "write" /\ Len(fifo) < FifoDepth
              /\ fifo' = Append(fifo, mem.data[i]) /\ mem' = mem
           \/ /\ chan[c].left > 0 /\ op = "read" /\ fifo # <<>>
              /\ mem' = [mem EXCEPT !.data[i] = Head(fifo)] /\ fifo' = Tail(fifo)
    /\ UNCHANGED <<owner, moved, total, op, build, cache, driver, sent, history>>

\* The SMI moves a word between FIFO and device.
BusMove ==
    /\ Active /\ moved' = moved + 1
    /\ \/ /\ op = "write" /\ fifo # <<>>
          /\ fifo' = Tail(fifo) /\ sent' = Append(sent, Head(fifo))
       \/ /\ op = "read" /\ Len(fifo) < FifoDepth
          /\ fifo' = Append(fifo, <<owner, moved'>>) /\ sent' = Append(sent, <<owner, moved'>>)
    /\ UNCHANGED <<owner, total, op, build, chan, memory, driver, history>>

\* The cache writes a dirty region back when it likes.
WriteBack(r) ==
    /\ cache[r] # {} /\ View(r) # mem[r] /\ mem' = [mem EXCEPT ![r] = View(r)]
    /\ UNCHANGED <<hw, op, build, chan, cache, driver, sent, history>>

Clock ==
    /\ pc \in {"await", "late?"} /\ ~late /\ late' = TRUE
    /\ UNCHANGED <<hw, op, build, chan, memory, pc, call, len, ratio, channel, ret, sent, history>>

CallStep == SetUp \/ smi_start \/ start_dma \/ Poll \/ timeout_complete

Next == \/ \E n \in Lens, r \in Ratios, c \in Channels : Client(n, r, c)
        \/ smi_dma_setup \/ CallStep
        \/ \E c \in Engines : DmaMove(c)
        \/ BusMove \/ \E r \in Regions : WriteBack(r)
        \/ Clock

Spec == Init /\ [][Next]_vars /\ WF_vars(CallStep) /\ WF_vars(Clock)

-----------------------------------------------------------------------------
(* Properties *)

\* What the properties of a transfer leave out: in a 64-bit build the sync before the
\* transfer may have dropped what the program had written.  sync_for_cpu (dma.c:58)
\* comes where a write would need sync_for_device, so this can happen in every call.
Kept == build = "cached" => ~lost

\* start_dma and smi_programmed_*_dma: a transfer set up on idle hardware moves its
\* own words only, in order: none of an earlier call, none from a stale control
\* block, none of an old payload.  In a 64-bit build this is only said of a call whose
\* control block and payload reached memory (Kept); otherwise old words may move.
OwnWordsMoved ==
    quiet /\ owner = call /\ Kept =>
        \A i \in 1..Len(sent) : sent[i] = <<call, i>>

\* smi_programmed_read_dma, smi_programmed_write_dma: success on channel 0, of a call
\* that found the hardware idle, means that every word of a read is in memory, and
\* that the controller has every word of a write, in order, on the bus or still in
\* its FIFO, whatever END an earlier call left.  A 32-bit build promises this of every
\* such call, a 64-bit build only if nothing written was lost (Kept): END comes
\* as well, and at once, from a control block of which memory has an old copy.
SuccessMeansMoved ==
    pc = "idle" /\ ret = 1 /\ quiet /\ channel = 0 /\ Kept =>
        IF op = "read" THEN \A i \in 1..BusWords : mem.data[i] = <<call, i>>
                       ELSE sent \o fifo = [i \in 1..len |-> <<call, i>>]

\* smi_dma_await: channel 0 is never left running, so that start_dma, whose refusal
\* the callers ignore, never refuses it.
ChannelZeroFree ==
    /\ pc \in {"idle", "setup"} => ~chan[0].active
    /\ refused => channel # 0

\* A device or DMA channel that stalls cannot hang the caller.
CallReturns == pc # "idle" ~> pc = "idle"
=============================================================================
