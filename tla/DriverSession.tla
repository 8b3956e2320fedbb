---------------------------- MODULE DriverSession ----------------------------
(***************************************************************************)
(* Runs of a program that uses the driver: the context and its raw buffer, *)
(* the SMI clock, the device settings, and the settings a read then works  *)
(* with.                                                                   *)
(*                                                                         *)
(* Registers outlive the program, which may be killed at any point; its    *)
(* memory does not.  Of most settings only the origin is kept: "reset",    *)
(* "client", or "junk" for memory nobody wrote.  The client may map, read  *)
(* and unmap in any order, but uses no pointer before something set it:    *)
(* `good' and `bound' say what is set.  A behaviour has no more calls once *)
(* a pointer that is no heap block was handed to realloc or free, or       *)
(* written through; `wild' says whose doing that was.                      *)
(***************************************************************************)
EXTENDS Integers

CONSTANTS Devices,  \* device numbers the client uses
          Widths,   \* values of rwidth it uses
          MaxSteps  \* bound on the calls of a behaviour

ASSUME SessionConstants == 0 \in Devices /\ Devices \subseteq 0..4 /\ MaxSteps \in Nat

Formats == {"RGB565", "XRGB"}
Origins == {"reset", "junk", "client"}
Slots   == Devices \cap 0..3   \* devices with registers

\* What is kept of SMI_READ and a DSR, of SMI_WRITE and a DSW.
ReadSettings  == [width : Widths \cup {8}, timing : Origins]
WriteSettings == [format : Formats, setup : Origins \cup Formats, timing : Origins]

VARIABLES clk,       \* clock manager: [div, on, busy]
          dsr, dsw,  \* device settings registers
          device,    \* A.DEVICE
          pc,        \* "off", "up", or where init_smi_clk is
          buf,       \* SMI_CXT.raw_buffer.buf: "junk", "null", "live" or "freed"
          sized,     \* SMI_CXT.raw_buffer.size > 0
          open,      \* history: the latest mapping succeeded, no unmap since
          wild,      \* history: who misused buf: "no", "client" or "driver"
          good,      \* the register pointers of SMI_CXT are set
          bound,     \* SMI_CXT.rw_config is set
          rw,        \* SMI_RW: [rd, wr, rconfig, wconfig]
          steps,
          synced,    \* history: smi_sync_context_device succeeded, nothing set since
          torn,      \* history: a program was killed inside init_smi_clk
          last       \* history: the settings the latest call, a read, worked with

hardware == <<clk, dsr, dsw, device>>
buffer   == <<buf, sized, open, wild>>
context  == <<good, bound>>
vars     == <<hardware, pc, buffer, context, rw, steps, synced, torn, last>>

Divi  == 2      \* ns / 2 of the client
Idle  == [op |-> "none"]
Unset(w, f) ==
    [rd |-> 0, wr |-> 0,
     rconfig |-> [d \in Slots |-> [width |-> w, timing |-> "junk"]],
     wconfig |-> [d \in Slots |-> [format |-> f, setup |-> "junk", timing |-> "junk"]]]

Init ==
    /\ clk \in {[div |-> 0, on |-> FALSE, busy |-> FALSE], [div |-> 4, on |-> TRUE, busy |-> TRUE]}
    /\ dsr = [d \in Slots |-> [width |-> 8, timing |-> "reset"]]
    /\ dsw = [d \in Slots |-> [format |-> "RGB565", setup |-> "reset", timing |-> "reset"]]
    /\ device = 0 /\ pc = "off" /\ steps = 0 /\ rw = Unset(8, "XRGB")
    /\ buf = "junk" /\ sized = FALSE /\ open = FALSE /\ wild = "no" /\ good = FALSE /\ bound = FALSE
    /\ synced = FALSE /\ torn = FALSE /\ last = Idle

\* A call of the client, in a program that is up and whose heap is whole.
Call == pc = "up" /\ wild = "no" /\ steps < MaxSteps /\ steps' = steps + 1

-----------------------------------------------------------------------------
(* The program and its context *)

\* SMI_CXT and SMI_RW are on its stack, which holds anything.  (The device numbers and
\* the timing are not looked at before smi_init_rw_config.)
Exec(w, f) ==
    /\ pc = "off" /\ pc' = "up" /\ steps < MaxSteps /\ steps' = steps + 1
    /\ rw' = Unset(w, f) /\ buf' = "junk" /\ sized' \in BOOLEAN
    /\ UNCHANGED <<hardware, open, wild, context, synced, torn, last>>

\* Killed, or the exit(1) of map_segment.
Kill ==
    /\ pc # "off" /\ pc' = "off" /\ torn' = (torn \/ pc # "up")
    /\ good' = FALSE /\ bound' = FALSE /\ open' = FALSE /\ wild' = "no"
    /\ synced' = FALSE /\ last' = Idle
    /\ UNCHANGED <<hardware, buf, sized, rw, steps>>

\* The size is set whether malloc succeeds or not, the pointers only if it does.
smi_init_cxt_map ==
    /\ Call /\ open' \in BOOLEAN /\ good' = (good \/ open')
    /\ buf' = (IF open' THEN "live" ELSE "null") /\ sized' = TRUE
    /\ last' = Idle /\ UNCHANGED <<hardware, pc, wild, bound, rw, synced, torn>>

\* Who is to blame for a misuse of buf.
Blame == IF open THEN "driver" ELSE "client"

\* Mappings and pointers stay: munmap is given the descriptors.
smi_unmap_cxt ==
    /\ Call /\ good /\ open' = FALSE /\ sized' = FALSE
    /\ buf' = (IF buf = "null" THEN "null" ELSE "freed")
    /\ wild' = (IF buf \in {"live", "null"} THEN "no" ELSE Blame)
    /\ last' = Idle /\ UNCHANGED <<hardware, pc, context, rw, synced, torn>>

\* Seeded bug: what realloc returns is stored before it is looked at.
Realloc_Stored(refused) ==
    /\ wild' = (IF buf \in {"live", "null"} THEN "no" ELSE Blame)
    /\ buf' = (IF refused THEN "null" ELSE "live") /\ sized' = (sized \/ ~refused)
    /\ open' = open

\* realloc of the raw buffer, which takes NULL too; refused, it leaves the block.
Realloc(refused) ==
    /\ wild' = (IF buf \in {"live", "null"} THEN "no" ELSE Blame)
    /\ buf' = (IF refused THEN buf ELSE "live") /\ sized' = (sized \/ ~refused)
    /\ open' = open

\* A length of 0 is turned down.
smi_resize_raw_buffer ==
    /\ Call /\ last' = Idle
    /\ UNCHANGED buffer \/ \E refused \in BOOLEAN : Realloc(refused)
    /\ UNCHANGED <<hardware, pc, context, rw, synced, torn>>

-----------------------------------------------------------------------------
(* init_smi_clk, which writes the clock manager in three steps *)

ClkStep(from, to) ==
    /\ pc = from /\ pc' = to
    /\ UNCHANGED <<dsr, dsw, device, buffer, context, rw, synced, torn>>

\* After a call of smi_init_cxt_map, which maps the clock even if malloc fails.
init_smi_clk ==
    /\ Call /\ buf # "junk" /\ last' = Idle
    /\ pc' = (IF clk.div = Divi THEN "up" ELSE "stop")
    /\ UNCHANGED <<hardware, buffer, context, rw, synced, torn>>

\* Seeded bugs: no wait for the clock to stop, none for it to start, and one for it
\* to stop where it should start.
ClkWait_NotStopped ==
    \/ ClkStep("stopped?", "divide") /\ UNCHANGED <<clk, steps, last>>
    \/ ClkStep("running?", "up") /\ clk.busy /\ UNCHANGED <<clk, steps, last>>
ClkWait_NotRunning ==
    \/ ClkStep("stopped?", "divide") /\ ~clk.busy /\ UNCHANGED <<clk, steps, last>>
    \/ ClkStep("running?", "up") /\ UNCHANGED <<clk, steps, last>>
ClkWait_Inverted ==
    /\ ClkStep("stopped?", "divide") \/ ClkStep("running?", "up")
    /\ ~clk.busy /\ UNCHANGED <<clk, steps, last>>

\* The two unbounded waits for BUSY.
ClkWait ==
    \/ ClkStep("stopped?", "divide") /\ ~clk.busy /\ UNCHANGED <<clk, steps, last>>
    \/ ClkStep("running?", "up") /\ clk.busy /\ UNCHANGED <<clk, steps, last>>

\* KILL; the divisor; the source and ENABLE.
ClkWrite ==
    /\ \/ ClkStep("stop", "stopped?") /\ clk' = [clk EXCEPT !.on = FALSE]
       \/ ClkStep("divide", "start") /\ clk' = [clk EXCEPT !.div = Divi]
       \/ ClkStep("start", "running?") /\ clk' = [clk EXCEPT !.on = TRUE]
    /\ UNCHANGED <<steps, last>>

\* The clock follows ENABLE.
ClockSettles ==
    /\ clk.busy # clk.on /\ clk' = [clk EXCEPT !.busy = clk.on]
    /\ UNCHANGED <<dsr, dsw, device, pc, buffer, context, rw, steps, synced, torn, last>>

-----------------------------------------------------------------------------
(* Device settings *)

Set(new) ==
    /\ Call /\ rw' = new /\ synced' = FALSE /\ last' = Idle
    /\ UNCHANGED <<hardware, pc, buffer, good, torn>>

\* Both settings are stored at the index of the write device.
smi_init_rw_config(r, d, w) ==
    /\ d \in Slots /\ bound' = TRUE
    /\ Set([rw EXCEPT !.rd = r, !.wr = d,
              !.rconfig[d] = [width |-> w, timing |-> "client"],
              !.wconfig[d] = [format |-> "RGB565", setup |-> "client", timing |-> "client"]])

\* cxt.rw_config->rconfig->rwidth = w, and the same of wformat: element 0.
ClientSets(w, f) ==
    /\ bound /\ bound' = TRUE
    /\ Set([rw EXCEPT !.rconfig[0].width = w, !.wconfig[0].format = f])

ClientSelects(r, d) == bound /\ bound' = TRUE /\ Set([rw EXCEPT !.rd = r, !.wr = d])

\* Seeded bug: the settings of element 0 are taken.
smi_configure_write_device_First(d) ==
    dsw' = [dsw EXCEPT ![d] = [rw.wconfig[0] EXCEPT !.setup = rw.wconfig[0].format]]

\* wsetup takes the format.
smi_configure_write_device(d) ==
    dsw' = [dsw EXCEPT ![d] = [rw.wconfig[d] EXCEPT !.setup = rw.wconfig[d].format]]

smi_configure_read_device(d) == dsr' = [dsr EXCEPT ![d] = rw.rconfig[d]]

\* The configure functions return no value: what is taken for one decides whether the
\* read device is configured, and is reported.
smi_sync_context_device ==
    /\ Call /\ good /\ bound /\ last' = Idle
    /\ \E negative1, negative2 \in BOOLEAN :
         IF rw.wr \notin Slots
           THEN synced' = FALSE /\ UNCHANGED <<dsr, dsw>>
           ELSE /\ smi_configure_write_device(rw.wr)
                /\ IF negative1 \/ rw.rd \notin Slots
                     THEN synced' = FALSE /\ dsr' = dsr
                     ELSE synced' = ~negative2 /\ smi_configure_read_device(rw.rd)
    /\ UNCHANGED <<clk, device, pc, buffer, context, rw, torn>>

-----------------------------------------------------------------------------
(* The settings of a transfer *)

\* Width and format the driver takes the samples to have.
Assumed == [width |-> rw.rconfig[0].width, format |-> rw.wconfig[0].format]

\* Room in the raw buffer: it is large enough, and is written through as it is, or is grown
\* first, or cannot be grown.  One of size 0 is never large enough.
RawBuffer(how) ==
    \/ how = "enough" /\ sized /\ wild' = (IF buf = "live" THEN "no" ELSE Blame)
                      /\ UNCHANGED <<buf, sized, open>>
    \/ how = "grown" /\ Realloc(FALSE)
    \/ how = "refused" /\ Realloc(TRUE)

\* Seeded bug: the device is not selected.
SelectAndSet_NoDevice ==
    /\ dsr' = (IF rw.rd \in Slots THEN [dsr EXCEPT ![rw.rd].width = Assumed.width] ELSE dsr)
    /\ dsw' = (IF rw.wr \in Slots THEN [dsw EXCEPT ![rw.wr].format = Assumed.format] ELSE dsw)
    /\ device' = device

\* Selects the read device, in two bits, and gives its registers the settings of element 0.
\* The registers of device 4 are DC and DCS, where these fields have no meaning.
SelectAndSet ==
    /\ dsr' = (IF rw.rd \in Slots THEN [dsr EXCEPT ![rw.rd].width = Assumed.width] ELSE dsr)
    /\ dsw' = (IF rw.wr \in Slots THEN [dsw EXCEPT ![rw.wr].format = Assumed.format] ELSE dsw)
    /\ device' = rw.rd % 4

smi_programmed_read_arr ==
    /\ Call /\ good /\ bound
    /\ \E how \in {"enough", "grown", "refused"} :
         /\ RawBuffer(how)
         /\ IF how = "refused"
              THEN last' = Idle /\ UNCHANGED <<dsr, dsw, device, synced>>
              ELSE /\ SelectAndSet /\ synced' = FALSE
                   /\ last' = [op |-> "read", width |-> dsr'[device'].width,
                               format |-> dsw'[device'].format]
    /\ UNCHANGED <<clk, pc, context, rw, torn>>

\* smi_direct_read and smi_direct_write_arr set 8 bits, smi_direct_read_arr ("array") the
\* width of element 0; all of device 0.  (Programmed writes and DMA transfers set no device.)
smi_direct(o) ==
    /\ Call /\ good /\ (o = "array" => bound)
    /\ dsr' = [dsr EXCEPT ![0].width = IF o = "array" THEN Assumed.width ELSE 8]
    /\ synced' = FALSE /\ last' = Idle
    /\ UNCHANGED <<clk, dsw, device, pc, buffer, context, rw, torn>>

ClkNext == init_smi_clk \/ ClkWait \/ ClkWrite

Next == \/ \E w \in Widths, f \in Formats : Exec(w, f)
        \/ Kill \/ smi_init_cxt_map \/ smi_unmap_cxt \/ smi_resize_raw_buffer
        \/ ClkNext \/ ClockSettles
        \/ \E r, d \in Devices : ClientSelects(r, d) \/ \E w \in Widths : smi_init_rw_config(r, d, w)
        \/ \E w \in Widths, f \in Formats : ClientSets(w, f)
        \/ smi_sync_context_device
        \/ smi_programmed_read_arr
        \/ \E o \in {"single", "array"} : smi_direct(o)

\* The processor runs the program, and the clock generator follows its registers.
Spec == /\ Init /\ [][Next]_vars
        /\ WF_vars(ClkWait) /\ WF_vars(ClkWrite) /\ WF_vars(ClockSettles)

-----------------------------------------------------------------------------
(* Properties *)

TypeOK ==
    /\ clk \in [div : {0, 4, Divi}, on : BOOLEAN, busy : BOOLEAN]
    /\ dsr \in [Slots -> ReadSettings] /\ dsw \in [Slots -> WriteSettings] /\ device \in Slots
    /\ pc \in {"off", "up", "stop", "stopped?", "divide", "start", "running?"}
    /\ buf \in {"junk", "null", "live", "freed"} /\ wild \in {"no", "client", "driver"}
    /\ steps \in 0..MaxSteps
    /\ rw \in [rd : Devices, wr : Devices, rconfig : [Slots -> ReadSettings],
               wconfig : [Slots -> WriteSettings]]
    /\ {sized, open, good, bound, synced, torn} \subseteq BOOLEAN

\* smi_resize_raw_buffer, smi_programmed_read_arr: while a context is open, what they
\* write through and hand to realloc, and what smi_unmap_cxt frees, is a block of the heap,
\* whichever mallocs and reallocs were refused and whatever was unmapped before.  (After an
\* unmap or a failed mapping, the next call that grows or frees uses the pointer that is left.)
BufferHeld == wild # "driver"

\* init_smi_clk: outside it, a clock with the client's divisor runs.  A program killed
\* between the divisor and ENABLE leaves one that does not, and that no later
\* init_smi_clk starts.
ClockRuns == pc \in {"off", "up"} /\ clk.div = Divi /\ ~torn => clk.on /\ clk.busy

\* init_smi_clk: the divisor of a running clock is never changed.
DivideWhileStopped == [][clk'.div # clk.div => ~clk.busy]_vars

\* init_smi_clk: its two waits, without a timeout, end given a clock that follows its registers.
ClockInitEnds == pc = "running?" \/ pc = "stopped?" ~> pc \in {"off", "up"}

\* smi_sync_context_device: when it reports success, the registers of both devices hold
\* the width, format and timing the context has for them, WSETUP excepted, which takes the
\* format (smi.c:190).  That is what the client gave smi_init_rw_config only if it reads
\* and writes the same device.
SyncedMeansConfigured ==
    synced => /\ dsr[rw.rd] = rw.rconfig[rw.rd]
              /\ dsw[rw.wr].timing = rw.wconfig[rw.wr].timing
              /\ dsw[rw.wr].format = rw.wconfig[rw.wr].format

\* smi_programmed_read_arr: of a read device that exists, samples come in the width they are
\* unpacked with, whatever was configured before and whoever set the registers; in the
\* format too, if device numbers agree.  (Device 4 is not turned down: the read is of
\* device 0, with the width somebody left there.)
ReadAsUnpacked ==
    last.op = "read" /\ rw.rd \in Slots =>
        /\ last.width = Assumed.width
        /\ rw.rd = rw.wr => last.format = Assumed.format
=============================================================================
