------------------------- MODULE DriverSessionProofs -------------------------
(***************************************************************************)
(* Theorems about DriverSession, for all devices, widths and numbers of    *)
(* calls.                                                                  *)
(***************************************************************************)
EXTENDS DriverSession, TLAPS

LEMMA ZeroIsSlot == 0 \in Slots
  BY SessionConstants DEF Slots

SettingsType == [rd : Devices, wr : Devices, rconfig : [Slots -> ReadSettings],
                 wconfig : [Slots -> WriteSettings]]

LEMMA UnsetType ==
    ASSUME NEW w \in Widths \cup {8}, NEW f \in Formats
    PROVE  Unset(w, f) \in SettingsType
  <1>1. [d \in Slots |-> [width |-> w, timing |-> "junk"]] \in [Slots -> ReadSettings]
    BY DEF ReadSettings, Origins
  <1>2. [d \in Slots |-> [format |-> f, setup |-> "junk", timing |-> "junk"]]
          \in [Slots -> WriteSettings]
    BY DEF WriteSettings, Formats, Origins
  <1> QED BY <1>1, <1>2, SessionConstants DEF Unset, SettingsType

LEMMA AssumedType ==
    ASSUME rw \in SettingsType
    PROVE  Assumed.width \in Widths \cup {8} /\ Assumed.format \in Formats
  BY ZeroIsSlot DEF SettingsType, Assumed, ReadSettings, WriteSettings

\* Setting the width, or the format, of a register keeps its type.
LEMMA WidthType ==
    ASSUME NEW f \in [Slots -> ReadSettings], NEW d \in Slots, NEW w \in Widths \cup {8}
    PROVE  [f EXCEPT ![d].width = w] \in [Slots -> ReadSettings]
  BY DEF ReadSettings

LEMMA FormatType ==
    ASSUME NEW f \in [Slots -> WriteSettings], NEW d \in Slots, NEW x \in Formats
    PROVE  [f EXCEPT ![d].format = x] \in [Slots -> WriteSettings]
  BY DEF WriteSettings

RegistersType ==
    dsr \in [Slots -> ReadSettings] /\ dsw \in [Slots -> WriteSettings] /\ device \in Slots

ControlType ==
    /\ clk \in [div : {0, 4, Divi}, on : BOOLEAN, busy : BOOLEAN]
    /\ pc \in {"off", "up", "stop", "stopped?", "divide", "start", "running?"}
    /\ steps \in 0..MaxSteps

BufferType ==
    /\ buf \in {"junk", "null", "live", "freed"} /\ wild \in {"no", "client", "driver"}
    /\ sized \in BOOLEAN /\ open \in BOOLEAN

FlagsType == good \in BOOLEAN /\ bound \in BOOLEAN /\ synced \in BOOLEAN /\ torn \in BOOLEAN

LEMMA TypeParts ==
    TypeOK <=> RegistersType /\ ControlType /\ BufferType /\ FlagsType /\ rw \in SettingsType
  <1>1. {sized, open, good, bound, synced, torn} \subseteq BOOLEAN
          <=> /\ sized \in BOOLEAN /\ open \in BOOLEAN
              /\ good \in BOOLEAN /\ bound \in BOOLEAN /\ synced \in BOOLEAN /\ torn \in BOOLEAN
    OBVIOUS
  <1> QED BY <1>1 DEF TypeOK, RegistersType, ControlType, BufferType, FlagsType, SettingsType

LEMMA TypeInit == Init => TypeOK
  <1> SUFFICES ASSUME Init PROVE TypeOK
    OBVIOUS
  <1>1. RegistersType
    <2>1. dsr \in [Slots -> ReadSettings]
      BY DEF Init, ReadSettings, Origins
    <2>2. dsw \in [Slots -> WriteSettings]
      BY DEF Init, WriteSettings, Formats, Origins
    <2> QED BY <2>1, <2>2, ZeroIsSlot DEF Init, RegistersType
  <1>2. ControlType
    <2>1. clk \in [div : {0, 4, Divi}, on : BOOLEAN, busy : BOOLEAN]
      <3>1. CASE clk = [div |-> 0, on |-> FALSE, busy |-> FALSE]
        BY <3>1
      <3>2. CASE clk = [div |-> 4, on |-> TRUE, busy |-> TRUE]
        BY <3>2
      <3> QED BY <3>1, <3>2 DEF Init
    <2>2. steps \in 0..MaxSteps
      BY SessionConstants DEF Init
    <2> QED BY <2>1, <2>2 DEF Init, ControlType
  <1>3. rw \in SettingsType
    BY UnsetType DEF Init, Formats
  <1>4. FlagsType /\ BufferType
    BY DEF Init, FlagsType, BufferType
  <1> QED BY <1>1, <1>2, <1>3, <1>4, TypeParts

\* The device selected exists, though the number the client gave may not.
LEMMA SelectType ==
    ASSUME RegistersType, rw \in SettingsType, SelectAndSet
    PROVE  RegistersType'
  <1>1. dsr' \in [Slots -> ReadSettings]
    BY AssumedType, WidthType DEF SelectAndSet, RegistersType
  <1>2. dsw' \in [Slots -> WriteSettings]
    BY AssumedType, FormatType DEF SelectAndSet, RegistersType
  <1>3. rw.rd \in Devices
    BY DEF SettingsType
  <1>4. rw.rd % 4 \in Slots
    <2>1. rw.rd \in 0..4
      BY <1>3, SessionConstants
    <2>2. CASE rw.rd = 4
      <3>1. 4 % 4 = 0
        OBVIOUS
      <3> QED BY <2>2, <3>1, ZeroIsSlot
    <2>3. CASE rw.rd # 4
      <3>1. rw.rd \in 0..3 /\ rw.rd % 4 = rw.rd
        BY <2>1, <2>3
      <3> QED BY <1>3, <3>1 DEF Slots
    <2> QED BY <2>2, <2>3
  <1> QED BY <1>1, <1>2, <1>4 DEF SelectAndSet, RegistersType

LEMMA RegistersNext == TypeOK /\ [Next]_vars => RegistersType'
  <1> SUFFICES ASSUME TypeOK, [Next]_vars PROVE RegistersType'
    OBVIOUS
  <1> USE TypeParts DEF RegistersType
  <1>1. ASSUME NEW w \in Widths, NEW f \in Formats, Exec(w, f) PROVE RegistersType'
    BY <1>1 DEF Exec, hardware
  <1>2. CASE Kill \/ smi_init_cxt_map \/ smi_unmap_cxt \/ smi_resize_raw_buffer
    BY <1>2 DEF Kill, smi_init_cxt_map, smi_unmap_cxt, smi_resize_raw_buffer, hardware
  <1>3. CASE ClkNext \/ ClockSettles
    BY <1>3 DEF ClkNext, init_smi_clk, ClkWait, ClkWrite, ClkStep, ClockSettles, hardware
  <1>4. ASSUME NEW r \in Devices, NEW d \in Devices, NEW w \in Widths,
               ClientSelects(r, d) \/ smi_init_rw_config(r, d, w)
        PROVE  RegistersType'
    BY <1>4 DEF ClientSelects, smi_init_rw_config, Set, hardware
  <1>5. ASSUME NEW r \in Devices, NEW d \in Devices, ClientSelects(r, d)
        PROVE  RegistersType'
    BY <1>5 DEF ClientSelects, Set, hardware
  <1>6. ASSUME NEW w \in Widths, NEW f \in Formats, ClientSets(w, f) PROVE RegistersType'
    BY <1>6 DEF ClientSets, Set, hardware
  <1>7. CASE smi_sync_context_device
    <2>1. ASSUME rw.wr \in Slots, smi_configure_write_device(rw.wr)
          PROVE  dsw' \in [Slots -> WriteSettings]
      <3>1. [rw.wconfig[rw.wr] EXCEPT !.setup = rw.wconfig[rw.wr].format] \in WriteSettings
        BY <2>1 DEF SettingsType, WriteSettings
      <3> QED BY <2>1, <3>1 DEF smi_configure_write_device
    <2>2. ASSUME rw.rd \in Slots, smi_configure_read_device(rw.rd)
          PROVE  dsr' \in [Slots -> ReadSettings]
      BY <2>2 DEF smi_configure_read_device, SettingsType
    <2> QED BY <1>7, <2>1, <2>2 DEF smi_sync_context_device
  <1>8. CASE smi_programmed_read_arr
    <2>1. CASE SelectAndSet
      BY <2>1, SelectType
    <2>2. CASE UNCHANGED <<dsr, dsw, device>>
      BY <2>2
    <2> QED BY <1>8, <2>1, <2>2 DEF smi_programmed_read_arr
  <1>10. ASSUME NEW o \in {"single", "array"}, smi_direct(o) PROVE RegistersType'
    <2>1. (IF o = "array" THEN Assumed.width ELSE 8) \in Widths \cup {8}
      BY AssumedType
    <2> QED BY <1>10, <2>1, WidthType, ZeroIsSlot DEF smi_direct
  <1>11. CASE UNCHANGED vars
    BY <1>11 DEF vars, hardware
  <1> QED
    BY <1>1, <1>2, <1>3, <1>4, <1>5, <1>6, <1>7, <1>8, <1>10, <1>11 DEF Next

LEMMA ControlNext == ControlType /\ [Next]_vars => ControlType'
  <1> SUFFICES ASSUME ControlType, [Next]_vars PROVE ControlType'
    OBVIOUS
  <1> USE SessionConstants DEF ControlType
  <1>1. ASSUME NEW w \in Widths, NEW f \in Formats, Exec(w, f) PROVE ControlType'
    BY <1>1 DEF Exec, hardware
  <1>2. CASE Kill
    BY <1>2 DEF Kill, hardware
  <1>3. CASE smi_init_cxt_map \/ smi_unmap_cxt \/ smi_resize_raw_buffer
    BY <1>3 DEF smi_init_cxt_map, smi_unmap_cxt, smi_resize_raw_buffer, Call, hardware
  <1>4. CASE init_smi_clk
    BY <1>4 DEF init_smi_clk, Call, hardware
  <1>5. CASE ClkWait
    BY <1>5 DEF ClkWait, ClkStep
  <1>6. CASE ClkWrite
    <2>1. clk' \in [div : {0, 4, Divi}, on : BOOLEAN, busy : BOOLEAN]
      <3>1. CASE clk' = [clk EXCEPT !.on = FALSE]
        <4>1. clk' = [div |-> clk.div, on |-> FALSE, busy |-> clk.busy]
          BY <3>1
        <4>2. clk.div \in {0, 4, Divi} /\ clk.busy \in BOOLEAN
          OBVIOUS
        <4> HIDE DEF ControlType
        <4> QED BY <4>1, <4>2, Zenon
      <3>2. CASE clk' = [clk EXCEPT !.div = Divi]
        BY <3>2
      <3>3. CASE clk' = [clk EXCEPT !.on = TRUE]
        BY <3>3
      <3> QED BY <1>6, <3>1, <3>2, <3>3 DEF ClkWrite
    <2> QED BY <1>6, <2>1 DEF ClkWrite, ClkStep
  <1>7. CASE ClockSettles
    BY <1>7 DEF ClockSettles
  <1>8. ASSUME NEW r \in Devices, NEW d \in Devices, ClientSelects(r, d) PROVE ControlType'
    BY <1>8 DEF ClientSelects, Set, Call, hardware
  <1>9. ASSUME NEW r \in Devices, NEW d \in Devices, NEW w \in Widths,
               smi_init_rw_config(r, d, w)
        PROVE  ControlType'
    BY <1>9 DEF smi_init_rw_config, Set, Call, hardware
  <1>10. ASSUME NEW w \in Widths, NEW f \in Formats, ClientSets(w, f) PROVE ControlType'
    BY <1>10 DEF ClientSets, Set, Call, hardware
  <1>11. CASE smi_sync_context_device
    <2>1. Call /\ UNCHANGED <<clk, pc>>
      BY <1>11 DEF smi_sync_context_device
    <2> QED BY <2>1 DEF Call
  <1>12. CASE smi_programmed_read_arr
    <2>1. Call /\ UNCHANGED <<clk, pc>>
      BY <1>12 DEF smi_programmed_read_arr
    <2> QED BY <2>1 DEF Call
  <1>13. ASSUME NEW o \in {"single", "array"}, smi_direct(o) PROVE ControlType'
    <2>1. Call /\ UNCHANGED <<clk, pc>>
      BY <1>13 DEF smi_direct
    <2> QED BY <2>1 DEF Call
  <1>14. CASE UNCHANGED vars
    BY <1>14 DEF vars, hardware
  <1> QED
    BY ONLY <1>1, <1>2, <1>3, <1>4, <1>5, <1>6, <1>7, <1>8, <1>9, <1>10, <1>11, <1>12, <1>13,
       <1>14, [Next]_vars DEF Next, ClkNext

\* Every step is one of these; the last leaves the raw buffer and who has it alone.
LEMMA BufferSteps ==
    ASSUME [Next]_vars
    PROVE  \/ \E w \in Widths, f \in Formats : Exec(w, f)
           \/ Kill \/ smi_init_cxt_map \/ smi_unmap_cxt \/ smi_resize_raw_buffer
           \/ smi_programmed_read_arr
           \/ UNCHANGED buffer /\ (pc' = "off" => pc = "off")
  <1>1. CASE ClkNext
    BY <1>1 DEF ClkNext, init_smi_clk, ClkWait, ClkWrite, ClkStep
  <1>2. CASE ClockSettles
    BY <1>2 DEF ClockSettles
  <1>3. ASSUME NEW r \in Devices, NEW d \in Devices,
               ClientSelects(r, d) \/ \E w \in Widths : smi_init_rw_config(r, d, w)
        PROVE  UNCHANGED buffer /\ UNCHANGED pc
    BY <1>3 DEF ClientSelects, smi_init_rw_config, Set
  <1>4. ASSUME NEW w \in Widths, NEW f \in Formats, ClientSets(w, f)
        PROVE  UNCHANGED buffer /\ UNCHANGED pc
    BY <1>4 DEF ClientSets, Set
  <1>5. CASE smi_sync_context_device
    BY <1>5 DEF smi_sync_context_device
  <1>6. ASSUME NEW o \in {"single", "array"}, smi_direct(o)
        PROVE  UNCHANGED buffer /\ UNCHANGED pc
    BY <1>6 DEF smi_direct
  <1>7. CASE UNCHANGED vars
    BY <1>7 DEF vars
  <1> QED
    BY ONLY <1>1, <1>2, <1>3, <1>4, <1>5, <1>6, <1>7, [Next]_vars DEF Next

LEMMA BufferNext == BufferType /\ [Next]_vars => BufferType'
  <1> SUFFICES ASSUME BufferType, [Next]_vars PROVE BufferType'
    OBVIOUS
  <1> USE DEF BufferType
  <1>1. ASSUME NEW w \in Widths, NEW f \in Formats, Exec(w, f) PROVE BufferType'
    BY <1>1 DEF Exec
  <1>2. CASE Kill
    BY <1>2 DEF Kill
  <1>3. CASE smi_init_cxt_map
    BY <1>3 DEF smi_init_cxt_map
  <1>4. CASE smi_unmap_cxt
    BY <1>4 DEF smi_unmap_cxt, Blame
  <1>5. ASSUME NEW refused \in BOOLEAN, Realloc(refused) PROVE BufferType'
    <2>1. sized' \in BOOLEAN
      BY <1>5, Zenon DEF Realloc
    <2> QED BY <1>5, <2>1 DEF Realloc, Blame
  <1>6. CASE smi_resize_raw_buffer
    BY <1>5, <1>6 DEF smi_resize_raw_buffer, buffer
  <1>7. CASE smi_programmed_read_arr
    <2>1. PICK how \in {"enough", "grown", "refused"} : RawBuffer(how)
      BY <1>7 DEF smi_programmed_read_arr
    <2> QED BY <1>5, <2>1 DEF RawBuffer, Blame
  <1>8. CASE UNCHANGED buffer
    BY <1>8 DEF buffer
  <1> QED BY <1>1, <1>2, <1>3, <1>4, <1>6, <1>7, <1>8, BufferSteps

LEMMA FlagsNext == BufferType' /\ FlagsType /\ [Next]_vars => FlagsType'
  <1> SUFFICES ASSUME BufferType', FlagsType, [Next]_vars PROVE FlagsType'
    OBVIOUS
  <1>1. torn' \in BOOLEAN
    <2>1. torn' = (torn \/ pc # "up") \/ torn' = torn
      BY DEF Next, vars, context, Exec, Kill, smi_init_cxt_map, smi_unmap_cxt,
             smi_resize_raw_buffer, ClkNext, init_smi_clk, ClkWait, ClkWrite, ClkStep,
             ClockSettles, ClientSelects, smi_init_rw_config, ClientSets, Set,
             smi_sync_context_device, smi_programmed_read_arr, smi_direct
    <2> QED BY <2>1, Zenon DEF FlagsType
  <1>2. good' \in BOOLEAN
    <2>1. good' = (good \/ open') \/ good' = FALSE \/ good' = good
      BY DEF Next, vars, context, Exec, Kill, smi_init_cxt_map, smi_unmap_cxt,
             smi_resize_raw_buffer, ClkNext, init_smi_clk, ClkWait, ClkWrite, ClkStep,
             ClockSettles, ClientSelects, smi_init_rw_config, ClientSets, Set,
             smi_sync_context_device, smi_programmed_read_arr, smi_direct
    <2> QED BY <2>1, Zenon DEF FlagsType
  <1>3. bound' \in BOOLEAN
    <2>1. bound' = TRUE \/ bound' = FALSE \/ bound' = bound
      BY DEF Next, vars, context, Exec, Kill, smi_init_cxt_map, smi_unmap_cxt,
             smi_resize_raw_buffer, ClkNext, init_smi_clk, ClkWait, ClkWrite, ClkStep,
             ClockSettles, ClientSelects, smi_init_rw_config, ClientSets, Set,
             smi_sync_context_device, smi_programmed_read_arr, smi_direct
    <2> QED BY <2>1, Zenon DEF FlagsType
  <1>4. synced' \in BOOLEAN
    BY Zenon DEF FlagsType, Next, vars, context, Exec, Kill, smi_init_cxt_map, smi_unmap_cxt,
             smi_resize_raw_buffer, ClkNext, init_smi_clk, ClkWait, ClkWrite, ClkStep,
             ClockSettles, ClientSelects, smi_init_rw_config, ClientSets, Set,
             smi_sync_context_device, smi_programmed_read_arr, smi_direct
  <1> QED BY <1>1, <1>2, <1>3, <1>4 DEF FlagsType

LEMMA SettingsNext == TypeOK /\ [Next]_vars => rw' \in SettingsType
  <1> SUFFICES ASSUME TypeOK, [Next]_vars PROVE rw' \in SettingsType
    OBVIOUS
  <1> USE TypeParts
  <1>1. ASSUME NEW w \in Widths, NEW f \in Formats, Exec(w, f) PROVE rw' \in SettingsType
    BY <1>1, UnsetType DEF Exec
  <1>2. ASSUME NEW r \in Devices, NEW d \in Devices, ClientSelects(r, d)
        PROVE  rw' \in SettingsType
    BY <1>2 DEF ClientSelects, Set, SettingsType
  <1>3. ASSUME NEW r \in Devices, NEW d \in Devices, NEW w \in Widths,
               smi_init_rw_config(r, d, w)
        PROVE  rw' \in SettingsType
    <2>1. [width |-> w, timing |-> "client"] \in ReadSettings
      BY DEF ReadSettings, Origins
    <2>2. [format |-> "RGB565", setup |-> "client", timing |-> "client"] \in WriteSettings
      BY DEF WriteSettings, Formats, Origins
    <2> QED BY <1>3, <2>1, <2>2 DEF smi_init_rw_config, Set, SettingsType
  <1>4. ASSUME NEW w \in Widths, NEW f \in Formats, ClientSets(w, f)
        PROVE  rw' \in SettingsType
    <2>1. [rw.rconfig EXCEPT ![0].width = w] \in [Slots -> ReadSettings]
      BY ZeroIsSlot, WidthType DEF SettingsType
    <2>2. [rw.wconfig EXCEPT ![0].format = f] \in [Slots -> WriteSettings]
      BY ZeroIsSlot, FormatType DEF SettingsType
    <2>3. rw' = [rw EXCEPT !.rconfig = [rw.rconfig EXCEPT ![0].width = w],
                           !.wconfig = [rw.wconfig EXCEPT ![0].format = f]]
      BY <1>4 DEF ClientSets, Set, SettingsType
    <2> QED BY <2>1, <2>2, <2>3 DEF SettingsType
  <1>5. ASSUME rw' = rw PROVE rw' \in SettingsType
    BY <1>5
  <1>6. CASE Kill \/ smi_init_cxt_map \/ smi_unmap_cxt \/ smi_resize_raw_buffer
    BY <1>6, <1>5 DEF Kill, smi_init_cxt_map, smi_unmap_cxt, smi_resize_raw_buffer
  <1>7. CASE ClkNext \/ ClockSettles \/ smi_sync_context_device \/ smi_programmed_read_arr
    BY <1>7, <1>5 DEF ClkNext, init_smi_clk, ClkWait, ClkWrite, ClkStep, ClockSettles,
                      smi_sync_context_device, smi_programmed_read_arr
  <1>8. ASSUME NEW o \in {"single", "array"}, smi_direct(o) PROVE rw' \in SettingsType
    BY <1>8, <1>5 DEF smi_direct
  <1>9. CASE UNCHANGED vars
    BY <1>9, <1>5 DEF vars
  <1> QED
    BY <1>1, <1>2, <1>3, <1>4, <1>6, <1>7, <1>8, <1>9 DEF Next

LEMMA TypeNext == TypeOK /\ [Next]_vars => TypeOK'
  <1>1. TypeOK' <=> RegistersType' /\ ControlType' /\ BufferType' /\ FlagsType'
                      /\ (rw' \in SettingsType)
    <2>1. {sized', open', good', bound', synced', torn'} \subseteq BOOLEAN
            <=> /\ sized' \in BOOLEAN /\ open' \in BOOLEAN
                /\ good' \in BOOLEAN /\ bound' \in BOOLEAN /\ synced' \in BOOLEAN
                /\ torn' \in BOOLEAN
      OBVIOUS
    <2> QED BY <2>1 DEF TypeOK, RegistersType, ControlType, BufferType, FlagsType, SettingsType
  <1> QED BY <1>1, TypeParts, RegistersNext, ControlNext, BufferNext, FlagsNext, SettingsNext

\* Type correctness of every session.
THEOREM TypeCorrect == Spec => []TypeOK
  BY TypeInit, TypeNext, PTL DEF Spec

-----------------------------------------------------------------------------
(* The clock *)

\* Where init_smi_clk is says what the clock does; only a program killed inside it
\* leaves the client's divisor on a clock that does not run.
ClockInv ==
    /\ pc \in {"stopped?", "divide", "start"} => ~clk.on
    /\ pc \in {"divide", "start"} => ~clk.busy
    /\ pc = "running?" => clk.on
    /\ pc = "stop" => clk.div # Divi
    /\ ClockRuns

LEMMA ClockInvInit == Init => ClockInv
  BY DEF Init, ClockInv, ClockRuns, Divi

LEMMA ClockInvNext == TypeOK /\ ClockInv /\ [Next]_vars => ClockInv'
  <1> SUFFICES ASSUME TypeOK, ClockInv, [Next]_vars PROVE ClockInv'
    OBVIOUS
  <1>0. clk \in [div : {0, 4, Divi}, on : BOOLEAN, busy : BOOLEAN]
    BY DEF TypeOK
  <1> USE <1>0 DEF ClockInv, ClockRuns
  <1>1. ASSUME NEW w \in Widths, NEW f \in Formats, Exec(w, f) PROVE ClockInv'
    BY <1>1 DEF Exec, hardware
  <1>2. CASE Kill
    BY <1>2 DEF Kill, hardware
  <1>3. CASE init_smi_clk
    BY <1>3 DEF init_smi_clk, Call, hardware
  <1>4. CASE ClkWait
    BY <1>4 DEF ClkWait, ClkStep
  <1>5. CASE ClkWrite
    <2>1. CASE ClkStep("stop", "stopped?") /\ clk' = [clk EXCEPT !.on = FALSE]
      BY <2>1 DEF ClkStep
    <2>2. CASE ClkStep("divide", "start") /\ clk' = [clk EXCEPT !.div = Divi]
      BY <2>2 DEF ClkStep
    <2>3. CASE ClkStep("start", "running?") /\ clk' = [clk EXCEPT !.on = TRUE]
      BY <2>3 DEF ClkStep
    <2> QED BY <1>5, <2>1, <2>2, <2>3 DEF ClkWrite
  <1>6. CASE ClockSettles
    BY <1>6 DEF ClockSettles
  <1>7. ASSUME UNCHANGED <<clk, pc, torn>> PROVE ClockInv'
    BY <1>7
  <1>8. CASE smi_init_cxt_map \/ smi_unmap_cxt \/ smi_resize_raw_buffer
    BY <1>7, <1>8 DEF smi_init_cxt_map, smi_unmap_cxt, smi_resize_raw_buffer, hardware
  <1>9. ASSUME NEW r \in Devices, NEW d \in Devices,
               ClientSelects(r, d) \/ \E w \in Widths : smi_init_rw_config(r, d, w)
        PROVE  ClockInv'
    BY <1>7, <1>9 DEF ClientSelects, smi_init_rw_config, Set, hardware
  <1>10. ASSUME NEW w \in Widths, NEW f \in Formats, ClientSets(w, f) PROVE ClockInv'
    BY <1>7, <1>10 DEF ClientSets, Set, hardware
  <1>11. CASE smi_sync_context_device
    BY <1>7, <1>11 DEF smi_sync_context_device
  <1>12. CASE smi_programmed_read_arr
    BY <1>7, <1>12 DEF smi_programmed_read_arr
  <1>13. ASSUME NEW o \in {"single", "array"}, smi_direct(o) PROVE ClockInv'
    BY <1>7, <1>13 DEF smi_direct
  <1>14. CASE UNCHANGED vars
    BY <1>7, <1>14 DEF vars, hardware
  <1> QED
    BY ONLY <1>1, <1>2, <1>3, <1>4, <1>5, <1>6, <1>8, <1>9, <1>10, <1>11, <1>12, <1>13,
       <1>14, [Next]_vars DEF Next, ClkNext

\* init_smi_clk: outside it, a clock with the client's divisor runs, unless a program
\* was killed inside it.
THEOREM ClockStarted == Spec => []ClockRuns
  <1>1. Init => TypeOK /\ ClockInv
    BY TypeInit, ClockInvInit
  <1>2. TypeOK /\ ClockInv /\ [Next]_vars => TypeOK' /\ ClockInv'
    BY TypeNext, ClockInvNext
  <1>3. ClockInv => ClockRuns
    BY DEF ClockInv
  <1> QED BY <1>1, <1>2, <1>3, PTL DEF Spec

\* init_smi_clk: the divisor changes only while the clock has stopped.
LEMMA DividesStopped ==
    ASSUME TypeOK, ClockInv, [Next]_vars
    PROVE  clk'.div # clk.div => ~clk.busy
  <1>1. CASE pc = "divide"
    BY <1>1 DEF ClockInv
  <1>2. CASE pc # "divide"
    <2>1. clk \in [div : {0, 4, Divi}, on : BOOLEAN, busy : BOOLEAN]
      BY DEF TypeOK
    <2>2. CASE ClkWrite \/ ClockSettles
      BY <1>2, <2>1, <2>2 DEF ClkWrite, ClkStep, ClockSettles
    <2>3. CASE ~(ClkWrite \/ ClockSettles)
      <3>1. clk' = clk
        BY <2>3, [Next]_vars DEF Next, vars, hardware, Exec, Kill, smi_init_cxt_map,
             smi_unmap_cxt, smi_resize_raw_buffer, ClkNext, init_smi_clk, ClkWait,
             ClientSelects, smi_init_rw_config, ClientSets, Set, smi_sync_context_device,
             smi_programmed_read_arr, smi_direct
      <3> QED BY <3>1
    <2> QED BY <2>2, <2>3
  <1> QED BY <1>1, <1>2

\* init_smi_clk writes the divisor only while the clock is stopped, killed or not.
THEOREM DividesOnlyStopped == Spec => DivideWhileStopped
  <1>1. Init => TypeOK /\ ClockInv
    BY TypeInit, ClockInvInit
  <1>2. TypeOK /\ ClockInv /\ [Next]_vars => TypeOK' /\ ClockInv'
    BY TypeNext, ClockInvNext
  <1>3. TypeOK /\ ClockInv /\ [Next]_vars => [clk'.div # clk.div => ~clk.busy]_vars
    BY DividesStopped
  <1> QED BY <1>1, <1>2, <1>3, PTL DEF Spec, DivideWhileStopped

-----------------------------------------------------------------------------
(* The raw buffer *)

\* An open context has a block of the heap; a program starts without one.
BufferInv ==
    /\ pc = "off" => ~open
    /\ open => buf = "live"
    /\ BufferHeld

LEMMA BufferInvNext == BufferInv /\ [Next]_vars => BufferInv'
  <1> SUFFICES ASSUME BufferInv, [Next]_vars PROVE BufferInv'
    OBVIOUS
  <1> USE DEF BufferInv, BufferHeld
  <1>1. ASSUME NEW w \in Widths, NEW f \in Formats, Exec(w, f) PROVE BufferInv'
    BY <1>1 DEF Exec
  <1>2. CASE Kill
    BY <1>2 DEF Kill
  <1>3. CASE smi_init_cxt_map
    BY <1>3 DEF smi_init_cxt_map, Call
  <1>4. CASE smi_unmap_cxt
    BY <1>4 DEF smi_unmap_cxt, Blame, Call
  <1>5. ASSUME NEW refused \in BOOLEAN, Realloc(refused), pc' = pc PROVE BufferInv'
    <2>1. open => buf' = "live"
      BY <1>5 DEF Realloc
    <2>2. wild' # "driver"
      BY <1>5 DEF Realloc, Blame
    <2> QED BY <1>5, <2>1, <2>2 DEF Realloc
  <1>6. CASE smi_resize_raw_buffer
    BY <1>5, <1>6 DEF smi_resize_raw_buffer, buffer
  <1>7. CASE smi_programmed_read_arr
    <2>1. PICK how \in {"enough", "grown", "refused"} : RawBuffer(how)
      BY <1>7 DEF smi_programmed_read_arr
    <2>2. pc' = pc
      BY <1>7 DEF smi_programmed_read_arr
    <2>3. CASE how = "enough"
      BY <2>1, <2>2, <2>3 DEF RawBuffer, Blame
    <2>4. CASE how # "enough"
      BY <1>5, <2>1, <2>2, <2>4 DEF RawBuffer
    <2> QED BY <2>3, <2>4
  <1>8. CASE UNCHANGED buffer /\ (pc' = "off" => pc = "off")
    BY <1>8 DEF buffer
  <1> QED BY <1>1, <1>2, <1>3, <1>4, <1>6, <1>7, <1>8, BufferSteps

\* smi_resize_raw_buffer, smi_programmed_read_arr, smi_unmap_cxt: on an open context the raw
\* buffer they write, grow and free is a block of the heap, whatever was refused before.
THEOREM RawBufferHeld == Spec => []BufferHeld
  <1>1. Init => BufferInv
    BY DEF Init, BufferInv, BufferHeld
  <1>2. BufferInv => BufferHeld
    BY DEF BufferInv
  <1> QED BY <1>1, <1>2, BufferInvNext, PTL DEF Spec

-----------------------------------------------------------------------------
(* The settings of the registers, and of a read *)

\* What relates registers, settings and the latest read.  The settings of a program
\* that is down are gone with what depended on them.
SettingsInv ==
    /\ pc = "off" => last = Idle /\ ~synced
    /\ synced => rw.rd \in Slots /\ rw.wr \in Slots
    /\ SyncedMeansConfigured /\ ReadAsUnpacked

LEMMA SettingsInvInit == Init => SettingsInv
  BY DEF Init, SettingsInv, SyncedMeansConfigured, ReadAsUnpacked, Idle

LEMMA SettingsInvNext == TypeOK /\ SettingsInv /\ [Next]_vars => SettingsInv'
  <1> SUFFICES ASSUME TypeOK, SettingsInv, [Next]_vars PROVE SettingsInv'
    OBVIOUS
  <1>0. RegistersType /\ rw \in SettingsType
    BY TypeParts
  <1> USE DEF SettingsInv, SyncedMeansConfigured, ReadAsUnpacked, Idle, Assumed
  <1>1. ASSUME NEW w \in Widths, NEW f \in Formats, Exec(w, f) PROVE SettingsInv'
    BY <1>1 DEF Exec, hardware
  <1>2. CASE Kill
    BY <1>2 DEF Kill, hardware
  <1>3. CASE smi_init_cxt_map \/ smi_unmap_cxt \/ smi_resize_raw_buffer \/ init_smi_clk
    BY <1>3 DEF smi_init_cxt_map, smi_unmap_cxt, smi_resize_raw_buffer, init_smi_clk, Call,
                hardware
  <1>4. CASE ClkWait \/ ClkWrite
    BY <1>4 DEF ClkWait, ClkWrite, ClkStep
  <1>5. CASE ClockSettles
    BY <1>5 DEF ClockSettles
  <1>6. ASSUME synced' = FALSE, last' = Idle PROVE SettingsInv'
    BY <1>6
  <1>7. ASSUME NEW r \in Devices, NEW d \in Devices,
               ClientSelects(r, d) \/ \E w \in Widths : smi_init_rw_config(r, d, w)
        PROVE  SettingsInv'
    BY <1>6, <1>7 DEF ClientSelects, smi_init_rw_config, Set
  <1>8. ASSUME NEW w \in Widths, NEW f \in Formats, ClientSets(w, f) PROVE SettingsInv'
    BY <1>6, <1>8 DEF ClientSets, Set
  <1>9. CASE smi_sync_context_device
    <2>1. last' = Idle /\ UNCHANGED rw /\ pc = "up" /\ pc' = "up"
      BY <1>9 DEF smi_sync_context_device, Call
    <2>2. CASE ~synced'
      BY <2>1, <2>2
    <2>3. CASE synced'
      <3>1. /\ rw.wr \in Slots /\ rw.rd \in Slots
            /\ smi_configure_write_device(rw.wr) /\ smi_configure_read_device(rw.rd)
        BY <1>9, <2>3 DEF smi_sync_context_device
      <3>2. dsr'[rw.rd] = rw.rconfig[rw.rd]
        BY <1>0, <3>1 DEF smi_configure_read_device, RegistersType
      <3>3. dsw'[rw.wr] = [rw.wconfig[rw.wr] EXCEPT !.setup = rw.wconfig[rw.wr].format]
        BY <1>0, <3>1 DEF smi_configure_write_device, RegistersType
      <3>4. rw.wconfig[rw.wr] \in WriteSettings
        BY <1>0, <3>1 DEF SettingsType
      <3>5. /\ dsw'[rw.wr].timing = rw.wconfig[rw.wr].timing
            /\ dsw'[rw.wr].format = rw.wconfig[rw.wr].format
        BY <3>3, <3>4 DEF WriteSettings
      <3> QED BY <2>1, <3>1, <3>2, <3>5
    <2> QED BY <2>2, <2>3
  <1>10. CASE smi_programmed_read_arr
    <2>1. rw' = rw /\ pc' = pc /\ pc = "up" /\ Assumed' = Assumed
      BY <1>10 DEF smi_programmed_read_arr, Call
    <2>2. CASE last' = Idle /\ UNCHANGED <<dsr, dsw, device, synced>>
      BY <2>1, <2>2
    <2>3. CASE /\ SelectAndSet /\ synced' = FALSE
               /\ last' = [op |-> "read", width |-> dsr'[device'].width,
                           format |-> dsw'[device'].format]
      <3>1. last'.width = dsr'[device'].width /\ last'.format = dsw'[device'].format
        BY <2>3
      <3>2. ASSUME rw.rd \in Slots PROVE device' = rw.rd /\ dsr'[rw.rd].width = Assumed.width
        <4>1. rw.rd % 4 = rw.rd
          BY <3>2 DEF Slots
        <4>2. dsr[rw.rd] \in ReadSettings
          BY <1>0, <3>2 DEF RegistersType
        <4> QED BY <1>0, <2>3, <3>2, <4>1, <4>2 DEF SelectAndSet, RegistersType, ReadSettings
      <3>3. ASSUME rw.rd \in Slots, rw.rd = rw.wr PROVE dsw'[rw.rd].format = Assumed.format
        <4>1. dsw[rw.wr] \in WriteSettings
          BY <1>0, <3>3 DEF RegistersType
        <4>2. dsw' = [dsw EXCEPT ![rw.wr].format = Assumed.format]
          BY <2>3, <3>3 DEF SelectAndSet
        <4> QED BY <1>0, <3>3, <4>1, <4>2 DEF RegistersType, WriteSettings
      <3>4. ReadAsUnpacked'
        BY ONLY <2>1, <3>1, <3>2, <3>3 DEF ReadAsUnpacked
      <3> QED BY <2>1, <2>3, <3>4
    <2> QED BY <1>10, <2>2, <2>3 DEF smi_programmed_read_arr
  <1>12. ASSUME NEW o \in {"single", "array"}, smi_direct(o) PROVE SettingsInv'
    BY <1>6, <1>12 DEF smi_direct
  <1>13. CASE UNCHANGED vars
    BY <1>13 DEF vars, hardware
  <1> QED
    BY ONLY <1>1, <1>2, <1>3, <1>4, <1>5, <1>7, <1>8, <1>9, <1>10, <1>12, <1>13,
       [Next]_vars DEF Next, ClkNext

LEMMA SettingsAlways == Spec => []SettingsInv
  <1>1. Init => TypeOK /\ SettingsInv
    BY TypeInit, SettingsInvInit
  <1>2. TypeOK /\ SettingsInv /\ [Next]_vars => TypeOK' /\ SettingsInv'
    BY TypeNext, SettingsInvNext
  <1> QED BY <1>1, <1>2, PTL DEF Spec

\* smi_sync_context_device: success means that the registers of both devices hold the width,
\* format and timing the context has for them, but for WSETUP (smi.c:190), until a setting
\* or a register changes.
THEOREM SyncConfigures == Spec => []SyncedMeansConfigured
  <1>1. SettingsInv => SyncedMeansConfigured
    BY DEF SettingsInv
  <1> QED BY <1>1, SettingsAlways, PTL

\* smi_programmed_read_arr runs with the width its samples are unpacked with, whoever
\* set the registers before, if the read device exists.
THEOREM ReadsAsUnpacked == Spec => []ReadAsUnpacked
  <1>1. SettingsInv => ReadAsUnpacked
    BY DEF SettingsInv
  <1> QED BY <1>1, SettingsAlways, PTL
=============================================================================
