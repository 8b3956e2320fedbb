-------------------------- MODULE MCProgrammedRead --------------------------
(* Small instances of ProgrammedRead for TLC. *)
EXTENDS ProgrammedRead

Plain   == [packed |-> FALSE, read |-> 1, out_pixels |-> 1]
Rgb565  == [packed |-> TRUE,  read |-> 1, out_pixels |-> 2]  \* 16-bit bus
Xrgb16  == [packed |-> TRUE,  read |-> 2, out_pixels |-> 3]

AllFormats  == {Plain, Rgb565, Xrgb16}
PlainFormat == {Plain}
=============================================================================
