--------------------------- MODULE MCSandboxExec ----------------------------
(***************************************************************************)
(* Small instances of SandboxExec for TLC.  stdout carries the interesting *)
(* bytes; stderr stays empty, but its reader has to be joined as well.     *)
(***************************************************************************)
EXTENDS SandboxExec

TwoStreams == {"stdout", "stderr"}
SmallCap   == [s \in TwoStreams |-> IF s = "stdout" THEN 3 ELSE 0]

Out(o) == [s \in TwoStreams |-> IF s = "stdout" THEN o ELSE <<>>]

(* Text that reaches the cap and goes on, text in which a character        *)
(* straddles the cap, a character broken off by the end of the program,    *)
(* and bytes that are not text; a program may end after any of its bytes.  *)
MCOutputs == { Out(o) : o \in {
  <<ascii, head, tail, ascii, ascii>>,
  <<ascii, ascii, head, tail>>,
  <<head, tail, head>>,
  <<ascii, bad, ascii, ascii>>,
  <<head, ascii, tail>> } }
=============================================================================
