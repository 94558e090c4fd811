---------------------------- MODULE DrainStream -----------------------------
(***************************************************************************)
(* One round of the reader of a task's stdout or stderr (drain_stream in   *)
(* src/src-tauri/src/sandbox/util.rs): a chunk read from the pipe is       *)
(* joined to the bytes kept from the round before, cut after the last      *)
(* complete UTF-8 character, and appended to the capture buffer as far as  *)
(* its cap allows.                                                         *)
(*                                                                         *)
(* A byte is what the decoder tells apart: a one-byte character, the head  *)
(* or the tail of a two-byte one, or a byte no character contains.  A      *)
(* `str` of Rust is a sequence of bytes made of whole characters.          *)
(***************************************************************************)
EXTENDS Naturals, Sequences

ascii == "a"
head  == "h"
tail  == "c"
bad   == "x"
Bytes == {ascii, head, tail, bad}

(* Valid UTF-8: every head is followed by its tail, and the reverse.       *)
Whole(d) ==
  \A i \in 1..Len(d) :
    /\ d[i] # bad
    /\ d[i] = head => i < Len(d) /\ d[i + 1] = tail
    /\ d[i] = tail => i > 1 /\ d[i - 1] = head

(* The length of the longest prefix of d that is valid and no longer than  *)
(* n: always defined, the empty prefix is valid.                           *)
Cuts(d, n) == {k \in 0..Len(d) : k <= n /\ Whole(SubSeq(d, 1, k))}
CutAt(d, n) ==
  LET C == Cuts(d, n) IN CHOOSE k \in C : \A m \in C : m <= k

(* str::from_utf8(..).valid_up_to(), and Vec::split_off there.             *)
Valid(d) == SubSeq(d, 1, CutAt(d, Len(d)))
Rest(d)  == SubSeq(d, CutAt(d, Len(d)) + 1, Len(d))

(* Fault: the text is cut at the cap, wherever that falls.                 *)
FaultCutsCharacters(buf, s, cap) ==
  IF Len(buf) >= cap THEN buf
  ELSE buf \o SubSeq(s, 1, IF Len(s) < cap - Len(buf) THEN Len(s)
                                                    ELSE cap - Len(buf))

(* The captured text after s is appended under the cap: all of it if it    *)
(* fits, else up to the last character boundary that does.                 *)
Capped(buf, s, cap) ==
  IF Len(buf) >= cap THEN buf
  ELSE buf \o SubSeq(s, 1, CutAt(s, cap - Len(buf)))
=============================================================================
