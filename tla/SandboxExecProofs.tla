-------------------------- MODULE SandboxExecProofs --------------------------
(***************************************************************************)
(* What holds of modules DrainStream and SandboxExec for every program,    *)
(* every cap, every size of the read buffer and of the pipes, with its     *)
(* proofs.                                                                 *)
(*                                                                         *)
(* First, what one round of a reader does to the bytes: cutting the stream *)
(* into chunks changes nothing, and the cap cuts no character.  Then three *)
(* invariants of an execution: the types, where the call is (StageInv),    *)
(* and how far each stream has come (StreamInv).                           *)
(***************************************************************************)
EXTENDS SandboxExec, TLAPS, WellFoundedInduction, SequenceTheorems

-----------------------------------------------------------------------------
(* Sequences.                                                              *)

LEMMA Prefix ==
  ASSUME NEW d \in Seq(Bytes), NEW k \in 0..Len(d)
  PROVE  /\ SubSeq(d, 1, k) \in Seq(Bytes)
         /\ Len(SubSeq(d, 1, k)) = k
         /\ \A i \in 1..k : SubSeq(d, 1, k)[i] = d[i]
  <1>1. Len(d) \in Nat
    OBVIOUS
  <1>2. \A i \in 1..k : d[i] \in Bytes
    BY <1>1, ElementOfSeq
  <1> QED
    BY <1>1, <1>2, SubSeqProperties

LEMMA Suffix ==
  ASSUME NEW d \in Seq(Bytes), NEW k \in 0..Len(d)
  PROVE  /\ SubSeq(d, k + 1, Len(d)) \in Seq(Bytes)
         /\ Len(SubSeq(d, k + 1, Len(d))) = Len(d) - k
         /\ \A i \in 1..(Len(d) - k) : SubSeq(d, k + 1, Len(d))[i] = d[k + i]
  <1>1. Len(d) \in Nat
    OBVIOUS
  <1>2. \A i \in (k + 1)..Len(d) : d[i] \in Bytes
    BY <1>1, ElementOfSeq
  <1>3. /\ SubSeq(d, k + 1, Len(d)) \in Seq(Bytes)
        /\ Len(SubSeq(d, k + 1, Len(d))) =
             IF k + 1 <= Len(d) THEN Len(d) - (k + 1) + 1 ELSE 0
        /\ \A i \in 1..(Len(d) - (k + 1) + 1) :
             SubSeq(d, k + 1, Len(d))[i] = d[(k + 1) + i - 1]
    BY <1>1, <1>2, SubSeqProperties
  <1>4. \A i \in 1..(Len(d) - k) :
          i \in 1..(Len(d) - (k + 1) + 1) /\ (k + 1) + i - 1 = k + i
    BY <1>1
  <1> QED
    BY <1>1, <1>3, <1>4

LEMMA Halves ==
  ASSUME NEW d \in Seq(Bytes), NEW k \in 0..Len(d)
  PROVE  d = SubSeq(d, 1, k) \o SubSeq(d, k + 1, Len(d))
  <1>1. Len(d) \in Nat /\ 1 \in 1..(Len(d) + 1) /\ k \in (1 - 1)..Len(d)
        /\ Len(d) \in k..Len(d)
    OBVIOUS
  <1>2. SubSeq(d, 1, k) \o SubSeq(d, k + 1, Len(d)) = SubSeq(d, 1, Len(d))
    BY <1>1, ConcatAdjacentSubSeq
  <1> QED
    BY <1>2, SubSeqFull

LEMMA JoinedInAnyOrder ==
  ASSUME NEW c \in Seq(Bytes), NEW a \in Seq(Bytes), NEW q \in Seq(Bytes)
  PROVE  (c \o a) \o q = c \o (a \o q)
  BY ConcatAssociative

(* A prefix of a concatenation that reaches into its second part.          *)
LEMMA PrefixOfConcat ==
  ASSUME NEW v \in Seq(Bytes), NEW x \in Seq(Bytes), NEW k \in 0..Len(x)
  PROVE  SubSeq(v \o x, 1, Len(v) + k) = v \o SubSeq(x, 1, k)
  <1> DEFINE l == SubSeq(v \o x, 1, Len(v) + k)
             p == SubSeq(x, 1, k)
             r == v \o p
  <1>1. /\ Len(v) \in Nat /\ Len(x) \in Nat
        /\ v \o x \in Seq(Bytes) /\ Len(v \o x) = Len(v) + Len(x)
        /\ \A i \in 1..(Len(v) + Len(x)) :
             (v \o x)[i] = IF i <= Len(v) THEN v[i] ELSE x[i - Len(v)]
    BY ConcatProperties
  <1>2. Len(v) + k \in 0..Len(v \o x)
    BY <1>1
  <1>3. /\ l \in Seq(Bytes) /\ Len(l) = Len(v) + k
        /\ \A i \in 1..(Len(v) + k) : l[i] = (v \o x)[i]
    BY <1>1, <1>2, Prefix
  <1>4. /\ p \in Seq(Bytes) /\ Len(p) = k
        /\ \A i \in 1..k : p[i] = x[i]
    BY Prefix
  <1>5. /\ r \in Seq(Bytes) /\ Len(r) = Len(v) + k
        /\ \A i \in 1..(Len(v) + k) :
             r[i] = IF i <= Len(v) THEN v[i] ELSE p[i - Len(v)]
    BY <1>4, ConcatProperties
  <1> HIDE DEF l, p, r
  <1>6. ASSUME NEW i \in 1..(Len(v) + k)
        PROVE  l[i] = r[i]
    <2>1. l[i] = IF i <= Len(v) THEN v[i] ELSE x[i - Len(v)]
      BY <1>1, <1>3
    <2>2. ~(i <= Len(v)) => i - Len(v) \in 1..k
      BY <1>1
    <2> QED
      BY <1>4, <1>5, <2>1, <2>2
  <1>7. l = r
    BY <1>3, <1>5, <1>6, SeqEqual
  <1> QED
    BY <1>7 DEF l, p, r

-----------------------------------------------------------------------------
(* Where text can be cut.                                                  *)

LEMMA EmptyIsWhole == Whole(<<>>)
  BY DEF Whole

LEMMA WholeConcat ==
  ASSUME NEW v \in Seq(Bytes), NEW x \in Seq(Bytes), Whole(v)
  PROVE  Whole(v \o x) <=> Whole(x)
  <1> DEFINE d == v \o x
  <1>1. /\ Len(v) \in Nat /\ Len(x) \in Nat
        /\ Len(d) = Len(v) + Len(x)
        /\ \A i \in 1..(Len(v) + Len(x)) :
             d[i] = IF i <= Len(v) THEN v[i] ELSE x[i - Len(v)]
    BY ConcatProperties
  <1>2. \A i \in 1..Len(v) : d[i] = v[i]
    BY <1>1
  <1>3. \A i \in 1..Len(x) : d[Len(v) + i] = x[i]
    BY <1>1
  <1> HIDE DEF d
  <1>4. ASSUME Whole(d)
        PROVE  Whole(x)
    <2> SUFFICES ASSUME NEW i \in 1..Len(x)
                 PROVE  /\ x[i] # bad
                        /\ x[i] = head => i < Len(x) /\ x[i + 1] = tail
                        /\ x[i] = tail => i > 1 /\ x[i - 1] = head
      BY DEF Whole
    <2> DEFINE j == Len(v) + i
    <2>1. j \in 1..Len(d) /\ d[j] = x[i]
      BY <1>1, <1>3
    <2>2. /\ x[i] # bad
          /\ x[i] = head => j < Len(d) /\ d[j + 1] = tail
          /\ x[i] = tail => j > 1 /\ d[j - 1] = head
      BY <1>4, <2>1 DEF Whole
    <2>3. ASSUME x[i] = head
          PROVE  i < Len(x) /\ x[i + 1] = tail
      <3>1. i + 1 \in 1..Len(x) /\ Len(v) + (i + 1) = j + 1
        BY <1>1, <2>2, <2>3
      <3> QED
        BY <1>1, <1>3, <2>2, <2>3, <3>1
    <2>4. ASSUME x[i] = tail
          PROVE  i > 1 /\ x[i - 1] = head
      <3>1. CASE i > 1
        <4>1. i - 1 \in 1..Len(x) /\ Len(v) + (i - 1) = j - 1
          BY <1>1, <3>1
        <4> QED
          BY <1>3, <2>2, <2>4, <3>1, <4>1
      <3>2. CASE ~(i > 1)
        <4>1. j - 1 = Len(v) /\ Len(v) \in 1..Len(v)
          BY <1>1, <2>2, <2>4, <3>2
        <4>2. v[Len(v)] = head
          BY <1>2, <2>2, <2>4, <4>1
        <4> QED
          BY <1>1, <4>1, <4>2 DEF Whole
      <3> QED
        BY <3>1, <3>2
    <2> QED
      BY <2>2, <2>3, <2>4
  <1>5. ASSUME Whole(x)
        PROVE  Whole(d)
    <2> SUFFICES ASSUME NEW i \in 1..Len(d)
                 PROVE  /\ d[i] # bad
                        /\ d[i] = head => i < Len(d) /\ d[i + 1] = tail
                        /\ d[i] = tail => i > 1 /\ d[i - 1] = head
      BY DEF Whole
    <2>1. CASE i <= Len(v)
      <3>1. i \in 1..Len(v) /\ d[i] = v[i]
        BY <1>1, <1>2, <2>1
      <3>2. /\ v[i] # bad
            /\ v[i] = head => i < Len(v) /\ v[i + 1] = tail
            /\ v[i] = tail => i > 1 /\ v[i - 1] = head
        BY <3>1 DEF Whole
      <3>3. i < Len(v) => i < Len(d) /\ d[i + 1] = v[i + 1]
        BY <1>1, <1>2, <3>1
      <3>4. i > 1 => d[i - 1] = v[i - 1]
        BY <1>1, <1>2, <3>1
      <3> QED
        BY <3>1, <3>2, <3>3, <3>4
    <2>2. CASE ~(i <= Len(v))
      <3> DEFINE j == i - Len(v)
      <3>1. j \in 1..Len(x) /\ d[i] = x[j]
        BY <1>1, <2>2
      <3>2. /\ x[j] # bad
            /\ x[j] = head => j < Len(x) /\ x[j + 1] = tail
            /\ x[j] = tail => j > 1 /\ x[j - 1] = head
        BY <1>5, <3>1 DEF Whole
      <3>3. j < Len(x) => i < Len(d) /\ d[i + 1] = x[j + 1]
        <4> SUFFICES ASSUME j < Len(x)
                     PROVE  i < Len(d) /\ d[i + 1] = x[j + 1]
          OBVIOUS
        <4>1. j + 1 \in 1..Len(x) /\ Len(v) + (j + 1) = i + 1
          BY <1>1, <3>1
        <4> QED
          BY <1>1, <1>3, <4>1
      <3>4. j > 1 => i > 1 /\ d[i - 1] = x[j - 1]
        <4> SUFFICES ASSUME j > 1
                     PROVE  i > 1 /\ d[i - 1] = x[j - 1]
          OBVIOUS
        <4>1. j - 1 \in 1..Len(x) /\ Len(v) + (j - 1) = i - 1 /\ i > 1
          BY <1>1, <3>1
        <4>2. d[Len(v) + (j - 1)] = x[j - 1]
          BY <1>3, <4>1
        <4> QED
          BY <4>1, <4>2
      <3> QED
        BY <3>1, <3>2, <3>3, <3>4
    <2> QED
      BY <1>1, <2>1, <2>2
  <1> QED
    BY <1>4, <1>5 DEF d

(* There is a longest prefix to cut at: CutAt is defined.                  *)
LEMMA CutExists ==
  ASSUME NEW d \in Seq(Bytes), NEW n \in Nat
  PROVE  \E k \in Cuts(d, n) : \A m \in Cuts(d, n) : m <= k
  <1> DEFINE C == Cuts(d, n)
             T == {Len(d) - k : k \in C}
  <1>1. Len(d) \in Nat /\ C \subseteq 0..Len(d)
    BY DEF Cuts
  <1>2. 0 \in C
    <2>1. SubSeq(d, 1, 0) = <<>>
      OBVIOUS
    <2>2. Whole(SubSeq(d, 1, 0))
      BY <2>1, EmptyIsWhole
    <2> QED
      BY <1>1, <2>2 DEF Cuts
  <1> HIDE DEF C
  <1>3. T \subseteq Nat /\ T # {}
    BY <1>1, <1>2
  <1>4. \E x \in T : \A y \in T : ~(<<y, x>> \in OpToRel(<, Nat))
    BY <1>3, NatLessThanWellFounded, WFMin
  <1>5. PICK x \in T : \A y \in T : ~(<<y, x>> \in OpToRel(<, Nat))
    BY <1>4
  <1>6. ASSUME NEW y \in T, ~(x <= y)
        PROVE  FALSE
    <2>1. x \in Nat /\ y \in Nat /\ y < x
      BY <1>3, <1>6
    <2>2. <<y, x>> \in OpToRel(<, Nat)
      BY <2>1, Zenon DEF OpToRel
    <2> QED
      BY <1>5, <2>2
  <1>7. PICK k \in C : x = Len(d) - k
    OBVIOUS
  <1>8. ASSUME NEW m \in C
        PROVE  m <= k
    <2>1. Len(d) - m \in T
      OBVIOUS
    <2>2. Len(d) - k <= Len(d) - m
      BY <1>6, <1>7, <2>1
    <2> QED
      BY <1>1, <2>2
  <1> QED
    BY <1>8 DEF C

LEMMA CutProperties ==
  ASSUME NEW d \in Seq(Bytes), NEW n \in Nat
  PROVE  /\ CutAt(d, n) \in 0..Len(d)
         /\ CutAt(d, n) <= n
         /\ Whole(SubSeq(d, 1, CutAt(d, n)))
         /\ \A k \in 0..Len(d) :
              k <= n /\ Whole(SubSeq(d, 1, k)) => k <= CutAt(d, n)
  <1> DEFINE C == Cuts(d, n)
  <1>1. CutAt(d, n) \in C /\ \A m \in C : m <= CutAt(d, n)
    BY CutExists DEF CutAt
  <1> QED
    BY <1>1 DEF Cuts

(* Text of which all may be kept is kept whole.                            *)
LEMMA WholeIsKept ==
  ASSUME NEW d \in Seq(Bytes), NEW n \in Nat, Whole(d), Len(d) <= n
  PROVE  CutAt(d, n) = Len(d) /\ SubSeq(d, 1, CutAt(d, n)) = d
  <1>1. SubSeq(d, 1, Len(d)) = d /\ Len(d) \in 0..Len(d)
    BY SubSeqFull
  <1>2. Len(d) <= CutAt(d, n) /\ CutAt(d, n) \in 0..Len(d)
    BY <1>1, CutProperties
  <1>3. CutAt(d, n) = Len(d)
    BY <1>2
  <1> QED
    BY <1>1, <1>3

-----------------------------------------------------------------------------
(* The round.                                                              *)

LEMMA ValidAndRest ==
  ASSUME NEW d \in Seq(Bytes)
  PROVE  /\ Valid(d) \in Seq(Bytes) /\ Whole(Valid(d))
         /\ Rest(d) \in Seq(Bytes)
         /\ Len(Valid(d)) = CutAt(d, Len(d))
         /\ d = Valid(d) \o Rest(d)
  <1>1. Len(d) \in Nat
    OBVIOUS
  <1>2. CutAt(d, Len(d)) \in 0..Len(d) /\ Whole(SubSeq(d, 1, CutAt(d, Len(d))))
    BY <1>1, CutProperties
  <1> QED
    BY <1>2, Prefix, Suffix, Halves DEF Valid, Rest

(* After whole text the decoder is where it was at the start.              *)
LEMMA CutAfterText ==
  ASSUME NEW v \in Seq(Bytes), NEW x \in Seq(Bytes), Whole(v)
  PROVE  CutAt(v \o x, Len(v \o x)) = Len(v) + CutAt(x, Len(x))
  <1> DEFINE d == v \o x
             k == CutAt(x, Len(x))
             m == CutAt(d, Len(d))
  <1>1. /\ Len(v) \in Nat /\ Len(x) \in Nat
        /\ d \in Seq(Bytes) /\ Len(d) = Len(v) + Len(x)
    BY ConcatProperties
  <1>2. /\ k \in 0..Len(x) /\ Whole(SubSeq(x, 1, k))
        /\ \A j \in 0..Len(x) : Whole(SubSeq(x, 1, j)) => j <= k
    BY <1>1, CutProperties
  <1>3. /\ m \in 0..Len(d) /\ Whole(SubSeq(d, 1, m))
        /\ \A j \in 0..Len(d) : Whole(SubSeq(d, 1, j)) => j <= m
    <2> HIDE DEF d
    <2>1. Len(d) \in Nat /\ \A j \in 0..Len(d) : j <= Len(d)
      BY <1>1
    <2> QED
      BY <1>1, <2>1, CutProperties
  <1>4. ASSUME NEW j \in 0..Len(x)
        PROVE  Whole(SubSeq(d, 1, Len(v) + j)) <=> Whole(SubSeq(x, 1, j))
    <2>1. SubSeq(x, 1, j) \in Seq(Bytes)
      BY Prefix
    <2>2. SubSeq(d, 1, Len(v) + j) = v \o SubSeq(x, 1, j)
      BY PrefixOfConcat
    <2> QED
      BY <2>1, <2>2, WholeConcat
  <1> HIDE DEF d, k, m
  <1>5. Len(v) + k <= m
    <2>1. Len(v) + k \in 0..Len(d)
      BY <1>1, <1>2
    <2> QED
      BY <1>2, <1>3, <1>4, <2>1
  <1>6. m - Len(v) <= k
    <2>1. m - Len(v) \in 0..Len(x) /\ Len(v) + (m - Len(v)) = m
      BY <1>1, <1>2, <1>3, <1>5
    <2>2. Whole(SubSeq(x, 1, m - Len(v)))
      BY <1>3, <1>4, <2>1
    <2> QED
      BY <1>2, <2>1, <2>2
  <1>7. m = Len(v) + k
    BY <1>1, <1>2, <1>3, <1>5, <1>6
  <1> QED
    BY <1>7 DEF d, k, m

LEMMA ValidAfterText ==
  ASSUME NEW v \in Seq(Bytes), NEW x \in Seq(Bytes), Whole(v)
  PROVE  /\ Valid(v \o x) = v \o Valid(x)
         /\ Rest(v \o x) = Rest(x)
  <1> DEFINE d == v \o x
  <1>1. /\ CutAt(x, Len(x)) \in 0..Len(x)
        /\ CutAt(d, Len(d)) = Len(v) + CutAt(x, Len(x))
    BY CutProperties, CutAfterText
  <1>2. Valid(d) = v \o Valid(x)
    BY <1>1, PrefixOfConcat DEF Valid
  <1>3. /\ d \in Seq(Bytes) /\ Valid(x) \in Seq(Bytes)
        /\ Rest(x) \in Seq(Bytes) /\ Rest(d) \in Seq(Bytes)
        /\ d = Valid(d) \o Rest(d)
        /\ x = Valid(x) \o Rest(x)
    BY ConcatProperties, ValidAndRest
  <1>4. (v \o Valid(x)) \o Rest(x) = v \o (Valid(x) \o Rest(x))
    BY <1>3, JoinedInAnyOrder
  <1>5. Valid(d) \in Seq(Bytes) /\ Valid(d) \o Rest(x) = Valid(d) \o Rest(d)
    BY <1>2, <1>3, <1>4, ConcatProperties
  <1>6. Rest(x) = Rest(d)
    BY <1>3, <1>5, ConcatSimplifications
  <1> QED
    BY <1>2, <1>6

(* Reading c and then a, with what c left over carried into the second     *)
(* round, finds the text and keeps the rest that reading both at once      *)
(* would have: how writes fall into chunks makes no difference.            *)
THEOREM ChunksDoNotMatter ==
  ASSUME NEW c \in Seq(Bytes), NEW a \in Seq(Bytes)
  PROVE  /\ Valid(c \o a) = Valid(c) \o Valid(Rest(c) \o a)
         /\ Rest(c \o a) = Rest(Rest(c) \o a)
  <1>1. /\ Valid(c) \in Seq(Bytes) /\ Whole(Valid(c)) /\ Rest(c) \in Seq(Bytes)
        /\ c = Valid(c) \o Rest(c)
    BY ValidAndRest
  <1>2. c \o a = Valid(c) \o (Rest(c) \o a)
    <2>1. (Valid(c) \o Rest(c)) \o a = Valid(c) \o (Rest(c) \o a)
      BY <1>1, JoinedInAnyOrder
    <2> QED
      BY <1>1, <2>1
  <1>3. Rest(c) \o a \in Seq(Bytes)
    BY <1>1, ConcatProperties
  <1>4. /\ Valid(Valid(c) \o (Rest(c) \o a)) = Valid(c) \o Valid(Rest(c) \o a)
        /\ Rest(Valid(c) \o (Rest(c) \o a)) = Rest(Rest(c) \o a)
    BY <1>1, <1>3, ValidAfterText
  <1> QED
    BY <1>2, <1>4

(* Appending under the cap keeps the capture whole characters and within   *)
(* the cap, wherever the cap falls in the text that is appended.           *)
THEOREM CapCutsNoCharacter ==
  ASSUME NEW b \in Seq(Bytes), NEW s \in Seq(Bytes), NEW cap \in Nat,
         Whole(b), Len(b) <= cap
  PROVE  /\ Capped(b, s, cap) \in Seq(Bytes)
         /\ Whole(Capped(b, s, cap))
         /\ Len(Capped(b, s, cap)) <= cap
  <1>1. CASE Len(b) >= cap
    BY <1>1 DEF Capped
  <1>2. CASE ~(Len(b) >= cap)
    <2> DEFINE k == CutAt(s, cap - Len(b))
               p == SubSeq(s, 1, k)
    <2>1. Len(b) \in Nat /\ cap - Len(b) \in Nat
      BY <1>2
    <2>2. k \in 0..Len(s) /\ k <= cap - Len(b) /\ Whole(p)
      BY <2>1, CutProperties
    <2>3. p \in Seq(Bytes) /\ Len(p) = k
      BY <2>2, Prefix
    <2>4. /\ b \o p \in Seq(Bytes) /\ Len(b \o p) = Len(b) + k
          /\ Whole(b \o p)
      BY <2>2, <2>3, ConcatProperties, WholeConcat
    <2>5. Capped(b, s, cap) = b \o p
      BY <1>2 DEF Capped
    <2> HIDE DEF k, p
    <2>6. Len(b) + k <= cap
      BY <2>1, <2>2
    <2> QED
      BY <2>4, <2>5, <2>6
  <1> QED
    BY <1>1, <1>2

(* Text that fits is appended whole.                                       *)
LEMMA CapKeepsWhatFits ==
  ASSUME NEW b \in Seq(Bytes), NEW s \in Seq(Bytes), NEW cap \in Nat,
         Whole(s), Len(b) + Len(s) <= cap
  PROVE  Capped(b, s, cap) = b \o s
  <1>1. Len(b) \in Nat /\ Len(s) \in Nat
    OBVIOUS
  <1>2. CASE Len(b) >= cap
    <2>1. Len(s) = 0
      BY <1>1, <1>2
    <2>2. s = <<>>
      BY <2>1, EmptySeq
    <2> QED
      BY <1>2, <2>2, ConcatEmptySeq DEF Capped
  <1>3. CASE ~(Len(b) >= cap)
    <2>1. cap - Len(b) \in Nat /\ Len(s) <= cap - Len(b)
      BY <1>1, <1>3
    <2>2. SubSeq(s, 1, CutAt(s, cap - Len(b))) = s
      BY <2>1, WholeIsKept
    <2> QED
      BY <1>3, <2>2 DEF Capped
  <1> QED
    BY <1>2, <1>3

-----------------------------------------------------------------------------
(* The three invariants of an execution.                                   *)

TypeInv == TypeOK /\ sent \in [Streams -> Nat]

(* Where the call is says what there is to clean up, and a result with an  *)
(* exit code is not passed on before the readers have finished.            *)
StageInv ==
  /\ pc \in {"validate", "prepare", "spawn"} =>
       /\ child = "none" /\ waited = "nothing" /\ cgroup = "absent"
       /\ \A s \in Streams : reader[s] = "none"
  /\ pc \in {"validate", "prepare"} => workspace = "absent"
  /\ pc \in {"callback", "drain"} => \A s \in Streams : reader[s] = "none"
  /\ pc \in {"callback", "drain", "wait"} =>
       child \in {"running", "exited"} /\ waited = "nothing"
  /\ pc \in {"join", "collect"} =>
       \/ waited = "exit" /\ child = "reaped"
       \/ waited = "timeout" /\ child \in {"running", "exited"}
  /\ pc \in {"kill", "reap"} =>
       child \in {"running", "exited"} /\ waited = "timeout"
  /\ pc = "cleanup" => child = "reaped"
  /\ pc = "returned" => NothingStays
  /\ pc \in {"collect", "cleanup", "returned"} /\ waited = "exit" => ReadersDone

(* Of the bytes c that were read from the pipe, the text is captured if it *)
(* fits, and what does not make a character yet is carried along.          *)
Captured(s, c) ==
  /\ Written(s) = c \o pipe[s]
  /\ leftover[s] = Rest(c)
  /\ Len(Valid(c)) <= Cap[s] => buf[s] = Valid(c)

StreamInv ==
  \A s \in Streams :
    /\ Whole(buf[s]) /\ Len(buf[s]) <= Cap[s]
    /\ \E c \in Seq(Bytes) : Captured(s, c)
    /\ reader[s] = "done" => pipe[s] = <<>> /\ s \notin open

IInv == TypeInv /\ StageInv /\ StreamInv

USE DEF program, capture, host

-----------------------------------------------------------------------------
(* Initially.                                                              *)

LEMMA Initially == Init => IInv
  <1> SUFFICES ASSUME Init
               PROVE  IInv
    OBVIOUS
  <1> USE OutputAssumption, SizeAssumption DEF Init
  <1>1. <<>> \in Seq(Bytes) /\ Len(<<>>) = 0
    BY EmptySeq
  <1>2. TypeInv
    <2>1. /\ output \in [Streams -> Seq(Bytes)]
          /\ \A s \in Streams : Len(output[s]) \in Nat
      BY DEF Init
    <2>2. /\ pipe \in [Streams -> Seq(Bytes)] /\ buf \in [Streams -> Seq(Bytes)]
          /\ leftover \in [Streams -> Seq(Bytes)]
          /\ sent \in [Streams -> Nat]
      BY <1>1
    <2>3. \A s \in Streams : /\ Len(pipe[s]) <= PipeSize
                             /\ sent[s] \in 0..Len(output[s])
      BY <1>1, <2>1
    <2> QED
      BY <2>2, <2>3 DEF TypeInv, TypeOK, Locations
  <1>3. StageInv
    BY DEF StageInv
  <1>4. ASSUME NEW s \in Streams
        PROVE  Captured(s, <<>>)
    <2>1. Written(s) = <<>> \o pipe[s]
      <3>1. Written(s) = <<>> /\ pipe[s] = <<>>
        BY DEF Written
      <3> QED
        BY <1>1, <3>1, ConcatEmptySeq
    <2>2. Valid(<<>>) = <<>> /\ Rest(<<>>) = <<>>
      <3>1. /\ Valid(<<>>) \in Seq(Bytes) /\ Rest(<<>>) \in Seq(Bytes)
            /\ Valid(<<>>) \o Rest(<<>>) = <<>>
        BY <1>1, ValidAndRest
      <3> QED
        BY <1>1, <3>1, ConcatSimplifications
    <2> QED
      BY <2>1, <2>2 DEF Captured
  <1>5. \A s \in Streams : Whole(buf[s]) /\ Len(buf[s]) <= Cap[s]
    BY <1>1, EmptyIsWhole
  <1>6. \A s \in Streams : \E c \in Seq(Bytes) : Captured(s, c)
    BY <1>1, <1>4
  <1>7. StreamInv
    BY <1>5, <1>6 DEF StreamInv
  <1> QED
    BY <1>2, <1>3, <1>7 DEF IInv

-----------------------------------------------------------------------------
(* The bytes of a round.                                                   *)

LEMMA RoundProperties ==
  ASSUME TypeInv, NEW s \in Streams
  PROVE  /\ Available(s) \in Seq(Bytes)
         /\ Len(Available(s)) \in 0..Len(pipe[s])
         /\ SubSeq(pipe[s], Len(Available(s)) + 1, Len(pipe[s])) \in Seq(Bytes)
         /\ Len(SubSeq(pipe[s], Len(Available(s)) + 1, Len(pipe[s]))) <=
              Len(pipe[s])
         /\ pipe[s] = Available(s) \o
              SubSeq(pipe[s], Len(Available(s)) + 1, Len(pipe[s]))
         /\ Round(s) \in Seq(Bytes)
  <1> DEFINE p == pipe[s]
             k == IF Len(p) < Chunk THEN Len(p) ELSE Chunk
             a == Available(s)
             r == SubSeq(p, Len(a) + 1, Len(p))
  <1>1. p \in Seq(Bytes) /\ leftover[s] \in Seq(Bytes)
    BY DEF TypeInv, TypeOK
  <1>2. Len(p) \in Nat /\ k \in 0..Len(p)
    BY <1>1, SizeAssumption
  <1>3. a \in Seq(Bytes) /\ Len(a) = k /\ a = SubSeq(p, 1, k)
    BY <1>1, <1>2, Prefix DEF Available
  <1> HIDE DEF a, k, p
  <1>4. r \in Seq(Bytes) /\ Len(r) = Len(p) - k /\ p = a \o r
    BY <1>1, <1>2, <1>3, Suffix, Halves
  <1>5. Round(s) \in Seq(Bytes)
    BY <1>1, <1>3, ConcatProperties DEF Round, a
  <1>6. Len(r) <= Len(p) /\ Len(a) \in 0..Len(p)
    BY <1>2, <1>3, <1>4
  <1> QED
    BY <1>3, <1>4, <1>5, <1>6 DEF a, p

(* One round captures what it should, see ChunksDoNotMatter.               *)
LEMMA ReadKeepsStream ==
  ASSUME IInv, NEW s \in Streams, Read(s)
  PROVE  /\ buf'[s] \in Seq(Bytes)
         /\ Whole(buf[s])' /\ Len(buf'[s]) <= Cap[s]
         /\ \E c \in Seq(Bytes) : Captured(s, c)'
  <1> USE SizeAssumption DEF IInv, TypeInv, TypeOK
  <1> DEFINE a == Available(s)
             w == Valid(Round(s))
             b == buf[s]
             q == SubSeq(pipe[s], Len(a) + 1, Len(pipe[s]))
  <1>1. PICK c \in Seq(Bytes) : Captured(s, c)
    BY DEF StreamInv
  <1>2. /\ a \in Seq(Bytes) /\ q \in Seq(Bytes) /\ pipe[s] = a \o q
        /\ Round(s) \in Seq(Bytes)
    BY RoundProperties
  <1>3. /\ w \in Seq(Bytes) /\ Whole(w)
        /\ Valid(c) \in Seq(Bytes) /\ Whole(Valid(c)) /\ Rest(c) \in Seq(Bytes)
    BY <1>1, <1>2, ValidAndRest
  <1>4. b \in Seq(Bytes) /\ Cap[s] \in Nat /\ Whole(b) /\ Len(b) <= Cap[s]
    BY DEF StreamInv
  <1>5. /\ buf'[s] = Capped(b, w, Cap[s])
        /\ leftover'[s] = Rest(Round(s))
        /\ pipe'[s] = q
        /\ UNCHANGED <<output, sent>>
    BY DEF Read
  <1>6. Round(s) = Rest(c) \o a
    BY <1>1 DEF Captured, Round
  <1> HIDE DEF a, w, b, q
  <1>7. /\ Capped(b, w, Cap[s]) \in Seq(Bytes)
        /\ Whole(Capped(b, w, Cap[s]))
        /\ Len(Capped(b, w, Cap[s])) <= Cap[s]
    BY <1>3, <1>4, CapCutsNoCharacter
  <1>8. PICK d \in Seq(Bytes) : d = c \o a
    BY <1>1, <1>2, ConcatProperties
  <1>9. Valid(d) = Valid(c) \o w /\ Rest(d) = Rest(Round(s))
    <2>1. /\ Valid(c \o a) = Valid(c) \o Valid(Rest(c) \o a)
          /\ Rest(c \o a) = Rest(Rest(c) \o a)
      BY <1>2, ChunksDoNotMatter
    <2> QED
      BY <1>6, <1>8, <2>1 DEF w
  <1>10. Written(s)' = d \o pipe'[s]
    <2>1. Written(s)' = c \o (a \o q)
      BY <1>1, <1>2, <1>5 DEF Written, Captured
    <2>2. (c \o a) \o q = c \o (a \o q)
      <3>1. c \in Seq(Bytes) /\ a \in Seq(Bytes) /\ q \in Seq(Bytes)
        BY <1>1, <1>2
      <3> QED
        BY <3>1, JoinedInAnyOrder
    <2> QED
      BY <1>5, <1>8, <2>1, <2>2
  <1>11. ASSUME Len(Valid(d)) <= Cap[s]
         PROVE  buf'[s] = Valid(d)
    <2>1. /\ Len(Valid(c)) \in Nat /\ Len(w) \in Nat
          /\ Len(Valid(c)) + Len(w) <= Cap[s]
      BY <1>3, <1>9, <1>11, ConcatProperties
    <2>2. b = Valid(c)
      BY <1>1, <1>4, <2>1 DEF Captured, b
    <2>3. Capped(b, w, Cap[s]) = b \o w
      BY <1>3, <1>4, <2>1, <2>2, CapKeepsWhatFits
    <2> QED
      BY <1>5, <1>9, <2>2, <2>3
  <1>12. Captured(s, d)'
    BY <1>5, <1>9, <1>10, <1>11 DEF Captured
  <1>13. Whole(buf[s])' /\ buf'[s] \in Seq(Bytes) /\ Len(buf'[s]) <= Cap[s]
    BY <1>5, <1>7
  <1> QED
    BY <1>12, <1>13

LEMMA WriteKeepsStream ==
  ASSUME IInv, NEW s \in Streams, Write(s)
  PROVE  /\ pipe'[s] \in Seq(Bytes) /\ Len(pipe'[s]) <= PipeSize
         /\ sent'[s] \in 0..Len(output[s])
         /\ \E c \in Seq(Bytes) : Captured(s, c)'
  <1> USE SizeAssumption, OutputAssumption DEF IInv, TypeInv, TypeOK
  <1> DEFINE o == output[s]
             n == sent[s]
             e == o[n + 1]
             p == pipe[s]
  <1>1. PICK c \in Seq(Bytes) : Captured(s, c)
    BY DEF StreamInv
  <1>2. /\ o \in Seq(Bytes) /\ Len(o) \in Nat
        /\ n \in 0..Len(o) /\ n < Len(o) /\ p \in Seq(Bytes)
        /\ Len(p) \in Nat /\ Len(p) < PipeSize
        /\ pipe'[s] = Append(p, e) /\ sent'[s] = n + 1
        /\ UNCHANGED <<output, buf, leftover>>
    BY DEF Write, Room
  <1> HIDE DEF o, n, p
  <1>3. e \in Bytes
    BY <1>2, ElementOfSeq
  <1> HIDE DEF e
  <1>4. Append(p, e) \in Seq(Bytes) /\ Len(Append(p, e)) = Len(p) + 1
    BY <1>2, <1>3, AppendProperties
  <1>5. Written(s)' = c \o Append(p, e)
    <2>1. Written(s)' = SubSeq(o, 1, n + 1) /\ Written(s) = SubSeq(o, 1, n)
      BY <1>2 DEF Written, o, n
    <2>2. 1 \in 1..Len(o) /\ n + 1 \in 1..Len(o)
      BY <1>2
    <2>3. SubSeq(o, 1, n + 1) = SubSeq(o, 1, (n + 1) - 1) \o <<e>>
      BY <1>2, <2>2, SubSeqRecursiveSecond DEF e
    <2>4. (n + 1) - 1 = n
      BY <1>2
    <2>5. Written(s) = c \o p
      BY <1>1 DEF Captured, p
    <2>6. Append(p, e) = p \o <<e>>
      BY <1>2, <1>3, AppendIsConcat
    <2>7. <<e>> \in Seq(Bytes)
      BY <1>3
    <2>8. (c \o p) \o <<e>> = c \o (p \o <<e>>)
      <3>1. c \in Seq(Bytes) /\ p \in Seq(Bytes)
        BY <1>1, <1>2
      <3> QED
        BY <2>7, <3>1, JoinedInAnyOrder
    <2> QED
      BY <2>1, <2>3, <2>4, <2>5, <2>6, <2>8
  <1>6. Captured(s, c)'
    BY <1>1, <1>2, <1>5 DEF Captured
  <1>7. Len(p) + 1 <= PipeSize /\ n + 1 \in 0..Len(o)
    BY <1>2
  <1> QED
    BY <1>2, <1>4, <1>6, <1>7 DEF o

LEMMA StreamKept ==
  ASSUME StreamInv, NEW s \in Streams,
         output'[s] = output[s], sent'[s] = sent[s], pipe'[s] = pipe[s],
         buf'[s] = buf[s], leftover'[s] = leftover[s]
  PROVE  /\ Whole(buf[s])' /\ Len(buf'[s]) <= Cap[s]
         /\ \E c \in Seq(Bytes) : Captured(s, c)'
  <1>1. PICK c \in Seq(Bytes) : Captured(s, c)
    BY DEF StreamInv
  <1>2. Captured(s, c)'
    BY <1>1 DEF Captured, Written
  <1> QED
    BY <1>2 DEF StreamInv

-----------------------------------------------------------------------------
(* Every step keeps the three invariants.                                  *)

LEMMA TypeStep == IInv /\ [Next]_vars => TypeInv'
  <1> SUFFICES ASSUME IInv, [Next]_vars
               PROVE  TypeInv'
    OBVIOUS
  <1> USE DEF IInv, TypeInv, TypeOK
  <1>1. CASE Executor
    <2>1. /\ UNCHANGED <<output, sent, pipe, buf, leftover>>
          /\ pc' \in Locations /\ killed' \in BOOLEAN /\ late' \in BOOLEAN
          /\ collected' \in BOOLEAN
      BY <1>1
      DEF Executor, Validate, Prepare, Spawn, Callback, StartReaders, Wait,
          Join, Collect, AfterCollect, Kill, Reap, Cleanup, Locations
    <2>2. /\ child' \in {"none", "running", "exited", "reaped"}
          /\ open' \subseteq Streams
          /\ reader' \in [Streams -> {"none", "reading", "done"}]
          /\ waited' \in {"nothing", "exit", "timeout"}
      BY <1>1
      DEF Executor, Validate, Prepare, Spawn, Callback, StartReaders, Wait,
          Join, Collect, Kill, Reap, Cleanup
    <2>3. /\ workspace' \in {"absent", "guarded", "stray", "removed"}
          /\ cgroup' \in {"absent", "present", "removed"}
      BY <1>1
      DEF Executor, Validate, Prepare, Spawn, Callback, StartReaders, Wait,
          Join, Collect, Kill, Reap, Cleanup
    <2> QED
      BY <2>1, <2>2, <2>3
  <1>2. ASSUME NEW s \in Streams, Read(s)
        PROVE  TypeInv'
    <2>1. buf'[s] \in Seq(Bytes)
      BY <1>2, ReadKeepsStream
    <2>2. leftover'[s] \in Seq(Bytes)
      BY <1>2, RoundProperties, ValidAndRest DEF Read
    <2>3. pipe'[s] \in Seq(Bytes) /\ Len(pipe'[s]) <= PipeSize
      <3>1. /\ SubSeq(pipe[s], Len(Available(s)) + 1, Len(pipe[s])) \in Seq(Bytes)
            /\ Len(SubSeq(pipe[s], Len(Available(s)) + 1, Len(pipe[s]))) <=
                 Len(pipe[s])
        BY RoundProperties
      <3>2. pipe'[s] = SubSeq(pipe[s], Len(Available(s)) + 1, Len(pipe[s]))
        BY <1>2 DEF Read
      <3>3. /\ Len(pipe[s]) \in Nat /\ Len(pipe'[s]) \in Nat
            /\ Len(pipe[s]) <= PipeSize
        BY <3>1, <3>2
      <3> QED
        BY <3>1, <3>2, <3>3, SizeAssumption
    <2> QED
      BY <1>2, <2>1, <2>2, <2>3 DEF Read
  <1>3. ASSUME NEW s \in Streams, EndOfFile(s)
        PROVE  TypeInv'
    BY <1>3 DEF EndOfFile
  <1>4. ASSUME NEW s \in Streams, Write(s)
        PROVE  TypeInv'
    <2>1. /\ pipe'[s] \in Seq(Bytes) /\ Len(pipe'[s]) <= PipeSize
          /\ sent'[s] \in 0..Len(output[s])
      BY <1>4, WriteKeepsStream
    <2>2. /\ \A r \in Streams \ {s} : pipe'[r] = pipe[r] /\ sent'[r] = sent[r]
          /\ pipe' \in [Streams -> Seq(Bytes)]
          /\ sent' \in [Streams -> Nat]
      BY <1>4, <2>1 DEF Write
    <2>3. \A r \in Streams : /\ Len(pipe'[r]) <= PipeSize
                             /\ sent'[r] \in 0..Len(output[r])
      BY <2>1, <2>2
    <2> QED
      BY <1>4, <2>2, <2>3 DEF Write
  <1>5. ASSUME NEW s \in Streams, Close(s)
        PROVE  TypeInv'
    BY <1>5 DEF Close
  <1>6. CASE Exit
    BY <1>6 DEF Exit, OpenAfterExit
  <1>7. CASE Signal \/ Deadline
    BY <1>7, ZenonT(30) DEF Signal, Deadline
  <1>8. CASE UNCHANGED vars
    BY <1>8 DEF vars
  <1> QED
    BY <1>1, <1>2, <1>3, <1>4, <1>5, <1>6, <1>7, <1>8 DEF Next, Reader

LEMMA StageStep == IInv /\ [Next]_vars => StageInv'
  <1> SUFFICES ASSUME IInv, [Next]_vars
               PROVE  StageInv'
    OBVIOUS
  <1> USE DEF IInv, TypeInv, TypeOK, StageInv, ReadersDone, NothingStays
  <1>1. CASE Validate
    BY <1>1 DEF Validate
  <1>2. CASE Prepare
    BY <1>2 DEF Prepare
  <1>3. CASE Spawn
    BY <1>3 DEF Spawn
  <1>4. CASE Callback
    BY <1>4 DEF Callback
  <1>5. CASE StartReaders
    BY <1>5 DEF StartReaders
  <1>6. CASE Wait
    BY <1>6 DEF Wait
  <1>7. CASE Join
    BY <1>7 DEF Join
  <1>8. CASE Collect
    BY <1>8 DEF Collect, AfterCollect
  <1>9. CASE Kill
    BY <1>9 DEF Kill
  <1>10. CASE Reap
    BY <1>10 DEF Reap
  <1>11. CASE Cleanup
    BY <1>11 DEF Cleanup
  <1>12. ASSUME NEW s \in Streams, Reader(s)
         PROVE  StageInv'
    BY <1>12 DEF Reader, Read, EndOfFile, Reading
  <1>13. ASSUME NEW s \in Streams, Write(s) \/ Close(s)
         PROVE  StageInv'
    BY <1>13 DEF Write, Close
  <1>14. CASE Exit
    BY <1>14 DEF Exit
  <1>15. CASE Signal \/ Deadline
    BY <1>15 DEF Signal, Deadline
  <1>16. CASE UNCHANGED vars
    BY <1>16 DEF vars
  <1> QED
    BY <1>1, <1>2, <1>3, <1>4, <1>5, <1>6, <1>7, <1>8, <1>9, <1>10, <1>11,
       <1>12, <1>13, <1>14, <1>15, <1>16 DEF Next, Executor

LEMMA StreamStep == IInv /\ [Next]_vars => StreamInv'
  <1> SUFFICES ASSUME IInv, [Next]_vars, NEW s \in Streams
               PROVE  StreamInv!(s)'
    BY DEF StreamInv
  <1> DEFINE Kept == /\ Whole(buf[s])' /\ Len(buf'[s]) <= Cap[s]
                     /\ \E c \in Seq(Bytes) : Captured(s, c)'
             Ended == reader'[s] = "done" => pipe'[s] = <<>> /\ s \notin open'
  <1>0. /\ TypeInv /\ StageInv /\ StreamInv
        /\ reader[s] = "done" => pipe[s] = <<>> /\ s \notin open
    BY DEF IInv, StreamInv
  <1> USE DEF TypeInv, TypeOK
  <1>1. CASE Executor
    <2>1. UNCHANGED <<output, sent, pipe, buf, leftover>>
      BY <1>1
      DEF Executor, Validate, Prepare, Spawn, Callback, StartReaders, Wait,
          Join, Collect, Kill, Reap, Cleanup
    <2>2. Ended
      BY <1>0, <1>1
      DEF StageInv, Executor, Validate, Prepare, Spawn, Callback, StartReaders,
          Wait, Join, Collect, Kill, Reap, Cleanup
    <2> QED
      BY <1>0, <2>1, <2>2, StreamKept
  <1>2. ASSUME NEW r \in Streams, Read(r)
        PROVE  Kept /\ Ended
    <2>1. CASE r = s
      BY <1>0, <1>2, <2>1, ReadKeepsStream DEF Read, Reading
    <2>2. CASE r # s
      <3>1. /\ output' = output /\ sent' = sent /\ pipe'[s] = pipe[s]
            /\ buf'[s] = buf[s] /\ leftover'[s] = leftover[s]
            /\ UNCHANGED <<reader, open>>
        BY <1>0, <1>2, <2>2 DEF Read
      <3> QED
        BY <1>0, <3>1, StreamKept
    <2> QED
      BY <2>1, <2>2
  <1>3. ASSUME NEW r \in Streams, EndOfFile(r)
        PROVE  Kept /\ Ended
    <2>1. Ended
      BY <1>0, <1>3 DEF EndOfFile
    <2>2. UNCHANGED <<output, sent, pipe, buf, leftover>>
      BY <1>3 DEF EndOfFile
    <2> QED
      BY <1>0, <2>1, <2>2, StreamKept
  <1>4. ASSUME NEW r \in Streams, Write(r)
        PROVE  Kept /\ Ended
    <2>1. CASE r = s
      <3>1. reader' = reader /\ reader[s] # "done"
        BY <1>0, <1>4, <2>1 DEF Write
      <3>2. UNCHANGED buf
        BY <1>4 DEF Write
      <3> QED
        BY <1>0, <1>4, <2>1, <3>1, <3>2, WriteKeepsStream DEF StreamInv
    <2>2. CASE r # s
      <3>1. /\ output' = output /\ sent'[s] = sent[s] /\ pipe'[s] = pipe[s]
            /\ UNCHANGED <<reader, open, buf, leftover>>
        BY <1>0, <1>4, <2>2 DEF Write
      <3> QED
        BY <1>0, <3>1, StreamKept
    <2> QED
      BY <2>1, <2>2
  <1>5. ASSUME NEW r \in Streams, Close(r)
        PROVE  Kept /\ Ended
    BY <1>0, <1>5, StreamKept DEF Close
  <1>6. CASE Exit \/ Signal \/ Deadline \/ UNCHANGED vars
    <2>1. /\ UNCHANGED <<output, sent, pipe, buf, leftover, reader>>
          /\ open' \subseteq open
      BY <1>6 DEF Exit, OpenAfterExit, Signal, Deadline, vars
    <2> QED
      BY <1>0, <2>1, StreamKept
  <1>7. Kept /\ Ended
    BY <1>1, <1>2, <1>3, <1>4, <1>5, <1>6 DEF Next, Reader
  <1> QED
    BY <1>7

LEMMA Invariance == Spec => []IInv
  <1>1. IInv /\ [Next]_vars => IInv'
    BY TypeStep, StageStep, StreamStep DEF IInv
  <1> QED
    BY <1>1, Initially, PTL DEF Spec

-----------------------------------------------------------------------------
(* The properties.                                                         *)

(* Type correctness of an execution; in particular a pipe never holds more *)
(* than it can.                                                            *)
THEOREM TypeCorrect == Spec => []TypeOK
  <1>1. IInv => TypeOK
    BY DEF IInv, TypeInv
  <1> QED
    BY <1>1, Invariance, PTL

(* What a poll of the output shows is whole characters within the cap,     *)
(* whatever the program writes and however it arrives.                     *)
THEOREM ShowsText == Spec => []CaptureIsText
  <1>1. IInv => CaptureIsText
    BY DEF IInv, StreamInv, CaptureIsText
  <1> QED
    BY <1>1, Invariance, PTL

(* With an exit code the caller gets all the text the program wrote, if it *)
(* fits: the readers were joined, and they do not stop before the end.     *)
THEOREM NothingIsMissing == Spec => []ResultIsComplete
  <1>1. ASSUME IInv, pc = "returned", waited = "exit", NEW s \in Streams,
               Len(Valid(Written(s))) <= Cap[s]
        PROVE  buf[s] = Valid(Written(s))
    <2>1. PICK c \in Seq(Bytes) : Captured(s, c)
      BY <1>1 DEF IInv, StreamInv
    <2>2. pipe[s] = <<>>
      BY <1>1 DEF IInv, StageInv, ReadersDone, StreamInv
    <2>3. Written(s) = c
      BY <2>1, <2>2, ConcatEmptySeq DEF Captured
    <2> QED
      BY <1>1, <2>1, <2>3 DEF Captured
  <1>2. IInv => ResultIsComplete
    BY <1>1 DEF ResultIsComplete
  <1> QED
    BY <1>2, Invariance, PTL

(* However the call ends, it leaves no process, no sub-cgroup and no       *)
(* guarded workspace behind.                                               *)
THEOREM LeavesNothing == Spec => []NothingStays
  <1>1. IInv => NothingStays
    BY DEF IInv, StageInv, NothingStays
  <1> QED
    BY <1>1, Invariance, PTL

-----------------------------------------------------------------------------
(* Who waits for whom.                                                     *)

(* The readers run from the wait on, only a live program has a stream      *)
(* open, and what is being reaped has been killed.                         *)
WaitInv ==
  /\ pc \in {"wait", "join"} => \A s \in Streams : reader[s] # "none"
  /\ child # "running" => open = {}
  /\ pc = "reap" => killed

LEMMA WaitInit == Init => WaitInv
  BY DEF Init, WaitInv

LEMMA WaitStep == IInv /\ WaitInv /\ [Next]_vars => WaitInv'
  <1> SUFFICES ASSUME IInv, WaitInv, [Next]_vars
               PROVE  WaitInv'
    OBVIOUS
  <1> USE DEF WaitInv
  <1>0. /\ reader \in [Streams -> {"none", "reading", "done"}]
        /\ pc = "spawn" => child = "none"
    BY DEF IInv, TypeInv, TypeOK, StageInv
  <1>1. CASE Validate \/ Prepare \/ Spawn
    BY <1>1 DEF Validate, Prepare, Spawn
  <1>2. CASE Callback \/ StartReaders
    BY <1>2 DEF Callback, StartReaders
  <1>3. CASE Wait \/ Join \/ Collect
    BY <1>3 DEF Wait, Join, Collect, AfterCollect
  <1>4. CASE Kill \/ Reap \/ Cleanup
    BY <1>4 DEF Kill, Reap, Cleanup
  <1>5. ASSUME NEW s \in Streams, Read(s) \/ EndOfFile(s)
        PROVE  WaitInv'
    BY <1>0, <1>5 DEF Read, EndOfFile
  <1>6. ASSUME NEW s \in Streams, Write(s) \/ Close(s)
        PROVE  WaitInv'
    BY <1>6 DEF Write, Close
  <1>7. CASE Exit \/ Signal \/ Deadline
    BY <1>7 DEF Exit, OpenAfterExit, Signal, Deadline
  <1>8. CASE UNCHANGED vars
    BY <1>8 DEF vars
  <1> QED
    BY <1>1, <1>2, <1>3, <1>4, <1>5, <1>6, <1>7, <1>8
    DEF Next, Executor, Reader

(* Whatever the program writes and however large the pipes are, the        *)
(* executor and its readers never wait for each other: only a program that *)
(* is alive keeps a call from going on, and only at three places, of which *)
(* the join is the one that the deadline does not bound.                   *)
THEOREM OnlyProgramsBlock == Spec => []OnlyTheProgramBlocks
  <1>1. ASSUME IInv, WaitInv, pc # "returned", ~CanGoOn
        PROVE  /\ child = "running"
               /\ \/ pc = "wait" /\ ~late
                  \/ pc = "join" /\ open # {}
                  \/ pc = "reap" /\ killed
    <2>1. pc \in {"wait", "join", "reap"}
      BY <1>1 DEF CanGoOn, IInv, TypeInv, TypeOK
    <2>2. CASE pc = "wait"
      BY <1>1, <2>2 DEF CanGoOn, GivesUp, IInv, StageInv
    <2>3. CASE pc = "join"
      <3>1. PICK s \in Streams : reader[s] # "done"
        BY <1>1, <2>3 DEF CanGoOn, ReadersDone
      <3>2. reader[s] = "reading"
        BY <1>1, <2>3, <3>1 DEF WaitInv, IInv, TypeInv, TypeOK
      <3>3. s \in open
        BY <1>1, <2>3, <3>2 DEF CanGoOn, Reading
      <3> QED
        BY <1>1, <2>3, <3>3 DEF WaitInv
    <2>4. CASE pc = "reap"
      BY <1>1, <2>4 DEF CanGoOn, IInv, StageInv, WaitInv
    <2> QED
      BY <2>1, <2>2, <2>3, <2>4
  <1>2. IInv /\ WaitInv => OnlyTheProgramBlocks
    BY <1>1 DEF OnlyTheProgramBlocks
  <1> QED
    BY <1>2, WaitInit, WaitStep, Invariance, PTL DEF Spec

-----------------------------------------------------------------------------
(* The refinement of module SandboxCall.                                   *)

LEMMA CallInit == Init => Call!Init
  BY DEF Init, Call!Init, Stage, Process, Answer

(* The readers, the pipes and the clock are not part of a call.            *)
LEMMA CallStep == IInv /\ [Next]_vars => [Call!Next]_(Call!vars)
  <1> SUFFICES ASSUME IInv, [Next]_vars
               PROVE  [Call!Next]_(Call!vars)
    OBVIOUS
  <1>0. /\ pc \in {"validate", "prepare", "spawn"} =>
             child = "none" /\ waited = "nothing"
        /\ pc = "wait" => child \in {"running", "exited"}
        /\ pc = "cleanup" => child = "reaped"
        /\ pc = "returned" => child # "running"
    BY DEF IInv, StageInv, NothingStays
  <1> USE DEF Stage, Process, Answer
  <1>1. CASE Validate
    BY <1>0, <1>1 DEF Validate, Call!Next, Call!Refuse, Call!vars
  <1>2. CASE Prepare
    BY <1>0, <1>2 DEF Prepare, Call!Next, Call!Refuse, Call!vars
  <1>3. CASE Spawn
    BY <1>0, <1>3 DEF Spawn, Call!Next, Call!Launch, Call!Refuse
  <1>4. CASE Callback
    <2>1. pc = "callback" /\ pc' = "drain" /\ UNCHANGED <<child, waited>>
      BY <1>4 DEF Callback
    <2> QED
      BY <2>1 DEF Call!Next, Call!HandOverPid
  <1>5. CASE StartReaders \/ Join \/ Collect \/ Kill
    BY <1>5 DEF StartReaders, Join, Collect, AfterCollect, Kill, Call!vars
  <1>6. CASE Wait \/ Reap
    BY <1>6 DEF Wait, Reap, Call!vars
  <1>7. CASE Cleanup
    BY <1>0, <1>7 DEF Cleanup, Call!Next, Call!Return
  <1>8. ASSUME NEW s \in Streams, Reader(s) \/ Write(s) \/ Close(s)
        PROVE  UNCHANGED Call!vars
    BY <1>8 DEF Reader, Read, EndOfFile, Write, Close, Call!vars
  <1>9. CASE Exit
    BY <1>0, <1>9 DEF Exit, Call!Next, Call!End
  <1>10. CASE Signal \/ Deadline
    BY <1>10 DEF Signal, Deadline, Call!vars
  <1>11. CASE UNCHANGED vars
    BY <1>11 DEF vars, Call!vars
  <1> QED
    BY <1>1, <1>2, <1>3, <1>4, <1>5, <1>6, <1>7, <1>8, <1>9, <1>10, <1>11
    DEF Next, Executor

(* The execution keeps the promise of module SandboxCall, whatever the     *)
(* program writes, whichever step of it fails and whoever sends signals:   *)
(* one process at most, its PID handed over before anything else, no       *)
(* return while it lives, and an exit code only once there was one.        *)
THEOREM ExecutionKeepsCall == Spec => KeepsCall
  BY CallInit, CallStep, Invariance, PTL DEF Spec, KeepsCall, Call!Spec
=============================================================================
