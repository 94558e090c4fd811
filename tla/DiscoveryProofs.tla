--------------------------- MODULE DiscoveryProofs --------------------------
(***************************************************************************)
(* Theorems about Discovery, for any number of peers, addresses, rooms and *)
(* probe threads and any limit of the table, and about its history.        *)
(***************************************************************************)
EXTENDS DiscoveryHistory, FiniteSetTheorems, TLAPS

(* TypeOK with the finiteness of the table, without which its cardinality  *)
(* says nothing.                                                           *)
TypeInv == TypeOK /\ IsFiniteSet(Known)

IInv == TypeInv /\ OneClaimant

USE NoneAssumption, LimitAssumption

-----------------------------------------------------------------------------
(* Steps that leave the table alone, or one flag of it, keep who is known. *)

(* A record that is written or removed touches its own peer only.          *)
LEMMA ResolveRecord ==
  ASSUME TypeInv, NEW p \in Peers, NEW h \in Hostnames,
         NEW i \in Addresses \cup {NoAddress}, Resolve(p, h, i)
  PROVE  /\ table' \in [Peers -> Entry \cup {None}]
         /\ table'[p] \in Entry
         /\ \A q \in Peers \ {p} : table'[q] = table[q]
         /\ Known' = Known \cup {p}
<1> DEFINE c == HostnameConflict(p, h, i)
           e == [host |-> h, ip |-> i, verified |-> FALSE, conflict |-> c]
<1>1. c \in BOOLEAN
  BY Zenon DEF HostnameConflict
<1>2. e \in Entry
  <2> HIDE DEF c
  <2> QED BY <1>1 DEF Entry
<1>3. table' = [table EXCEPT ![p] = e]
  BY DEF Resolve
<1> HIDE DEF e
<1>4. /\ table' \in [Peers -> Entry \cup {None}]
      /\ table'[p] = e
      /\ \A q \in Peers \ {p} : table'[q] = table[q]
  BY <1>2, <1>3 DEF TypeInv, TypeOK
<1>5. e # None
  BY <1>2
<1>6. Known' = Known \cup {p}
  BY <1>4, <1>5 DEF Known
<1> QED BY <1>2, <1>4, <1>6

LEMMA KnownAfterRemove ==
  ASSUME TypeInv, NEW p \in Peers, Remove(p)
  PROVE  Known' = Known \ {p}
BY DEF TypeInv, TypeOK, Remove, Known

(* A probe that ends changes nothing in the table but one flag.            *)
LEMMA WriteKeeps ==
  ASSUME TypeInv, NEW t \in Threads, Write(t)
  PROVE  /\ table' \in [Peers -> Entry \cup {None}]
         /\ Known' = Known
         /\ \A p \in Known : /\ table'[p].host = table[p].host
                             /\ table'[p].ip = table[p].ip
                             /\ table'[p].conflict = table[p].conflict
<1> DEFINE q == probe[t].target[1]
<1>1. q \in Peers
  BY DEF TypeInv, TypeOK, Write, Probe, Targets
<1>2. CASE q \notin Known
  BY <1>2 DEF TypeInv, TypeOK, Write, Known
<1>3. CASE q \in Known
  <2>1. table' = [table EXCEPT ![q].verified = (probe[t].phase = "yes")]
    BY <1>3 DEF Write, Verified
  <2>2. table[q] \in Entry
    BY <1>1, <1>3 DEF TypeInv, TypeOK, Known
  <2>3. /\ table'[q] \in Entry
        /\ table'[q].host = table[q].host
        /\ table'[q].ip = table[q].ip
        /\ table'[q].conflict = table[q].conflict
    BY <1>1, <2>1, <2>2 DEF TypeInv, TypeOK, Entry
  <2>4. \A p \in Peers \ {q} : table'[p] = table[p]
    BY <2>1 DEF TypeInv, TypeOK
  <2>5. table' \in [Peers -> Entry \cup {None}]
    BY <1>1, <2>1, <2>3, <2>4 DEF TypeInv, TypeOK
  <2>6. Known' = Known
    BY <1>1, <1>3, <2>3, <2>4 DEF Known
  <2> QED BY <2>3, <2>4, <2>5, <2>6 DEF Known
<1> QED BY <1>2, <1>3

-----------------------------------------------------------------------------
(* Types and the limit.                                                    *)

LEMMA TypeInit == Init => TypeInv
<1> SUFFICES ASSUME Init PROVE TypeInv
  OBVIOUS
<1>1. Known = {}
  BY DEF Init, Known
<1>2. IsFiniteSet(Known) /\ Cardinality(Known) = 0
  BY <1>1, FS_EmptySet
<1> QED BY <1>2 DEF Init, TypeInv, TypeOK

(* The limit is looked at before the record is inserted, by the only       *)
(* thread that inserts.                                                    *)
LEMMA TypeResolve ==
  ASSUME TypeInv, NEW p \in Peers, NEW h \in Hostnames,
         NEW i \in Addresses \cup {NoAddress}, Resolve(p, h, i)
  PROVE  TypeInv'
<1>1. /\ table' \in [Peers -> Entry \cup {None}]
      /\ Known' = Known \cup {p}
  BY ResolveRecord
<1>2. IsFiniteSet(Known') /\ Cardinality(Known') <= MaxPeers
  <2>1. IsFiniteSet(Known) /\ Cardinality(Known) \in Nat
    BY FS_CardinalityType DEF TypeInv
  <2>2. /\ IsFiniteSet(Known \cup {p})
        /\ Cardinality(Known \cup {p}) =
             IF p \in Known THEN Cardinality(Known) ELSE Cardinality(Known) + 1
    BY <2>1, FS_AddElement
  <2>3. p \in Known \/ Cardinality(Known) < MaxPeers
    BY DEF Resolve
  <2> QED BY <1>1, <2>1, <2>2, <2>3 DEF TypeInv, TypeOK
<1>3. probe' \in [Threads -> Probe \cup {None}]
  <2>1. CASE p \in Known \/ i = NoAddress
    BY <2>1 DEF Resolve, TypeInv, TypeOK
  <2>2. CASE p \notin Known /\ i # NoAddress
    <3>1. Probing(<<p, i>>) \in Probe
      BY <2>2 DEF Probing, Probe, Targets
    <3>2. PICK t \in FirstProbes :
            probe' = [probe EXCEPT ![t] = Probing(<<p, i>>)]
      BY <2>2 DEF Resolve
    <3> QED BY <3>1, <3>2 DEF TypeInv, TypeOK, Threads
  <2> QED BY <2>1, <2>2
<1> QED BY <1>1, <1>2, <1>3 DEF Resolve, TypeInv, TypeOK

LEMMA TypeRemove ==
  ASSUME TypeInv, NEW p \in Peers, Remove(p)
  PROVE  TypeInv'
<1>1. Known' = Known \ {p}
  BY KnownAfterRemove
<1>2. IsFiniteSet(Known) /\ Cardinality(Known) \in Nat
  BY FS_CardinalityType DEF TypeInv
<1>3. /\ IsFiniteSet(Known \ {p})
      /\ Cardinality(Known \ {p}) =
           IF p \in Known THEN Cardinality(Known) - 1 ELSE Cardinality(Known)
  BY <1>2, FS_RemoveElement
<1>4. IsFiniteSet(Known') /\ Cardinality(Known') <= MaxPeers
  BY <1>1, <1>2, <1>3 DEF TypeInv, TypeOK
<1> QED BY <1>4 DEF Remove, TypeInv, TypeOK

(* A request that moves on keeps its target.                               *)
LEMMA ProbeMoves ==
  ASSUME TypeInv, NEW t \in Threads, probe[t] # None,
         NEW ph \in {"ask", "answered", "yes", "no"},
         NEW k \in Rooms \cup {NoRoom},
         probe' = [probe EXCEPT ![t].phase = ph, ![t].key = k],
         UNCHANGED <<table, todo, mine, there>>
  PROVE  TypeInv'
<1> DEFINE moved == [probe[t] EXCEPT !.phase = ph, !.key = k]
<1>1. probe \in [Threads -> Probe \cup {None}]
  BY DEF TypeInv, TypeOK
<1>2. moved \in Probe
  BY <1>1 DEF Probe
<1>3. probe' = [probe EXCEPT ![t] = moved]
  BY <1>1
<1> HIDE DEF moved
<1>4. probe' \in [Threads -> Probe \cup {None}]
  BY <1>1, <1>2, <1>3
<1> QED BY <1>4 DEF TypeInv, TypeOK, Known

LEMMA TypeProceed ==
  ASSUME TypeInv, NEW t \in Threads, Proceed(t)
  PROVE  TypeInv'
<1>1. CASE Answer(t)
  <2> DEFINE k == there[probe[t].target[2]]
  <2>1. k \in Rooms \cup {NoRoom}
    BY <1>1 DEF Answer, TypeInv, TypeOK, Probe, Targets
  <2>2. /\ probe' = [probe EXCEPT ![t].phase = "answered", ![t].key = k]
        /\ probe[t] # None
        /\ UNCHANGED <<table, todo, mine, there>>
    BY <1>1 DEF Answer
  <2> HIDE DEF k
  <2> QED BY <2>1, <2>2, ProbeMoves
<1>2. CASE NoAnswer(t)
  BY <1>2 DEF NoAnswer, TypeInv, TypeOK, Probe, Known
<1>3. CASE Check(t)
  <2> DEFINE v == IF probe[t].key = mine THEN "yes" ELSE "no"
  <2>1. v \in {"ask", "answered", "yes", "no"}
    OBVIOUS
  <2>2. /\ probe' = [probe EXCEPT ![t].phase = v, ![t].key = NoRoom]
        /\ probe[t] # None
        /\ UNCHANGED <<table, todo, mine, there>>
    BY <1>3 DEF Check
  <2> HIDE DEF v
  <2> QED BY <2>1, <2>2, ProbeMoves
<1>4. CASE Write(t)
  <2>1. /\ table' \in [Peers -> Entry \cup {None}]
        /\ Known' = Known
    BY <1>4, WriteKeeps
  <2> QED BY <1>4, <2>1 DEF Write, TypeInv, TypeOK
<1> QED BY <1>1, <1>2, <1>3, <1>4 DEF Proceed

LEMMA TypeLoop ==
  ASSUME TypeInv, LoopStep
  PROVE  TypeInv'
<1>1. CASE Snapshot
  <2>1. \A p \in Known : Asked(p) => table[p].ip \in Addresses
    BY DEF Asked, Known, TypeInv, TypeOK, Entry
  <2>2. todo' \subseteq Targets
    BY <1>1, <2>1 DEF Snapshot, Targets, Known
  <2> QED BY <1>1, <2>2 DEF Snapshot, TypeInv, TypeOK, Known
<1>2. CASE NextTarget
  <2>1. PICK target \in todo :
          /\ todo' = todo \ {target}
          /\ probe' = [probe EXCEPT ![Loop] = Probing(target)]
    BY <1>2 DEF NextTarget
  <2>2. Probing(target) \in Probe
    BY <2>1 DEF TypeInv, TypeOK, Probing, Probe
  <2> QED BY <1>2, <2>1, <2>2
          DEF NextTarget, TypeInv, TypeOK, Known, Threads
<1> QED BY <1>1, <1>2 DEF LoopStep

LEMMA TypeStep == TypeInv /\ [Next]_vars => TypeInv'
<1> SUFFICES ASSUME TypeInv, [Next]_vars PROVE TypeInv'
  OBVIOUS
<1>1. ASSUME NEW p \in Peers, NEW h \in Hostnames,
             NEW i \in Addresses \cup {NoAddress}, Resolve(p, h, i)
      PROVE  TypeInv'
  BY <1>1, TypeResolve
<1>2. ASSUME NEW p \in Peers, Remove(p) PROVE TypeInv'
  BY <1>2, TypeRemove
<1>3. ASSUME NEW t \in Threads, Proceed(t) PROVE TypeInv'
  BY <1>3, TypeProceed
<1>4. CASE LoopStep
  BY <1>4, TypeLoop
<1>5. CASE ChangeMine
  BY <1>5 DEF ChangeMine, TypeInv, TypeOK, Known
<1>6. ASSUME NEW i \in Addresses, ChangeThere(i) PROVE TypeInv'
  BY <1>6 DEF ChangeThere, TypeInv, TypeOK, Known
<1>7. CASE UNCHANGED vars
  BY <1>7 DEF vars, TypeInv, TypeOK, Known
<1> QED BY <1>1, <1>2, <1>3, <1>4, <1>5, <1>6, <1>7 DEF Next

-----------------------------------------------------------------------------
(* Claims of a hostname.                                                   *)

(* The record that is written is marked if anybody else has the hostname;  *)
(* the other records keep their marks.                                     *)
LEMMA ClaimResolve ==
  ASSUME IInv, NEW p \in Peers, NEW h \in Hostnames,
         NEW i \in Addresses \cup {NoAddress}, Resolve(p, h, i)
  PROVE  OneClaimant'
<1>1. /\ \A q \in Peers \ {p} : table'[q] = table[q]
      /\ Known' = Known \cup {p}
  BY ResolveRecord DEF IInv
<1>2. /\ table'[p].host = h
      /\ table'[p].ip = i
      /\ table'[p].conflict = HostnameConflict(p, h, i)
  BY DEF Resolve, IInv, TypeInv, TypeOK
<1>3. ASSUME NEW q \in Known', q # p,
             table'[q].host = h, table'[q].ip # i
      PROVE  table'[p].conflict
  BY <1>1, <1>2, <1>3 DEF HostnameConflict, Known
<1>4. ASSUME NEW q \in Known', NEW r \in Known', q # p, r # p,
             table'[q].host = table'[r].host, table'[q].ip # table'[r].ip
      PROVE  table'[q].conflict \/ table'[r].conflict
  BY <1>1, <1>4 DEF IInv, OneClaimant, Known
<1> QED BY <1>2, <1>3, <1>4 DEF OneClaimant

LEMMA ClaimStep == IInv /\ [Next]_vars => OneClaimant'
<1> SUFFICES ASSUME IInv, [Next]_vars PROVE OneClaimant'
  OBVIOUS
<1>1. ASSUME NEW p \in Peers, NEW h \in Hostnames,
             NEW i \in Addresses \cup {NoAddress}, Resolve(p, h, i)
      PROVE  OneClaimant'
  BY <1>1, ClaimResolve
<1>2. ASSUME NEW p \in Peers, Remove(p) PROVE OneClaimant'
  BY <1>2, KnownAfterRemove
  DEF Remove, IInv, TypeInv, TypeOK, OneClaimant, Known
<1>3. ASSUME NEW t \in Threads, Write(t) PROVE OneClaimant'
  BY <1>3, WriteKeeps DEF IInv, OneClaimant
<1>4. CASE table' = table
  BY <1>4 DEF IInv, OneClaimant, Known
<1> QED BY <1>1, <1>2, <1>3, <1>4
        DEF Next, Proceed, Answer, NoAnswer, Check, LoopStep, Snapshot,
            NextTarget, ChangeMine, ChangeThere, vars

-----------------------------------------------------------------------------
LEMMA Invariance == Spec => []IInv
<1>1. Init => IInv
  <2>1. Init => OneClaimant
    BY DEF Init, OneClaimant, Known
  <2> QED BY <2>1, TypeInit DEF IInv
<1>2. IInv /\ [Next]_vars => IInv'
  BY TypeStep, ClaimStep DEF IInv
<1> QED BY <1>1, <1>2, PTL DEF Spec

(* Every variable keeps its type, the table never exceeds MAX_PEERS, and   *)
(* no request is sent to a peer without an address.                        *)
THEOREM TableWithinLimit == Spec => []TypeOK
BY Invariance, PTL DEF IInv, TypeInv

(* Of two peers that claim one hostname from different addresses one is    *)
(* marked, whatever the browsing thread and the probes did in between.     *)
THEOREM ConflictsAreMarked == Spec => []OneClaimant
BY Invariance, PTL DEF IInv

-----------------------------------------------------------------------------
(* Answers of the time before.                                             *)

(* A request starts with no answer, and an answer is the room of the       *)
(* machine that gives it, so whoever favours an outsider did so before.    *)
THEOREM StaleAnswersEnd == Spec => StaleAnswersRunOut
<1>1. TypeInv /\ [Next]_vars =>
        [UNCHANGED <<mine, there>> =>
           \A t \in Threads : Misled(t)' => Misled(t)]_vars
  <2> SUFFICES ASSUME TypeInv, Next, UNCHANGED <<mine, there>>,
                      NEW t \in Threads, Misled(t)'
               PROVE  Misled(t)
    BY DEF vars
  <2> USE DEF Misled, Favours, Outside
  <2>1. probe \in [Threads -> Probe \cup {None}]
    BY DEF TypeInv, TypeOK
  <2>2. CASE probe'[t] = probe[t]
    BY <2>2
  <2>3. ASSUME NEW x, probe'[t] = Probing(x)
        PROVE  FALSE
    BY <2>3 DEF Probing
  <2>4. ASSUME NEW p \in Peers, NEW h \in Hostnames,
               NEW i \in Addresses \cup {NoAddress}, Resolve(p, h, i)
        PROVE  Misled(t)
    <3>1. probe'[t] = probe[t] \/ probe'[t] = Probing(<<p, i>>)
      BY <2>1, <2>4 DEF Resolve, Threads
    <3> QED BY <2>2, <2>3, <3>1
  <2>5. ASSUME NEW u \in Threads, Proceed(u)
        PROVE  Misled(t)
    <3>1. CASE u # t
      BY <2>1, <2>2, <2>5, <3>1 DEF Proceed, Answer, NoAnswer, Check, Write
    <3>2. CASE u = t
      <4>1. probe[t] \in Probe
        BY <2>1, <2>5, <3>2 DEF Proceed, Answer, NoAnswer, Check, Write
      <4>2. CASE Answer(t)
        BY <2>1, <4>1, <4>2 DEF Answer, Probe
      <4>3. CASE NoAnswer(t)
        BY <2>1, <4>1, <4>3 DEF NoAnswer, Probe
      <4>4. CASE Check(t)
        BY <2>1, <4>1, <4>4 DEF Check, Probe
      <4>5. CASE Write(t)
        BY <2>1, <4>5 DEF Write
      <4> QED BY <2>5, <3>2, <4>2, <4>3, <4>4, <4>5 DEF Proceed
    <3> QED BY <3>1, <3>2
  <2>6. CASE LoopStep
    <3>1. probe'[t] = probe[t] \/ \E x \in todo : probe'[t] = Probing(x)
      BY <2>1, <2>6 DEF LoopStep, Snapshot, NextTarget
    <3> QED BY <2>2, <2>3, <3>1
  <2> QED BY <2>2, <2>4, <2>5, <2>6
          DEF Next, Remove, ChangeMine, ChangeThere
<1> QED BY <1>1, Invariance, PTL DEF Spec, IInv, StaleAnswersRunOut

-----------------------------------------------------------------------------
(* Green marks.                                                            *)

(* What a request rests on: its target was announced, the key of an answer *)
(* is the room of the machine that was asked, and an answer that agrees is *)
(* from a machine that this one was in a room with.                        *)
Grounded(q) ==
  LET p == q.target[1]
      i == q.target[2]
  IN /\ q.target \in announced
     /\ q.phase = "answered" => <<p, i, q.key>> \in claimed
     /\ q.phase = "yes" => \E x \in met : x[1] = p

GroundsInv ==
  /\ Announced \subseteq announced
  /\ todo \subseteq announced
  /\ \A t \in Threads : probe[t] # None => Grounded(probe[t])
  /\ VerifiedIsEarned

(* The history restricts nothing: without it this is Discovery, and its    *)
(* theorems hold of it.                                                    *)
THEOREM HistoryOfDiscovery == HistorySpec => IsDiscovery
<1>1. HistoryInit => Init
  BY DEF HistoryInit
<1>2. [HistoryNext]_fullVars => [Next]_vars
  BY DEF HistoryNext, fullVars, vars
<1> QED BY <1>1, <1>2, PTL DEF HistorySpec, IsDiscovery, Spec

(* What was grounded stays so, and a request that is where it was is.      *)
LEMMA GroundedStays ==
  ASSUME NEW t \in Threads, probe'[t] = probe[t], Grounded(probe[t]),
         announced \subseteq announced', claimed \subseteq claimed',
         met \subseteq met'
  PROVE  Grounded(probe[t])'
BY DEF Grounded

LEMMA GroundsInit == HistoryInit => GroundsInv
BY DEF HistoryInit, Init, GroundsInv, Announced, Known, VerifiedIsEarned,
       Shown

(* A probe that moves on, or ends, with what it rests on.                  *)
LEMMA GroundsProceed ==
  ASSUME TypeInv, GroundsInv, HistoryNext, NEW t \in Threads, Proceed(t)
  PROVE  /\ \A u \in Threads : probe'[u] # None => Grounded(probe[u])'
         /\ VerifiedIsEarned'
<1> DEFINE q == probe[t]
           p == q.target[1]
           i == q.target[2]
<1>1. /\ probe \in [Threads -> Probe \cup {None}]
      /\ announced \subseteq announced'
      /\ claimed' = claimed \cup Claimed
      /\ met' = met \cup Met
  BY DEF TypeInv, TypeOK, HistoryNext
<1>2. q \in Probe /\ q # None /\ p \in Peers /\ i \in Addresses
  BY <1>1 DEF Proceed, Answer, NoAnswer, Check, Write, Probe, Targets
<1>3. /\ Grounded(q)
      /\ q.target \in announced
      /\ q.target = <<p, i>>
  BY <1>2 DEF GroundsInv, Grounded, Probe, Targets
<1>4. \A u \in Threads \ {t} : probe'[u] = probe[u]
  BY <1>1 DEF Proceed, Answer, NoAnswer, Check, Write
<1>5. ASSUME NEW u \in Threads \ {t}, probe'[u] # None
      PROVE  Grounded(probe[u])'
  BY <1>1, <1>4, <1>5, GroundedStays DEF GroundsInv
<1>6. UNCHANGED table => VerifiedIsEarned'
  BY <1>1 DEF GroundsInv, VerifiedIsEarned, Shown, Known
<1>7. CASE Answer(t)
  <2>1. /\ probe'[t] = [q EXCEPT !.phase = "answered", !.key = there[i]]
        /\ there[i] \in Rooms
        /\ UNCHANGED table
    BY <1>1, <1>2, <1>7 DEF Answer, TypeInv, TypeOK
  <2>2. <<p, i, there[i]>> \in Claimed
    BY <1>2, <1>3, <2>1 DEF Claimed, Grounds
  <2>3. /\ probe'[t].target = q.target
        /\ probe'[t].phase = "answered"
        /\ probe'[t].key = there[i]
    BY <1>2, <2>1 DEF Probe
  <2>4. Grounded(probe[t])'
    BY <1>1, <1>3, <2>2, <2>3 DEF Grounded
  <2> QED BY <1>5, <1>6, <2>1, <2>4
<1>8. CASE NoAnswer(t)
  <2>1. /\ probe'[t].target = q.target
        /\ probe'[t].phase = "no"
        /\ UNCHANGED table
    BY <1>1, <1>2, <1>8 DEF NoAnswer, Probe
  <2>2. Grounded(probe[t])'
    BY <1>1, <1>3, <2>1 DEF Grounded
  <2> QED BY <1>5, <1>6, <2>1, <2>2
<1>9. CASE Check(t)
  <2>1. /\ probe'[t].target = q.target
        /\ probe'[t].phase = IF q.key = mine THEN "yes" ELSE "no"
        /\ UNCHANGED table
        /\ q.phase = "answered"
    BY <1>1, <1>2, <1>9 DEF Check, Probe
  <2>2. q.key = mine => <<p, i, q.key>> \in Met
    BY <1>3, <2>1 DEF Grounded, Met
  <2>3. q.key = mine => \E x \in met' : x[1] = p
    BY <1>1, <2>2
  <2>4. Grounded(probe[t])'
    BY <1>1, <1>3, <2>1, <2>3 DEF Grounded
  <2> QED BY <1>5, <1>6, <2>1, <2>4
<1>10. CASE Write(t)
  <2>1. probe'[t] = None
    BY <1>1, <1>10 DEF Write
  <2>2. ASSUME NEW r \in Peers, Shown(r)'
        PROVE  \E x \in met' : x[1] = r
    <3>1. CASE r = p /\ p \in Known
      <4>1. table'[p] = [table[p] EXCEPT !.verified = (q.phase = "yes")]
        BY <1>2, <1>10, <3>1 DEF Write, Verified, TypeInv, TypeOK
      <4>2. table[p] \in Entry
        BY <1>2, <3>1 DEF TypeInv, TypeOK, Known
      <4>3. q.phase = "yes"
        BY <2>2, <3>1, <4>1, <4>2 DEF Shown, Entry
      <4> QED BY <1>1, <1>3, <3>1, <4>3 DEF Grounded
    <3>2. CASE ~(r = p /\ p \in Known)
      <4>1. table'[r] = table[r]
        BY <1>10, <3>2 DEF Write, TypeInv, TypeOK
      <4> QED BY <1>1, <2>2, <4>1
              DEF GroundsInv, VerifiedIsEarned, Shown, Known
    <3> QED BY <3>1, <3>2
  <2> QED BY <1>5, <2>1, <2>2 DEF VerifiedIsEarned
<1> QED BY <1>7, <1>8, <1>9, <1>10 DEF Proceed

(* The only probe of an announcement is of the address announced; the mark *)
(* is reset.                                                               *)
LEMMA GroundsResolve ==
  ASSUME TypeInv, GroundsInv, HistoryNext, NEW p \in Peers, NEW h \in Hostnames,
         NEW i \in Addresses \cup {NoAddress}, Resolve(p, h, i)
  PROVE  /\ \A u \in Threads : probe'[u] # None => Grounded(probe[u])'
         /\ VerifiedIsEarned'
<1>1. /\ probe \in [Threads -> Probe \cup {None}]
      /\ announced' = announced \cup Announced'
      /\ claimed \subseteq claimed'
      /\ met \subseteq met'
  BY DEF TypeInv, TypeOK, HistoryNext
<1>2. /\ \A r \in Peers \ {p} : table'[r] = table[r]
      /\ Known' = Known \cup {p}
  BY ResolveRecord
<1>3. /\ table'[p].ip = i
      /\ table'[p].verified = FALSE
  BY DEF Resolve, TypeInv, TypeOK
<1>4. ASSUME NEW u \in Threads, probe'[u] # None
      PROVE  Grounded(probe[u])'
  <2>1. CASE probe'[u] = probe[u]
    BY <1>1, <1>4, <2>1, GroundedStays DEF GroundsInv
  <2>2. CASE probe'[u] # probe[u]
    <3>1. /\ i # NoAddress
          /\ probe'[u] = Probing(<<p, i>>)
      BY <1>1, <2>2 DEF Resolve, Threads
    <3>2. <<p, i>> \in Announced'
      BY <1>2, <1>3, <3>1 DEF Announced, Targets
    <3> QED BY <1>1, <3>1, <3>2 DEF Grounded, Probing
  <2> QED BY <2>1, <2>2
<1>5. VerifiedIsEarned'
  BY <1>1, <1>2, <1>3 DEF GroundsInv, VerifiedIsEarned, Shown
<1> QED BY <1>4, <1>5

(* The snapshot is of addresses that are announced.                        *)
LEMMA GroundsLoop ==
  ASSUME TypeInv, GroundsInv, HistoryNext, LoopStep
  PROVE  /\ todo' \subseteq announced'
         /\ \A u \in Threads : probe'[u] # None => Grounded(probe[u])'
<1>1. /\ probe \in [Threads -> Probe \cup {None}]
      /\ announced \subseteq announced'
      /\ claimed \subseteq claimed'
      /\ met \subseteq met'
  BY DEF TypeInv, TypeOK, HistoryNext
<1>2. CASE Snapshot
  <2>1. todo' \subseteq Announced
    <3> SUFFICES ASSUME NEW r \in Known, Asked(r)
                 PROVE  <<r, table[r].ip>> \in Announced
      BY <1>2 DEF Snapshot
    <3> QED BY DEF Announced, Targets, Asked, Known, TypeInv, TypeOK, Entry
  <2> QED BY <1>1, <1>2, <2>1, GroundedStays DEF GroundsInv, Snapshot
<1>3. CASE NextTarget
  <2>1. PICK target \in todo :
          /\ todo' = todo \ {target}
          /\ probe' = [probe EXCEPT ![Loop] = Probing(target)]
    BY <1>3 DEF NextTarget
  <2>2. ASSUME NEW u \in Threads, probe'[u] # None
        PROVE  Grounded(probe[u])'
    <3>1. CASE u = Loop
      <4>1. probe'[u] = Probing(target)
        BY <1>1, <2>1, <3>1
      <4> QED BY <1>1, <4>1 DEF Grounded, Probing, GroundsInv
    <3>2. CASE u # Loop
      BY <1>1, <2>1, <2>2, <3>2, GroundedStays DEF GroundsInv
    <3> QED BY <3>1, <3>2
  <2> QED BY <1>1, <2>1, <2>2 DEF GroundsInv
<1> QED BY <1>2, <1>3 DEF LoopStep

LEMMA GroundsStep ==
  ASSUME TypeInv, GroundsInv, [HistoryNext]_fullVars
  PROVE  GroundsInv'
<1>1. CASE UNCHANGED fullVars
  BY <1>1 DEF fullVars, GroundsInv, Grounded, Announced, VerifiedIsEarned,
              Shown, Known
<1>2. CASE HistoryNext
  <2>1. /\ Next
        /\ Announced' \subseteq announced'
        /\ announced \subseteq announced'
        /\ claimed \subseteq claimed'
        /\ met \subseteq met'
    BY <1>2 DEF HistoryNext
  <2>2. UNCHANGED todo => todo' \subseteq announced'
    BY <2>1 DEF GroundsInv
  <2>3. UNCHANGED probe =>
          \A u \in Threads : probe'[u] # None => Grounded(probe[u])'
    BY <2>1, GroundedStays DEF GroundsInv
  <2>4. UNCHANGED table => VerifiedIsEarned'
    BY <2>1 DEF GroundsInv, VerifiedIsEarned, Shown, Known
  <2>5. ASSUME NEW p \in Peers, NEW h \in Hostnames,
               NEW i \in Addresses \cup {NoAddress}, Resolve(p, h, i)
        PROVE  GroundsInv'
    <3>1. UNCHANGED todo
      BY <2>5 DEF Resolve
    <3> QED BY <1>2, <2>1, <2>2, <2>5, <3>1, GroundsResolve DEF GroundsInv
  <2>6. ASSUME NEW p \in Peers, Remove(p)
        PROVE  GroundsInv'
    <3>1. /\ UNCHANGED <<todo, probe>>
          /\ \A r \in Known' : r \in Known /\ table'[r] = table[r]
      BY <2>6 DEF Remove, Known, TypeInv, TypeOK
    <3>2. VerifiedIsEarned'
      BY <2>1, <3>1 DEF GroundsInv, VerifiedIsEarned, Shown
    <3> QED BY <2>1, <2>2, <2>3, <3>1, <3>2 DEF GroundsInv
  <2>7. ASSUME NEW t \in Threads, Proceed(t)
        PROVE  GroundsInv'
    <3>1. UNCHANGED todo
      BY <2>7 DEF Proceed, Answer, NoAnswer, Check, Write
    <3> QED BY <1>2, <2>1, <2>2, <2>7, <3>1, GroundsProceed DEF GroundsInv
  <2>8. CASE LoopStep
    <3>1. UNCHANGED table
      BY <2>8 DEF LoopStep, Snapshot, NextTarget
    <3> QED BY <1>2, <2>1, <2>4, <2>8, <3>1, GroundsLoop DEF GroundsInv
  <2>9. CASE UNCHANGED <<table, probe, todo>>
    BY <2>1, <2>2, <2>3, <2>4, <2>9 DEF GroundsInv
  <2> QED BY <2>1, <2>5, <2>6, <2>7, <2>8, <2>9
          DEF Next, ChangeMine, ChangeThere
<1> QED BY <1>1, <1>2

(* A peer is shown verified only if it was announced from an address whose *)
(* machine was, after that, in a room this machine was in later.           *)
THEOREM MarksAreEarned == HistorySpec => []VerifiedIsEarned
<1>1. HistorySpec => []TypeInv
  BY HistoryOfDiscovery, Invariance, PTL DEF IsDiscovery, IInv
<1>2. TypeInv /\ GroundsInv /\ [HistoryNext]_fullVars => GroundsInv'
  BY GroundsStep
<1>3. GroundsInv => VerifiedIsEarned
  BY DEF GroundsInv
<1> QED BY <1>1, <1>2, <1>3, GroundsInit, PTL DEF HistorySpec
=============================================================================
