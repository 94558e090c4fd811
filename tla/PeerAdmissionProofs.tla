------------------------- MODULE PeerAdmissionProofs -------------------------
(***************************************************************************)
(* Theorems about PeerAdmission: the types, that a request is let in once, *)
(* that few tasks start after sharing has stopped, and with what key a     *)
(* request is answered.                                                    *)
(***************************************************************************)
EXTENDS PeerAdmission, FiniteSetTheorems, TLAPS

-----------------------------------------------------------------------------
(* The types.                                                              *)

(* A handler keeps its type when it goes to another step.                  *)
LEMMA GotoType ==
  ASSUME conn \in [Conns -> Handler \cup {None}],
         NEW c \in Conns, conn[c] # None, NEW s \in Steps
  PROVE  [conn EXCEPT ![c].step = s] \in [Conns -> Handler \cup {None}]
<1>1. conn[c] \in Handler OBVIOUS
<1>2. [conn[c] EXCEPT !.step = s] \in Handler BY <1>1 DEF Handler
<1> QED BY <1>2

LEMMA RefuseType ==
  ASSUME conn \in [Conns -> Handler \cup {None}], NEW c \in Conns
  PROVE  [conn EXCEPT ![c] = None] \in [Conns -> Handler \cup {None}]
OBVIOUS

(* The entries of the cache are whole seconds.                             *)
LEMMA SecondsAreNat ==
  ASSUME NEW n \in Nat PROVE n \div Second \in Nat
BY TimeAssumption

(* A message is none, and none is no message.                              *)
LEMMA MessageOfRequest ==
  ASSUME TypeOK, NEW c \in Conns, conn[c] # None
  PROVE  conn[c] \in Handler /\ conn[c].req \in Requests
BY DEF TypeOK, Handler

LEMMA InitType == Init => TypeOK
<1> SUFFICES ASSUME Init PROVE TypeOK
  OBVIOUS
<1>1. /\ sent \in [Requests -> Message \cup {None}]
      /\ conn \in [Conns -> Handler \cup {None}]
      /\ cache \in [Requests -> Nat \cup {None}]
  BY DEF Init
<1> QED BY <1>1 DEF Init, TypeOK

LEMMA SendType ==
  ASSUME TypeOK, NEW r \in Requests, Send(r) PROVE TypeOK'
<1>1. PICK ts \in now .. now + MaxAhead, s \in Rooms, k \in Rooms :
        sent' = [sent EXCEPT ![r] = [ts |-> ts, room |-> s, key |-> k]]
  BY DEF Send
<1>2. ts \in Nat BY TimeAssumption DEF TypeOK
<1>3. [ts |-> ts, room |-> s, key |-> k] \in Message BY <1>2 DEF Message
<1>4. sent' \in [Requests -> Message \cup {None}] BY <1>1, <1>3 DEF TypeOK
<1> QED BY <1>4 DEF TypeOK, Send, history

LEMMA ReceiveType ==
  ASSUME TypeOK, NEW c \in Conns, NEW r \in Requests, Receive(c, r)
  PROVE  TypeOK'
<1>1. [step |-> "key", req |-> r, key |-> NoRoom, since |-> 0,
       moved |-> FALSE] \in Handler
  BY DEF Handler, Steps
<1>2. conn' \in [Conns -> Handler \cup {None}]
  BY <1>1 DEF Receive, TypeOK
<1> QED BY <1>2 DEF TypeOK, Receive, history, world

LEMMA CheckCacheType ==
  ASSUME TypeOK, NEW c \in Conns, CheckCache(c) PROVE TypeOK'
<1> DEFINE q == conn[c].req
<1>1. /\ conn[c] # None
      /\ conn[c] \in Handler
      /\ q \in Requests
  BY MessageOfRequest DEF CheckCache, At
<1>2. now \div Second \in Nat BY SecondsAreNat DEF TypeOK
<1>3. cache' \in [Requests -> Nat \cup {None}]
  <2> SUFFICES ASSUME NEW r \in Requests
               PROVE  (IF r \in Known THEN cache[r]
                       ELSE IF r = q THEN now \div Second ELSE None)
                        \in Nat \cup {None}
    BY DEF CheckCache
  <2> QED BY <1>2 DEF TypeOK
<1>4. CASE q \in Known
  <2>1. conn' = [conn EXCEPT ![c] = None] /\ UNCHANGED <<seen, again>>
    BY <1>4 DEF CheckCache, Refuse
  <2>2. conn' \in [Conns -> Handler \cup {None}]
    BY <2>1, RefuseType DEF TypeOK
  <2> QED BY <1>3, <2>1, <2>2 DEF TypeOK, CheckCache, world
<1>5. CASE q \notin Known
  <2> DEFINE s == IF q \in Posts THEN "run" ELSE "answer"
  <2>1. conn' = [conn EXCEPT ![c] = [@ EXCEPT !.step = s, !.since = 0]]
    BY <1>5 DEF CheckCache
  <2>2. [conn[c] EXCEPT !.step = s, !.since = 0] \in Handler
    BY <1>1 DEF Handler, Steps
  <2>3. conn' \in [Conns -> Handler \cup {None}]
    BY <2>1, <2>2 DEF TypeOK
  <2>4. seen' \in SUBSET Requests /\ again' \in SUBSET Requests
    BY <1>1, <1>5 DEF CheckCache, Remaining, TypeOK
  <2> QED BY <1>3, <2>3, <2>4 DEF TypeOK, CheckCache, world
<1> QED BY <1>4, <1>5

LEMMA HandleType ==
  ASSUME TypeOK, NEW c \in Conns, Handle(c) PROVE TypeOK'
<1>1. CASE ReadKey(c)
  <2>1. conn[c] \in Handler BY <1>1 DEF ReadKey, At, TypeOK
  <2>2. [conn[c] EXCEPT !.step = "joined", !.key = RoomKey] \in Handler
    BY <2>1 DEF Handler, Steps, RoomKey, TypeOK
  <2>3. conn' \in [Conns -> Handler \cup {None}]
    BY <1>1, <2>2 DEF ReadKey, TypeOK
  <2> QED BY <1>1, <2>3 DEF TypeOK, ReadKey, world, history
<1>2. CASE CheckJoined(c)
  <2>1. conn[c] # None BY <1>2 DEF CheckJoined, At
  <2>2. \/ conn' = [conn EXCEPT ![c].step = "status"]
        \/ conn' = [conn EXCEPT ![c] = None]
    BY <1>2 DEF CheckJoined, Goto, Refuse
  <2>3. "status" \in Steps BY DEF Steps
  <2>4. conn \in [Conns -> Handler \cup {None}] BY DEF TypeOK
  <2>5. conn' \in [Conns -> Handler \cup {None}]
    BY <2>1, <2>2, <2>3, <2>4, GotoType, RefuseType
  <2> QED BY <1>2, <2>5 DEF TypeOK, CheckJoined, world, history
<1>3. CASE CheckStatus(c)
  <2>1. conn[c] # None BY <1>3 DEF CheckStatus, At
  <2>2. \/ conn' = [conn EXCEPT ![c].step = "verify"]
        \/ conn' = [conn EXCEPT ![c] = None]
    BY <1>3 DEF CheckStatus, Goto, Refuse
  <2>3. "verify" \in Steps BY DEF Steps
  <2>4. conn \in [Conns -> Handler \cup {None}] BY DEF TypeOK
  <2>5. conn' \in [Conns -> Handler \cup {None}]
    BY <2>1, <2>2, <2>3, <2>4, GotoType, RefuseType
  <2> QED BY <1>3, <2>5 DEF TypeOK, CheckStatus, world, history
<1>4. CASE Verify(c)
  <2>1. conn[c] \in Handler BY <1>4 DEF Verify, At, TypeOK
  <2>2. [conn[c] EXCEPT !.step = "cache", !.since = now] \in Handler
    BY <2>1 DEF Handler, Steps, TypeOK
  <2>3. conn' \in [Conns -> Handler \cup {None}]
    BY <1>4, <2>2, RefuseType DEF Verify, Refuse, TypeOK
  <2> QED BY <1>4, <2>3 DEF TypeOK, Verify, world, history
<1>5. CASE CheckCache(c) BY <1>5, CheckCacheType
<1>6. CASE Run(c)
  <2>1. conn[c] # None BY <1>6 DEF Run, At
  <2>2. \/ conn' = [conn EXCEPT ![c].step = "answer"]
        \/ conn' = [conn EXCEPT ![c] = None]
    BY <1>6 DEF Run, Goto, Refuse
  <2>3. "answer" \in Steps BY DEF Steps
  <2>4. conn \in [Conns -> Handler \cup {None}] BY DEF TypeOK
  <2>5. conn' \in [Conns -> Handler \cup {None}]
    BY <2>1, <2>2, <2>3, <2>4, GotoType, RefuseType
  <2>6. late' \in Nat BY <1>6 DEF Run, TypeOK
  <2> QED BY <1>6, <2>5, <2>6 DEF TypeOK, Run, world
<1>7. CASE Answer(c)
  <2>1. conn' \in [Conns -> Handler \cup {None}]
    BY <1>7, RefuseType DEF Answer, TypeOK
  <2> QED BY <1>7, <2>1 DEF TypeOK, Answer, world, history
<1> QED BY <1>1, <1>2, <1>3, <1>4, <1>5, <1>6, <1>7 DEF Handle

LEMMA ChangeRoomType ==
  ASSUME TypeOK, NEW s \in Rooms \cup {NoRoom}, ChangeRoom(s) PROVE TypeOK'
<1>1. conn' \in [Conns -> Handler \cup {None}]
  <2> SUFFICES ASSUME NEW c \in Conns, conn[c] # None
               PROVE  [conn[c] EXCEPT !.moved = TRUE] \in Handler
    BY DEF ChangeRoom, MoveAll
  <2>1. conn[c] \in Handler BY DEF TypeOK
  <2> QED BY <2>1 DEF Handler
<1> QED BY <1>1 DEF TypeOK, ChangeRoom, history

LEMMA NextType == TypeOK /\ [Next]_vars => TypeOK'
<1> SUFFICES ASSUME TypeOK, [Next]_vars PROVE TypeOK'
  OBVIOUS
<1>1. CASE \E r \in Requests : Send(r) BY <1>1, SendType
<1>2. CASE \E c \in Conns : Handle(c) BY <1>2, HandleType
<1>3. CASE \E c \in Conns, r \in Requests : Receive(c, r)
  BY <1>3, ReceiveType
<1>4. CASE \E s \in Rooms \cup {NoRoom} : ChangeRoom(s)
  BY <1>4, ChangeRoomType
<1>5. CASE OpenDialog BY <1>5 DEF TypeOK, OpenDialog, history
<1>6. CASE CloseDialog BY <1>6 DEF TypeOK, CloseDialog
<1>7. CASE Tick BY <1>7 DEF TypeOK, Tick, history
<1>8. CASE Restart
  <2>1. /\ conn' \in [Conns -> Handler \cup {None}]
        /\ cache' \in [Requests -> Nat \cup {None}]
    BY <1>8 DEF Restart
  <2>2. /\ active' \in BOOLEAN /\ dialog' \in BOOLEAN
        /\ seen' \in SUBSET Requests /\ again' \in SUBSET Requests
    BY <1>8 DEF Restart
  <2>4. late' = 0 /\ toggles' = toggles + 1 BY <1>8 DEF Restart
  <2>5. late' \in Nat /\ toggles' \in Nat BY <2>4 DEF TypeOK
  <2>3. UNCHANGED <<now, room, sent, moves>>
    BY <1>8 DEF Restart
  <2> QED BY <2>1, <2>2, <2>3, <2>5 DEF TypeOK
<1>9. CASE UNCHANGED vars BY <1>9 DEF TypeOK, vars
<1> QED
  BY <1>1, <1>2, <1>3, <1>4, <1>5, <1>6, <1>7, <1>8, <1>9 DEF Next

(* The variables of the server keep their types.                           *)
THEOREM TypeCorrect == Spec => []TypeOK
<1> QED BY InitType, NextType, PTL DEF Spec

-----------------------------------------------------------------------------
(* Every request is let in once.                                           *)

(* A time belongs to its second.                                           *)
LEMMA WithinItsSecond ==
  ASSUME NEW n \in Nat
  PROVE  /\ n \div Second \in Nat
         /\ (n \div Second) * Second <= n
         /\ n <= (n \div Second) * Second + (Second - 1)
BY TimeAssumption

LEMMA TimesMonotone ==
  ASSUME NEW a \in Int, NEW b \in Int, a <= b
  PROVE  a * Second <= b * Second
BY TimeAssumption

(* A header good enough for the cache has an entry that is young enough.   *)
LEMMA EntryIsYoung ==
  ASSUME NEW n \in Nat, NEW e \in Nat, NEW t \in Nat,
         t <= e * Second + (Second - 1) + MaxAhead,
         n <= t + Window + MaxStall
  PROVE  (n \div Second) - e < Retention
<1> DEFINE d == n \div Second
           last == e + Retention
<1>1. d \in Nat /\ d * Second <= n BY WithinItsSecond
<1> HIDE DEF d
<1>2. last \in Int BY TimeAssumption
<1>3. last * Second = e * Second + Second + (Retention - 1) * Second
  BY TimeAssumption
<1> HIDE DEF last
<1>4. e * Second \in Int /\ (Retention - 1) * Second \in Int
      /\ last * Second \in Int /\ d * Second \in Int
  BY <1>1, <1>2, TimeAssumption
<1>5. n < last * Second
  BY <1>3, <1>4, RetentionAssumption, TimeAssumption
<1>6. ~(last <= d) BY <1>1, <1>2, <1>4, <1>5, TimesMonotone
<1> QED BY <1>1, <1>2, <1>6, TimeAssumption DEF d, last

(* No time stamp is further ahead than the clocks are.                     *)
NotFromTheFuture ==
  \A r \in Requests : sent[r] # None => sent[r].ts <= now + MaxAhead

ReallySent == \A c \in Conns : conn[c] # None => sent[conn[c].req] # None

(* A handler at the cache has verified the header a moment ago.            *)
FreshAtCache ==
  \A c \in Conns : At(c, "cache") =>
    now <= conn[c].since + MaxStall /\ conn[c].since <= Sent(c).ts + Window

(* The entry of a request that was let in tells what its time stamp can be *)
(* at most; or the time stamp is too old by now.                           *)
Remembered(r) ==
  /\ cache[r] # None
  /\ sent[r].ts <= cache[r] * Second + (Second - 1) + MaxAhead
Expired(r) == sent[r].ts + Window + MaxStall < now

SeenIsKnown ==
  \A r \in seen : sent[r] # None /\ (Remembered(r) \/ Expired(r))

OnceInv ==
  /\ TypeOK
  /\ NotFromTheFuture
  /\ ReallySent
  /\ FreshAtCache
  /\ SeenIsKnown
  /\ AcceptedOnce

LEMMA SentIsMessage ==
  ASSUME TypeOK, NEW r \in Requests, sent[r] # None
  PROVE  sent[r] \in Message /\ sent[r].ts \in Nat
<1>1. sent[r] \in Message BY DEF TypeOK
<1> QED BY <1>1 DEF Message

LEMMA InitOnce == Init => OnceInv
<1> SUFFICES ASSUME Init PROVE OnceInv
  OBVIOUS
<1>1. TypeOK BY InitType
<1> QED
  BY <1>1 DEF Init, OnceInv, NotFromTheFuture, ReallySent, FreshAtCache, At,
              SeenIsKnown, AcceptedOnce

(* A handler goes on, but not to the cache, or ends.                       *)
LEMMA HandlerMoves ==
  ASSUME TypeOK, ReallySent, FreshAtCache, NEW c \in Conns, NEW h,
         conn[c] # None, conn' = [conn EXCEPT ![c] = h],
         UNCHANGED <<now, sent>>,
         h # None => h.req = conn[c].req /\ h.step # "cache"
  PROVE  ReallySent' /\ FreshAtCache'
<1>1. \A d \in Conns : conn'[d] = IF d = c THEN h ELSE conn[d]
  BY DEF TypeOK
<1>2. ReallySent' BY <1>1 DEF ReallySent
<1>3. FreshAtCache'
  <2> SUFFICES ASSUME NEW d \in Conns, At(d, "cache")'
               PROVE  (now <= conn[d].since + MaxStall
                        /\ conn[d].since <= Sent(d).ts + Window)'
    BY DEF FreshAtCache
  <2>1. d # c /\ conn'[d] = conn[d] BY <1>1 DEF At
  <2> QED BY <2>1 DEF FreshAtCache, At, Sent
<1> QED BY <1>2, <1>3

(* What a step may do to the rest when the clock stands still, no request  *)
(* is sent and the cache is left alone.                                    *)
LEMMA RestStays ==
  ASSUME OnceInv, UNCHANGED <<now, sent, cache, seen, again>>
  PROVE  NotFromTheFuture' /\ SeenIsKnown' /\ AcceptedOnce'
BY DEF OnceInv, NotFromTheFuture, SeenIsKnown, Remembered, Expired,
       AcceptedOnce

LEMMA SendOnce ==
  ASSUME OnceInv, NEW r \in Requests, Send(r), TypeOK'
  PROVE  OnceInv'
<1>1. PICK ts \in now .. now + MaxAhead, s \in Rooms, k \in Rooms :
        sent' = [sent EXCEPT ![r] = [ts |-> ts, room |-> s, key |-> k]]
  BY DEF Send
<1>2. /\ sent[r] = None
      /\ UNCHANGED <<now, conn, cache, seen, again>>
  BY DEF Send, history
<1>3. /\ sent'[r].ts = ts
      /\ \A q \in Requests : q # r => sent'[q] = sent[q]
  BY <1>1 DEF OnceInv, TypeOK
<1>4. sent'[r] # None
  <2>1. [ts |-> ts, room |-> s, key |-> k] \in Message
    BY TimeAssumption DEF Message, OnceInv, TypeOK
  <2> QED BY <1>1, <2>1, NoneAssumption DEF OnceInv, TypeOK
<1>5. NotFromTheFuture'
  <2>1. ts <= now + MaxAhead BY TimeAssumption DEF OnceInv, TypeOK
  <2> QED BY <1>2, <1>3, <2>1 DEF OnceInv, NotFromTheFuture
<1>6. ReallySent'
  <2> SUFFICES ASSUME NEW d \in Conns, conn[d] # None
               PROVE  sent'[conn[d].req] # None
    BY <1>2 DEF ReallySent
  <2>1. conn[d].req \in Requests BY MessageOfRequest DEF OnceInv
  <2>2. sent[conn[d].req] # None BY DEF OnceInv, ReallySent
  <2> QED BY <1>3, <1>4, <2>1, <2>2
<1>7. FreshAtCache'
  <2> SUFFICES ASSUME NEW d \in Conns, At(d, "cache")'
               PROVE  (now <= conn[d].since + MaxStall
                        /\ conn[d].since <= Sent(d).ts + Window)'
    BY DEF FreshAtCache
  <2>1. conn[d] # None /\ At(d, "cache") BY <1>2 DEF At
  <2>2. conn[d].req \in Requests BY <2>1, MessageOfRequest DEF OnceInv
  <2>3. conn[d].req # r BY <1>2, <2>1 DEF OnceInv, ReallySent
  <2>4. sent'[conn[d].req] = sent[conn[d].req] BY <1>3, <2>2, <2>3
  <2> QED BY <1>2, <2>1, <2>4 DEF OnceInv, FreshAtCache, Sent
<1>8. SeenIsKnown'
  <2> SUFFICES ASSUME NEW q \in seen
               PROVE  (sent[q] # None /\ (Remembered(q) \/ Expired(q)))'
    BY <1>2 DEF SeenIsKnown
  <2>1. q \in Requests BY DEF OnceInv, TypeOK
  <2>2. sent[q] # None /\ (Remembered(q) \/ Expired(q))
    BY DEF OnceInv, SeenIsKnown
  <2>3. q # r BY <1>2, <2>2
  <2>4. sent'[q] = sent[q] BY <1>3, <2>1, <2>3
  <2> QED BY <1>2, <2>2, <2>4 DEF Remembered, Expired
<1>9. AcceptedOnce' BY <1>2 DEF OnceInv, AcceptedOnce
<1> QED BY <1>5, <1>6, <1>7, <1>8, <1>9 DEF OnceInv

LEMMA ReceiveOnce ==
  ASSUME OnceInv, NEW c \in Conns, NEW r \in Requests, Receive(c, r), TypeOK'
  PROVE  OnceInv'
<1>1. UNCHANGED <<now, sent, cache, seen, again>>
  BY DEF Receive, world, history
<1> DEFINE h == [step |-> "key", req |-> r, key |-> NoRoom, since |-> 0,
                 moved |-> FALSE]
<1>2. \A d \in Conns : conn'[d] = IF d = c THEN h ELSE conn[d]
  BY DEF Receive, OnceInv, TypeOK
<1>3. ReallySent'
  BY <1>1, <1>2 DEF Receive, OnceInv, ReallySent
<1>4. FreshAtCache'
  <2> SUFFICES ASSUME NEW d \in Conns, At(d, "cache")'
               PROVE  (now <= conn[d].since + MaxStall
                        /\ conn[d].since <= Sent(d).ts + Window)'
    BY DEF FreshAtCache
  <2>1. d # c /\ conn'[d] = conn[d] BY <1>2 DEF At
  <2> QED BY <1>1, <2>1 DEF OnceInv, FreshAtCache, At, Sent
<1> QED BY <1>1, <1>3, <1>4, RestStays DEF OnceInv

(* The handlers' steps but those at the header and at the cache.           *)
LEMMA PlainStepOnce ==
  ASSUME OnceInv, NEW c \in Conns, TypeOK',
         \/ ReadKey(c) \/ CheckJoined(c) \/ CheckStatus(c)
         \/ Run(c) \/ Answer(c)
  PROVE  OnceInv'
<1>1. conn[c] # None /\ conn[c] \in Handler
  BY MessageOfRequest
     DEF OnceInv, ReadKey, CheckJoined, CheckStatus, Run, Answer, At
<1>2. UNCHANGED <<now, sent, cache, seen, again>>
  BY DEF ReadKey, CheckJoined, CheckStatus, Run, Answer, world, history
<1>3. PICK h : /\ conn' = [conn EXCEPT ![c] = h]
               /\ h # None => h.req = conn[c].req /\ h.step # "cache"
  <2>1. CASE conn' = [conn EXCEPT ![c] = None] BY <2>1
  <2>2. CASE \E s \in {"status", "verify", "answer"} :
               conn' = [conn EXCEPT ![c].step = s]
    <3>1. PICK s \in {"status", "verify", "answer"} :
            conn' = [conn EXCEPT ![c].step = s]
      BY <2>2
    <3> DEFINE g == [conn[c] EXCEPT !.step = s]
    <3>2. conn' = [conn EXCEPT ![c] = g] BY <3>1
    <3>3. g.req = conn[c].req /\ g.step # "cache"
      BY <1>1 DEF Handler
    <3> QED BY <3>2, <3>3
  <2>3. CASE ReadKey(c)
    <3> DEFINE g == [conn[c] EXCEPT !.step = "joined", !.key = RoomKey]
    <3>1. conn' = [conn EXCEPT ![c] = g] BY <2>3 DEF ReadKey
    <3>2. g.req = conn[c].req /\ g.step # "cache"
      BY <1>1 DEF Handler
    <3> QED BY <3>1, <3>2
  <2> QED
    BY <2>1, <2>2, <2>3
       DEF CheckJoined, CheckStatus, Run, Answer, Goto, Refuse
<1>4. ReallySent' /\ FreshAtCache'
  BY <1>1, <1>2, <1>3, HandlerMoves DEF OnceInv
<1> QED BY <1>2, <1>4, RestStays DEF OnceInv

LEMMA VerifyOnce ==
  ASSUME OnceInv, NEW c \in Conns, Verify(c), TypeOK'
  PROVE  OnceInv'
<1>1. conn[c] # None /\ conn[c] \in Handler
  BY MessageOfRequest DEF OnceInv, Verify, At
<1>2. UNCHANGED <<now, sent, cache, seen, again>>
  BY DEF Verify, world, history
<1>3. CASE conn' = [conn EXCEPT ![c] = None]
  <2>1. ReallySent' /\ FreshAtCache'
    BY <1>1, <1>2, <1>3, HandlerMoves DEF OnceInv
  <2> QED BY <1>2, <2>1, RestStays DEF OnceInv
<1>4. CASE /\ SignedHere(c) /\ InWindow(Sent(c).ts)
           /\ conn' = [conn EXCEPT ![c] =
                         [@ EXCEPT !.step = "cache", !.since = now]]
  <2> DEFINE h == [conn[c] EXCEPT !.step = "cache", !.since = now]
  <2>1. \A d \in Conns : conn'[d] = IF d = c THEN h ELSE conn[d]
    BY <1>4 DEF OnceInv, TypeOK
  <2>2. h.req = conn[c].req /\ h.since = now BY <1>1 DEF Handler
  <2>3. ReallySent'
    BY <1>1, <1>2, <2>1, <2>2 DEF OnceInv, ReallySent
  <2>4. now <= now + MaxStall /\ now <= Sent(c).ts + Window
    <3>1. Sent(c).ts \in Nat
      BY <1>1, SentIsMessage, MessageOfRequest
         DEF OnceInv, ReallySent, Sent
    <3>2. now - Sent(c).ts <= Window BY <1>4 DEF InWindow
    <3> QED BY <3>1, <3>2, TimeAssumption DEF OnceInv, TypeOK
  <2>5. FreshAtCache'
    <3> SUFFICES ASSUME NEW d \in Conns, At(d, "cache")'
                 PROVE  (now <= conn[d].since + MaxStall
                          /\ conn[d].since <= Sent(d).ts + Window)'
      BY DEF FreshAtCache
    <3>1. CASE d = c BY <1>2, <2>1, <2>2, <2>4, <3>1 DEF Sent
    <3>2. CASE d # c
      <4>1. conn'[d] = conn[d] BY <2>1, <3>2
      <4> QED BY <1>2, <4>1 DEF OnceInv, FreshAtCache, At, Sent
    <3> QED BY <3>1, <3>2
  <2> QED BY <1>2, <2>3, <2>5, RestStays DEF OnceInv
<1> QED BY <1>3, <1>4 DEF Verify, Refuse

(* What was let in has an entry that stays, or can never come back.        *)
LEMMA KnownOrExpired ==
  ASSUME OnceInv, NEW r \in seen, ~Full
  PROVE  (r \in Known /\ Remembered(r)) \/ Expired(r)
<1>1. /\ r \in Requests
      /\ sent[r] # None
      /\ Remembered(r) \/ Expired(r)
  BY DEF OnceInv, SeenIsKnown, TypeOK
<1>2. CASE Remembered(r) /\ Young(cache[r])
  <2>1. r \in Kept BY <1>1, <1>2 DEF Kept, Remembered
  <2> QED BY <1>2, <2>1 DEF Known
<1>3. CASE Remembered(r) /\ ~Young(cache[r])
  <2>1. cache[r] \in Nat BY <1>1, <1>3 DEF Remembered, OnceInv, TypeOK
  <2>2. sent[r].ts \in Nat BY <1>1, SentIsMessage DEF OnceInv
  <2>3. now \in Nat BY DEF OnceInv, TypeOK
  <2>4. ~((now \div Second) - cache[r] < Retention) BY <1>3 DEF Young
  <2>5. sent[r].ts <= cache[r] * Second + (Second - 1) + MaxAhead
    BY <1>3 DEF Remembered
  <2>6. ~(now <= sent[r].ts + Window + MaxStall)
    BY <2>1, <2>2, <2>3, <2>4, <2>5, EntryIsYoung
  <2> QED BY <2>2, <2>3, <2>6, TimeAssumption DEF Expired
<1> QED BY <1>1, <1>2, <1>3

LEMMA CheckCacheOnce ==
  ASSUME OnceInv, NEW c \in Conns, CheckCache(c), TypeOK'
  PROVE  OnceInv'
<1> DEFINE q == conn[c].req
<1>1. /\ At(c, "cache") /\ conn[c] # None
      /\ conn[c] \in Handler /\ q \in Requests
  BY MessageOfRequest DEF OnceInv, CheckCache, At
<1>2. UNCHANGED <<now, sent>> BY DEF CheckCache, world
<1>3. sent[q] # None /\ sent[q].ts \in Nat
  BY <1>1, SentIsMessage DEF OnceInv, ReallySent
<1>4. ~Expired(q)
  <2>1. /\ now <= conn[c].since + MaxStall
        /\ conn[c].since <= sent[q].ts + Window
    BY <1>1 DEF OnceInv, FreshAtCache, Sent
  <2>2. conn[c].since \in Nat BY <1>1 DEF Handler
  <2> QED
    BY <1>3, <2>1, <2>2, TimeAssumption DEF Expired, OnceInv, TypeOK
<1>5. ReallySent' /\ FreshAtCache'
  <2>1. CASE conn' = [conn EXCEPT ![c] = None]
    BY <1>1, <1>2, <2>1, HandlerMoves DEF OnceInv
  <2>2. CASE \E s \in {"run", "answer"} :
               conn' = [conn EXCEPT ![c] =
                          [@ EXCEPT !.step = s, !.since = 0]]
    <3>1. PICK s \in {"run", "answer"} :
               conn' = [conn EXCEPT ![c] =
                          [@ EXCEPT !.step = s, !.since = 0]]
      BY <2>2
    <3> DEFINE g == [conn[c] EXCEPT !.step = s, !.since = 0]
    <3>2. g.req = conn[c].req /\ g.step # "cache" BY <1>1 DEF Handler
    <3>3. conn' = [conn EXCEPT ![c] = g] BY <3>1
    <3> HIDE DEF g
    <3> QED BY <1>1, <1>2, <3>2, <3>3, HandlerMoves DEF OnceInv
  <2> QED BY <2>1, <2>2 DEF CheckCache, Refuse
<1>6. NotFromTheFuture' BY <1>2 DEF OnceInv, NotFromTheFuture
<1>7. /\ cache' = [r \in Requests |->
                     IF r \in Known THEN cache[r]
                     ELSE IF r = q THEN now \div Second ELSE None]
      /\ \/ q \in Known /\ UNCHANGED <<seen, again>>
         \/ /\ q \notin Known
            /\ seen' = Remaining(seen) \cup {q}
            /\ again' = again \cup ({q} \cap Remaining(seen))
  BY DEF CheckCache
<1>8. SeenIsKnown'
  <2> SUFFICES ASSUME NEW r \in seen'
               PROVE  (sent[r] # None /\ (Remembered(r) \/ Expired(r)))'
    BY DEF SeenIsKnown
  <2>2. CASE r \in seen /\ ~Full
    <3>1. r \in Requests /\ sent[r] # None
      BY <2>2 DEF OnceInv, SeenIsKnown, TypeOK
    <3>2. (r \in Known /\ Remembered(r)) \/ Expired(r)
      BY <2>2, KnownOrExpired
    <3>3. r \in Known => cache'[r] = cache[r] BY <1>7, <3>1
    <3> QED BY <1>2, <3>1, <3>2, <3>3 DEF Remembered, Expired
  <2>3. CASE r \notin seen \/ Full
    <3>1. r = q /\ q \notin Known BY <1>7, <2>3 DEF Remaining, Known
    <3>2. cache'[q] = now \div Second BY <1>1, <1>7, <3>1
    <3>3. now \in Nat BY DEF OnceInv, TypeOK
    <3>4. /\ now \div Second \in Nat
          /\ now <= (now \div Second) * Second + (Second - 1)
      BY <3>3, WithinItsSecond
    <3>5. sent[q].ts <= now + MaxAhead
      BY <1>1, <1>3 DEF OnceInv, NotFromTheFuture
    <3>6. (now \div Second) * Second \in Int BY <3>4, TimeAssumption
    <3>7. sent[q].ts <= (now \div Second) * Second + (Second - 1) + MaxAhead
      BY <1>3, <3>3, <3>4, <3>5, <3>6, TimeAssumption
    <3>8. now \div Second # None BY <3>4, NoneAssumption
    <3> QED BY <1>2, <1>3, <3>1, <3>2, <3>7, <3>8 DEF Remembered
  <2> QED BY <2>2, <2>3
<1>9. AcceptedOnce'
  <2>1. again = {} BY DEF OnceInv, AcceptedOnce
  <2>2. q \notin Known => q \notin Remaining(seen)
    BY <1>4, KnownOrExpired DEF Remaining
  <2> QED BY <1>7, <2>1, <2>2 DEF AcceptedOnce
<1> QED BY <1>5, <1>6, <1>8, <1>9 DEF OnceInv

LEMMA TickOnce ==
  ASSUME OnceInv, Tick, TypeOK' PROVE OnceInv'
<1>1. /\ now' = now + 1
      /\ UNCHANGED <<sent, conn, cache, seen, again>>
  BY DEF Tick, history
<1>2. now \in Nat BY DEF OnceInv, TypeOK
<1>3. NotFromTheFuture'
  <2> SUFFICES ASSUME NEW r \in Requests, sent[r] # None
               PROVE  sent[r].ts <= now' + MaxAhead
    BY <1>1 DEF NotFromTheFuture
  <2>1. sent[r].ts \in Nat BY SentIsMessage DEF OnceInv
  <2>2. sent[r].ts <= now + MaxAhead BY DEF OnceInv, NotFromTheFuture
  <2> QED BY <1>1, <1>2, <2>1, <2>2, TimeAssumption
<1>4. ReallySent' BY <1>1 DEF OnceInv, ReallySent
<1>5. FreshAtCache'
  <2> SUFFICES ASSUME NEW d \in Conns, At(d, "cache")
               PROVE  /\ now' <= conn[d].since + MaxStall
                      /\ conn[d].since <= Sent(d).ts + Window
    BY <1>1 DEF FreshAtCache, At, Sent
  <2>1. conn[d] \in Handler BY MessageOfRequest DEF OnceInv, At
  <2>2. conn[d].since \in Nat BY <2>1 DEF Handler
  <2>3. now < conn[d].since + MaxStall BY DEF Tick
  <2> QED
    BY <1>1, <1>2, <2>2, <2>3, TimeAssumption DEF OnceInv, FreshAtCache
<1>6. SeenIsKnown'
  <2> SUFFICES ASSUME NEW r \in seen
               PROVE  (sent[r] # None /\ (Remembered(r) \/ Expired(r)))'
    BY <1>1 DEF SeenIsKnown
  <2>1. r \in Requests /\ sent[r] # None /\ (Remembered(r) \/ Expired(r))
    BY DEF OnceInv, SeenIsKnown, TypeOK
  <2>2. sent[r].ts \in Nat BY <2>1, SentIsMessage DEF OnceInv
  <2>3. Expired(r) => Expired(r)'
    BY <1>1, <1>2, <2>2, TimeAssumption DEF Expired
  <2> QED BY <1>1, <2>1, <2>3 DEF Remembered
<1>7. AcceptedOnce' BY <1>1 DEF OnceInv, AcceptedOnce
<1> QED BY <1>3, <1>4, <1>5, <1>6, <1>7 DEF OnceInv

LEMMA ChangeRoomOnce ==
  ASSUME OnceInv, NEW s \in Rooms \cup {NoRoom}, ChangeRoom(s), TypeOK'
  PROVE  OnceInv'
<1>1. UNCHANGED <<now, sent, cache, seen, again>>
  BY DEF ChangeRoom, history
<1>2. \A d \in Conns : conn'[d] = IF conn[d] = None THEN None
                                  ELSE [conn[d] EXCEPT !.moved = TRUE]
  BY DEF ChangeRoom, MoveAll
<1>3. \A d \in Conns : conn'[d] # None =>
        /\ conn[d] # None
        /\ conn'[d].req = conn[d].req
        /\ conn'[d].step = conn[d].step
        /\ conn'[d].since = conn[d].since
  <2> SUFFICES ASSUME NEW d \in Conns, conn'[d] # None
               PROVE  /\ conn[d] # None
                      /\ conn'[d].req = conn[d].req
                      /\ conn'[d].step = conn[d].step
                      /\ conn'[d].since = conn[d].since
    OBVIOUS
  <2>1. conn[d] # None BY <1>2
  <2>2. conn[d] \in Handler BY <2>1 DEF OnceInv, TypeOK
  <2> QED BY <1>2, <2>1, <2>2 DEF Handler
<1>4. ReallySent' BY <1>1, <1>3 DEF OnceInv, ReallySent
<1>5. FreshAtCache'
  <2> SUFFICES ASSUME NEW d \in Conns, At(d, "cache")'
               PROVE  (now <= conn[d].since + MaxStall
                        /\ conn[d].since <= Sent(d).ts + Window)'
    BY DEF FreshAtCache
  <2>1. /\ At(d, "cache")
        /\ conn'[d].since = conn[d].since
        /\ conn'[d].req = conn[d].req
    BY <1>3 DEF At
  <2> QED BY <1>1, <2>1 DEF OnceInv, FreshAtCache, Sent
<1> QED BY <1>1, <1>4, <1>5, RestStays DEF OnceInv

LEMMA RestartOnce ==
  ASSUME OnceInv, Restart, TypeOK' PROVE OnceInv'
<1>1. /\ \A d \in Conns : conn'[d] = None
      /\ seen' = {} /\ again' = {}
      /\ UNCHANGED <<now, sent>>
  BY DEF Restart
<1> QED
  BY <1>1 DEF OnceInv, NotFromTheFuture, ReallySent, FreshAtCache, At,
              SeenIsKnown, AcceptedOnce

LEMMA NextOnce == OnceInv /\ [Next]_vars => OnceInv'
<1> SUFFICES ASSUME OnceInv, [Next]_vars PROVE OnceInv'
  OBVIOUS
<1>0. TypeOK' BY NextType DEF OnceInv
<1>1. CASE \E r \in Requests : Send(r) BY <1>0, <1>1, SendOnce
<1>2. CASE \E c \in Conns : Handle(c)
  BY <1>0, <1>2, PlainStepOnce, VerifyOnce, CheckCacheOnce DEF Handle
<1>3. CASE \E c \in Conns, r \in Requests : Receive(c, r)
  BY <1>0, <1>3, ReceiveOnce
<1>4. CASE \E s \in Rooms \cup {NoRoom} : ChangeRoom(s)
  BY <1>0, <1>4, ChangeRoomOnce
<1>5. CASE OpenDialog \/ CloseDialog \/ UNCHANGED vars
  <2>1. UNCHANGED <<now, sent, conn, cache, seen, again>>
    BY <1>5 DEF OpenDialog, CloseDialog, vars, history
  <2>2. ReallySent' /\ FreshAtCache'
    BY <2>1 DEF OnceInv, ReallySent, FreshAtCache, At, Sent
  <2> QED BY <1>0, <2>1, <2>2, RestStays DEF OnceInv
<1>6. CASE Tick BY <1>0, <1>6, TickOnce
<1>7. CASE Restart BY <1>0, <1>7, RestartOnce
<1> QED BY <1>1, <1>2, <1>3, <1>4, <1>5, <1>6, <1>7 DEF Next

(* However often the network brings a request, and however late, it is let *)
(* in once, unless the cache was cleared in between.                       *)
THEOREM LetInOnce == Spec => []AcceptedOnce
<1>1. OnceInv => AcceptedOnce BY DEF OnceInv
<1> QED BY InitOnce, NextOnce, <1>1, PTL DEF Spec

-----------------------------------------------------------------------------
(* Few tasks start after sharing has stopped.                              *)

Busies == {c \in Conns : Busy(c)}

(* The handlers that have asked for the status of sharing.                 *)
Past == {c \in Conns : /\ conn[c] # None
                       /\ conn[c].step \in {"verify", "cache", "run"}}

LateInv ==
  /\ TypeOK
  /\ Cardinality(Busies) <= Workers
  /\ late + Cardinality(Past) <= Workers
  /\ active => late = 0

(* A handler that has asked for the status has a worker thread.            *)
LEMMA PastBusy ==
  /\ Past \subseteq Busies
  /\ IsFiniteSet(Busies) /\ IsFiniteSet(Past)
  /\ Cardinality(Busies) \in Nat /\ Cardinality(Past) \in Nat
<1>1. Past \subseteq Busies BY DEF Past, Busies, Busy
<1>2. Busies \subseteq Conns BY DEF Busies
<1>3. IsFiniteSet(Busies) /\ IsFiniteSet(Past)
  BY <1>1, <1>2, FiniteAssumption, FS_Subset
<1> QED BY <1>1, <1>3, FS_CardinalityType

LEMMA PastFew ==
  ASSUME Cardinality(Busies) <= Workers PROVE Cardinality(Past) <= Workers
<1>1. Cardinality(Past) <= Cardinality(Busies) BY PastBusy, FS_Subset
<1> QED BY <1>1, PastBusy, LimitAssumption

LEMMA InitLate == Init => LateInv
<1> SUFFICES ASSUME Init PROVE LateInv
  OBVIOUS
<1>1. Busies = {} BY DEF Init, Busies, Busy
<1>2. Cardinality(Busies) = 0 BY <1>1, FS_EmptySet
<1>3. late = 0 /\ Cardinality(Busies) <= Workers
  BY <1>2, LimitAssumption DEF Init
<1>4. Cardinality(Past) <= Workers BY <1>3, PastFew
<1> QED BY <1>3, <1>4, InitType, PastBusy DEF LateInv

(* A step after which no other handler is busy or has asked.               *)
LEMMA FewerStay ==
  ASSUME LateInv, TypeOK', Busies' \subseteq Busies, Past' \subseteq Past,
         UNCHANGED <<late, active>>
  PROVE  LateInv'
<1>1. /\ Cardinality(Busies') <= Cardinality(Busies)
      /\ Cardinality(Past') <= Cardinality(Past)
      /\ Cardinality(Busies') \in Nat /\ Cardinality(Past') \in Nat
  BY PastBusy, FS_Subset, FS_CardinalityType
<1> QED
  BY <1>1, PastBusy, LimitAssumption DEF LateInv, TypeOK

(* The handler of c goes to step s: it gains nothing but what s says.      *)
LEMMA StepChange ==
  ASSUME TypeOK, NEW c \in Conns, conn[c] # None, NEW h \in Handler,
         conn' = [conn EXCEPT ![c] = h]
  PROVE  /\ Busies' \subseteq Busies \cup
              (IF h.step # "answer" THEN {c} ELSE {})
         /\ Past' \subseteq (Past \ {c}) \cup
              (IF h.step \in {"verify", "cache", "run"} THEN {c} ELSE {})
<1>1. \A d \in Conns : conn'[d] = IF d = c THEN h ELSE conn[d]
  BY DEF TypeOK
<1> QED BY <1>1 DEF Busies, Busy, Past

LEMMA EndOfHandler ==
  ASSUME TypeOK, NEW c \in Conns, conn' = [conn EXCEPT ![c] = None]
  PROVE  Busies' \subseteq Busies /\ Past' \subseteq Past \ {c}
<1>1. \A d \in Conns : conn'[d] = IF d = c THEN None ELSE conn[d]
  BY DEF TypeOK
<1> QED BY <1>1 DEF Busies, Busy, Past

LEMMA ReceiveLate ==
  ASSUME LateInv, NEW c \in Conns, NEW r \in Requests, Receive(c, r), TypeOK'
  PROVE  LateInv'
<1> DEFINE h == [step |-> "key", req |-> r, key |-> NoRoom, since |-> 0,
                 moved |-> FALSE]
<1>1. \A d \in Conns : conn'[d] = IF d = c THEN h ELSE conn[d]
  BY DEF Receive, LateInv, TypeOK
<1>2. Past' \subseteq Past /\ Busies' \subseteq Busies \cup {c}
  BY <1>1 DEF Past, Busies, Busy
<1>3. Cardinality(Busies) < Workers
  BY DEF Receive, WorkerFree, Busies
<1>4. Cardinality(Busies \cup {c}) <= Cardinality(Busies) + 1
      /\ IsFiniteSet(Busies \cup {c})
  <2>1. IsFiniteSet(Busies) /\ Cardinality(Busies) \in Nat BY PastBusy
  <2>2. /\ IsFiniteSet(Busies \cup {c})
        /\ Cardinality(Busies \cup {c}) =
             IF c \in Busies THEN Cardinality(Busies)
             ELSE Cardinality(Busies) + 1
    BY <2>1, FS_AddElement
  <2> QED BY <2>1, <2>2
<1>5. /\ Cardinality(Busies') <= Cardinality(Busies \cup {c})
      /\ Cardinality(Busies') \in Nat
      /\ Cardinality(Busies \cup {c}) \in Nat
  BY <1>2, <1>4, FS_Subset, FS_CardinalityType
<1>6. Cardinality(Busies') <= Workers
  BY <1>3, <1>4, <1>5, PastBusy, LimitAssumption
<1>7. Cardinality(Past') <= Cardinality(Past) /\ Cardinality(Past') \in Nat
  BY <1>2, PastBusy, FS_Subset, FS_CardinalityType
<1>8. UNCHANGED <<late, active>> BY DEF Receive, history, world
<1> QED BY <1>6, <1>7, <1>8, PastBusy, LimitAssumption DEF LateInv, TypeOK

LEMMA CheckStatusLate ==
  ASSUME LateInv, NEW c \in Conns, CheckStatus(c), TypeOK'
  PROVE  LateInv'
<1>1. /\ conn[c] # None /\ conn[c].step = "status" /\ conn[c] \in Handler
      /\ UNCHANGED <<late, active>>
  BY MessageOfRequest DEF CheckStatus, At, LateInv, world, history
<1>2. CASE ~active
  <2>1. conn' = [conn EXCEPT ![c] = None]
    BY <1>2 DEF CheckStatus, Refuse
  <2> QED BY <1>1, <2>1, EndOfHandler, FewerStay DEF LateInv
<1>3. CASE active
  <2> DEFINE h == [conn[c] EXCEPT !.step = "verify"]
  <2>1. conn' = [conn EXCEPT ![c] = h]
    BY <1>3 DEF CheckStatus, Goto
  <2>2. h \in Handler /\ c \in Busies
    BY <1>1 DEF Handler, Steps, Busies, Busy
  <2> HIDE DEF h
  <2>3. Busies' \subseteq Busies
    BY <1>1, <2>1, <2>2, StepChange DEF LateInv
  <2>4. Cardinality(Busies') <= Cardinality(Busies)
        /\ Cardinality(Busies') \in Nat
    BY <2>3, PastBusy, FS_Subset, FS_CardinalityType
  <2>5. Cardinality(Busies') <= Workers
    BY <2>4, PastBusy, LimitAssumption DEF LateInv
  <2>6. Past' \subseteq Busies' BY DEF Past, Busies, Busy
  <2>7. IsFiniteSet(Busies') BY <2>3, PastBusy, FS_Subset
  <2>8. Cardinality(Past') <= Cardinality(Busies')
        /\ Cardinality(Past') \in Nat
    BY <2>6, <2>7, FS_Subset, FS_CardinalityType
  <2>9. late' = 0 BY <1>1, <1>3 DEF LateInv
  <2> QED
    BY <1>1, <2>4, <2>5, <2>8, <2>9, LimitAssumption DEF LateInv
<1> QED BY <1>2, <1>3

LEMMA RunLate ==
  ASSUME LateInv, NEW c \in Conns, Run(c), TypeOK'
  PROVE  LateInv'
<1>1. /\ conn[c] # None /\ conn[c].step = "run" /\ conn[c] \in Handler
      /\ UNCHANGED active
  BY MessageOfRequest DEF Run, At, LateInv, world
<1>2. CASE conn' = [conn EXCEPT ![c] = None] /\ UNCHANGED late
  BY <1>1, <1>2, EndOfHandler, FewerStay DEF LateInv
<1>3. CASE /\ conn' = [conn EXCEPT ![c].step = "answer"]
           /\ late' = IF active THEN late ELSE late + 1
  <2> DEFINE h == [conn[c] EXCEPT !.step = "answer"]
  <2>1. conn' = [conn EXCEPT ![c] = h] BY <1>3
  <2>2. h \in Handler /\ h.step = "answer"
    BY <1>1 DEF Handler, Steps
  <2> HIDE DEF h
  <2>3. Busies' \subseteq Busies /\ Past' \subseteq Past \ {c}
    BY <1>1, <2>1, <2>2, StepChange DEF LateInv
  <2>4. c \in Past BY <1>1 DEF Past
  <2>5. /\ Cardinality(Past \ {c}) = Cardinality(Past) - 1
        /\ IsFiniteSet(Past \ {c})
    BY <2>4, PastBusy, FS_RemoveElement
  <2>6. /\ Cardinality(Past') <= Cardinality(Past \ {c})
        /\ Cardinality(Past') \in Nat
    BY <2>3, <2>5, FS_Subset, FS_CardinalityType
  <2>7. Cardinality(Busies') <= Cardinality(Busies)
        /\ Cardinality(Busies') \in Nat
    BY <2>3, PastBusy, FS_Subset, FS_CardinalityType
  <2>8. late' \in Nat /\ late' <= late + 1 /\ (active => late' = late)
    BY <1>3 DEF LateInv, TypeOK
  <2> QED
    BY <1>1, <2>5, <2>6, <2>7, <2>8, PastBusy, LimitAssumption
       DEF LateInv, TypeOK
<1> QED BY <1>2, <1>3 DEF Run, Goto, Refuse

LEMMA PlainStepLate ==
  ASSUME LateInv, NEW c \in Conns, TypeOK',
         \/ ReadKey(c) \/ CheckJoined(c) \/ Verify(c)
         \/ CheckCache(c) \/ Answer(c)
  PROVE  LateInv'
<1>1. /\ conn[c] # None /\ conn[c] \in Handler
      /\ UNCHANGED <<late, active>>
  BY MessageOfRequest
     DEF LateInv, ReadKey, CheckJoined, Verify, CheckCache, Answer, At,
         world, history
<1>2. CASE conn' = [conn EXCEPT ![c] = None]
  BY <1>1, <1>2, EndOfHandler, FewerStay DEF LateInv
<1>3. CASE conn' # [conn EXCEPT ![c] = None]
  <2>1. PICK h \in Handler :
          /\ conn' = [conn EXCEPT ![c] = h]
          /\ h.step # "answer" => c \in Busies
          /\ h.step \in {"verify", "cache", "run"} => c \in Past
    <3>1. CASE ReadKey(c)
      <4> DEFINE g == [conn[c] EXCEPT !.step = "joined", !.key = RoomKey]
      <4>1. g \in Handler /\ g.step = "joined"
        BY <1>1 DEF Handler, Steps, RoomKey, LateInv, TypeOK
      <4>2. c \in Busies BY <3>1 DEF ReadKey, At, Busies, Busy
      <4> QED BY <3>1, <4>1, <4>2 DEF ReadKey
    <3>2. CASE CheckJoined(c)
      <4> DEFINE g == [conn[c] EXCEPT !.step = "status"]
      <4>1. g \in Handler /\ g.step = "status"
        BY <1>1 DEF Handler, Steps
      <4>2. c \in Busies BY <3>2 DEF CheckJoined, At, Busies, Busy
      <4> QED BY <1>3, <3>2, <4>1, <4>2 DEF CheckJoined, Goto, Refuse
    <3>3. CASE Verify(c)
      <4> DEFINE g == [conn[c] EXCEPT !.step = "cache", !.since = now]
      <4>1. g \in Handler /\ g.step = "cache"
        BY <1>1 DEF Handler, Steps, LateInv, TypeOK
      <4>2. c \in Busies /\ c \in Past
        BY <3>3 DEF Verify, At, Busies, Busy, Past
      <4> QED BY <1>3, <3>3, <4>1, <4>2 DEF Verify, Refuse
    <3>4. CASE CheckCache(c)
      <4> DEFINE s == IF conn[c].req \in Posts THEN "run" ELSE "answer"
                 g == [conn[c] EXCEPT !.step = s, !.since = 0]
      <4>1. g \in Handler BY <1>1 DEF Handler, Steps
      <4>2. c \in Busies /\ c \in Past
        BY <3>4 DEF CheckCache, At, Busies, Busy, Past
      <4> QED BY <1>3, <3>4, <4>1, <4>2 DEF CheckCache, Refuse
    <3>5. CASE Answer(c) BY <1>3, <3>5 DEF Answer
    <3> QED BY <3>1, <3>2, <3>3, <3>4, <3>5
  <2>2. Busies' \subseteq Busies /\ Past' \subseteq Past
    BY <1>1, <2>1, StepChange DEF LateInv
  <2> QED BY <1>1, <2>2, FewerStay
<1> QED BY <1>2, <1>3

LEMMA CloseDialogLate ==
  ASSUME LateInv, CloseDialog, TypeOK' PROVE LateInv'
<1>1. conn' = conn /\ late' = IF active' THEN 0 ELSE late
  BY DEF CloseDialog
<1>2. Busies' = Busies /\ Past' = Past
  BY <1>1 DEF Busies, Busy, Past
<1>3. Cardinality(Past) <= Workers BY PastFew DEF LateInv
<1>4. Cardinality(Busies') = Cardinality(Busies)
      /\ Cardinality(Past') = Cardinality(Past)
  BY <1>2
<1>5. late' + Cardinality(Past) <= Workers /\ (active' => late' = 0)
  BY <1>1, <1>3, PastBusy, LimitAssumption DEF LateInv, TypeOK
<1> QED BY <1>4, <1>5 DEF LateInv

LEMMA RestartLate ==
  ASSUME LateInv, Restart, TypeOK' PROVE LateInv'
<1>1. /\ \A d \in Conns : conn'[d] = None
      /\ late' = 0
  BY DEF Restart
<1>2. Busies' = {} /\ Past' = {} BY <1>1 DEF Busies, Busy, Past
<1>3. Cardinality({}) = 0 BY FS_EmptySet
<1>4. Cardinality(Busies') = 0 /\ Cardinality(Past') = 0
  BY <1>2, <1>3
<1> QED BY <1>1, <1>4, LimitAssumption DEF LateInv

LEMMA NextLate == LateInv /\ [Next]_vars => LateInv'
<1> SUFFICES ASSUME LateInv, [Next]_vars PROVE LateInv'
  OBVIOUS
<1>0. TypeOK' BY NextType DEF LateInv
<1>1. CASE \E c \in Conns : Handle(c)
  BY <1>0, <1>1, CheckStatusLate, RunLate, PlainStepLate DEF Handle
<1>2. CASE \E c \in Conns, r \in Requests : Receive(c, r)
  BY <1>0, <1>2, ReceiveLate
<1>3. CASE \E s \in Rooms \cup {NoRoom} : ChangeRoom(s)
  <2>1. PICK s \in Rooms \cup {NoRoom} : ChangeRoom(s) BY <1>3
  <2>2. /\ \A d \in Conns : conn'[d] = IF conn[d] = None THEN None
                                       ELSE [conn[d] EXCEPT !.moved = TRUE]
        /\ UNCHANGED <<late, active>>
    BY <2>1 DEF ChangeRoom, MoveAll, history
  <2>3. \A d \in Conns : conn'[d] # None =>
          conn[d] # None /\ conn'[d].step = conn[d].step
    <3> SUFFICES ASSUME NEW d \in Conns, conn'[d] # None
                 PROVE  conn[d] # None /\ conn'[d].step = conn[d].step
      OBVIOUS
    <3>1. conn[d] # None BY <2>2
    <3>2. conn[d] \in Handler BY <3>1, MessageOfRequest DEF LateInv
    <3> QED BY <2>2, <3>1, <3>2 DEF Handler
  <2>4. Busies' \subseteq Busies /\ Past' \subseteq Past
    BY <2>3 DEF Busies, Busy, Past
  <2> QED BY <1>0, <2>2, <2>4, FewerStay
<1>4. CASE \/ \E r \in Requests : Send(r)
           \/ OpenDialog \/ Tick \/ UNCHANGED vars
  <2>1. UNCHANGED <<conn, late, active>>
    BY <1>4 DEF Send, OpenDialog, Tick, vars, history
  <2>2. Busies' = Busies /\ Past' = Past
    BY <2>1 DEF Busies, Busy, Past
  <2> QED BY <1>0, <2>1, <2>2, FewerStay
<1>5. CASE CloseDialog BY <1>0, <1>5, CloseDialogLate
<1>6. CASE Restart BY <1>0, <1>6, RestartLate
<1> QED BY <1>1, <1>2, <1>3, <1>4, <1>5, <1>6 DEF Next

(* No more tasks start after sharing has stopped than there are worker     *)
(* threads, however many peers have submitted one.                         *)
THEOREM LateStartsAreFew == Spec => []FewLateStarts
<1>1. LateInv => FewLateStarts
  BY PastBusy, LimitAssumption DEF LateInv, FewLateStarts, TypeOK
<1> QED BY InitLate, NextLate, <1>1, PTL DEF Spec

-----------------------------------------------------------------------------
(* The key of an answer.                                                   *)

(* What a handler knows that was not caught by a change of the room.       *)
RightKey(h) ==
  /\ (h.step # "key" /\ ~h.moved) => h.key = room
  /\ (h.step \in {"cache", "run", "answer"} /\ ~h.moved) =>
       sent[h.req].room = room
  /\ (h.step = "answer" /\ h.req \in Posts) => h.key = sent[h.req].key

AnswerInv ==
  /\ TypeOK
  /\ ReallySent
  /\ \A c \in Conns : conn[c] # None => RightKey(conn[c])

LEMMA InitAnswer == Init => AnswerInv
<1> SUFFICES ASSUME Init PROVE AnswerInv
  OBVIOUS
<1> QED BY InitType DEF Init, AnswerInv, ReallySent

(* The handler of c goes on as h, or ends.                                 *)
LEMMA HandlerAnswer ==
  ASSUME AnswerInv, TypeOK', NEW c \in Conns, NEW h,
         conn[c] # None, conn' = [conn EXCEPT ![c] = h],
         UNCHANGED <<room, sent>>,
         h # None => h.req = conn[c].req /\ RightKey(h)
  PROVE  AnswerInv'
<1>1. \A d \in Conns : conn'[d] = IF d = c THEN h ELSE conn[d]
  BY DEF AnswerInv, TypeOK
<1>2. ReallySent' BY <1>1 DEF AnswerInv, ReallySent
<1>3. ASSUME NEW d \in Conns, conn'[d] # None PROVE RightKey(conn[d])'
  <2>1. RightKey(conn'[d]) BY <1>1, <1>3 DEF AnswerInv
  <2> QED BY <2>1 DEF RightKey
<1> QED BY <1>2, <1>3 DEF AnswerInv

LEMMA HandleAnswer ==
  ASSUME AnswerInv, TypeOK', NEW c \in Conns, Handle(c)
  PROVE  AnswerInv'
<1>1. /\ conn[c] # None /\ conn[c] \in Handler
      /\ RightKey(conn[c])
      /\ UNCHANGED <<room, sent>>
  BY MessageOfRequest
     DEF AnswerInv, Handle, ReadKey, CheckJoined, CheckStatus, Verify,
         CheckCache, Run, Answer, At, world
<1>2. CASE conn' = [conn EXCEPT ![c] = None]
  BY <1>1, <1>2, HandlerAnswer
<1>3. CASE ReadKey(c)
  <2> DEFINE g == [conn[c] EXCEPT !.step = "joined", !.key = RoomKey]
  <2>1. conn' = [conn EXCEPT ![c] = g] BY <1>3 DEF ReadKey
  <2>2. g.req = conn[c].req /\ g.step = "joined" /\ g.key = room
    BY <1>1 DEF Handler, RoomKey
  <2> HIDE DEF g
  <2>3. RightKey(g) BY <2>2 DEF RightKey
  <2> QED BY <1>1, <2>1, <2>2, <2>3, HandlerAnswer
<1>4. CASE \E s \in {"status", "verify"} :
             /\ conn' = [conn EXCEPT ![c].step = s]
             /\ conn[c].step \in {"joined", "status"}
  <2>1. PICK s \in {"status", "verify"} :
             /\ conn' = [conn EXCEPT ![c].step = s]
             /\ conn[c].step \in {"joined", "status"}
    BY <1>4
  <2> DEFINE g == [conn[c] EXCEPT !.step = s]
  <2>2. conn' = [conn EXCEPT ![c] = g] BY <2>1
  <2>3. /\ g.req = conn[c].req /\ g.step = s /\ g.key = conn[c].key
        /\ g.moved = conn[c].moved
    BY <1>1 DEF Handler
  <2> HIDE DEF g
  <2>4. RightKey(g) BY <1>1, <2>1, <2>3 DEF RightKey
  <2> QED BY <1>1, <2>2, <2>3, <2>4, HandlerAnswer
<1>5. CASE Verify(c) /\ conn' # [conn EXCEPT ![c] = None]
  <2> DEFINE g == [conn[c] EXCEPT !.step = "cache", !.since = now]
  <2>1. conn' = [conn EXCEPT ![c] = g] BY <1>5 DEF Verify, Refuse
  <2>2. /\ g.req = conn[c].req /\ g.step = "cache" /\ g.key = conn[c].key
        /\ g.moved = conn[c].moved
    BY <1>1 DEF Handler
  <2>3. sent[conn[c].req].room = room
    BY <1>5 DEF Verify, Refuse, SignedHere, Sent
  <2>4. conn[c].step # "key" BY <1>5 DEF Verify, At
  <2> HIDE DEF g
  <2>5. RightKey(g) BY <1>1, <2>2, <2>3, <2>4 DEF RightKey
  <2> QED BY <1>1, <2>1, <2>2, <2>5, HandlerAnswer
<1>6. CASE CheckCache(c) /\ conn' # [conn EXCEPT ![c] = None]
  <2> DEFINE s == IF conn[c].req \in Posts THEN "run" ELSE "answer"
             g == [conn[c] EXCEPT !.step = s, !.since = 0]
  <2>1. conn' = [conn EXCEPT ![c] = g] BY <1>6 DEF CheckCache, Refuse
  <2>2. /\ g.req = conn[c].req /\ g.step = s /\ g.key = conn[c].key
        /\ g.moved = conn[c].moved
    BY <1>1 DEF Handler
  <2>3. conn[c].step = "cache" BY <1>6 DEF CheckCache, At
  <2> HIDE DEF g
  <2>4. RightKey(g) BY <1>1, <2>2, <2>3 DEF RightKey
  <2> QED BY <1>1, <2>1, <2>2, <2>4, HandlerAnswer
<1>7. CASE Run(c) /\ conn' # [conn EXCEPT ![c] = None]
  <2> DEFINE g == [conn[c] EXCEPT !.step = "answer"]
  <2>1. conn' = [conn EXCEPT ![c] = g] /\ conn[c].key = Sent(c).key
    BY <1>7 DEF Run, Goto, Refuse
  <2>2. /\ g.req = conn[c].req /\ g.step = "answer" /\ g.key = conn[c].key
        /\ g.moved = conn[c].moved
    BY <1>1 DEF Handler
  <2>3. conn[c].step = "run" BY <1>7 DEF Run, At
  <2> HIDE DEF g
  <2>4. RightKey(g) BY <1>1, <2>1, <2>2, <2>3 DEF RightKey, Sent
  <2> QED BY <1>1, <2>1, <2>2, <2>4, HandlerAnswer
<1> QED
  BY <1>2, <1>3, <1>4, <1>5, <1>6, <1>7
     DEF Handle, CheckJoined, CheckStatus, Answer, At, Goto, Refuse

LEMMA SendAnswer ==
  ASSUME AnswerInv, TypeOK', NEW r \in Requests, Send(r)
  PROVE  AnswerInv'
<1>1. PICK ts \in now .. now + MaxAhead, s \in Rooms, k \in Rooms :
        sent' = [sent EXCEPT ![r] = [ts |-> ts, room |-> s, key |-> k]]
  BY DEF Send
<1>2. sent[r] = None /\ UNCHANGED <<room, conn>> BY DEF Send
<1>3. ASSUME NEW d \in Conns, conn[d] # None
      PROVE  sent'[conn[d].req] # None /\ RightKey(conn[d])'
  <2>1. conn[d].req \in Requests
    BY <1>3, MessageOfRequest DEF AnswerInv
  <2>2. sent[conn[d].req] # None /\ RightKey(conn[d])
    BY <1>3 DEF AnswerInv, ReallySent
  <2>3. sent'[conn[d].req] = sent[conn[d].req]
    BY <1>1, <1>2, <2>1, <2>2 DEF AnswerInv, TypeOK
  <2> QED BY <1>2, <2>2, <2>3 DEF RightKey
<1> QED BY <1>2, <1>3 DEF AnswerInv, ReallySent

LEMMA ReceiveAnswer ==
  ASSUME AnswerInv, TypeOK', NEW c \in Conns, NEW r \in Requests,
         Receive(c, r)
  PROVE  AnswerInv'
<1> DEFINE h == [step |-> "key", req |-> r, key |-> NoRoom, since |-> 0,
                 moved |-> FALSE]
<1>1. \A d \in Conns : conn'[d] = IF d = c THEN h ELSE conn[d]
  BY DEF Receive, AnswerInv, TypeOK
<1>2. sent[r] # None /\ UNCHANGED <<room, sent>> BY DEF Receive, world
<1>3. ReallySent' BY <1>1, <1>2 DEF AnswerInv, ReallySent
<1>4. ASSUME NEW d \in Conns, conn'[d] # None PROVE RightKey(conn[d])'
  <2>1. RightKey(conn'[d])
    <3>1. RightKey(h) BY DEF RightKey
    <3> QED BY <1>1, <1>4, <3>1 DEF AnswerInv
  <2> QED BY <1>2, <2>1 DEF RightKey
<1> QED BY <1>3, <1>4 DEF AnswerInv

LEMMA ChangeRoomAnswer ==
  ASSUME AnswerInv, TypeOK', NEW s \in Rooms \cup {NoRoom}, ChangeRoom(s)
  PROVE  AnswerInv'
<1>1. /\ UNCHANGED sent
      /\ \A d \in Conns : conn'[d] = IF conn[d] = None THEN None
                                     ELSE [conn[d] EXCEPT !.moved = TRUE]
  BY DEF ChangeRoom, MoveAll
<1>2. ASSUME NEW d \in Conns, conn'[d] # None
      PROVE  sent'[conn'[d].req] # None /\ RightKey(conn[d])'
  <2>1. conn[d] # None BY <1>1, <1>2
  <2>2. conn[d] \in Handler BY <2>1, MessageOfRequest DEF AnswerInv
  <2>3. /\ conn'[d].req = conn[d].req /\ conn'[d].step = conn[d].step
        /\ conn'[d].key = conn[d].key /\ conn'[d].moved = TRUE
    BY <1>1, <2>1, <2>2 DEF Handler
  <2>4. sent[conn[d].req] # None /\ RightKey(conn[d])
    BY <2>1 DEF AnswerInv, ReallySent
  <2> QED BY <1>1, <2>3, <2>4 DEF RightKey
<1> QED BY <1>2 DEF AnswerInv, ReallySent

LEMMA NextAnswer == AnswerInv /\ [Next]_vars => AnswerInv'
<1> SUFFICES ASSUME AnswerInv, [Next]_vars PROVE AnswerInv'
  OBVIOUS
<1>0. TypeOK' BY NextType DEF AnswerInv
<1>1. CASE \E c \in Conns : Handle(c) BY <1>0, <1>1, HandleAnswer
<1>2. CASE \E c \in Conns, r \in Requests : Receive(c, r)
  BY <1>0, <1>2, ReceiveAnswer
<1>3. CASE \E s \in Rooms \cup {NoRoom} : ChangeRoom(s)
  BY <1>0, <1>3, ChangeRoomAnswer
<1>4. CASE \E r \in Requests : Send(r) BY <1>0, <1>4, SendAnswer
<1>5. CASE OpenDialog \/ CloseDialog \/ Tick \/ UNCHANGED vars
  <2>1. UNCHANGED <<room, sent, conn>>
    BY <1>5 DEF OpenDialog, CloseDialog, Tick, vars
  <2> QED BY <1>0, <2>1 DEF AnswerInv, ReallySent, RightKey
<1>6. CASE Restart
  <2>1. \A d \in Conns : conn'[d] = None BY <1>6 DEF Restart
  <2> QED BY <1>0, <2>1 DEF AnswerInv, ReallySent
<1> QED BY <1>1, <1>2, <1>3, <1>4, <1>5, <1>6 DEF Next

(* A request that was let in is answered with the key its sender expects,  *)
(* whatever the owner of the machine does with the room meanwhile.         *)
THEOREM AnswerHasItsKey == Spec => []AnsweredWithItsKey
<1>1. AnswerInv => AnsweredWithItsKey
  <2> SUFFICES ASSUME AnswerInv, NEW c \in Conns, At(c, "answer")
               PROVE  IF conn[c].req \in Posts
                      THEN /\ conn[c].key = Sent(c).key
                           /\ ~conn[c].moved => Sent(c).room = room
                      ELSE ~conn[c].moved =>
                             conn[c].key = Sent(c).room /\ Sent(c).room = room
    BY DEF AnsweredWithItsKey
  <2>1. RightKey(conn[c]) /\ conn[c].step = "answer"
    BY DEF AnswerInv, At
  <2> QED BY <2>1 DEF RightKey, Sent
<1> QED BY InitAnswer, NextAnswer, <1>1, PTL DEF Spec

=============================================================================
