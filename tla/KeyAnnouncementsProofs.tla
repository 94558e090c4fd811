------------------------ MODULE KeyAnnouncementsProofs ------------------------
(***************************************************************************)
(* What holds of module KeyAnnouncements for all times that satisfy its    *)
(* assumptions, with its proofs: whatever a thread has read at this        *)
(* instant it announces at this instant, and from one sleep of the         *)
(* announcing thread to the next what is announced is what is the case.    *)
(* So an old key is at the peer for the sleep and the way there, and that  *)
(* is less than the old key stays good.                                    *)
(***************************************************************************)
EXTENDS KeyAnnouncements, TLAPS, SequenceTheorems

(* When the current key came up.                                           *)
RotatedAt == IF rot.step = "sleep" THEN rot.wake - Rotation ELSE now

(* The rotating thread does its three steps at one instant, and the key    *)
(* before this one is good until the grace period ends.                    *)
RotInv ==
  /\ rot.step \in {"sleep", "cell", "last"}
  /\ cell = IF rot.step = "cell" THEN key - 1 ELSE key
  /\ cell \in Nat
  /\ rot.step = "last" => changed = now
  /\ changed <= now
  /\ rot.step = "sleep" => RotatedAt <= now /\ now <= rot.wake
  /\ key # 0 => prev = key - 1 /\ prevUntil = RotatedAt + Grace

(* The commands of the window that announce.                               *)
UiInv ==
  /\ ui.step \in {"properties", "key", "register"} =>
       ui.kind \in {"rename", "room"}
  /\ ui.step = "forget" => ui.kind = "room"

TypeInv == TypeOK /\ RotInv /\ UiInv

Current == [config |-> config, key |-> cell]

(* What the announcing thread has read at this instant is the case unless  *)
(* something changed at this instant; what it has noted is the case if it  *)
(* has slept since the last change.                                        *)
RefrInv ==
  /\ refr.step \in {"sleep", "key", "compare", "announce"}
  /\ refr.wake <= now + Refresh
  /\ changed < now /\ refr.step # "sleep" => refr.copy.config = config
  /\ changed < now /\ refr.step \in {"compare", "announce"} =>
       refr.copy.key = cell
  /\ changed < now /\ refr.step = "announce" => last = refr.copy
  /\ refr.step = "announce" => /\ last \in {None, refr.copy}
                              /\ refr.wake <= changed + Refresh
  /\ refr.wake > changed + Refresh => last = Current

(* A change of the room is being announced.                                *)
InRoom == ui.kind = "room" /\ ui.step \notin {"idle", "dialog"}

(* The mishaps on the machine, and the one on the way to it, have not come *)
(* to pass.                                                                *)
Sound == mishaps \subseteq {"dropped"}

(* Then the announcing thread is never late, and the announcement is what  *)
(* it has noted.                                                           *)
NotedInv ==
  Sound => /\ now <= refr.wake
           /\ last # None /\ ~InRoom /\ refr.step # "announce" => record = last

LEMMA Times ==
  /\ Rotation \in Nat /\ Grace \in Nat /\ Refresh \in Nat /\ RateLimit \in Nat
  /\ Delay \in Nat /\ Transit \in Nat /\ MaxUses \in Nat /\ EndOfTime \in Nat
  BY TimeAssumption

USE Times DEF keys, peer

-----------------------------------------------------------------------------
(* The steps of the threads, field by field.                               *)

LEMMA RotMoves ==
  ASSUME TypeOK
  PROVE  /\ Rotate => rot' \in Thread /\ rot'.step = "cell"
         /\ PublishKey => rot' \in Thread /\ rot'.step = "last"
         /\ RotationDone => /\ rot' \in Thread /\ rot'.step = "sleep"
                           /\ rot'.wake = now + Rotation
  <1> SUFFICES ASSUME NEW t \in Thread, t = rot, now + Rotation \in Nat
               PROVE  /\ Rotate => rot' \in Thread /\ rot'.step = "cell"
                      /\ PublishKey => rot' \in Thread /\ rot'.step = "last"
                      /\ RotationDone => /\ rot' \in Thread
                                        /\ rot'.step = "sleep"
                                        /\ rot'.wake = now + Rotation
    BY DEF TypeOK
  <1>1. ASSUME NEW q \in {"cell", "last"}
        PROVE  [t EXCEPT !.step = q] \in Thread /\ [t EXCEPT !.step = q].step = q
    BY DEF Thread
  <1>2. ASSUME NEW w \in Nat
        PROVE  /\ [t EXCEPT !.step = "sleep", !.wake = w] \in Thread
               /\ [t EXCEPT !.step = "sleep", !.wake = w].step = "sleep"
               /\ [t EXCEPT !.step = "sleep", !.wake = w].wake = w
    BY DEF Thread
  <1>3. Rotate => rot' = [t EXCEPT !.step = "cell"]
    BY DEF Rotate
  <1>4. PublishKey => rot' = [t EXCEPT !.step = "last"]
    BY DEF PublishKey
  <1>5. RotationDone => rot' = [t EXCEPT !.step = "sleep", !.wake = now + Rotation]
    BY DEF RotationDone
  <1>6. PICK w \in Nat : w = now + Rotation
    OBVIOUS
  <1>7. Rotate => rot' \in Thread /\ rot'.step = "cell"
    BY <1>1, <1>3
  <1>8. PublishKey => rot' \in Thread /\ rot'.step = "last"
    BY <1>1, <1>4
  <1>9. RotationDone => /\ rot' \in Thread /\ rot'.step = "sleep"
                        /\ rot'.wake = now + Rotation
    BY <1>2, <1>5, <1>6
  <1> QED
    BY <1>7, <1>8, <1>9

LEMMA RefrMoves ==
  ASSUME TypeOK, cell \in Nat
  PROVE  /\ RefreshConfig => /\ refr' \in Thread /\ refr'.step = "key"
                            /\ refr'.wake = refr.wake
                            /\ refr'.copy.config = config
         /\ RefreshKey => /\ refr' \in Thread /\ refr'.step = "compare"
                         /\ refr'.wake = refr.wake
                         /\ refr'.copy.config = refr.copy.config
                         /\ refr'.copy.key = cell
         /\ RefreshCompare /\ last # refr.copy =>
              /\ refr' \in Thread /\ refr'.step = "announce"
              /\ refr'.wake = refr.wake /\ refr'.copy = refr.copy
         /\ RefreshSleeps => /\ refr' \in Thread /\ refr'.step = "sleep"
                            /\ refr'.wake = now + Refresh
  <1>1. /\ refr \in Thread /\ config \in Configs /\ cell \in Nat
        /\ now + Refresh \in Nat
    BY DEF TypeOK
  <1>2. ASSUME RefreshConfig
        PROVE  /\ refr' \in Thread /\ refr'.step = "key"
               /\ refr'.wake = refr.wake /\ refr'.copy.config = config
    BY <1>1, <1>2 DEF RefreshConfig, Thread, Properties
  <1>3. ASSUME RefreshKey
        PROVE  /\ refr' \in Thread /\ refr'.step = "compare"
               /\ refr'.wake = refr.wake
               /\ refr'.copy.config = refr.copy.config
               /\ refr'.copy.key = cell
    BY <1>1, <1>3 DEF RefreshKey, Thread, Properties
  <1>4. ASSUME RefreshCompare, last # refr.copy
        PROVE  /\ refr' \in Thread /\ refr'.step = "announce"
               /\ refr'.wake = refr.wake /\ refr'.copy = refr.copy
    BY <1>1, <1>4 DEF RefreshCompare, Thread
  <1>5. ASSUME RefreshSleeps
        PROVE  /\ refr' \in Thread /\ refr'.step = "sleep"
               /\ refr'.wake = now + Refresh
    BY <1>1, <1>5 DEF RefreshSleeps, Thread
  <1> QED
    BY <1>2, <1>3, <1>4, <1>5

LEMMA UiMoves ==
  ASSUME TypeOK, cell \in Nat
  PROVE  /\ \A q \in {"idle", "properties", "key", "register", "forget"} :
              UiStep(q) => /\ ui' \in Command /\ ui'.step = q
                           /\ ui'.kind = ui.kind /\ ui'.copy = ui.copy
         /\ OpenDialog => /\ ui' \in Command /\ ui'.step = "dialog"
                         /\ ui'.kind = "dialog"
         /\ Rename => /\ ui' \in Command /\ ui'.step = "properties"
                     /\ ui'.kind = "rename"
         /\ Unregister => /\ ui' \in Command /\ ui'.step = "properties"
                         /\ ui'.kind = "room"
         /\ RegisterConfig => \/ /\ ui' \in Command /\ ui'.step = "key"
                                /\ ui'.kind = ui.kind
                              \/ UiStep(AfterRegister)
         /\ RegisterKey => /\ ui' \in Command /\ ui'.step = "register"
                          /\ ui'.kind = ui.kind /\ ui'.copy.key = cell
  <1>1. ui \in Command /\ config \in Configs /\ cell \in Nat
    BY DEF TypeOK
  <1>2. ASSUME NEW q \in {"idle", "properties", "key", "register", "forget"},
               UiStep(q)
        PROVE  /\ ui' \in Command /\ ui'.step = q
               /\ ui'.kind = ui.kind /\ ui'.copy = ui.copy
    BY <1>1, <1>2 DEF UiStep, Command
  <1>3. ASSUME OpenDialog
        PROVE  /\ ui' \in Command /\ ui'.step = "dialog" /\ ui'.kind = "dialog"
    BY <1>1, <1>3 DEF OpenDialog, Command
  <1>4. ASSUME Rename
        PROVE  /\ ui' \in Command /\ ui'.step = "properties"
               /\ ui'.kind = "rename"
    BY <1>1, <1>4 DEF Rename, Command
  <1>5. ASSUME Unregister
        PROVE  /\ ui' \in Command /\ ui'.step = "properties"
               /\ ui'.kind = "room"
    BY <1>1, <1>5 DEF Unregister, Command
  <1>6. ASSUME RegisterConfig
        PROVE  \/ /\ ui' \in Command /\ ui'.step = "key" /\ ui'.kind = ui.kind
               \/ UiStep(AfterRegister)
    <2>1. \/ ui' = [ui EXCEPT !.step = "key", !.copy.config = config]
          \/ UiStep(AfterRegister)
      BY <1>6 DEF RegisterConfig
    <2>2. CASE ui' = [ui EXCEPT !.step = "key", !.copy.config = config]
      BY <1>1, <2>2 DEF Command, Properties
    <2> QED
      BY <2>1, <2>2
  <1>7. ASSUME RegisterKey
        PROVE  /\ ui' \in Command /\ ui'.step = "register"
               /\ ui'.kind = ui.kind /\ ui'.copy.key = cell
    BY <1>1, <1>7 DEF RegisterKey, Command, Properties
  <1> QED
    BY <1>2, <1>3, <1>4, <1>5, <1>6, <1>7

-----------------------------------------------------------------------------
(* Types.                                                                  *)

LEMMA TypeInit == Init => TypeInv
  <1> SUFFICES ASSUME Init
               PROVE  TypeInv
    OBVIOUS
  <1> USE DEF Init
  <1>1. record \in Properties /\ record.key = 0 /\ Len(<<>>) = 0
    BY EmptySeq DEF Properties
  <1>2. rot \in Thread /\ refr \in Thread /\ ui \in Command
    BY <1>1 DEF Thread, Command
  <1>3. /\ rot.step = "sleep" /\ rot.wake = Rotation
        /\ ui.step = "idle"
    OBVIOUS
  <1>4. air \in Seq([news : Properties \cup {None}, by : Nat])
    BY EmptySeq
  <1>5. RotInv
    BY <1>3 DEF RotInv, RotatedAt
  <1>6. TypeOK
    <2>1. /\ now \in 0 .. EndOfTime /\ cell \in {key, key - 1} /\ uses \in 0 .. MaxUses
          /\ key \in Nat /\ prev = None /\ prevUntil \in Nat /\ changed \in Nat
      OBVIOUS
    <2>2. /\ table \in Properties \cup {None} /\ heard \in Nat \cup {None}
          /\ req = None /\ last = None /\ mishaps = {} /\ refused = FALSE
          /\ config \in Configs
      BY <1>1
    <2> QED
      BY <1>1, <1>2, <1>4, <2>1, <2>2 DEF TypeOK
  <1>7. UiInv
    BY <1>3 DEF UiInv
  <1> QED
    BY <1>5, <1>6, <1>7 DEF TypeInv

LEMMA Announced ==
  ASSUME TypeOK, NEW news \in Properties \cup {None}, Announce(news)
  PROVE  /\ record' = news
         /\ air' \in Seq([news : Properties \cup {None}, by : Nat])
         /\ Len(air) \in Nat /\ Len(air') = Len(air) + 1
         /\ \A i \in 1 .. Len(air) : air'[i] = air[i]
         /\ air'[Len(air) + 1] = [news |-> news, by |-> now + Delay]
  <1> DEFINE entry == [news |-> news, by |-> now + Delay]
             Entries == [news : Properties \cup {None}, by : Nat]
  <1>1. entry \in Entries
    BY DEF TypeOK
  <1>2. air \in Seq(Entries) /\ air' = Append(air, entry) /\ record' = news
    BY DEF TypeOK, Announce
  <1> HIDE DEF entry, Entries
  <1>3. Len(air) \in Nat
    BY <1>2
  <1>4. /\ air' \in Seq(Entries) /\ Len(air') = Len(air) + 1
        /\ \A i \in 1 .. Len(air) : air'[i] = air[i]
        /\ air'[Len(air) + 1] = entry
    BY <1>1, <1>2, AppendProperties
  <1> QED
    BY <1>2, <1>3, <1>4 DEF entry, Entries

LEMMA Heard ==
  ASSUME TypeOK, air # <<>>, air' = Tail(air)
  PROVE  /\ Head(air) = air[1] /\ air[1].news \in Properties \cup {None}
         /\ air' \in Seq([news : Properties \cup {None}, by : Nat])
         /\ Len(air) \in Nat \ {0} /\ Len(air') = Len(air) - 1
         /\ \A i \in 1 .. Len(air') : air'[i] = air[i + 1]
  <1> DEFINE Entries == [news : Properties \cup {None}, by : Nat]
  <1>1. air \in Seq(Entries) /\ Len(air) \in Nat \ {0}
    BY EmptySeq DEF TypeOK
  <1>2. Head(air) = air[1] /\ air[1] \in Entries
    <2> HIDE DEF Entries
    <2>1. Head(air) = air[1] /\ 1 \in 1 .. Len(air)
      BY <1>1
    <2> QED
      BY <1>1, <2>1, ElementOfSeq
  <1>3. /\ Tail(air) \in Seq(Entries) /\ Len(Tail(air)) = Len(air) - 1
        /\ \A i \in 1 .. Len(Tail(air)) : Tail(air)[i] = air[i + 1]
    BY <1>1, HeadTailProperties
  <1> QED
    BY <1>1, <1>2, <1>3

LEMMA TypeStep == TypeInv /\ [Next]_vars => TypeInv'
  <1> SUFFICES ASSUME TypeInv, [Next]_vars
               PROVE  TypeInv'
    OBVIOUS
  <1>0. /\ TypeOK /\ RotInv /\ UiInv
        /\ refr.copy \in Properties /\ ui.copy \in Properties
        /\ refr.copy.config \in Configs /\ refr.copy.key \in Nat
        /\ ui.copy.config \in Configs /\ ui.copy.key \in Nat
        /\ cell \in Nat
    BY DEF TypeInv, TypeOK, RotInv, Thread, Command, Properties
  <1>1. CASE Rotate
    <2>1. rot' \in Thread /\ rot'.step = "cell" /\ rot.step = "sleep"
      BY <1>0, <1>1, RotMoves DEF Rotate
    <2>2. /\ key' = key + 1 /\ prev' = key /\ prevUntil' = now + Grace
          /\ UNCHANGED <<now, config, cell, last, record, refr, ui, air, peer,
                         changed, mishaps, uses>>
      BY <1>1 DEF Rotate, Demoted
    <2>3. cell = key /\ key \in Nat /\ now + Grace \in Nat
      BY <1>0, <2>1 DEF RotInv, TypeOK
    <2>4. key' - 1 = key /\ cell' = key
      BY <2>2, <2>3
    <2>5. TypeOK'
      BY <1>0, <2>1, <2>2, <2>3, <2>4 DEF TypeOK
    <2>6. RotInv'
      BY <1>0, <2>1, <2>2, <2>3, <2>4 DEF RotInv, RotatedAt
    <2> QED
      BY <1>0, <2>2, <2>5, <2>6 DEF TypeInv, UiInv
  <1>2. CASE PublishKey
    <2>1. rot' \in Thread /\ rot'.step = "last" /\ rot.step = "cell"
      BY <1>0, <1>2, RotMoves DEF PublishKey
    <2>2. TypeOK'
      BY <1>0, <1>2, <2>1 DEF PublishKey, TypeOK
    <2>3. RotInv'
      BY <1>0, <1>2, <2>1 DEF PublishKey, TypeOK, RotInv, RotatedAt
    <2> QED
      BY <1>0, <1>2, <2>2, <2>3 DEF PublishKey, TypeInv, UiInv
  <1>3. CASE RotationDone
    <2>1. /\ rot' \in Thread /\ rot'.step = "sleep" /\ rot.step = "last"
          /\ rot'.wake = now + Rotation
      BY <1>0, <1>3, RotMoves DEF RotationDone
    <2>2. TypeOK'
      BY <1>0, <1>3, <2>1 DEF RotationDone, TypeOK
    <2>3. key # 0 => prevUntil = now + Grace /\ ~(now >= prevUntil)
      <3>1. key # 0 => prevUntil = now + Grace
        BY <1>0, <2>1 DEF RotInv, RotatedAt
      <3>2. now \in Nat /\ 0 < Grace
        BY <1>0, PaceAssumption DEF TypeOK
      <3>3. ~(now >= now + Grace)
        BY <3>2
      <3> QED
        BY <3>1, <3>3
    <2>4. RotInv'
      BY <1>0, <1>3, <2>1, <2>3, SMTT(30) DEF RotationDone, TypeOK, RotInv, RotatedAt
    <2> QED
      BY <1>0, <1>3, <2>2, <2>4 DEF RotationDone, TypeInv, UiInv
  <1>4. CASE RefreshConfig \/ RefreshKey \/ RefreshCompare \/ RefreshAnnounce
    <2>1. refr' \in Thread
      BY <1>0, <1>4, RefrMoves
      DEF RefreshConfig, RefreshKey, RefreshCompare, RefreshAnnounce
    <2>2. UNCHANGED <<now, config, keys, cell, rot, ui, peer, changed, uses>>
      BY <1>4
      DEF RefreshConfig, RefreshKey, RefreshCompare, RefreshAnnounce
    <2>3. last' \in Properties \cup {None} /\ mishaps' \subseteq Mishaps
      BY <1>0, <1>4
      DEF RefreshConfig, RefreshKey, RefreshCompare, RefreshAnnounce, TypeOK,
          Mishaps
    <2>4. /\ record' \in Properties \cup {None}
          /\ air' \in Seq([news : Properties \cup {None}, by : Nat])
      <3>1. CASE Announce(refr.copy)
        <4>1. PICK p \in Properties : p = refr.copy
          BY <1>0
        <4>2. Announce(p)
          BY <3>1, <4>1 DEF Announce
        <4>3. p \in Properties \cup {None}
          BY <4>1
        <4> QED
          BY <1>0, <4>2, <4>3, Announced
      <3>2. CASE UNCHANGED <<record, air>>
        BY <1>0, <3>2 DEF TypeOK
      <3> QED
        BY <1>4, <3>1, <3>2
        DEF RefreshConfig, RefreshKey, RefreshCompare, RefreshAnnounce
    <2>5. TypeOK'
      BY <1>0, <2>1, <2>2, <2>3, <2>4 DEF TypeOK
    <2> QED
      BY <1>0, <2>2, <2>5 DEF TypeInv, RotInv, RotatedAt, UiInv
  <1>5. CASE \/ OpenDialog \/ CloseDialog \/ Rename \/ RegisterConfig
             \/ RegisterKey \/ ForgetAnnounced
    <2>1. ui' \in Command /\ UiInv'
      <3>1. CASE OpenDialog \/ Rename \/ RegisterKey
        BY <1>0, <3>1, UiMoves DEF UiInv, RegisterKey
      <3>2. CASE CloseDialog \/ ForgetAnnounced
        BY <1>0, <3>2, UiMoves DEF UiInv, CloseDialog, ForgetAnnounced
      <3>3. CASE RegisterConfig
        <4>1. ui.kind \in {"rename", "room"}
          BY <1>0, <3>3 DEF RegisterConfig, UiInv
        <4>2. CASE UiStep(AfterRegister)
          BY <1>0, <4>1, <4>2, UiMoves DEF UiInv, AfterRegister
        <4> QED
          BY <1>0, <3>3, <4>1, <4>2, UiMoves DEF UiInv
      <3> QED
        BY <1>5, <3>1, <3>2, <3>3
    <2>2. /\ UNCHANGED <<now, keys, cell, record, rot, refr, air, peer, mishaps>>
          /\ changed' \in {changed, now}
          /\ config' \in Configs /\ uses' \in 0 .. MaxUses
          /\ last' \in Properties \cup {None}
      BY <1>0, <1>5
      DEF OpenDialog, CloseDialog, Rename, RegisterConfig, RegisterKey,
          ForgetAnnounced, Forgotten, TypeOK
    <2>3. TypeOK'
      BY <1>0, <2>1, <2>2 DEF TypeOK
    <2> QED
      BY <1>0, <2>1, <2>2, <2>3 DEF TypeInv, RotInv, RotatedAt, TypeOK
  <1>6. CASE Unregister \/ Register
    <2>1. ui' \in Command /\ UiInv'
      BY <1>0, <1>6, UiMoves DEF Register, AfterRegister, UiInv
    <2>2. /\ UNCHANGED <<now, config, keys, cell, last, rot, refr, peer, changed>>
          /\ mishaps' \subseteq Mishaps /\ uses' \in 0 .. MaxUses
      BY <1>0, <1>6, SMTT(30) DEF Unregister, Register, TypeOK, Mishaps
    <2>3. /\ record' \in Properties \cup {None}
          /\ air' \in Seq([news : Properties \cup {None}, by : Nat])
      <3>1. PICK p \in Properties \cup {None} : Announce(p)
        <4>1. CASE Unregister
          BY <4>1 DEF Unregister
        <4>2. CASE Register
          <5>1. PICK p \in Properties : p = ui.copy
            BY <1>0
          <5> QED
            BY <4>2, <5>1 DEF Register, Announce
        <4> QED
          BY <1>6, <4>1, <4>2
      <3> QED
        BY <1>0, <3>1, Announced
    <2>4. TypeOK'
      BY <1>0, <2>1, <2>2, <2>3 DEF TypeOK
    <2> QED
      BY <1>0, <2>1, <2>2, <2>4 DEF TypeInv, RotInv, RotatedAt
  <1>7. CASE Hear
    <2>1. /\ UNCHANGED <<now, config, keys, cell, last, record, rot, refr, ui,
                         req, refused, changed, uses>>
          /\ air # <<>> /\ air' = Tail(air)
      BY <1>7 DEF Hear
    <2>2. /\ Head(air).news \in Properties \cup {None}
          /\ air' \in Seq([news : Properties \cup {None}, by : Nat])
      BY <1>0, <2>1, Heard
    <2>3. /\ table' \in {table, None, Head(air).news}
          /\ heard' \in {heard, None, now}
          /\ mishaps' \in {mishaps, mishaps \cup {"dropped"}}
      BY <1>7 DEF Hear
    <2>4. TypeOK'
      BY <1>0, <2>1, <2>2, <2>3 DEF TypeOK, Mishaps
    <2> QED
      BY <1>0, <2>1, <2>4 DEF TypeInv, RotInv, RotatedAt, UiInv
  <1>8. CASE Send \/ Arrive
    <2>1. /\ UNCHANGED <<now, config, keys, cell, last, record, rot, refr, ui,
                         air, table, heard, changed, mishaps, uses>>
          /\ req' \in Request \cup {None} /\ refused' \in BOOLEAN
      <3>1. CASE Send
        <4>1. now + Transit \in Nat
          BY <1>0 DEF TypeOK
        <4>2. (IF table = None THEN None ELSE table.key) \in Nat \cup {None}
          BY <1>0 DEF TypeOK, Properties
        <4> QED
          BY <1>0, <3>1, <4>1, <4>2 DEF Send, Request, TypeOK
      <3>2. CASE Arrive
        BY <1>0, <3>2 DEF Arrive, Understands, TypeOK
      <3> QED
        BY <1>8, <3>1, <3>2
    <2>2. TypeOK'
      BY <1>0, <2>1 DEF TypeOK
    <2> QED
      BY <1>0, <2>1, <2>2 DEF TypeInv, RotInv, RotatedAt, UiInv
  <1>9. CASE Tick
    <2>1. /\ UNCHANGED <<config, keys, cell, last, record, rot, refr, ui, air,
                         peer, changed, uses>>
          /\ now' = now + 1 /\ now < EndOfTime
          /\ mishaps' \subseteq Mishaps
          /\ rot.step = "sleep" /\ now < rot.wake
      BY <1>0, <1>9 DEF Tick, TypeOK, Mishaps
    <2>2. TypeOK'
      BY <1>0, <2>1 DEF TypeOK
    <2>3. rot.wake \in Nat /\ now \in Nat /\ changed \in Nat
      BY <1>0 DEF TypeOK, Thread
    <2>4. RotInv'
      BY <1>0, <2>1, <2>3 DEF RotInv, RotatedAt
    <2> QED
      BY <1>0, <2>1, <2>2, <2>4 DEF TypeInv, UiInv
  <1>10. CASE UNCHANGED vars
    BY <1>0, <1>10 DEF vars, TypeInv, TypeOK, RotInv, RotatedAt, UiInv
  <1> QED
    BY <1>1, <1>2, <1>3, <1>4, <1>5, <1>6, <1>7, <1>8, <1>9, <1>10 DEF Next

(* Type correctness; in particular a new key is published at once and the  *)
(* key that is kept is the one before it.                                  *)
THEOREM TypeCorrect == Spec => []TypeOK
  <1>1. TypeInv => TypeOK
    BY DEF TypeInv
  <1> QED
    BY <1>1, TypeInit, TypeStep, PTL DEF Spec

-----------------------------------------------------------------------------
(* The announcement catches up.                                            *)

(* A record of the announced properties is known by its two fields.        *)
LEMMA SameProperties ==
  ASSUME NEW p \in Properties, NEW c, NEW k, p.config = c, p.key = k
  PROVE  p = [config |-> c, key |-> k]
  BY DEF Properties

LEMMA Instants ==
  ASSUME TypeInv
  PROVE  /\ now \in Nat /\ changed \in Nat /\ refr.wake \in Nat
         /\ RotatedAt \in Int /\ RotatedAt <= now /\ changed <= now
         /\ key \in Nat /\ cell \in Nat
         /\ refr.copy \in Properties /\ ui.copy \in Properties
  <1>1. TypeOK /\ RotInv
    BY DEF TypeInv
  <1>2. rot.wake \in Nat /\ now \in Nat
    BY <1>1 DEF TypeOK, Thread
  <1> QED
    BY <1>1, <1>2 DEF TypeOK, RotInv, RotatedAt, Thread, Command

LEMMA RefrInit == Init => RefrInv /\ NotedInv
  <1> SUFFICES ASSUME Init
               PROVE  RefrInv /\ NotedInv
    OBVIOUS
  <1>1. /\ refr.step = "sleep" /\ refr.wake = Refresh /\ now = 0 /\ changed = 0
        /\ last = None
    BY DEF Init
  <1> QED
    BY <1>1 DEF RefrInv, NotedInv

(* What the steps of the others may do to what the announcing thread sees. *)
LEMMA OthersMove ==
  ASSUME TypeInv, [Next]_vars,
         ~(RefreshConfig \/ RefreshKey \/ RefreshCompare \/ RefreshAnnounce),
         ~Tick
  PROVE  /\ UNCHANGED <<refr, now>>
         /\ \/ UNCHANGED <<changed, last, config, cell>>
            \/ changed' = now /\ last' \in {last, None}
  <1>1. RotationDone => changed' = now
    BY DEF RotationDone, TypeInv, RotInv
  <1> QED
    BY <1>1
    DEF Next, Rotate, PublishKey, RotationDone, OpenDialog, CloseDialog, Rename,
        Unregister, RegisterConfig, RegisterKey, Register, ForgetAnnounced,
        Forgotten, Hear, Send, Arrive, vars

LEMMA RefrStep == TypeInv /\ RefrInv /\ [Next]_vars => RefrInv'
  <1> SUFFICES ASSUME TypeInv, RefrInv, [Next]_vars
               PROVE  RefrInv'
    OBVIOUS
  <1>0. /\ TypeOK /\ cell \in Nat
        /\ now \in Nat /\ changed \in Nat /\ refr.wake \in Nat /\ changed <= now
        /\ refr.copy \in Properties
    BY Instants DEF TypeInv
  <1>1. ASSUME changed < now, refr.step \in {"compare", "announce"}
        PROVE  refr.copy = Current
    BY <1>0, <1>1, SameProperties DEF RefrInv, Current
  <1>2. CASE RefreshConfig
    <2>1. UNCHANGED <<now, changed, last, config, cell>>
      BY <1>2 DEF RefreshConfig
    <2> QED
      BY <1>0, <1>2, <2>1, RefrMoves DEF RefrInv, Current
  <1>3. CASE RefreshKey
    <2>1. UNCHANGED <<now, changed, last, config, cell>> /\ refr.step = "key"
      BY <1>3 DEF RefreshKey
    <2> QED
      BY <1>0, <1>3, <2>1, RefrMoves DEF RefrInv, Current
  <1>4. CASE RefreshCompare
    <2>1. /\ UNCHANGED <<now, changed, config, cell>>
          /\ last' = refr.copy /\ refr.step = "compare"
      BY <1>4 DEF RefreshCompare
    <2>2. CASE last = refr.copy
      <3>1. refr'.step = "sleep" /\ refr'.wake = now + Refresh
        BY <1>0, <1>4, <2>2, RefrMoves DEF RefreshCompare
      <3>2. now + Refresh > changed + Refresh => refr.copy = Current
        BY <1>0, <1>1, <2>1
      <3> QED
        BY <1>0, <2>1, <3>1, <3>2 DEF RefrInv, Current
    <2>3. CASE last # refr.copy
      <3>1. /\ refr'.step = "announce" /\ refr'.wake = refr.wake
            /\ refr'.copy = refr.copy
        BY <1>0, <1>4, <2>3, RefrMoves
      <3>2. refr.wake <= changed + Refresh
        BY <1>0, <1>1, <2>1, <2>3 DEF RefrInv
      <3> QED
        BY <1>0, <2>1, <3>1, <3>2 DEF RefrInv
    <2> QED
      BY <2>2, <2>3
  <1>5. CASE RefreshAnnounce
    <2>1. /\ UNCHANGED <<now, changed, last, config, cell>>
          /\ refr.step = "announce"
          /\ refr'.step = "sleep" /\ refr'.wake = now + Refresh
      BY <1>0, <1>5, RefrMoves DEF RefreshAnnounce
    <2>2. now + Refresh > changed + Refresh => last = Current
      BY <1>0, <1>1, <2>1 DEF RefrInv
    <2> QED
      BY <1>0, <2>1, <2>2 DEF RefrInv, Current
  <1>6. CASE Tick
    <2>1. /\ UNCHANGED <<changed, last, config, cell, refr>>
          /\ now' = now + 1 /\ refr.step = "sleep"
      BY <1>6 DEF Tick
    <2> QED
      BY <1>0, <2>1 DEF RefrInv, Current
  <1>7. CASE ~(RefreshConfig \/ RefreshKey \/ RefreshCompare \/ RefreshAnnounce
                 \/ Tick)
    <2>1. UNCHANGED <<refr, now>>
      BY <1>7, OthersMove
    <2>2. CASE UNCHANGED <<changed, last, config, cell>>
      BY <2>1, <2>2 DEF RefrInv, Current
    <2>3. CASE changed' = now /\ last' \in {last, None}
      BY <1>0, <2>1, <2>3 DEF RefrInv
    <2> QED
      BY <1>7, <2>2, <2>3, OthersMove
  <1> QED
    BY <1>2, <1>3, <1>4, <1>5, <1>6, <1>7

LEMMA MishapsStay == TypeInv /\ [Next]_vars => mishaps \subseteq mishaps'
  BY DEF Next, Rotate, PublishKey, RotationDone, RefreshConfig, RefreshKey,
         RefreshCompare, RefreshAnnounce, OpenDialog, CloseDialog, Rename,
         Unregister, RegisterConfig, RegisterKey, Register, ForgetAnnounced,
         Hear, Send, Arrive, Tick, vars

LEMMA NotedStep == TypeInv /\ RefrInv /\ NotedInv /\ [Next]_vars => NotedInv'
  <1> SUFFICES ASSUME TypeInv, RefrInv, NotedInv, [Next]_vars, Sound'
               PROVE  /\ now' <= refr'.wake
                      /\ (last # None /\ ~InRoom /\ refr.step # "announce" =>
                            record = last)'
    BY DEF NotedInv
  <1>0. /\ TypeOK /\ cell \in Nat /\ now \in Nat /\ refr.wake \in Nat
        /\ Sound /\ now <= refr.wake
        /\ last # None /\ ~InRoom /\ refr.step # "announce" => record = last
    BY Instants, MishapsStay DEF TypeInv, NotedInv, Sound
  <1>1. CASE RefreshConfig \/ RefreshKey
    <2>1. /\ UNCHANGED <<now, last, record, ui>> /\ refr.step # "announce"
          /\ refr'.wake = refr.wake
      BY <1>0, <1>1, RefrMoves DEF RefreshConfig, RefreshKey
    <2> QED
      BY <1>0, <2>1 DEF InRoom
  <1>2. CASE RefreshCompare
    <2>1. UNCHANGED <<now, record, ui>> /\ refr.step = "compare"
      BY <1>2 DEF RefreshCompare
    <2>2. CASE last = refr.copy
      <3>1. /\ last' = last
            /\ refr'.step = "sleep" /\ refr'.wake = now + Refresh
        BY <1>0, <1>2, <2>2, RefrMoves DEF RefreshCompare
      <3> QED
        BY <1>0, <2>1, <3>1 DEF InRoom
    <2>3. CASE last # refr.copy
      BY <1>0, <1>2, <2>1, <2>3, RefrMoves
    <2> QED
      BY <2>2, <2>3
  <1>3. CASE RefreshAnnounce
    <2>1. /\ UNCHANGED <<now, last, ui>> /\ refr.step = "announce"
          /\ refr'.wake = now + Refresh
          /\ record' = refr.copy \/ "lost" \in mishaps'
      BY <1>0, <1>3, RefrMoves DEF RefreshAnnounce, Announce
    <2>2. last' # None => record' = last'
      BY <2>1 DEF RefrInv, Sound
    <2> QED
      BY <1>0, <2>1, <2>2
  <1>4. CASE Register
    <2>1. /\ UNCHANGED <<now, last, refr>> /\ record' = ui.copy
          /\ UiStep(AfterRegister) /\ ui.step = "register"
      BY <1>4 DEF Register, Announce
    <2>2. ui.kind \in {"rename", "room"}
      BY <2>1 DEF TypeInv, UiInv
    <2>3. CASE ui.kind = "room"
      <3>1. InRoom'
        BY <1>0, <2>1, <2>3, UiMoves DEF AfterRegister, InRoom
      <3> QED
        BY <1>0, <2>1, <3>1
    <2>4. CASE ui.kind = "rename"
      <3>1. last \in {None, ui.copy}
        BY <1>4, <2>4 DEF Register, Sound
      <3> QED
        BY <1>0, <2>1, <3>1
    <2> QED
      BY <2>2, <2>3, <2>4
  <1>5. CASE OpenDialog \/ CloseDialog \/ Rename \/ RegisterConfig \/ RegisterKey
    <2>1. UNCHANGED <<now, last, record, refr>>
      BY <1>5 DEF OpenDialog, CloseDialog, Rename, RegisterConfig, RegisterKey
    <2>2. InRoom => InRoom'
      <3>1. CASE OpenDialog \/ CloseDialog \/ Rename
        BY <3>1 DEF OpenDialog, CloseDialog, Rename, InRoom, Dialog
      <3>2. CASE RegisterKey
        BY <1>0, <3>2, UiMoves DEF InRoom
      <3>3. CASE RegisterConfig
        BY <1>0, <3>3, UiMoves DEF InRoom, AfterRegister
      <3> QED
        BY <1>5, <3>1, <3>2, <3>3
    <2> QED
      BY <1>0, <2>1, <2>2
  <1>6. CASE Unregister
    <2>1. InRoom'
      BY <1>0, <1>6, UiMoves DEF InRoom
    <2> QED
      BY <1>0, <1>6, <2>1 DEF Unregister
  <1>7. CASE ForgetAnnounced \/ RotationDone
    <2>1. UNCHANGED <<now, refr>> /\ last' = None
      BY <1>7 DEF ForgetAnnounced, Forgotten, RotationDone
    <2> QED
      BY <1>0, <2>1
  <1>8. CASE Tick
    <2>1. /\ UNCHANGED <<last, record, refr, ui>> /\ now' = now + 1
          /\ RefreshDue => "stalled" \in mishaps'
      BY <1>8 DEF Tick
    <2>2. ~RefreshDue
      BY <2>1 DEF Sound
    <2> QED
      BY <1>0, <2>1, <2>2 DEF RefreshDue, InRoom
  <1>9. CASE UNCHANGED <<now, last, record, refr, ui>>
    BY <1>0, <1>9 DEF InRoom
  <1>10. Rotate \/ PublishKey \/ Hear \/ Send \/ Arrive \/ UNCHANGED vars =>
           UNCHANGED <<now, last, record, refr, ui>>
    BY DEF Rotate, PublishKey, Hear, Send, Arrive, vars
  <1> QED
    BY <1>1, <1>2, <1>3, <1>4, <1>5, <1>6, <1>7, <1>8, <1>9, <1>10 DEF Next

(* One sleep after the last change the machine announces what is the case. *)
THEOREM AnnouncementCatchesUp == Spec => []RecordCatchesUp
  <1>1. ASSUME TypeInv, RefrInv, NotedInv
        PROVE  RecordCatchesUp
    <2> SUFFICES ASSUME Sound, ui.step \in {"idle", "dialog"},
                        changed + Refresh < now
                 PROVE  record = Current
      BY DEF RecordCatchesUp, Sound, Current
    <2>1. refr.wake > changed + Refresh
      BY <1>1, Instants DEF NotedInv
    <2>2. last = Current /\ refr.step # "announce"
      BY <1>1, <2>1, Instants DEF RefrInv
    <2>3. last # None
      BY <1>1, <2>2, Instants, NoneAssumption DEF Current, Properties, TypeInv, TypeOK
    <2> QED
      BY <1>1, <2>2, <2>3 DEF NotedInv, InRoom
  <1> QED
    BY <1>1, TypeInit, TypeStep, RefrInit, RefrStep, NotedStep, PTL DEF Spec

-----------------------------------------------------------------------------
(* Requests are understood.                                                *)

(* A key read at this instant: the current one, or the one before it if it *)
(* was read before the keys changed, at the same instant.                  *)
Near(k) == k = key \/ (k = key - 1 /\ RotatedAt = now)

(* What the threads are about to announce has such a key; and the record   *)
(* has the current one once the announcing thread has slept since the keys *)
(* changed.                                                                *)
FreshInv ==
  /\ refr.step \in {"compare", "announce"} => Near(refr.copy.key)
  /\ ui.step = "register" => Near(ui.copy.key)
  /\ InRoom /\ record # None => Near(record.key)
  /\ Sound /\ record # None /\ refr.wake > RotatedAt + Refresh =>
       record.key = key

(* What the peer will have in its table after the next i announcements.    *)
Told(i) == IF i = 0 THEN table ELSE air[i].news

Old(news) == news # None /\ news.key # key

(* An announcement is never later than it may be; and without a mishap the *)
(* peer has the current key, or the one before it for as long as it takes  *)
(* the thread to announce the new one and the announcement to arrive.      *)
AirInv == \A i \in 1 .. Len(air) : now <= air[i].by /\ air[i].by <= now + Delay

ToldInv ==
  /\ Told(Len(air)) \in {None, record}
  /\ record # None => record.key \in {key, key - 1}
  /\ \A i \in 0 .. Len(air) : Told(i) # None => Told(i).key \in {key, key - 1}
  /\ \A i \in 0 .. Len(air) - 1 :
       Old(Told(i)) => air[i + 1].by <= RotatedAt + Refresh + Delay

RequestInv ==
  req # None =>
    /\ now <= req.until /\ req.until <= now + Transit
    /\ \/ req.key \in {None, key}
       \/ /\ req.key = key - 1
          /\ req.until <= RotatedAt + Refresh + Delay + Transit

PeerInv == mishaps = {} => ToldInv /\ RequestInv /\ ~refused

(* What a step does to the key and to the time it came up.                 *)
LEMMA Turns ==
  ASSUME TypeInv, [Next]_vars
  PROVE  \/ /\ Rotate /\ key' = key + 1 /\ now' = now /\ RotatedAt' = now
            /\ now = RotatedAt + Rotation
         \/ Tick /\ key' = key /\ now' = now + 1 /\ RotatedAt' = RotatedAt
         \/ ~Rotate /\ ~Tick /\ key' = key /\ now' = now /\ RotatedAt' = RotatedAt
  <1>0. /\ TypeOK /\ now \in Nat /\ rot.wake \in Nat
    BY Instants DEF TypeInv, TypeOK, Thread
  <1>1. CASE Rotate
    <2>1. rot'.step = "cell" /\ rot.step = "sleep" /\ rot.wake = now
      BY <1>0, <1>1, RotMoves DEF Rotate
    <2> QED
      BY <1>0, <1>1, <2>1 DEF Rotate, RotatedAt
  <1>2. CASE Tick
    BY <1>2 DEF Tick, RotatedAt
  <1>3. CASE PublishKey
    <2>1. rot'.step = "last" /\ rot.step = "cell"
      BY <1>0, <1>3, RotMoves DEF PublishKey
    <2> QED
      BY <1>3, <2>1 DEF PublishKey, Rotate, Tick, RotatedAt
  <1>4. CASE RotationDone
    <2>1. rot'.step = "sleep" /\ rot'.wake = now + Rotation /\ rot.step = "last"
      BY <1>0, <1>4, RotMoves DEF RotationDone
    <2> QED
      BY <1>0, <1>4, <2>1 DEF RotationDone, Rotate, Tick, RotatedAt
  <1>5. CASE ~(Rotate \/ PublishKey \/ RotationDone \/ Tick)
    <2>1. UNCHANGED <<rot, key, now>>
      BY <1>5
      DEF Next, RefreshConfig, RefreshKey, RefreshCompare, RefreshAnnounce,
          OpenDialog, CloseDialog, Rename, Unregister, RegisterConfig,
          RegisterKey, Register, ForgetAnnounced, Hear, Send, Arrive, vars
    <2> QED
      BY <1>5, <2>1 DEF RotatedAt
  <1> QED
    BY <1>1, <1>2, <1>3, <1>4, <1>5

LEMMA Paces ==
  /\ 0 < Refresh /\ 0 < Rotation /\ Refresh + Delay + Transit < Grace
  /\ Refresh + Delay + Transit < Rotation
  BY PaceAssumption

LEMMA NearStays ==
  ASSUME TypeInv, [Next]_vars, ~Tick, NEW k \in Nat, Near(k)
  PROVE  Near(k)'
  BY Turns, Instants, Paces DEF Near

LEMMA NearCell == TypeInv => Near(cell)
  BY DEF TypeInv, RotInv, RotatedAt, Near

LEMMA FreshInit == Init => FreshInv
  <1>1. Init => /\ refr.step = "sleep" /\ ui.step = "idle" /\ refr.wake = Refresh
                /\ record.key = key
    BY DEF Init
  <1> QED
    BY <1>1 DEF FreshInv, InRoom

LEMMA FreshStep ==
  TypeInv /\ RefrInv /\ NotedInv /\ FreshInv /\ [Next]_vars => FreshInv'
  <1> SUFFICES ASSUME TypeInv, RefrInv, NotedInv, FreshInv, [Next]_vars
               PROVE  FreshInv'
    OBVIOUS
  <1>0. /\ TypeOK /\ cell \in Nat /\ now \in Nat /\ key \in Nat
        /\ refr.wake \in Nat /\ RotatedAt \in Int /\ RotatedAt <= now
        /\ refr.copy \in Properties /\ ui.copy \in Properties
        /\ Sound' => Sound
    BY Instants, MishapsStay DEF TypeInv, Sound
  <1>1. PICK q \in Properties, p \in Properties, c \in Nat, r \in Properties \cup {None} :
          q = refr.copy /\ p = ui.copy /\ c = cell /\ r = record
    BY <1>0 DEF TypeOK
  <1>2. /\ q.key \in Nat /\ p.key \in Nat /\ (r # None => r.key \in Nat)
        /\ Near(c)
    BY <1>1, NearCell DEF Properties
  <1>3. /\ refr.step \in {"compare", "announce"} => Near(q.key)
        /\ ui.step = "register" => Near(p.key)
        /\ InRoom /\ r # None => Near(r.key)
        /\ Sound /\ r # None /\ refr.wake > RotatedAt + Refresh => r.key = key
    BY <1>1 DEF FreshInv
  <1>4. ASSUME NEW k \in Nat, Near(k), ~Tick
        PROVE  Near(k)'
    BY <1>4, NearStays
  <1>5. CASE Tick
    <2>1. /\ UNCHANGED <<key, record, refr, ui>> /\ RotatedAt' = RotatedAt
          /\ refr.step = "sleep" /\ ui.step \in {"idle", "dialog"}
      BY <1>5, Turns DEF Tick
    <2> QED
      BY <1>0, <2>1 DEF FreshInv, InRoom, Rotate, Tick
  <1>6. CASE Rotate
    <2>0. UNCHANGED <<now, record, refr, ui>>
      BY <1>6 DEF Rotate
    <2>1. RotatedAt' = now /\ ~Tick
      <3>1. now' # now + 1
        BY <1>0, <2>0
      <3>2. ~Tick
        BY <3>1 DEF Tick
      <3> QED
        BY <1>6, <3>2, Turns
    <2>2. ASSUME refr.step \in {"compare", "announce"}
          PROVE  Near(q.key)'
      BY <1>2, <1>3, <1>4, <2>1, <2>2
    <2>3. ASSUME ui.step = "register"
          PROVE  Near(p.key)'
      BY <1>2, <1>3, <1>4, <2>1, <2>3
    <2>4. ASSUME InRoom, r # None
          PROVE  Near(r.key)'
      BY <1>2, <1>3, <1>4, <2>1, <2>4
    <2>5. ~(refr'.wake > RotatedAt' + Refresh)
      BY <1>0, <2>0, <2>1 DEF RefrInv
    <2> QED
      BY <1>1, <2>0, <2>1, <2>2, <2>3, <2>4, <2>5 DEF FreshInv, InRoom
  <1>7. CASE ~Tick /\ ~Rotate
    <2>0. /\ UNCHANGED <<now, key>> /\ RotatedAt' = RotatedAt
          /\ \A k : Near(k)' <=> Near(k)
      BY <1>7, Turns DEF Near
    <2>1. CASE RefreshConfig
      <3>1. /\ UNCHANGED <<record, ui>>
            /\ refr'.step = "key" /\ refr'.wake = refr.wake
        BY <1>0, <2>1, RefrMoves DEF RefreshConfig
      <3> QED
        BY <1>0, <2>0, <3>1 DEF FreshInv, InRoom
    <2>2. CASE RefreshKey
      <3>1. /\ UNCHANGED <<record, ui>>
            /\ refr'.copy.key = c /\ refr'.wake = refr.wake
        BY <1>0, <1>1, <2>2, RefrMoves DEF RefreshKey
      <3> QED
        BY <1>0, <1>2, <2>0, <3>1 DEF FreshInv, InRoom
    <2>3. CASE RefreshCompare
      <3>1. UNCHANGED <<record, ui>> /\ refr.step = "compare"
        BY <2>3 DEF RefreshCompare
      <3>2. CASE last = refr.copy
        <4>1. refr'.step = "sleep" /\ refr'.wake = now + Refresh
          BY <1>0, <2>3, <3>2, RefrMoves DEF RefreshCompare
        <4>2. ASSUME Sound, record # None, RotatedAt < now
              PROVE  record.key = key
          <5>1. CASE InRoom
            BY <1>0, <4>2, <5>1 DEF FreshInv, Near
          <5>2. CASE ~InRoom
            <6>1. record = refr.copy
              BY <1>0, <3>1, <3>2, <4>2, <5>2, NoneAssumption DEF NotedInv
            <6> QED
              BY <1>0, <3>1, <4>2, <6>1 DEF FreshInv, Near
          <5> QED
            BY <5>1, <5>2
        <4> QED
          BY <1>0, <2>0, <3>1, <4>1, <4>2 DEF FreshInv, InRoom
      <3>3. CASE last # refr.copy
        <4>1. /\ refr'.wake = refr.wake /\ refr'.copy = refr.copy
          BY <1>0, <2>3, <3>3, RefrMoves
        <4> QED
          BY <1>0, <1>1, <2>0, <3>1, <4>1 DEF FreshInv, InRoom
      <3> QED
        BY <3>2, <3>3
    <2>4. CASE RefreshAnnounce
      <3>1. /\ UNCHANGED ui /\ refr.step = "announce"
            /\ refr'.step = "sleep" /\ refr'.wake = now + Refresh
            /\ \/ record' = q
               \/ record' = record /\ "lost" \in mishaps'
        BY <1>0, <1>1, <2>4, RefrMoves DEF RefreshAnnounce, Announce
      <3>2. Near(q.key)
        BY <1>3, <3>1
      <3>3. RotatedAt < now => q.key = key
        BY <1>0, <3>2 DEF Near
      <3>4. Sound' => record' = q
        BY <3>1 DEF Sound
      <3> QED
        BY <1>0, <2>0, <3>1, <3>2, <3>3, <3>4 DEF FreshInv, InRoom
    <2>5. CASE Register
      <3>1. /\ UNCHANGED refr /\ record' = p
            /\ UiStep(AfterRegister) /\ ui.step = "register"
        BY <1>1, <2>5 DEF Register, Announce
      <3>2. Near(p.key) /\ ui'.step # "register"
        BY <1>0, <1>3, <3>1, UiMoves DEF AfterRegister
      <3>3. refr.wake > RotatedAt + Refresh => p.key = key
        BY <1>0, <3>2 DEF Near, RefrInv
      <3> QED
        BY <1>0, <2>0, <3>1, <3>2, <3>3 DEF FreshInv
    <2>6. CASE Unregister
      <3>1. UNCHANGED refr /\ record' = None /\ ui'.step = "properties"
        BY <1>0, <2>6, UiMoves DEF Unregister, Announce
      <3> QED
        BY <2>0, <3>1 DEF FreshInv
    <2>7. CASE \/ OpenDialog \/ CloseDialog \/ Rename \/ RegisterConfig
               \/ RegisterKey \/ ForgetAnnounced
      <3>1. UNCHANGED <<refr, record>>
        BY <2>7
        DEF OpenDialog, CloseDialog, Rename, RegisterConfig, RegisterKey,
            ForgetAnnounced
      <3>2. InRoom' => InRoom
        <4>1. CASE OpenDialog \/ Rename
          BY <1>0, <4>1, UiMoves DEF InRoom
        <4>2. CASE CloseDialog \/ ForgetAnnounced
          BY <1>0, <4>2, UiMoves DEF InRoom, CloseDialog, ForgetAnnounced
        <4>3. CASE RegisterKey
          BY <1>0, <4>3, UiMoves DEF InRoom, RegisterKey
        <4>4. CASE RegisterConfig
          BY <1>0, <4>4, UiMoves DEF InRoom, RegisterConfig, AfterRegister
        <4> QED
          BY <2>7, <4>1, <4>2, <4>3, <4>4
      <3>3. ui'.step = "register" => ui'.copy.key = c
        BY <1>0, <1>1, <2>7, UiMoves
        DEF CloseDialog, ForgetAnnounced, AfterRegister
      <3> QED
        BY <1>0, <1>2, <2>0, <3>1, <3>2, <3>3 DEF FreshInv
    <2>8. CASE UNCHANGED <<record, refr, ui, mishaps>>
      BY <2>0, <2>8 DEF FreshInv, InRoom, Sound
    <2>9. CASE Hear
      BY <1>0, <2>0, <2>9 DEF Hear, FreshInv, InRoom
    <2>10. PublishKey \/ RotationDone \/ Send \/ Arrive \/ UNCHANGED vars =>
             UNCHANGED <<record, refr, ui, mishaps>>
      BY DEF PublishKey, RotationDone, Send, Arrive, vars
    <2> QED
      BY <1>7, <2>1, <2>2, <2>3, <2>4, <2>5, <2>6, <2>7, <2>8, <2>9, <2>10
      DEF Next
  <1> QED
    BY <1>5, <1>6, <1>7

LEMMA AirTypes ==
  ASSUME TypeOK
  PROVE  /\ Len(air) \in Nat
         /\ \A i \in 1 .. Len(air) : /\ air[i].by \in Nat
                                     /\ air[i].news \in Properties \cup {None}
         /\ \A i \in 0 .. Len(air) : Told(i) \in Properties \cup {None}
  <1> DEFINE Entries == [news : Properties \cup {None}, by : Nat]
  <1>1. air \in Seq(Entries) /\ Len(air) \in Nat
    BY DEF TypeOK
  <1>2. ASSUME NEW i \in 1 .. Len(air)
        PROVE  air[i] \in Entries
    <2> HIDE DEF Entries
    <2> QED
      BY <1>1, <1>2, ElementOfSeq
  <1>3. \A i \in 1 .. Len(air) : /\ air[i].by \in Nat
                                /\ air[i].news \in Properties \cup {None}
    BY <1>2
  <1>4. ASSUME NEW i \in 0 .. Len(air)
        PROVE  Told(i) \in Properties \cup {None}
    <2>1. i = 0 \/ i \in 1 .. Len(air)
      BY <1>1
    <2> QED
      BY <1>3, <2>1 DEF Told, TypeOK
  <1> QED
    BY <1>1, <1>3, <1>4

LEMMA AirInit == Init => AirInv /\ PeerInv
  <1> SUFFICES ASSUME Init
               PROVE  AirInv /\ PeerInv
    OBVIOUS
  <1>1. /\ Len(air) = 0 /\ table \in {None, record} /\ record.key = key
        /\ req = None /\ refused = FALSE
    BY EmptySeq DEF Init
  <1>2. /\ AirInv /\ RequestInv
        /\ \A i \in 0 .. Len(air) : i = 0
    BY <1>1 DEF AirInv, RequestInv
  <1>3. ToldInv
    BY <1>1, <1>2 DEF ToldInv, Told
  <1> QED
    BY <1>1, <1>2, <1>3 DEF PeerInv

LEMMA AirStep == TypeInv /\ AirInv /\ [Next]_vars => AirInv'
  <1> SUFFICES ASSUME TypeInv, AirInv, [Next]_vars
               PROVE  AirInv'
    OBVIOUS
  <1>0. /\ TypeOK /\ now \in Nat /\ cell \in Nat
        /\ refr.copy \in Properties /\ ui.copy \in Properties
    BY Instants DEF TypeInv
  <1>1. ASSUME NEW news \in Properties \cup {None}, Announce(news), now' = now
        PROVE  AirInv'
    <2>1. /\ Len(air) \in Nat /\ Len(air') = Len(air) + 1
          /\ \A i \in 1 .. Len(air) : air'[i] = air[i]
          /\ air'[Len(air) + 1] = [news |-> news, by |-> now + Delay]
      BY <1>0, <1>1, Announced
    <2> SUFFICES ASSUME NEW i \in 1 .. Len(air')
                 PROVE  now <= air'[i].by /\ air'[i].by <= now + Delay
      BY <1>1 DEF AirInv
    <2>2. i \in 1 .. Len(air) \/ i = Len(air) + 1
      BY <2>1
    <2>3. CASE i \in 1 .. Len(air)
      BY <2>1, <2>3 DEF AirInv
    <2>4. CASE i = Len(air) + 1
      BY <1>0, <2>1, <2>4
    <2> QED
      BY <2>2, <2>3, <2>4
  <1>2. CASE Unregister
    BY <1>1, <1>2 DEF Unregister
  <1>3. CASE Register
    <2>1. PICK p \in Properties : p = ui.copy
      BY <1>0
    <2> QED
      BY <1>1, <1>3, <2>1 DEF Register, Announce
  <1>4. CASE RefreshAnnounce
    <2>1. PICK p \in Properties : p = refr.copy
      BY <1>0
    <2>2. CASE Announce(refr.copy)
      BY <1>1, <1>4, <2>1, <2>2 DEF RefreshAnnounce, Announce
    <2>3. CASE UNCHANGED air
      BY <1>4, <2>3 DEF RefreshAnnounce, AirInv
    <2> QED
      BY <1>4, <2>2, <2>3 DEF RefreshAnnounce
  <1>5. CASE Hear
    <2>1. /\ Len(air) \in Nat \ {0} /\ Len(air') = Len(air) - 1
          /\ \A i \in 1 .. Len(air') : air'[i] = air[i + 1]
          /\ now' = now
      BY <1>0, <1>5, Heard DEF Hear
    <2> QED
      BY <2>1 DEF AirInv
  <1>6. CASE Tick
    <2>1. /\ UNCHANGED air /\ now' = now + 1
          /\ \A i \in 1 .. Len(air) : now < air[i].by
      BY <1>6 DEF Tick
    <2>2. \A i \in 1 .. Len(air) : air[i].by \in Nat
      BY <1>0, AirTypes
    <2> QED
      BY <1>0, <2>1, <2>2 DEF AirInv
  <1>7. CASE UNCHANGED <<now, air>>
    BY <1>7 DEF AirInv
  <1>8. \/ UNCHANGED <<now, air>>
        \/ Unregister \/ Register \/ RefreshAnnounce \/ Hear \/ Tick
    BY DEF Next, Rotate, PublishKey, RotationDone, RefreshConfig, RefreshKey,
           RefreshCompare, OpenDialog, CloseDialog, Rename, RegisterConfig,
           RegisterKey, ForgetAnnounced, Send, Arrive, vars
  <1> QED
    BY <1>2, <1>3, <1>4, <1>5, <1>6, <1>7, <1>8

(* An old record is replaced when the announcing thread wakes up; what is  *)
(* old at the peer is replaced by the announcement behind it.              *)
LEMMA OldRecord ==
  ASSUME TypeInv, NotedInv, FreshInv, Sound, Old(record)
  PROVE  now <= RotatedAt + Refresh
  BY Instants DEF NotedInv, FreshInv, Old

LEMMA OldUntil ==
  ASSUME TypeInv, NotedInv, FreshInv, AirInv, ToldInv, Sound
  PROVE  \A i \in 0 .. Len(air) : Old(Told(i)) =>
           now <= RotatedAt + Refresh + Delay
  <1> SUFFICES ASSUME NEW i \in 0 .. Len(air), Old(Told(i))
               PROVE  now <= RotatedAt + Refresh + Delay
    OBVIOUS
  <1>1. TypeOK /\ now \in Nat /\ RotatedAt \in Int /\ Len(air) \in Nat
    BY Instants, AirTypes DEF TypeInv
  <1>2. CASE i = Len(air)
    <2>1. Old(record)
      BY <1>2 DEF ToldInv, Old
    <2> QED
      BY <1>1, <2>1, OldRecord
  <1>3. CASE i # Len(air)
    <2>1. i \in 0 .. Len(air) - 1 /\ i + 1 \in 1 .. Len(air)
      BY <1>1, <1>3
    <2>2. air[i + 1].by <= RotatedAt + Refresh + Delay
      BY <2>1 DEF ToldInv
    <2>3. now <= air[i + 1].by /\ air[i + 1].by \in Nat
      BY <1>1, <2>1, AirTypes DEF AirInv
    <2> QED
      BY <1>1, <2>2, <2>3
  <1> QED
    BY <1>2, <1>3

(* A step that announces.                                                  *)
LEMMA ToldMore ==
  ASSUME TypeInv, NotedInv, FreshInv, AirInv, ToldInv, Sound,
         NEW news \in Properties \cup {None}, Announce(news),
         news # None => Near(news.key),
         UNCHANGED <<now, key, table>>, RotatedAt' = RotatedAt
  PROVE  ToldInv'
  <1>1. /\ TypeOK /\ now \in Nat /\ key \in Nat /\ RotatedAt \in Int
        /\ Len(air) \in Nat
    BY Instants, AirTypes DEF TypeInv
  <1>2. /\ record' = news /\ Len(air') = Len(air) + 1
        /\ \A i \in 1 .. Len(air) : air'[i] = air[i]
        /\ air'[Len(air) + 1] = [news |-> news, by |-> now + Delay]
    BY <1>1, Announced
  <1>3. \A i \in 0 .. Len(air) : Told(i)' = Told(i)
    BY <1>1, <1>2 DEF Told
  <1>4. Told(Len(air))' = news
    BY <1>1, <1>2 DEF Told
  <1>5. news # None => news.key \in {key, key - 1}
    BY DEF Near
  <1>6. ASSUME NEW i \in 0 .. Len(air')
        PROVE  Told(i)' # None => Told(i)'.key \in {key, key - 1}
    <2>1. CASE i \in 0 .. Len(air)
      BY <1>3, <2>1 DEF ToldInv
    <2>2. CASE i = Len(air')
      BY <1>4, <1>5, <2>2 DEF Told
    <2> QED
      BY <1>1, <1>2, <2>1, <2>2
  <1>7. ASSUME NEW i \in 0 .. Len(air') - 1, Old(Told(i))'
        PROVE  air'[i + 1].by <= RotatedAt + Refresh + Delay
    <2>1. i \in 0 .. Len(air) /\ Old(Told(i))
      BY <1>1, <1>2, <1>3, <1>7 DEF Old
    <2>2. CASE i = Len(air)
      <3>1. Old(record)
        BY <2>1, <2>2 DEF ToldInv, Old
      <3> QED
        BY <1>1, <1>2, <2>2, <3>1, OldRecord
    <2>3. CASE i # Len(air)
      <3>1. i \in 0 .. Len(air) - 1 /\ i + 1 \in 1 .. Len(air)
        BY <1>1, <2>1, <2>3
      <3> QED
        BY <1>2, <2>1, <3>1 DEF ToldInv
    <2> QED
      BY <2>2, <2>3
  <1> QED
    BY <1>2, <1>4, <1>5, <1>6, <1>7 DEF ToldInv

(* A step in which the peer hears.                                         *)
LEMMA ToldLess ==
  ASSUME TypeInv, ToldInv, Hear, mishaps' = {}, RotatedAt' = RotatedAt
  PROVE  ToldInv'
  <1>1. TypeOK /\ UNCHANGED <<now, key, record>>
    BY DEF TypeInv, Hear
  <1>2. /\ Head(air) = air[1] /\ Len(air) \in Nat \ {0}
        /\ Len(air') = Len(air) - 1
        /\ \A i \in 1 .. Len(air') : air'[i] = air[i + 1]
    BY <1>1, Heard DEF Hear
  <1>3. table' = air[1].news
    <2>1. PICK news : news = Head(air).news
      OBVIOUS
    <2> QED
      BY <1>2, <2>1 DEF Hear
  <1>4. \A i \in 0 .. Len(air') : Told(i)' = Told(i + 1)
    BY <1>2, <1>3 DEF Told
  <1>5. /\ Told(Len(air))' = Told(Len(air))
        /\ \A i \in 0 .. Len(air') : i + 1 \in 0 .. Len(air)
        /\ \A i \in 0 .. Len(air') - 1 : /\ i \in 0 .. Len(air')
                                        /\ i + 1 \in 0 .. Len(air) - 1
                                        /\ air'[i + 1] = air[i + 1 + 1]
    BY <1>2, <1>4
  <1>6. ASSUME NEW i \in 0 .. Len(air') - 1, Old(Told(i))'
        PROVE  air'[i + 1].by <= RotatedAt + Refresh + Delay
    <2>1. Old(Told(i + 1)) /\ i + 1 \in 0 .. Len(air) - 1
      BY <1>1, <1>4, <1>5, <1>6 DEF Old
    <2> QED
      BY <1>5, <2>1 DEF ToldInv
  <1> QED
    BY <1>1, <1>4, <1>5, <1>6 DEF ToldInv

(* When the keys change, whatever the peer has or will be told is current: *)
(* it becomes the key before the current one.                              *)
LEMMA ToldRotates ==
  ASSUME TypeInv, NotedInv, FreshInv, AirInv, ToldInv, Sound,
         Rotate, UNCHANGED now, key' = key + 1, RotatedAt' = now,
         now = RotatedAt + Rotation
  PROVE  ToldInv'
  <1>1. /\ TypeOK /\ now \in Nat /\ key \in Nat /\ RotatedAt \in Int
        /\ Len(air) \in Nat
    BY Instants, AirTypes DEF TypeInv
  <1>2. UNCHANGED <<record, air, table>>
    BY DEF Rotate
  <1>3. ~(now <= RotatedAt + Refresh) /\ ~(now <= RotatedAt + Refresh + Delay)
    BY <1>1, Paces
  <1>4. record # None => record.key = key
    BY <1>3, OldRecord DEF Old
  <1>5. \A i \in 0 .. Len(air) : Told(i) # None => Told(i).key = key
    BY <1>3, OldUntil DEF Old
  <1>6. \A i \in 0 .. Len(air) : Told(i)' = Told(i)
    BY <1>2 DEF Told
  <1>7. ASSUME NEW i \in 0 .. Len(air) - 1
        PROVE  air[i + 1].by <= now + Refresh + Delay
    <2>1. i + 1 \in 1 .. Len(air)
      BY <1>1
    <2> QED
      BY <1>1, <2>1, AirTypes DEF AirInv
  <1>8. key' - 1 = key /\ Len(air) \in 0 .. Len(air)
    BY <1>1
  <1> QED
    BY <1>2, <1>4, <1>5, <1>6, <1>7, <1>8 DEF ToldInv

(* The steps that announce do so with a key of this instant.               *)
LEMMA Announcing ==
  ASSUME TypeInv, FreshInv, [Next]_vars, mishaps' = {}
  PROVE  \/ UNCHANGED <<record, air>>
         \/ Hear
         \/ \E news \in Properties \cup {None} :
              /\ Announce(news) /\ (news # None => Near(news.key))
              /\ UNCHANGED <<now, key, table, req, refused>>
              /\ ~Rotate /\ ~Tick
  <1>0. refr.copy \in Properties /\ ui.copy \in Properties
    BY Instants
  <1> DEFINE Telling(news) == /\ Announce(news) /\ (news # None => Near(news.key))
                              /\ UNCHANGED <<now, key, table, req, refused>>
                              /\ ~Rotate /\ ~Tick
  <1>1. CASE Unregister
    <2>1. UNCHANGED <<now, key, table, req, refused, rot>> /\ Announce(None)
      BY <1>1 DEF Unregister
    <2>2. now \in Nat /\ key \in Nat
      BY Instants
    <2>3. key' # key + 1 /\ now' # now + 1
      BY <2>1, <2>2
    <2>4. Telling(None)
      BY <2>1, <2>3 DEF Rotate, Tick
    <2> QED
      BY <2>4
  <1>2. CASE Register
    <2>1. /\ UNCHANGED <<now, key, table, req, refused>>
          /\ Announce(ui.copy) /\ ui.step = "register"
      BY <1>2 DEF Register
    <2>2. now \in Nat /\ key \in Nat
      BY Instants
    <2>3. key' # key + 1 /\ now' # now + 1
      BY <2>1, <2>2
    <2>4. Near(ui.copy.key)
      BY <2>1 DEF FreshInv
    <2>5. Telling(ui.copy)
      BY <2>1, <2>3, <2>4 DEF Rotate, Tick
    <2> QED
      BY <1>0, <2>5
  <1>3. CASE RefreshAnnounce
    <2>1. /\ UNCHANGED <<now, key, table, req, refused>>
          /\ refr.step = "announce"
          /\ Announce(refr.copy) \/ UNCHANGED <<record, air>>
      BY <1>3 DEF RefreshAnnounce
    <2>2. now \in Nat /\ key \in Nat
      BY Instants
    <2>3. key' # key + 1 /\ now' # now + 1
      BY <2>1, <2>2
    <2>4. Near(refr.copy.key)
      BY <2>1 DEF FreshInv
    <2>5. CASE Announce(refr.copy)
      <3>1. Telling(refr.copy)
        BY <2>1, <2>3, <2>4, <2>5 DEF Rotate, Tick
      <3> QED
        BY <1>0, <3>1
    <2> QED
      BY <2>1, <2>5
  <1>4. \/ UNCHANGED <<record, air>>
        \/ Unregister \/ Register \/ RefreshAnnounce \/ Hear
    BY DEF Next, Rotate, PublishKey, RotationDone, RefreshConfig, RefreshKey,
           RefreshCompare, OpenDialog, CloseDialog, Rename, RegisterConfig,
           RegisterKey, ForgetAnnounced, Send, Arrive, Tick, vars
  <1> QED
    BY <1>1, <1>2, <1>3, <1>4

LEMMA ToldStep ==
  ASSUME TypeInv, NotedInv, FreshInv, AirInv, ToldInv, [Next]_vars,
         mishaps = {}, mishaps' = {}
  PROVE  ToldInv'
  <1>0. Sound /\ now \in Nat /\ key \in Nat
    BY Instants DEF Sound
  <1>1. CASE Rotate
    <2>1. now' = now
      BY <1>1 DEF Rotate
    <2>2. ~Tick
      BY <1>0, <2>1 DEF Tick
    <2> QED
      BY <1>0, <1>1, <2>1, <2>2, Turns, ToldRotates
  <1>2. CASE Hear
    <2>1. UNCHANGED <<now, key>>
      BY <1>2 DEF Hear
    <2>2. ~Tick /\ ~Rotate
      BY <1>0, <2>1 DEF Tick, Rotate
    <2> QED
      BY <1>2, <2>2, Turns, ToldLess
  <1>3. CASE /\ UNCHANGED <<record, air>>
             /\ ~Rotate /\ ~Hear
    <2>1. key' = key /\ RotatedAt' = RotatedAt
      BY <1>3, Turns
    <2>2. UNCHANGED table
      BY <1>3
      DEF Next, PublishKey, RotationDone, RefreshConfig, RefreshKey,
          RefreshCompare, RefreshAnnounce, OpenDialog, CloseDialog, Rename,
          Unregister, RegisterConfig, RegisterKey, Register, ForgetAnnounced,
          Send, Arrive, Tick, vars
    <2>3. \A i : Told(i)' = Told(i)
      BY <1>3, <2>2 DEF Told
    <2> QED
      BY <1>3, <2>1, <2>3 DEF ToldInv, Old
  <1>4. ASSUME NEW news \in Properties \cup {None},
               Announce(news), news # None => Near(news.key),
               UNCHANGED <<now, key, table>>, ~Rotate, ~Tick
        PROVE  ToldInv'
    BY <1>0, <1>4, Turns, ToldMore
  <1> QED
    BY <1>1, <1>2, <1>3, <1>4, Announcing

(* A request is on its way for as long as the key it was sent with is      *)
(* good.                                                                   *)
LEMMA RequestStep ==
  ASSUME TypeInv, NotedInv, FreshInv, AirInv, ToldInv, RequestInv,
         [Next]_vars, mishaps = {}, mishaps' = {}
  PROVE  RequestInv'
  <1>0. /\ TypeOK /\ Sound /\ now \in Nat /\ key \in Nat /\ RotatedAt \in Int
        /\ RotatedAt <= now
        /\ req # None => req.until \in Nat /\ req.key \in Nat \cup {None}
    BY Instants DEF Sound, TypeInv, TypeOK, Request
  <1>1. CASE Send
    <2>1. /\ UNCHANGED <<now, key>>
          /\ req' = [key |-> IF table = None THEN None ELSE table.key,
                     until |-> now + Transit]
      BY <1>1 DEF Send
    <2>2. ~Tick /\ ~Rotate
      BY <1>0, <2>1 DEF Tick, Rotate
    <2>3. RotatedAt' = RotatedAt
      BY <2>2, Turns
    <2>4. /\ req'.until = now + Transit
          /\ \/ req'.key = None
             \/ table # None /\ req'.key = table.key
      BY <2>1
    <2>5. 0 \in 0 .. Len(air) /\ Told(0) = table
      BY <1>0, AirTypes DEF Told
    <2>6. table # None => /\ table.key \in {key, key - 1}
                          /\ table.key # key =>
                               now <= RotatedAt + Refresh + Delay
      BY <1>0, <2>5, OldUntil DEF ToldInv, Old
    <2> QED
      BY <1>0, <2>1, <2>3, <2>4, <2>6 DEF RequestInv
  <1>2. CASE Arrive
    BY <1>2 DEF Arrive, RequestInv
  <1>3. CASE Rotate
    <2>1. UNCHANGED <<now, req>> /\ key' = key + 1
      BY <1>3 DEF Rotate
    <2>2. ~Tick
      BY <1>0, <2>1 DEF Tick
    <2>3. RotatedAt' = now /\ now = RotatedAt + Rotation
      BY <1>3, <2>2, Turns
    <2>4. req # None => ~(req.until <= RotatedAt + Refresh + Delay + Transit)
      BY <1>0, <2>3, Paces DEF RequestInv
    <2> QED
      BY <1>0, <2>1, <2>3, <2>4 DEF RequestInv
  <1>4. CASE Tick
    <2>1. /\ UNCHANGED <<req, key>> /\ now' = now + 1
          /\ RequestDue => "stalled" \in mishaps'
      BY <1>4 DEF Tick
    <2>2. RotatedAt' = RotatedAt
      <3>1. ~Rotate
        BY <1>0, <2>1 DEF Rotate
      <3> QED
        BY <1>4, <3>1, Turns
    <2>3. req # None => now < req.until
      BY <1>0, <2>1 DEF RequestDue
    <2> QED
      BY <1>0, <2>1, <2>2, <2>3 DEF RequestInv
  <1>5. CASE ~Send /\ ~Arrive /\ ~Rotate /\ ~Tick
    <2>1. UNCHANGED req
      BY <1>5
      DEF Next, PublishKey, RotationDone, RefreshConfig, RefreshKey,
          RefreshCompare, RefreshAnnounce, OpenDialog, CloseDialog, Rename,
          Unregister, RegisterConfig, RegisterKey, Register, ForgetAnnounced,
          Hear, vars
    <2>2. UNCHANGED <<now, key>> /\ RotatedAt' = RotatedAt
      BY <1>5, Turns
    <2> QED
      BY <2>1, <2>2 DEF RequestInv
  <1> QED
    BY <1>1, <1>2, <1>3, <1>4, <1>5

LEMMA RefusedStep ==
  ASSUME TypeInv, RequestInv, [Next]_vars, ~refused
  PROVE  ~refused'
  <1>0. /\ now \in Nat /\ key \in Nat /\ RotatedAt \in Int
        /\ req # None => req.until \in Nat /\ req.key \in Nat \cup {None}
    BY Instants DEF TypeInv, TypeOK, Request
  <1>1. CASE Arrive
    <2>1. CASE req.key \in {None, key}
      BY <1>1, <2>1 DEF Arrive, Understands
    <2>2. CASE /\ req.key = key - 1 /\ req.key # None
               /\ req.until <= RotatedAt + Refresh + Delay + Transit
      <3>1. /\ req.key \in Nat /\ req.until \in Nat /\ now <= req.until
            /\ key # 0
        BY <1>0, <1>1, <2>2 DEF Arrive, RequestInv
      <3>2. prev = key - 1 /\ prevUntil = RotatedAt + Grace
        BY <3>1 DEF TypeInv, RotInv
      <3>3. now < prevUntil
        BY <1>0, <2>2, <3>1, <3>2, Paces
      <3>4. Understands(req.key)
        BY <2>2, <3>2, <3>3 DEF Understands
      <3> QED
        BY <1>1, <3>4 DEF Arrive
    <2> QED
      BY <1>1, <2>1, <2>2 DEF Arrive, RequestInv
  <1>2. CASE ~Arrive
    BY <1>2
    DEF Next, Rotate, PublishKey, RotationDone, RefreshConfig, RefreshKey,
        RefreshCompare, RefreshAnnounce, OpenDialog, CloseDialog, Rename,
        Unregister, RegisterConfig, RegisterKey, Register, ForgetAnnounced,
        Hear, Send, Tick, vars
  <1> QED
    BY <1>1, <1>2

LEMMA PeerStep ==
  TypeInv /\ NotedInv /\ FreshInv /\ AirInv /\ PeerInv /\ [Next]_vars => PeerInv'
  <1> SUFFICES ASSUME TypeInv, NotedInv, FreshInv, AirInv, PeerInv, [Next]_vars,
                      mishaps' = {}
               PROVE  ToldInv' /\ RequestInv' /\ ~refused'
    BY DEF PeerInv
  <1>1. mishaps = {}
    BY MishapsStay
  <1>2. ToldInv /\ RequestInv /\ ~refused
    BY <1>1 DEF PeerInv
  <1> QED
    BY <1>1, <1>2, ToldStep, RequestStep, RefusedStep

(* A request is understood although the keys change, unless one of the     *)
(* four mishaps has come in between (lib.rs:29-42, crypto.rs:258-291).     *)
THEOREM KeysOverlap == Spec => []RequestsUnderstood
  <1>1. PeerInv => RequestsUnderstood
    BY DEF PeerInv, RequestsUnderstood
  <1> QED
    BY <1>1, TypeInit, TypeStep, RefrInit, RefrStep, NotedStep, FreshInit,
       FreshStep, AirInit, AirStep, PeerStep, PTL DEF Spec
=============================================================================
