---------------------------- MODULE PeerAdmission ----------------------------
(***************************************************************************)
(* How a machine admits the requests of its peers                          *)
(* (src/src-tauri/src/peer_api.rs, with crypto.rs and auth.rs).            *)
(*                                                                         *)
(* One handler per connection.  Once it has read a request it does not     *)
(* give up its worker thread before the answer is ready to be written, and *)
(* there are two of them; between two locks, though, the handlers          *)
(* interleave with each other and with the window of the application,      *)
(* which changes the room and, holding the lock of the configuration for   *)
(* as long as its dialogs are open, the status of sharing.                 *)
(*                                                                         *)
(* Time counts in the unit of the time stamps.  A request may reach the    *)
(* machine late, and any number of times.                                  *)
(***************************************************************************)
EXTENDS Integers, FiniteSets

CONSTANTS
  Posts,       (* requests with a body: submissions                        *)
  Polls,       (* requests without: polls and cancels                      *)
  Conns,       (* the connections served at a time                         *)
  Rooms,       (* the rooms, by their key                                  *)
  NoRoom,      (* not in a room                                            *)
  None,        (* nothing sent, no connection, no entry                    *)
  Workers,     (* worker_threads                                           *)
  Second,      (* time units of a second                                   *)
  Window,      (* AUTH_WINDOW_MS                                           *)
  Retention,   (* REPLAY_RETENTION_SECS                                    *)
  CacheMax,    (* REPLAY_CACHE_MAX_ENTRIES                                 *)
  MaxAhead,    (* how far the clock of a sender may be ahead of ours       *)
  MaxStall,    (* the longest time between two steps of an admission       *)
  EndOfTime,   (* bound: the last instant                                  *)
  MaxMoves,    (* bound: changes of the room                               *)
  MaxToggles   (* bound: changes of the status of sharing                  *)

ASSUME TimeAssumption ==
  /\ Second \in Nat \ {0} /\ Window \in Nat /\ Retention \in Nat \ {0}
  /\ MaxAhead \in Nat /\ MaxStall \in Nat /\ EndOfTime \in Nat
(* What the cache needs to remember a header for as long as it is good; an *)
(* entry's age is known to the second only.                                *)
ASSUME RetentionAssumption ==
  MaxAhead + Window + MaxStall <= (Retention - 1) * Second
ASSUME LimitAssumption ==
  Workers \in Nat /\ CacheMax \in Nat /\ MaxMoves \in Nat /\ MaxToggles \in Nat
ASSUME FiniteAssumption == IsFiniteSet(Conns)
ASSUME SortAssumption == Posts \cap Polls = {} /\ NoRoom \notin Rooms

Requests == Posts \cup Polls

VARIABLES
  now,      (* the clock of this machine                                   *)
  room,     (* RoomState                                                   *)
  active,   (* sharing is Active                                           *)
  dialog,   (* a sharing command holds the lock of the configuration       *)
  sent,     (* the requests under way: they can arrive from now on         *)
  conn,     (* what each connection's handler is doing                     *)
  cache,    (* the replay cache: when each request was let in, in seconds  *)
  seen,     (* history: let in since the cache was last cleared or lost    *)
  again,    (* history: let in twice since then                            *)
  late,     (* history: tasks started since sharing stopped                *)
  moves, toggles  (* counters for the bounds                               *)

vars == <<now, room, active, dialog, sent, conn, cache, seen, again, late,
          moves, toggles>>

(* The header (its time stamp, and the room whose key signed it) and the   *)
(* room whose key encrypted the body.  Both are read separately.           *)
Message == [ts : Nat, room : Rooms, key : Rooms]

Steps == {"key", "joined", "status", "verify", "cache", "run", "answer"}

(* key: the room key of the handler.  since: when it verified the header.  *)
(* moved: the room has changed since the request was read.                 *)
Handler == [step : Steps, req : Requests,
            key : Rooms \cup {NoRoom}, since : Nat, moved : BOOLEAN]

ASSUME NoneAssumption == None \notin Message \cup Handler \cup Requests \cup Nat

Init ==
  /\ now = 0
  /\ room \in Rooms \cup {NoRoom}
  /\ active = TRUE
  /\ dialog = FALSE
  /\ sent = [r \in Requests |-> None]
  /\ conn = [c \in Conns |-> None]
  /\ cache = [r \in Requests |-> None]
  /\ seen = {}
  /\ again = {}
  /\ late = 0
  /\ moves = 0
  /\ toggles = 0

history == <<seen, again, late>>
world == <<now, room, active, dialog, sent, moves, toggles>>

At(c, step) == conn[c] # None /\ conn[c].step = step

(* The handler has a worker thread, and no await before the answer's.      *)
Busy(c) == conn[c] # None /\ conn[c].step # "answer"

-----------------------------------------------------------------------------
(* The peers and the network.                                              *)

(* A peer in a room encrypts a request and signs it.  A clock that is      *)
(* behind ours makes no difference that a slow network does not make.      *)
Send(r) ==
  /\ sent[r] = None
  /\ \E ts \in now .. now + MaxAhead, s \in Rooms, k \in Rooms :
       /\ r \in Polls => k = s
       /\ sent' = [sent EXCEPT ![r] = [ts |-> ts, room |-> s, key |-> k]]
  /\ UNCHANGED <<now, room, active, dialog, conn, cache, history, moves,
                 toggles>>

WorkerFree == Cardinality({c \in Conns : Busy(c)}) < Workers

(* A connection got a permit of the semaphore, its request has been read,  *)
(* and a worker goes on with it.                                           *)
Receive(c, r) ==
  /\ conn[c] = None
  /\ sent[r] # None
  /\ WorkerFree
  /\ conn' = [conn EXCEPT ![c] = [step |-> "key", req |-> r, key |-> NoRoom,
                                  since |-> 0, moved |-> FALSE]]
  /\ UNCHANGED <<world, cache, history>>

-----------------------------------------------------------------------------
(* handle_connection, after the request was read.                          *)

Goto(c, step) == conn' = [conn EXCEPT ![c].step = step]
Refuse(c) == conn' = [conn EXCEPT ![c] = None]
Sent(c) == sent[conn[c].req]

(* Fault: the key of no room is taken for one.                             *)
FaultUnwrap == IF room = NoRoom THEN None ELSE room

(* get_secret and derive_room_key: no key if the machine is in no room.    *)
RoomKey == room

ReadKey(c) ==
  /\ At(c, "key")
  /\ conn' = [conn EXCEPT ![c] = [@ EXCEPT !.step = "joined", !.key = RoomKey]]
  /\ UNCHANGED <<world, cache, history>>

(* 403 if the machine is in no room.                                       *)
CheckJoined(c) ==
  /\ At(c, "joined")
  /\ IF room = NoRoom THEN Refuse(c) ELSE Goto(c, "status")
  /\ UNCHANGED <<world, cache, history>>

(* Fault: the lock is waited for, the status is not looked at.             *)
FaultStatusIgnored(c) ==
  /\ At(c, "status") /\ ~dialog
  /\ Goto(c, "verify")
  /\ UNCHANGED <<world, cache, history>>

(* 403 if sharing is not active.  get_config waits for the lock.           *)
CheckStatus(c) ==
  /\ At(c, "status")
  /\ ~dialog
  /\ IF active THEN Goto(c, "verify") ELSE Refuse(c)
  /\ UNCHANGED <<world, cache, history>>

(* The time stamp and our clock differ by the window at most.              *)
InWindow(ts) == now - ts <= Window /\ ts - now <= Window

(* Fault: a header is good in whatever room it was signed.                 *)
FaultAnyRoom(c) == room # NoRoom

SignedHere(c) == room # NoRoom /\ Sent(c).room = room

(* verify_request_auth, under the lock of the room: 401 otherwise.         *)
Verify(c) ==
  /\ At(c, "verify")
  /\ IF SignedHere(c) /\ InWindow(Sent(c).ts)
     THEN conn' = [conn EXCEPT ![c] = [@ EXCEPT !.step = "cache",
                                                !.since = now]]
     ELSE Refuse(c)
  /\ UNCHANGED <<world, cache, history>>

(* Fault: entries are kept for one window instead of two.                  *)
FaultOneWindow(at) == (now \div Second) - at < Retention \div 2

Young(at) == (now \div Second) - at < Retention

Kept == {r \in Requests : cache[r] # None /\ Young(cache[r])}

(* What the cache knows once the old entries are dropped; a full one is    *)
(* cleared.                                                                *)
Full == Cardinality(Kept) >= CacheMax
Known == IF Full THEN {} ELSE Kept

(* History: a cache that is cleared starts afresh.                         *)
Remaining(known) == IF Full THEN {} ELSE known

(* check_and_insert, under the lock of the cache: 401 for a replay.  The   *)
(* entries that are dropped are dropped either way.                        *)
CheckCache(c) ==
  /\ At(c, "cache")
  /\ LET q == conn[c].req IN
     /\ cache' = [r \in Requests |->
                    IF r \in Known THEN cache[r]
                    ELSE IF r = q THEN now \div Second ELSE None]
     /\ IF q \in Known
        THEN Refuse(c) /\ UNCHANGED <<seen, again>>
        ELSE /\ conn' = [conn EXCEPT ![c] =
                  [@ EXCEPT !.step = IF q \in Posts THEN "run" ELSE "answer",
                            !.since = 0]]
             /\ seen' = Remaining(seen) \cup {q}
             /\ again' = again \cup ({q} \cap Remaining(seen))
  /\ UNCHANGED <<world, late>>

(* The body is decrypted with the key that was read first: 415 if that is  *)
(* not the key of the sender.  Then handle_submit: get_config for the GPU  *)
(* limit, which waits for the lock, and create_and_run.  The status is not *)
(* asked again.                                                            *)
Run(c) ==
  /\ At(c, "run")
  /\ IF conn[c].key # Sent(c).key
     THEN Refuse(c) /\ UNCHANGED late
     ELSE /\ ~dialog
          /\ Goto(c, "answer")
          /\ late' = IF active THEN late ELSE late + 1
  /\ UNCHANGED <<world, cache, seen, again>>

(* The answer, encrypted with the key of the request; one that could not   *)
(* be derived leaves it in the clear.                                      *)
Answer(c) ==
  /\ At(c, "answer")
  /\ conn' = [conn EXCEPT ![c] = None]
  /\ UNCHANGED <<world, cache, history>>

-----------------------------------------------------------------------------
(* The window of the application, the clock, and the end of the program.   *)

MoveAll == [c \in Conns |->
              IF conn[c] = None THEN None
              ELSE [conn[c] EXCEPT !.moved = TRUE]]

(* create_room, join_room, leave_room.                                     *)
ChangeRoom(s) ==
  /\ moves < MaxMoves
  /\ s # room
  /\ room' = s
  /\ moves' = moves + 1
  /\ conn' = MoveAll
  /\ UNCHANGED <<now, active, dialog, sent, cache, history, toggles>>

(* enable, disable, pause, resume take the lock and open their dialogs.    *)
OpenDialog ==
  /\ ~dialog
  /\ toggles < MaxToggles
  /\ dialog' = TRUE
  /\ toggles' = toggles + 1
  /\ UNCHANGED <<now, room, active, sent, conn, cache, history, moves>>

(* They end with another status, or with the same if they were refused.    *)
CloseDialog ==
  /\ dialog
  /\ dialog' = FALSE
  /\ active' \in BOOLEAN
  /\ late' = IF active' THEN 0 ELSE late
  /\ UNCHANGED <<now, room, sent, conn, cache, seen, again, moves, toggles>>

(* The clock goes on, but no handler stays between two locks for longer    *)
(* than MaxStall.                                                          *)
Tick ==
  /\ now < EndOfTime
  /\ \A c \in Conns : At(c, "cache") => now < conn[c].since + MaxStall
  /\ now' = now + 1
  /\ UNCHANGED <<room, active, dialog, sent, conn, cache, history, moves,
                 toggles>>

(* The application is started again: the room is read from its file, the   *)
(* cache is gone, sharing is off.                                          *)
Restart ==
  /\ toggles < MaxToggles
  /\ toggles' = toggles + 1
  /\ active' = FALSE
  /\ dialog' = FALSE
  /\ conn' = [c \in Conns |-> None]
  /\ cache' = [r \in Requests |-> None]
  /\ seen' = {}
  /\ again' = {}
  /\ late' = 0
  /\ UNCHANGED <<now, room, sent, moves>>

Handle(c) ==
  \/ ReadKey(c) \/ CheckJoined(c) \/ CheckStatus(c) \/ Verify(c)
  \/ CheckCache(c) \/ Run(c) \/ Answer(c)

Next ==
  \/ \E r \in Requests : Send(r)
  \/ \E c \in Conns : Handle(c)
  \/ \E c \in Conns, r \in Requests : Receive(c, r)
  \/ \E s \in Rooms \cup {NoRoom} : ChangeRoom(s)
  \/ OpenDialog \/ CloseDialog \/ Tick \/ Restart

Spec == Init /\ [][Next]_vars

-----------------------------------------------------------------------------
(* Properties.                                                             *)

(* Every variable keeps its type.                                          *)
TypeOK ==
  /\ now \in Nat
  /\ room \in Rooms \cup {NoRoom}
  /\ active \in BOOLEAN
  /\ dialog \in BOOLEAN
  /\ sent \in [Requests -> Message \cup {None}]
  /\ conn \in [Conns -> Handler \cup {None}]
  /\ cache \in [Requests -> Nat \cup {None}]
  /\ seen \in SUBSET Requests
  /\ again \in SUBSET Requests
  /\ late \in Nat
  /\ moves \in Nat
  /\ toggles \in Nat

(* A request that the network brings twice, to two connections at a time   *)
(* or much later, is let in once for as long as the cache was neither full *)
(* nor lost with the program (peer_api.rs:49, 315-330).                    *)
AcceptedOnce == again = {}

(* A handler asks for the status once, early; a task may therefore start   *)
(* after the owner has stopped sharing, but no more of them than there are *)
(* worker threads (peer_api.rs:174, 291, 644).                             *)
FewLateStarts == late <= Workers

(* The owner of the machine may change the room at any time.  Unless that  *)
(* happens to the very request, a request that was let in is one of the    *)
(* room the machine is in, and its answer is encrypted with the key its    *)
(* sender expects, never left in the clear; the answer to a submission is  *)
(* so in any case (peer_api.rs:274, 285, 309, 376, 442).                   *)
AnsweredWithItsKey ==
  \A c \in Conns : At(c, "answer") =>
    IF conn[c].req \in Posts
    THEN conn[c].key = Sent(c).key /\ (~conn[c].moved => Sent(c).room = room)
    ELSE ~conn[c].moved => conn[c].key = Sent(c).room /\ Sent(c).room = room

=============================================================================
