-------------------------- MODULE KeyAnnouncements --------------------------
(***************************************************************************)
(* How the ephemeral key of a machine and its sharing configuration reach  *)
(* a peer, and whether the peer's requests are understood                  *)
(* (src/src-tauri/src/crypto.rs, discovery.rs, lib.rs and http_api.rs).    *)
(*                                                                         *)
(* On the machine three threads share a few cells, each with a lock of its *)
(* own: one rotates the key, one announces what has changed, and the       *)
(* window announces again after a rename or a change of the room and holds *)
(* the lock of the configuration while its dialogs are open.  The peer     *)
(* keeps what it heard in its table and encrypts with the key it finds     *)
(* there.                                                                  *)
(*                                                                         *)
(* A thread does its steps at one instant, in any order with the others';  *)
(* time passes in sleeps, in dialogs and on the network.                   *)
(***************************************************************************)
EXTENDS Integers, Sequences

CONSTANTS
  Configs,    (* the sharing status and limits                             *)
  None,       (* nothing                                                   *)
  Rotation,   (* ROTATION_INTERVAL                                         *)
  Grace,      (* KEY_GRACE                                                 *)
  Refresh,    (* the sleep of the announcing thread                        *)
  RateLimit,  (* RATE_LIMIT_SECS                                           *)
  Delay,      (* the longest time an announcement is under way             *)
  Transit,    (* the longest time a request is under way                   *)
  MaxUses,    (* bound: commands of the window                             *)
  EndOfTime   (* bound: the last instant                                   *)

ASSUME TimeAssumption ==
  {Rotation, Grace, Refresh, RateLimit, Delay, Transit, MaxUses, EndOfTime}
    \subseteq Nat

(* A new key is announced and heard of while the old one is still good.    *)
ASSUME PaceAssumption ==
  /\ 0 < Refresh /\ Grace < Rotation
  /\ Refresh + Delay + Transit < Grace

(* What is announced; the name and the number of GPUs are left out.        *)
Properties == [config : Configs, key : Nat]

ASSUME NoneAssumption == None \notin Nat \cup Properties

VARIABLES
  now,
  config,    (* SharingController                                          *)
  key, prev, prevUntil,  (* KeyState: the keys are numbered                *)
  cell,      (* eph_pk_b64 of Discovery                                    *)
  last,      (* last_announced                                             *)
  record,    (* what the mDNS daemon answers with                          *)
  rot,       (* the rotating thread                                        *)
  refr,      (* the announcing thread                                      *)
  ui,        (* the main thread, which runs the commands of the window     *)
  air,       (* announcements on their way to the peer                     *)
  table,     (* the peer's record of this machine                          *)
  heard,     (* when the peer last took an announcement: its PeerMeta      *)
  req,       (* a request of the peer on its way                           *)
  refused,   (* history: a request could not be decrypted                  *)
  changed,   (* history: when there was last something to announce         *)
  mishaps,   (* history: what happened of the mishaps below                *)
  uses       (* counter for the bound                                      *)

keys == <<key, prev, prevUntil>>
peer == <<table, heard, req, refused>>
vars == <<now, config, keys, cell, last, record, rot, refr, ui, air, peer,
          changed, mishaps, uses>>

(* lost: the announcing thread has noted an announcement as made, but the  *)
(* machine had no address.  overtaken: a rename announced something other  *)
(* than what the announcing thread takes for announced.  dropped: the peer *)
(* found that news came too soon.  stalled: an open dialog kept the        *)
(* announcing thread or a request waiting.                                 *)
Mishaps == {"lost", "overtaken", "dropped", "stalled"}

Thread == [step : {"sleep", "cell", "last", "key", "compare", "announce"},
           wake : Nat, copy : Properties]
Command == [step : {"idle", "dialog", "properties", "key", "register",
                    "forget"},
            kind : {"none", "dialog", "rename", "room"}, copy : Properties]
Request == [key : Nat \cup {None}, until : Nat]

Init ==
  /\ now = 0
  /\ config \in Configs
  /\ key = 0 /\ prev = None /\ prevUntil = 0
  /\ cell = 0
  /\ last = None
  /\ record = [config |-> config, key |-> 0]
  /\ rot = [step |-> "sleep", wake |-> Rotation, copy |-> record]
  /\ refr = [step |-> "sleep", wake |-> Refresh, copy |-> record]
  /\ ui = [step |-> "idle", kind |-> "none", copy |-> record]
  /\ air = <<>>
  /\ table \in {None, record}
  /\ heard = IF table = None THEN None ELSE 0
  /\ req = None
  /\ refused = FALSE
  /\ changed = 0
  /\ mishaps = {}
  /\ uses = 0

Dialog == ui.step = "dialog"

(* A registration is announced.                                            *)
Announce(news) ==
  /\ record' = news
  /\ air' = Append(air, [news |-> news, by |-> now + Delay])

-----------------------------------------------------------------------------
(* spawn_eph_rotation.                                                     *)

(* Fault: the new key is put in both places.                               *)
FaultNewTwice == key + 1

Demoted == key

(* EphemeralKey::rotate.                                                   *)
Rotate ==
  /\ rot.step = "sleep" /\ rot.wake = now
  /\ key' = key + 1
  /\ prev' = Demoted
  /\ prevUntil' = now + Grace
  /\ rot' = [rot EXCEPT !.step = "cell"]
  /\ UNCHANGED <<now, config, cell, last, record, refr, ui, air, peer,
                 changed, mishaps, uses>>

(* Discovery::set_ephemeral_pubkey, its first lock.                        *)
PublishKey ==
  /\ rot.step = "cell"
  /\ cell' = key
  /\ changed' = now
  /\ rot' = [rot EXCEPT !.step = "last"]
  /\ UNCHANGED <<now, config, keys, last, record, refr, ui, air, peer,
                 mishaps, uses>>

(* Its second lock; then gc_expired, and the thread sleeps.                *)
RotationDone ==
  /\ rot.step = "last"
  /\ last' = None
  /\ prev' = IF now >= prevUntil THEN None ELSE prev
  /\ rot' = [rot EXCEPT !.step = "sleep", !.wake = now + Rotation]
  /\ UNCHANGED <<now, config, key, prevUntil, cell, record, refr, ui, air,
                 peer, changed, mishaps, uses>>

-----------------------------------------------------------------------------
(* start_mdns_refresh.                                                     *)

RefreshSleeps == refr' = [refr EXCEPT !.step = "sleep", !.wake = now + Refresh]

(* get_config waits for the lock of the configuration.                     *)
RefreshConfig ==
  /\ refr.step = "sleep" /\ refr.wake <= now
  /\ ~Dialog
  /\ refr' = [refr EXCEPT !.step = "key", !.copy.config = config]
  /\ UNCHANGED <<now, config, keys, cell, last, record, rot, ui, air, peer,
                 changed, mishaps, uses>>

(* The GPUs have been counted meanwhile.                                   *)
RefreshKey ==
  /\ refr.step = "key"
  /\ refr' = [refr EXCEPT !.step = "compare", !.copy.key = cell]
  /\ UNCHANGED <<now, config, keys, cell, last, record, rot, ui, air, peer,
                 changed, mishaps, uses>>

(* Under one lock: nothing to do, or noted as announced.                   *)
RefreshCompare ==
  /\ refr.step = "compare"
  /\ last' = refr.copy
  /\ IF last = refr.copy THEN RefreshSleeps
     ELSE refr' = [refr EXCEPT !.step = "announce"]
  /\ UNCHANGED <<now, config, keys, cell, record, rot, ui, air, peer,
                 changed, mishaps, uses>>

(* local_ip finds an address, or the announcement is lost.                 *)
RefreshAnnounce ==
  /\ refr.step = "announce"
  /\ RefreshSleeps
  /\ \/ Announce(refr.copy) /\ UNCHANGED mishaps
     \/ mishaps' = mishaps \cup {"lost"} /\ UNCHANGED <<record, air>>
  /\ UNCHANGED <<now, config, keys, cell, last, rot, ui, peer, changed, uses>>

-----------------------------------------------------------------------------
(* The window: one command at a time.                                      *)

UiStep(step) == ui' = [ui EXCEPT !.step = step]

(* enable, disable, pause, resume and set_limits, under the lock of the    *)
(* configuration.                                                          *)
OpenDialog ==
  /\ ui.step = "idle" /\ uses < MaxUses
  /\ ui' = [ui EXCEPT !.step = "dialog", !.kind = "dialog"]
  /\ uses' = uses + 1
  /\ UNCHANGED <<now, config, keys, cell, last, record, rot, refr, air, peer,
                 changed, mishaps>>

CloseDialog ==
  /\ Dialog
  /\ config' \in Configs
  /\ changed' = now
  /\ UiStep("idle")
  /\ UNCHANGED <<now, keys, cell, last, record, rot, refr, air, peer,
                 mishaps, uses>>

(* set_display_name.                                                       *)
Rename ==
  /\ ui.step = "idle" /\ uses < MaxUses
  /\ ui' = [ui EXCEPT !.step = "properties", !.kind = "rename"]
  /\ uses' = uses + 1
  /\ UNCHANGED <<now, config, keys, cell, last, record, rot, refr, air, peer,
                 changed, mishaps>>

(* create_room, join_room and leave_room end with                          *)
(* force_refresh_announcement: unregister, a goodbye to the peers.         *)
Unregister ==
  /\ ui.step = "idle" /\ uses < MaxUses
  /\ ui' = [ui EXCEPT !.step = "properties", !.kind = "room"]
  /\ uses' = uses + 1
  /\ Announce(None)
  /\ UNCHANGED <<now, config, keys, cell, last, rot, refr, peer, changed,
                 mishaps>>

AfterRegister == IF ui.kind = "room" THEN "forget" ELSE "idle"

(* register: no address and nothing happens; otherwise it reads the        *)
(* configuration,                                                          *)
RegisterConfig ==
  /\ ui.step = "properties"
  /\ \/ ui' = [ui EXCEPT !.step = "key", !.copy.config = config]
     \/ UiStep(AfterRegister)
  /\ UNCHANGED <<now, config, keys, cell, last, record, rot, refr, air, peer,
                 changed, mishaps, uses>>

(* and the key once the GPUs have been counted,                            *)
RegisterKey ==
  /\ ui.step = "key"
  /\ ui' = [ui EXCEPT !.step = "register", !.copy.key = cell]
  /\ UNCHANGED <<now, config, keys, cell, last, record, rot, refr, air, peer,
                 changed, mishaps, uses>>

(* and announces what it read.                                             *)
Register ==
  /\ ui.step = "register"
  /\ Announce(ui.copy)
  /\ UiStep(AfterRegister)
  /\ mishaps' = IF ui.kind = "rename" /\ last \notin {None, ui.copy}
                THEN mishaps \cup {"overtaken"} ELSE mishaps
  /\ UNCHANGED <<now, config, keys, cell, last, rot, refr, peer, changed,
                 uses>>

(* Fault: the announcing thread is not told.                               *)
FaultRegisterOnly == last

Forgotten == None

(* The end of force_refresh_announcement.                                  *)
ForgetAnnounced ==
  /\ ui.step = "forget"
  /\ last' = Forgotten
  /\ changed' = now
  /\ UiStep("idle")
  /\ UNCHANGED <<now, config, keys, cell, record, rot, refr, air, peer,
                 mishaps, uses>>

-----------------------------------------------------------------------------
(* The peer.                                                               *)

TooSoon == heard # None /\ now - heard < RateLimit

(* start_browsing: ServiceRemoved forgets the record and its time,         *)
(* ServiceResolved replaces the record unless it comes too soon.           *)
Hear ==
  /\ air # <<>>
  /\ air' = Tail(air)
  /\ LET news == Head(air).news IN
     IF news = None
     THEN table' = None /\ heard' = None /\ UNCHANGED mishaps
     ELSE IF TooSoon
     THEN /\ UNCHANGED <<table, heard>>
          /\ mishaps' = IF news = table THEN mishaps
                        ELSE mishaps \cup {"dropped"}
     ELSE table' = news /\ heard' = now /\ UNCHANGED mishaps
  /\ UNCHANGED <<now, config, keys, cell, last, record, rot, refr, ui, req,
                 refused, changed, uses>>

(* encrypt_for: with the key of the table, or the room's (v1) without one. *)
Send ==
  /\ req = None
  /\ req' = [key |-> IF table = None THEN None ELSE table.key,
             until |-> now + Transit]
  /\ UNCHANGED <<now, config, keys, cell, last, record, rot, refr, ui, air,
                 table, heard, refused, changed, mishaps, uses>>

(* Fault: only the current key is tried.                                   *)
FaultCurrentOnly(k) == k \in {None, key}

(* decrypt_request_v2 with dh_candidates; a v1 envelope needs none.        *)
Understands(k) == k \in {None, key} \/ (k = prev /\ now < prevUntil)

(* The machine asks for the status of sharing, under the lock of the       *)
(* configuration, before it decrypts.                                      *)
Arrive ==
  /\ req # None
  /\ ~Dialog
  /\ refused' = (refused \/ ~Understands(req.key))
  /\ req' = None
  /\ UNCHANGED <<now, config, keys, cell, last, record, rot, refr, ui, air,
                 table, heard, changed, mishaps, uses>>

-----------------------------------------------------------------------------
(* Time.                                                                   *)

RefreshDue == refr.wake <= now
RequestDue == req # None /\ req.until <= now

(* Time passes when every thread sleeps and nothing is overdue, except for *)
(* what waits for a dialog.                                                *)
Tick ==
  /\ now < EndOfTime
  /\ rot.step = "sleep" /\ now < rot.wake
  /\ refr.step = "sleep" /\ (RefreshDue => Dialog)
  /\ ui.step \in {"idle", "dialog"}
  /\ \A i \in 1 .. Len(air) : now < air[i].by
  /\ RequestDue => Dialog
  /\ now' = now + 1
  /\ mishaps' = IF RefreshDue \/ RequestDue THEN mishaps \cup {"stalled"}
                ELSE mishaps
  /\ UNCHANGED <<config, keys, cell, last, record, rot, refr, ui, air, peer,
                 changed, uses>>

Next ==
  \/ Rotate \/ PublishKey \/ RotationDone
  \/ RefreshConfig \/ RefreshKey \/ RefreshCompare \/ RefreshAnnounce
  \/ OpenDialog \/ CloseDialog \/ Rename \/ Unregister
  \/ RegisterConfig \/ RegisterKey \/ Register \/ ForgetAnnounced
  \/ Hear \/ Send \/ Arrive \/ Tick

Spec == Init /\ [][Next]_vars

-----------------------------------------------------------------------------
(* Properties.                                                             *)

(* Every variable keeps its type; the previous key is the one before the   *)
(* current one.                                                            *)
TypeOK ==
  /\ now \in 0 .. EndOfTime
  /\ config \in Configs
  /\ key \in Nat /\ cell \in {key, key - 1}
  /\ prev \in {None, key - 1} /\ prevUntil \in Nat
  /\ last \in Properties \cup {None}
  /\ record \in Properties \cup {None}
  /\ rot \in Thread /\ refr \in Thread /\ ui \in Command
  /\ air \in Seq([news : Properties \cup {None}, by : Nat])
  /\ table \in Properties \cup {None}
  /\ heard \in Nat \cup {None}
  /\ req \in Request \cup {None}
  /\ refused \in BOOLEAN
  /\ changed \in Nat
  /\ mishaps \subseteq Mishaps
  /\ uses \in 0 .. MaxUses

(* A request of a peer is understood although the keys change, as long as  *)
(* none of the four mishaps has come in between: nothing else can leave a  *)
(* peer with a key that is too old (lib.rs:29-42, crypto.rs:258-291).      *)
RequestsUnderstood == mishaps = {} => ~refused

(* One sleep of the announcing thread after the last change, the machine   *)
(* announces what is the case, whatever the window did meanwhile and in    *)
(* whatever order the two threads registered; but for a rename that        *)
(* overtook the thread and an announcement that was lost                   *)
(* (discovery.rs:202-208, 240-325).                                        *)
RecordCatchesUp ==
  (/\ mishaps \subseteq {"dropped"}
   /\ ui.step \in {"idle", "dialog"}
   /\ changed + Refresh < now)
  => record = [config |-> config, key |-> cell]

=============================================================================
