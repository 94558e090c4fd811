------------------------------- MODULE Sharing -------------------------------
(***************************************************************************)
(* Sharing of this machine: the controller of the application              *)
(* (src/src-tauri/src/sharing.rs), the commands it runs as root            *)
(* (user_manager.rs, helper/src/main.rs) and what they leave on the        *)
(* machine.                                                                *)
(*                                                                         *)
(* The commands of the window run on one thread, one after the other, and  *)
(* hold the lock of the configuration to their end.  Each is a sequence of *)
(* privileged calls; every call opens a password dialog that the owner may *)
(* refuse.  Only the installation of the managed venv runs beside them.    *)
(* The application can end between any two calls, the machine can be       *)
(* restarted, and what was done to it stays.                               *)
(***************************************************************************)
EXTENDS Naturals

CONSTANTS
  Cpus,          (* values of the cpu slider, in percent                   *)
  Rams,          (* values of the memory slider, 0 for no limit            *)
  DefaultLimit,  (* what the application starts with                       *)
  HasMps,        (* the machine has nvidia-cuda-mps-control                *)
  MayFail,       (* dialogs are refused, writes and commands fail          *)
  NoCgroup       (* /sys/fs/cgroup/partagpu does not exist                 *)

Limits == [cpu : Cpus, ram : Rams]
FullLimit == [cpu |-> 100, ram |-> 0]

ASSUME CpuAssumption == Cpus \subseteq 0 .. 100 /\ 100 \in Cpus
ASSUME RamAssumption == Rams \subseteq Nat /\ 0 \in Rams
ASSUME DefaultAssumption == DefaultLimit \in Limits
ASSUME FlagAssumption == HasMps \in BOOLEAN /\ MayFail \in BOOLEAN
ASSUME NoCgroupAssumption == NoCgroup \notin Limits

VARIABLES
  status,  (* SharingConfig.status                                         *)
  limit,   (* the limits of SharingConfig                                  *)
  pc,      (* the privileged call the command in progress waits for        *)
  sys,     (* what is on the machine                                       *)
  job,     (* the thread that works on the managed venv                    *)
  marks    (* history: what has happened that excuses a difference         *)

vars == <<status, limit, pc, sys, job, marks>>

(* user, hardened: the account; the restricted shell, the sudo and the SSH *)
(* denial that go with it.  password: one was set.  cgroup, writable: the  *)
(* limits in force; this user may write them.  tcp: the three TCP rules,   *)
(* made and deleted together.  mdns: the UDP rule.  venv: the managed venv.*)
Machine == [user : BOOLEAN, hardened : BOOLEAN, password : BOOLEAN,
            cgroup : Limits \cup {NoCgroup}, writable : BOOLEAN,
            tcp : BOOLEAN, mdns : BOOLEAN, mps : BOOLEAN,
            venv : {"none", "partial", "full"}]

Calls == {"idle", "createUser", "fullCgroup", "cgroup", "openPort",
          "setupMps", "teardownMps", "removeUser", "closePort",
          "reopenPort", "limits", "password"}

(* refused: a call was refused or failed, or the application ended, since  *)
(* the last enable or disable began.  broken: the helper reported success  *)
(* for something that had not worked.  late: limits were changed during a  *)
(* pause and not applied since.  stray: a venv was installed without the   *)
(* account, or across its removal.                                         *)
Marks == {"refused", "broken", "late", "stray"}

Clean == [user |-> FALSE, hardened |-> FALSE, password |-> FALSE,
          cgroup |-> NoCgroup, writable |-> FALSE, tcp |-> FALSE,
          mdns |-> FALSE, mps |-> FALSE, venv |-> "none"]

Init ==
  /\ status = "Disabled"
  /\ limit = DefaultLimit
  /\ pc = "idle"
  /\ sys = Clean
  /\ job = "none"
  /\ marks = {}

-----------------------------------------------------------------------------
(* What the commands of the helper do to a machine m.                      *)

CreateUser(m) == [m EXCEPT !.user = TRUE, !.hardened = TRUE]

(* Fault: the quota of the kernel is taken for the share.                  *)
FaultQuota(m, l) == l.cpu * 1000

(* A processor share of 0 is not written: a new cgroup has no limit then   *)
(* and an old one keeps the limit it has.                                  *)
CpuAfter(m, l) ==
  IF l.cpu > 0 THEN l.cpu
  ELSE IF m.cgroup = NoCgroup THEN 100 ELSE m.cgroup.cpu

SetupCgroup(m, l) ==
  [m EXCEPT !.cgroup = [cpu |-> CpuAfter(m, l), ram |-> l.ram],
            !.writable = TRUE]

OpenPort(m) == [m EXCEPT !.tcp = TRUE, !.mdns = TRUE]

(* Fault: the rules of the peer port are forgotten.                        *)
FaultPortStays(m) == m

(* The mDNS rule stays: others may use it.                                 *)
ClosePort(m) == [m EXCEPT !.tcp = FALSE]

(* The helper dies if there is no account to run the daemon.               *)
SetupMps(m) == [m EXCEPT !.mps = m.mps \/ (HasMps /\ m.user)]

TeardownMps(m) == [m EXCEPT !.mps = FALSE]

(* Fault: the home directory, with the venv in it, is not removed.         *)
FaultHomeStays(m, cg, v) ==
  [user |-> FALSE, hardened |-> FALSE, password |-> FALSE, cgroup |-> cg,
   writable |-> m.writable /\ cg # NoCgroup, tcp |-> FALSE,
   mdns |-> m.mdns, mps |-> FALSE, venv |-> m.venv]

(* remove-user: the processes of the account, the account with its home,   *)
(* the hardening, the marker of the password, the TCP rules, the cgroup.   *)
RemoveUser(m, cg, v) ==
  [user |-> FALSE, hardened |-> FALSE, password |-> FALSE, cgroup |-> cg,
   writable |-> m.writable /\ cg # NoCgroup, tcp |-> FALSE,
   mdns |-> m.mdns, mps |-> FALSE, venv |-> v]

-----------------------------------------------------------------------------
(* How a call ends.  A refused dialog and a helper that fails are the same *)
(* to the caller: an error.                                                *)

Done(m, next) ==
  /\ sys' = m
  /\ pc' = next

Refused(next) ==
  /\ MayFail
  /\ UNCHANGED sys
  /\ pc' = next
  /\ marks' = marks \cup {"refused"}

(* The helper ignores that a command did not work and exits with 0.        *)
Silently(m, next) ==
  /\ MayFail
  /\ Done(m, next)
  /\ marks' = marks \cup {"broken"}

-----------------------------------------------------------------------------
(* setup_cgroup for the limits l, in enable, in set_limits and after a new *)
(* account.  A cgroup this user may write is written directly: first the   *)
(* processor, then the memory.  Otherwise the helper does it; if that does *)
(* not work, an existing cgroup is good enough.                            *)

(* Fault: no cgroup is good enough as well.                                *)
FaultBestEffort(m) == TRUE

GoodEnough(m) == m.cgroup # NoCgroup

(* The limits are in force: a late change is made up for.                  *)
Applied(l, next) ==
  /\ Done(SetupCgroup(sys, l), next)
  /\ marks' = IF l = limit THEN marks \ {"late"} ELSE marks

WriteCgroup(l, next) ==
  /\ sys.writable
  /\ \/ Applied(l, next)
     \/ Refused("idle")
     \/ /\ MayFail
        /\ Done([sys EXCEPT !.cgroup.cpu = CpuAfter(sys, l)], "idle")
        /\ marks' = marks \cup {"refused"}

HelperCgroup(l, next) ==
  /\ ~sys.writable
  /\ \/ Applied(l, next)
     \/ Refused(IF GoodEnough(sys) THEN next ELSE "idle")

-----------------------------------------------------------------------------
(* enable: create-user and setup-cgroup 100 0 if there is no account, then *)
(* setup_cgroup, open-port and setup-mps.                                  *)

Begin(first) ==
  /\ pc = "idle"
  /\ pc' = first
  /\ UNCHANGED <<status, sys, job>>

(* An enable or a disable that is not refused puts everything in order.    *)
Enable ==
  /\ Begin(IF sys.user THEN "cgroup" ELSE "createUser")
  /\ marks' = marks \ {"refused"}
  /\ UNCHANGED limit

EnableCreateUser ==
  /\ pc = "createUser"
  /\ \/ /\ Done(CreateUser(sys), "fullCgroup")
        /\ UNCHANGED marks
     \/ Refused("idle")
     \/ Silently([sys EXCEPT !.hardened = TRUE], "fullCgroup")
  /\ UNCHANGED <<status, limit, job>>

EnableFullCgroup ==
  /\ pc = "fullCgroup"
  /\ \/ /\ Done(SetupCgroup(sys, FullLimit), "cgroup")
        /\ UNCHANGED marks
     \/ Refused("idle")
  /\ UNCHANGED <<status, limit, job>>

EnableCgroup ==
  /\ pc = "cgroup"
  /\ WriteCgroup(limit, "openPort") \/ HelperCgroup(limit, "openPort")
  /\ UNCHANGED <<status, limit, job>>

EnableOpenPort ==
  /\ pc = "openPort"
  /\ \/ /\ Done(OpenPort(sys), "setupMps")
        /\ UNCHANGED marks
     \/ Refused("setupMps")
     \/ Silently(sys, "setupMps")
  /\ UNCHANGED <<status, limit, job>>

EnableSetupMps ==
  /\ pc = "setupMps"
  /\ \/ /\ Done(SetupMps(sys), "idle")
        /\ UNCHANGED marks
     \/ Refused("idle")
     \/ Silently(sys, "idle")
  /\ status' = "Active"
  /\ UNCHANGED <<limit, job>>

-----------------------------------------------------------------------------
(* disable: teardown-mps, then remove-user, which is not called if there   *)
(* is no account.                                                          *)

Disable ==
  /\ Begin("teardownMps")
  /\ marks' = marks \ {"refused"}
  /\ UNCHANGED limit

DisableTeardownMps ==
  /\ pc = "teardownMps"
  /\ LET next == IF sys.user THEN "removeUser" ELSE "idle" IN
     \/ /\ Done(TeardownMps(sys), next)
        /\ UNCHANGED marks
     \/ Refused(next)
  /\ status' = IF sys.user THEN status ELSE "Disabled"
  /\ UNCHANGED <<limit, job>>

(* A cgroup with a task in it cannot be removed.  A running installation   *)
(* is not a process of the account: it writes on into the home directory   *)
(* that is being deleted.  userdel does nothing when the account is busy.  *)
DisableRemoveUser ==
  /\ pc = "removeUser"
  /\ \/ /\ \E cg \in {NoCgroup, sys.cgroup},
             v \in IF job = "install" THEN {"none", "partial"} ELSE {"none"} :
             Done(RemoveUser(sys, cg, v), "idle")
        /\ marks' = IF job = "install" THEN marks \cup {"stray"} ELSE marks
        /\ status' = "Disabled"
     \/ /\ Refused("idle")
        /\ UNCHANGED status
     \/ /\ \E cg \in {NoCgroup, sys.cgroup} :
             Silently([RemoveUser(sys, cg, sys.venv) EXCEPT !.user = TRUE],
                      "idle")
        /\ status' = "Disabled"
  /\ UNCHANGED <<limit, job>>

-----------------------------------------------------------------------------
(* pause, resume, set_limits.                                              *)

Pause ==
  /\ status = "Active"
  /\ Begin("closePort")
  /\ UNCHANGED <<limit, marks>>

PauseClosePort ==
  /\ pc = "closePort"
  /\ \/ /\ Done(ClosePort(sys), "idle")
        /\ UNCHANGED marks
     \/ Refused("idle")
     \/ Silently(sys, "idle")
  /\ status' = "Paused"
  /\ UNCHANGED <<limit, job>>

(* Fault: a machine that was never set up is resumed as well.              *)
FaultResumeAnyway == status # "Active"

MayResume == status = "Paused"

(* The limits are not applied: resume does not touch the cgroup.           *)
Resume ==
  /\ MayResume
  /\ Begin("reopenPort")
  /\ UNCHANGED <<limit, marks>>

ResumeOpenPort ==
  /\ pc = "reopenPort"
  /\ \/ /\ Done(OpenPort(sys), "idle")
        /\ UNCHANGED marks
     \/ Refused("idle")
     \/ Silently(sys, "idle")
  /\ status' = "Active"
  /\ UNCHANGED <<limit, job>>

(* The new limits are stored first.                                        *)
SetLimits(l) ==
  /\ Begin(IF status = "Active" THEN "limits" ELSE "idle")
  /\ limit' = l
  /\ marks' = IF status = "Paused" THEN marks \cup {"late"} ELSE marks

ApplyLimits ==
  /\ pc = "limits"
  /\ WriteCgroup(limit, "idle") \/ HelperCgroup(limit, "idle")
  /\ UNCHANGED <<status, limit, job>>

SetPassword ==
  /\ Begin("password")
  /\ UNCHANGED <<limit, marks>>

(* chpasswd, then the marker: only for an account that exists.             *)
PasswordSet ==
  /\ pc = "password"
  /\ \/ /\ sys.user
        /\ Done([sys EXCEPT !.password = TRUE], "idle")
     \/ /\ MayFail \/ ~sys.user
        /\ Done(sys, "idle")
  /\ UNCHANGED <<status, limit, job, marks>>

-----------------------------------------------------------------------------
(* The managed venv, installed and removed by a thread of its own.         *)

VenvJob(j) ==
  /\ job = "none"
  /\ job' = j
  /\ marks' = IF j = "install" /\ ~sys.user THEN marks \cup {"stray"}
              ELSE marks
  /\ UNCHANGED <<status, limit, pc, sys>>

(* python -m venv: from here on bin/python3 exists.                        *)
VenvMade ==
  /\ job = "install"
  /\ sys.venv = "none"
  /\ sys' = [sys EXCEPT !.venv = "partial"]
  /\ UNCHANGED <<status, limit, pc, job, marks>>

(* pip has installed everything, or has failed on the way.                 *)
VenvInstalled ==
  /\ job = "install"
  /\ \/ /\ sys.venv # "none"
        /\ sys' = [sys EXCEPT !.venv = "full"]
     \/ /\ MayFail
        /\ UNCHANGED sys
  /\ job' = "none"
  /\ UNCHANGED <<status, limit, pc, marks>>

VenvRemoved ==
  /\ job = "remove"
  /\ \/ sys' = [sys EXCEPT !.venv = "none"]
     \/ /\ MayFail /\ sys.venv # "none"
        /\ sys' = [sys EXCEPT !.venv = "partial"]
     \/ /\ MayFail
        /\ UNCHANGED sys
  /\ job' = "none"
  /\ UNCHANGED <<status, limit, pc, marks>>

-----------------------------------------------------------------------------
(* The application ends and is started again, by this user or another one. *)
(* The controller starts over and asks the machine nothing.                *)
Restart ==
  /\ MayFail
  /\ status' = "Disabled"
  /\ limit' = DefaultLimit
  /\ pc' = "idle"
  /\ marks' = marks \cup {"refused"}
  /\ \/ /\ \E mine \in {FALSE, sys.cgroup # NoCgroup} :
             sys' = [sys EXCEPT !.writable = mine]
        /\ UNCHANGED job
     \/ /\ \E kept \in BOOLEAN :        \* a reboot; iptables forgets, ufw not
             sys' = [sys EXCEPT !.cgroup = NoCgroup, !.writable = FALSE,
                                !.mps = FALSE,
                                !.tcp = @ /\ kept, !.mdns = @ /\ kept]
        /\ job' = "none"

Next ==
  \/ Enable \/ EnableCreateUser \/ EnableFullCgroup \/ EnableCgroup
  \/ EnableOpenPort \/ EnableSetupMps
  \/ Disable \/ DisableTeardownMps \/ DisableRemoveUser
  \/ Pause \/ PauseClosePort \/ Resume \/ ResumeOpenPort
  \/ (\E l \in Limits : SetLimits(l)) \/ ApplyLimits
  \/ SetPassword \/ PasswordSet
  \/ (\E j \in {"install", "remove"} : VenvJob(j))
  \/ VenvMade \/ VenvInstalled \/ VenvRemoved
  \/ Restart

Spec == Init /\ [][Next]_vars

-----------------------------------------------------------------------------
(* Properties.                                                             *)

(* Every variable has a value the program can give it.                     *)
TypeOK ==
  /\ status \in {"Disabled", "Active", "Paused"}
  /\ limit \in Limits
  /\ pc \in Calls
  /\ sys \in Machine
  /\ job \in {"none", "install", "remove"}
  /\ marks \subseteq Marks

(* As long as the helper did not hide a failure, a machine that shares, or *)
(* that can go back to sharing with resume, has an account that can        *)
(* neither log in over SSH nor use sudo, and a cgroup to put its tasks in: *)
(* whatever was refused, cancelled or interrupted on the way               *)
(* (sharing.rs, enable; user_manager.rs, setup_cgroup).                    *)
SharesFromACage ==
  status # "Disabled" /\ "broken" \notin marks =>
    sys.user /\ sys.hardened /\ sys.cgroup # NoCgroup

(* remove_user does nothing when there is no account.  So nothing that     *)
(* only it removes may be there without the account, also after refused    *)
(* dialogs, a crash in the middle of enable, or a reboot; otherwise the    *)
(* port would stay open with no command left to close it.  A venv is there *)
(* without the account only if it was installed that way, or while the     *)
(* account was removed.                                                    *)
NothingOutOfReach ==
  "broken" \notin marks /\ ~sys.user =>
    /\ ~sys.tcp /\ ~sys.hardened /\ ~sys.password /\ ~sys.mps
    /\ sys.venv # "none" => "stray" \in marks

(* When no command is under way and the last enable or disable was neither *)
(* refused nor followed by a restart, the firewall is open exactly while   *)
(* the machine shares, the account exists exactly while sharing is not     *)
(* disabled, the MPS daemon runs where there is one, and the limits in     *)
(* force are the ones of the configuration, save those changed during a    *)
(* pause and a processor share of 0.                                       *)
InStep ==
  pc = "idle" /\ marks \cap {"refused", "broken"} = {} =>
    /\ sys.tcp = (status = "Active")
    /\ sys.user = (status # "Disabled")
    /\ sys.hardened = sys.user
    /\ sys.mps = (sys.user /\ HasMps)
    /\ status = "Active" /\ "late" \notin marks =>
         /\ sys.cgroup.ram = limit.ram
         /\ sys.cgroup.cpu = CpuAfter(sys, limit)

(* A disable that returns Ok has closed the ports, removed the account and *)
(* what goes with it, also when it found the machine half set up by an     *)
(* enable that was cut off, and when it calls no helper at all.            *)
CleanedUp ==
  /\ ~sys.user /\ ~sys.hardened /\ ~sys.password /\ ~sys.tcp /\ ~sys.mps
  /\ sys.venv = "full" => "stray" \in marks

DisableReturnsOk ==
  /\ pc \in {"teardownMps", "removeUser"} /\ pc' = "idle"
  /\ status' = "Disabled"
  /\ marks' \cap {"refused", "broken"} = {}

DisableCleansUp == [][DisableReturnsOk => CleanedUp']_vars

=============================================================================
