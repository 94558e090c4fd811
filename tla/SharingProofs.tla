---------------------------- MODULE SharingProofs ----------------------------
(***************************************************************************)
(* Theorems about Sharing, for any sliders, with and without MPS and       *)
(* failures.                                                               *)
(***************************************************************************)
EXTENDS Sharing, TLAPS

TypeInv ==
  /\ TypeOK
  /\ sys.writable => sys.cgroup # NoCgroup
  /\ sys.mps => HasMps

(* What holds as long as the helper hid no failure: the account carries    *)
(* all the rest, and the calls that follow create-user rely on it.         *)
AccountFirst ==
  "broken" \notin marks =>
    /\ sys.hardened = sys.user
    /\ ~sys.user =>
         /\ ~sys.tcp /\ ~sys.password /\ ~sys.mps
         /\ (sys.venv # "none" \/ job = "install") => "stray" \in marks
    /\ status # "Disabled" => sys.user /\ sys.cgroup # NoCgroup
    /\ pc \in {"fullCgroup", "cgroup", "openPort", "setupMps", "removeUser"}
         => sys.user
    /\ pc \in {"openPort", "setupMps"} => sys.cgroup # NoCgroup
    /\ pc \in {"closePort", "limits"} => status = "Active"
    /\ pc = "reopenPort" => status = "Paused"

Settled ==
  /\ sys.tcp = (status = "Active")
  /\ sys.user = (status # "Disabled")
  /\ sys.mps = (sys.user /\ HasMps)

Matching ==
  "late" \notin marks =>
    /\ sys.cgroup.ram = limit.ram
    /\ sys.cgroup.cpu = CpuAfter(sys, limit)

(* What the calls have put in order so far, if none was refused.           *)
InOrder ==
  marks \cap {"refused", "broken"} = {} =>
    /\ pc \in {"idle", "password", "closePort", "reopenPort", "limits"} =>
         Settled
    /\ pc \in {"idle", "password", "closePort", "reopenPort"}
       /\ status # "Disabled" => Matching
    /\ pc \in {"openPort", "setupMps"} => Matching
    /\ pc = "setupMps" => sys.tcp

IInv == TypeInv /\ AccountFirst /\ InOrder

USE CpuAssumption, RamAssumption, DefaultAssumption, FlagAssumption,
    NoCgroupAssumption

-----------------------------------------------------------------------------
(* What the commands of the helper make of a machine.                      *)

(* A processor share is a slider value.                                    *)
LEMMA CpuIsShare ==
  ASSUME NEW m \in Machine, NEW l \in Limits
  PROVE  CpuAfter(m, l) \in Cpus
BY DEF CpuAfter, Machine, Limits

(* setup-cgroup sets the cgroup and leaves the rest alone.                 *)
LEMMA SetupCgroupSets ==
  ASSUME NEW m \in Machine, NEW l \in Limits
  PROVE  LET n == SetupCgroup(m, l) IN
         /\ n \in Machine /\ n.writable /\ n.cgroup # NoCgroup
         /\ n.cgroup.ram = l.ram /\ n.cgroup.cpu = CpuAfter(m, l)
         /\ n.user = m.user /\ n.hardened = m.hardened
         /\ n.password = m.password /\ n.tcp = m.tcp /\ n.mps = m.mps
         /\ n.venv = m.venv
<1> DEFINE c == [cpu |-> CpuAfter(m, l), ram |-> l.ram]
<1>1. c \in Limits /\ c.ram = l.ram /\ c.cpu = CpuAfter(m, l)
  BY CpuIsShare DEF Limits
<1>2. SetupCgroup(m, l) = [m EXCEPT !.cgroup = c, !.writable = TRUE]
  BY DEF SetupCgroup
<1> HIDE DEF c
<1> QED BY <1>1, <1>2 DEF Machine

(* A direct write that fails half-way has changed the processor share.     *)
LEMMA HalfWritten ==
  ASSUME NEW m \in Machine, m.cgroup # NoCgroup, NEW l \in Limits
  PROVE  LET n == [m EXCEPT !.cgroup.cpu = CpuAfter(m, l)] IN
         /\ n \in Machine /\ n.cgroup # NoCgroup
         /\ n.user = m.user /\ n.hardened = m.hardened
         /\ n.password = m.password /\ n.tcp = m.tcp /\ n.mps = m.mps
         /\ n.venv = m.venv /\ n.writable = m.writable
<1> DEFINE c == [m.cgroup EXCEPT !.cpu = CpuAfter(m, l)]
<1>1. c \in Limits
  BY CpuIsShare DEF Limits, Machine
<1>2. [m EXCEPT !.cgroup.cpu = CpuAfter(m, l)] = [m EXCEPT !.cgroup = c]
  BY DEF Machine
<1> HIDE DEF c
<1> QED BY <1>1, <1>2 DEF Machine

(* remove-user leaves nothing but the mDNS rule and, perhaps, a cgroup and *)
(* a venv that are in use.                                                 *)
Emptied(n, v) ==
  /\ n \in Machine /\ [n EXCEPT !.user = TRUE] \in Machine
  /\ n.user = FALSE /\ n.hardened = FALSE /\ n.password = FALSE
  /\ n.tcp = FALSE /\ n.mps = FALSE /\ n.venv = v
  /\ n.writable => n.cgroup # NoCgroup

LEMMA RemoveUserClears ==
  ASSUME NEW m \in Machine, NEW cg \in {NoCgroup, m.cgroup},
         NEW v \in {"none", "partial", "full"}
  PROVE  Emptied(RemoveUser(m, cg, v), v)
<1> DEFINE n == RemoveUser(m, cg, v)
<1> DEFINE w == m.writable /\ cg # NoCgroup
<1>1. /\ w \in BOOLEAN /\ m.mdns \in BOOLEAN
      /\ cg \in Limits \cup {NoCgroup} /\ m.writable \in BOOLEAN
  BY DEF Machine
<1>2. w => cg # NoCgroup
  OBVIOUS
<1>3. n = [user |-> FALSE, hardened |-> FALSE, password |-> FALSE,
           cgroup |-> cg, writable |-> w, tcp |-> FALSE,
           mdns |-> m.mdns, mps |-> FALSE, venv |-> v]
  BY DEF RemoveUser
<1> HIDE DEF n, w
<1>4. n \in Machine
  BY <1>1, <1>3 DEF Machine
<1>5. [n EXCEPT !.user = TRUE] \in Machine
  BY <1>4 DEF Machine
<1>6. /\ n.user = FALSE /\ n.hardened = FALSE /\ n.password = FALSE
      /\ n.tcp = FALSE /\ n.mps = FALSE /\ n.venv = v
      /\ n.writable => n.cgroup # NoCgroup
  BY <1>1, <1>2, <1>3
<1>7. Emptied(n, v)
  BY <1>4, <1>5, <1>6 DEF Emptied
<1> QED BY <1>7 DEF n

-----------------------------------------------------------------------------
LEMMA CleanMachine ==
  /\ Clean \in Machine
  /\ ~Clean.user /\ ~Clean.hardened /\ ~Clean.password /\ ~Clean.tcp
  /\ ~Clean.mps /\ ~Clean.writable /\ Clean.venv = "none"
BY DEF Clean, Machine

LEMMA InitInv == Init => IInv
BY CleanMachine DEF Init, Machine, IInv, TypeInv, TypeOK, Marks, Calls, AccountFirst,
                    InOrder, Settled

(* A command that begins, and a call whose outcome is not looked at.       *)
LEMMA BeginInv ==
  ASSUME IInv, Enable \/ Disable \/ Pause \/ Resume \/ SetPassword
  PROVE  IInv'
<1> USE DEF IInv, TypeInv, TypeOK, Begin, Calls, Marks
<1>1. TypeInv'
  BY DEF Enable, Disable, Pause, Resume, SetPassword
<1>2. AccountFirst'
  BY DEF AccountFirst, Enable, Disable, Pause, Resume, MayResume, SetPassword
<1>3. InOrder'
  BY DEF InOrder, Settled, Matching, CpuAfter, AccountFirst,
         Enable, Disable, Pause, Resume, MayResume, SetPassword
<1> QED BY <1>1, <1>2, <1>3

LEMMA SetLimitsInv ==
  ASSUME IInv, NEW l \in Limits, SetLimits(l)
  PROVE  IInv'
<1> USE DEF IInv, TypeInv, TypeOK, Begin, Calls, Marks, SetLimits
<1>1. TypeInv'
  OBVIOUS
<1>2. AccountFirst'
  BY DEF AccountFirst
<1>3. InOrder'
  BY DEF InOrder, Settled, Matching
<1> QED BY <1>1, <1>2, <1>3

LEMMA CreateUserSets ==
  ASSUME NEW m \in Machine
  PROVE  LET n == CreateUser(m)
             h == [m EXCEPT !.hardened = TRUE] IN
         /\ n \in Machine /\ n.user /\ n.hardened = n.user
         /\ n.cgroup = m.cgroup /\ n.writable = m.writable
         /\ n.mps = m.mps
         /\ h \in Machine /\ h.cgroup = m.cgroup
         /\ h.writable = m.writable /\ h.mps = m.mps
BY DEF CreateUser, Machine

LEMMA CreateUserInv ==
  ASSUME IInv, EnableCreateUser
  PROVE  IInv'
<1> USE CreateUserSets DEF IInv, TypeInv, TypeOK, Calls, Marks, Done, Refused,
        Silently
<1>1. CASE Done(CreateUser(sys), "fullCgroup") /\ UNCHANGED marks
  <2>1. /\ sys' \in Machine /\ sys'.user /\ sys'.hardened = sys'.user
        /\ sys'.cgroup = sys.cgroup /\ sys'.writable = sys.writable
        /\ sys'.mps = sys.mps
    BY <1>1
  <2> QED BY <1>1, <2>1 DEF EnableCreateUser, AccountFirst, InOrder
<1>2. CASE Refused("idle")
  BY <1>2 DEF EnableCreateUser, AccountFirst, InOrder
<1>3. CASE Silently([sys EXCEPT !.hardened = TRUE], "fullCgroup")
  BY <1>3 DEF EnableCreateUser, AccountFirst, InOrder
<1> QED BY <1>1, <1>2, <1>3 DEF EnableCreateUser

LEMMA FullCgroupInv ==
  ASSUME IInv, EnableFullCgroup
  PROVE  IInv'
<1> USE DEF IInv, TypeInv, TypeOK, Calls, Marks, Done, Refused,
        EnableFullCgroup
<1>0. FullLimit \in Limits
  BY DEF FullLimit, Limits
<1>1. CASE Done(SetupCgroup(sys, FullLimit), "cgroup") /\ UNCHANGED marks
  BY <1>0, <1>1, SetupCgroupSets DEF AccountFirst, InOrder
<1>2. CASE Refused("idle")
  BY <1>2 DEF AccountFirst, InOrder
<1> QED BY <1>1, <1>2

(* Limits that are applied in enable and in set_limits.                    *)
LEMMA ApplyInv ==
  ASSUME IInv, NEW next \in {"openPort", "idle"},
         (pc = "cgroup" /\ next = "openPort")
           \/ (pc = "limits" /\ next = "idle"),
         WriteCgroup(limit, next) \/ HelperCgroup(limit, next),
         UNCHANGED <<status, limit, job>>
  PROVE  IInv'
<1> USE DEF IInv, TypeInv, TypeOK, Calls, Marks, Done, Refused
<1>1. CASE Applied(limit, next)
  <2>1. /\ sys' \in Machine /\ sys'.writable /\ sys'.cgroup # NoCgroup
        /\ sys'.cgroup.ram = limit.ram
        /\ sys'.cgroup.cpu = CpuAfter(sys, limit)
        /\ sys'.user = sys.user /\ sys'.hardened = sys.hardened
        /\ sys'.password = sys.password /\ sys'.tcp = sys.tcp
        /\ sys'.mps = sys.mps /\ sys'.venv = sys.venv
    BY <1>1, SetupCgroupSets DEF Applied
  <2>2. /\ pc' = next /\ marks' = marks \ {"late"}
        /\ UNCHANGED <<status, limit, job>>
    BY <1>1 DEF Applied
  <2>3. TypeInv'
    BY <2>1, <2>2
  <2>4. AccountFirst'
    BY <2>1, <2>2 DEF AccountFirst
  <2>5. CpuAfter(sys', limit) = sys'.cgroup.cpu
    BY <2>1 DEF CpuAfter
  <2>6. Matching'
    BY <2>1, <2>2, <2>5 DEF Matching, CpuAfter
  <2>7. InOrder'
    BY <2>1, <2>2, <2>6 DEF InOrder, Settled
  <2> QED BY <2>3, <2>4, <2>7
<1>2. CASE Refused("idle")
  BY <1>2 DEF AccountFirst, InOrder
<1>3. CASE Refused(next) /\ GoodEnough(sys)
  BY <1>3 DEF AccountFirst, InOrder, GoodEnough
<1>4. CASE /\ sys.writable
           /\ Done([sys EXCEPT !.cgroup.cpu = CpuAfter(sys, limit)], "idle")
           /\ marks' = marks \cup {"refused"}
  <2>1. /\ sys' \in Machine /\ sys'.cgroup # NoCgroup
        /\ sys'.user = sys.user /\ sys'.hardened = sys.hardened
        /\ sys'.password = sys.password /\ sys'.tcp = sys.tcp
        /\ sys'.mps = sys.mps /\ sys'.venv = sys.venv
    BY <1>4, HalfWritten
  <2>2. pc' = "idle" /\ marks' = marks \cup {"refused"}
    BY <1>4
  <2> QED BY <2>1, <2>2 DEF AccountFirst, InOrder
<1> QED BY <1>1, <1>2, <1>3, <1>4 DEF WriteCgroup, HelperCgroup

LEMMA OpenPortSets ==
  ASSUME NEW m \in Machine
  PROVE  LET n == OpenPort(m) IN
         /\ n \in Machine /\ n.tcp = TRUE
         /\ n.user = m.user /\ n.hardened = m.hardened
         /\ n.password = m.password /\ n.cgroup = m.cgroup
         /\ n.writable = m.writable /\ n.mps = m.mps /\ n.venv = m.venv
BY DEF OpenPort, Machine

LEMMA ClosePortSets ==
  ASSUME NEW m \in Machine
  PROVE  LET n == ClosePort(m) IN
         /\ n \in Machine /\ n.tcp = FALSE
         /\ n.user = m.user /\ n.hardened = m.hardened
         /\ n.password = m.password /\ n.cgroup = m.cgroup
         /\ n.writable = m.writable /\ n.mps = m.mps /\ n.venv = m.venv
BY DEF ClosePort, Machine

LEMMA MpsSets ==
  ASSUME NEW m \in Machine, NEW b \in BOOLEAN
  PROVE  LET n == [m EXCEPT !.mps = b] IN
         /\ n \in Machine /\ n.mps = b
         /\ n.user = m.user /\ n.hardened = m.hardened
         /\ n.password = m.password /\ n.cgroup = m.cgroup
         /\ n.writable = m.writable /\ n.tcp = m.tcp /\ n.venv = m.venv
BY DEF Machine

(* The calls of enable that may fail without consequence.                  *)
LEMMA EnableOpenPortInv ==
  ASSUME IInv, EnableOpenPort
  PROVE  IInv'
<1> USE DEF IInv, TypeInv, TypeOK, Calls, Marks, Done, Refused, Silently,
        EnableOpenPort
<1>1. CASE Done(OpenPort(sys), "setupMps") /\ UNCHANGED marks
  <2>1. /\ sys' \in Machine /\ sys'.tcp = TRUE
        /\ sys'.user = sys.user /\ sys'.hardened = sys.hardened
        /\ sys'.password = sys.password /\ sys'.cgroup = sys.cgroup
        /\ sys'.writable = sys.writable /\ sys'.mps = sys.mps
        /\ sys'.venv = sys.venv
    BY <1>1, OpenPortSets
  <2> QED BY <1>1, <2>1 DEF AccountFirst, InOrder, Matching, CpuAfter
<1>2. CASE Refused("setupMps")
  BY <1>2 DEF AccountFirst, InOrder
<1>3. CASE Silently(sys, "setupMps")
  BY <1>3 DEF AccountFirst, InOrder
<1> QED BY <1>1, <1>2, <1>3

LEMMA EnableSetupMpsInv ==
  ASSUME IInv, EnableSetupMps
  PROVE  IInv'
<1> USE DEF IInv, TypeInv, TypeOK, Calls, Marks, Done, Refused, Silently,
        EnableSetupMps
<1>1. CASE Done(SetupMps(sys), "idle") /\ UNCHANGED marks
  <2> DEFINE b == sys.mps \/ (HasMps /\ sys.user)
  <2>0. b \in BOOLEAN /\ (b => HasMps)
    OBVIOUS
  <2>1. sys' = [sys EXCEPT !.mps = b]
    BY <1>1 DEF SetupMps
  <2>2. sys.user => b = HasMps
    BY DEF Machine
  <2> HIDE DEF b
  <2>3. /\ sys' \in Machine /\ sys'.mps = b
        /\ sys'.user = sys.user /\ sys'.hardened = sys.hardened
        /\ sys'.password = sys.password /\ sys'.cgroup = sys.cgroup
        /\ sys'.writable = sys.writable /\ sys'.tcp = sys.tcp
        /\ sys'.venv = sys.venv
    BY <2>0, <2>1, MpsSets
  <2>4. TypeInv'
    BY <1>1, <2>0, <2>3
  <2>5. AccountFirst'
    BY <1>1, <2>3 DEF AccountFirst
  <2>6. Matching => Matching'
    BY <1>1, <2>3 DEF Matching, CpuAfter
  <2>7. InOrder'
    BY <1>1, <2>2, <2>3, <2>6 DEF AccountFirst, InOrder, Settled, Machine
  <2> QED BY <2>4, <2>5, <2>7
<1>2. CASE Refused("idle")
  BY <1>2 DEF AccountFirst, InOrder
<1>3. CASE Silently(sys, "idle")
  BY <1>3 DEF AccountFirst, InOrder
<1> QED BY <1>1, <1>2, <1>3

(* disable                                                                 *)
LEMMA TeardownInv ==
  ASSUME IInv, DisableTeardownMps
  PROVE  IInv'
<1> USE DEF IInv, TypeInv, TypeOK, Calls, Marks, DisableTeardownMps
<1> DEFINE next == IF sys.user THEN "removeUser" ELSE "idle"
<1>1. CASE Done(TeardownMps(sys), next) /\ UNCHANGED marks
  <2>3. /\ sys' \in Machine /\ sys'.mps = FALSE
        /\ sys'.user = sys.user /\ sys'.hardened = sys.hardened
        /\ sys'.password = sys.password /\ sys'.cgroup = sys.cgroup
        /\ sys'.writable = sys.writable /\ sys'.tcp = sys.tcp
        /\ sys'.venv = sys.venv
    BY <1>1, MpsSets DEF TeardownMps, Done
  <2>4. TypeInv'
    BY <1>1, <2>3 DEF Done
  <2>5. AccountFirst'
    BY <1>1, <2>3 DEF AccountFirst, Done
  <2>6. InOrder'
    BY <1>1, <2>3 DEF AccountFirst, InOrder, Settled, Machine, Done
  <2> QED BY <2>4, <2>5, <2>6
<1>2. CASE Refused(next)
  BY <1>2 DEF AccountFirst, InOrder, Refused
<1> QED BY <1>1, <1>2

LEMMA RemoveUserInv ==
  ASSUME IInv, DisableRemoveUser
  PROVE  IInv'
<1> USE DEF IInv, TypeInv, TypeOK, Calls, Marks, DisableRemoveUser
<1>1. CASE /\ \E cg \in {NoCgroup, sys.cgroup},
                 v \in IF job = "install" THEN {"none", "partial"}
                      ELSE {"none"} :
                Done(RemoveUser(sys, cg, v), "idle")
           /\ marks' = IF job = "install" THEN marks \cup {"stray"} ELSE marks
           /\ status' = "Disabled"
  <2>1. PICK cg \in {NoCgroup, sys.cgroup}, v \in {"none", "partial", "full"} :
          /\ Done(RemoveUser(sys, cg, v), "idle")
          /\ v # "none" => job = "install"
    BY <1>1
  <2>e. Emptied(sys', v)
    BY <2>1, RemoveUserClears DEF Done
  <2>2. /\ sys' \in Machine
        /\ sys'.user = FALSE /\ sys'.hardened = FALSE
        /\ sys'.password = FALSE /\ sys'.tcp = FALSE
        /\ sys'.mps = FALSE /\ sys'.venv = v
        /\ sys'.writable => sys'.cgroup # NoCgroup
    BY <2>e DEF Emptied
  <2>3. pc' = "idle" /\ UNCHANGED <<limit, job>>
    BY <2>1 DEF Done
  <2>4. TypeInv'
    BY <1>1, <2>2, <2>3
  <2>5. AccountFirst'
    BY <1>1, <2>1, <2>2, <2>3 DEF AccountFirst, Machine
  <2>6. /\ sys'.tcp = FALSE /\ sys'.user = FALSE /\ sys'.mps = FALSE
    BY <2>2 DEF Machine
  <2>7. Settled'
    BY <1>1, <2>6 DEF Settled
  <2>8. InOrder'
    BY <1>1, <2>3, <2>7 DEF InOrder
  <2> QED BY <2>4, <2>5, <2>8
<1>2. CASE Refused("idle") /\ UNCHANGED status
  BY <1>2 DEF AccountFirst, InOrder, Refused
<1>3. CASE /\ \E cg \in {NoCgroup, sys.cgroup} :
                Silently([RemoveUser(sys, cg, sys.venv) EXCEPT !.user = TRUE],
                         "idle")
           /\ status' = "Disabled"
  <2>0. sys.venv \in {"none", "partial", "full"}
    BY DEF Machine
  <2>1. PICK cg \in {NoCgroup, sys.cgroup} :
          Silently([RemoveUser(sys, cg, sys.venv) EXCEPT !.user = TRUE], "idle")
    BY <1>3
  <2> DEFINE n == RemoveUser(sys, cg, sys.venv)
  <2>e. Emptied(n, sys.venv)
    BY <2>0, RemoveUserClears
  <2> HIDE DEF n
  <2>2. /\ n \in Machine /\ [n EXCEPT !.user = TRUE] \in Machine
        /\ n.writable => n.cgroup # NoCgroup
        /\ n.mps = FALSE
    BY <2>e DEF Emptied
  <2>3. /\ sys' = [n EXCEPT !.user = TRUE] /\ pc' = "idle"
        /\ marks' = marks \cup {"broken"}
    BY <2>1 DEF Silently, Done, n
  <2>4. sys'.writable = n.writable /\ sys'.cgroup = n.cgroup
        /\ sys'.mps = n.mps
    BY <2>2, <2>3 DEF Machine
  <2>5. TypeInv'
    BY <1>3, <2>2, <2>3, <2>4
  <2>6. AccountFirst' /\ InOrder'
    BY <2>3 DEF AccountFirst, InOrder
  <2> QED BY <2>5, <2>6
<1> QED BY <1>1, <1>2, <1>3

(* pause and resume                                                        *)
LEMMA PauseInv ==
  ASSUME IInv, PauseClosePort
  PROVE  IInv'
<1> USE DEF IInv, TypeInv, TypeOK, Calls, Marks, Done, Refused, Silently,
        PauseClosePort
<1>1. CASE Done(ClosePort(sys), "idle") /\ UNCHANGED marks
  <2>1. /\ sys' \in Machine /\ sys'.tcp = FALSE
        /\ sys'.user = sys.user /\ sys'.hardened = sys.hardened
        /\ sys'.password = sys.password /\ sys'.cgroup = sys.cgroup
        /\ sys'.writable = sys.writable /\ sys'.mps = sys.mps
        /\ sys'.venv = sys.venv
    BY <1>1, ClosePortSets
  <2>2. TypeInv'
    BY <1>1, <2>1
  <2>3. AccountFirst'
    BY <1>1, <2>1 DEF AccountFirst
  <2>4. /\ (status = "Active" /\ Settled) => Settled'
        /\ Matching => Matching'
    BY <1>1, <2>1 DEF Settled, Matching, CpuAfter
  <2>5. pc = "closePort" /\ pc' = "idle" /\ UNCHANGED marks
    BY <1>1
  <2>6. InOrder'
    BY <2>4, <2>5 DEF InOrder, AccountFirst
  <2> QED BY <2>2, <2>3, <2>6
<1>2. CASE Refused("idle")
  BY <1>2 DEF AccountFirst, InOrder
<1>3. CASE Silently(sys, "idle")
  BY <1>3 DEF AccountFirst, InOrder
<1> QED BY <1>1, <1>2, <1>3

LEMMA ResumeInv ==
  ASSUME IInv, ResumeOpenPort
  PROVE  IInv'
<1> USE DEF IInv, TypeInv, TypeOK, Calls, Marks, Done, Refused, Silently,
        ResumeOpenPort
<1>1. CASE Done(OpenPort(sys), "idle") /\ UNCHANGED marks
  <2>1. /\ sys' \in Machine /\ sys'.tcp = TRUE
        /\ sys'.user = sys.user /\ sys'.hardened = sys.hardened
        /\ sys'.password = sys.password /\ sys'.cgroup = sys.cgroup
        /\ sys'.writable = sys.writable /\ sys'.mps = sys.mps
        /\ sys'.venv = sys.venv
    BY <1>1, OpenPortSets
  <2>2. TypeInv'
    BY <1>1, <2>1
  <2>3. AccountFirst'
    BY <1>1, <2>1 DEF AccountFirst
  <2>4. /\ (status = "Paused" /\ Settled) => Settled'
        /\ Matching => Matching'
    BY <1>1, <2>1 DEF Settled, Matching, CpuAfter
  <2>5. pc = "reopenPort" /\ pc' = "idle" /\ UNCHANGED marks
    BY <1>1
  <2>6. InOrder'
    BY <2>4, <2>5 DEF InOrder, AccountFirst
  <2> QED BY <2>2, <2>3, <2>6
<1>2. CASE Refused("idle")
  BY <1>2 DEF AccountFirst, InOrder
<1>3. CASE Silently(sys, "idle")
  BY <1>3 DEF AccountFirst, InOrder
<1> QED BY <1>1, <1>2, <1>3

(* The password and the venv touch nothing else.                           *)
LEMMA PasswordVenvSet ==
  ASSUME NEW m \in Machine, NEW v \in {"none", "partial", "full"}
  PROVE  LET n == [m EXCEPT !.venv = v]
             q == [m EXCEPT !.password = TRUE] IN
         /\ n \in Machine /\ n.venv = v /\ n.password = m.password
         /\ n.user = m.user /\ n.hardened = m.hardened
         /\ n.cgroup = m.cgroup /\ n.writable = m.writable
         /\ n.tcp = m.tcp /\ n.mps = m.mps
         /\ q \in Machine /\ q.venv = m.venv
         /\ q.user = m.user /\ q.hardened = m.hardened
         /\ q.cgroup = m.cgroup /\ q.writable = m.writable
         /\ q.tcp = m.tcp /\ q.mps = m.mps
BY DEF Machine

LEMMA PasswordInv ==
  ASSUME IInv, PasswordSet
  PROVE  IInv'
<1> USE DEF IInv, TypeInv, TypeOK, Calls, Marks, Done, PasswordSet
<1>1. CASE sys.user /\ Done([sys EXCEPT !.password = TRUE], "idle")
  <2>1. /\ sys' \in Machine
        /\ sys'.user = sys.user /\ sys'.hardened = sys.hardened
        /\ sys'.venv = sys.venv /\ sys'.cgroup = sys.cgroup
        /\ sys'.writable = sys.writable /\ sys'.mps = sys.mps
        /\ sys'.tcp = sys.tcp
    BY <1>1, PasswordVenvSet
  <2>2. TypeInv'
    BY <1>1, <2>1
  <2>3. AccountFirst'
    BY <1>1, <2>1 DEF AccountFirst
  <2>4. UNCHANGED <<status, limit, marks>> /\ pc = "password" /\ pc' = "idle"
    BY <1>1
  <2>5. Settled => Settled'
    BY <2>1, <2>4 DEF Settled
  <2>6. Matching => Matching'
    BY <2>1, <2>4 DEF Matching, CpuAfter
  <2>7. InOrder'
    BY <2>4, <2>5, <2>6 DEF InOrder
  <2> QED BY <2>2, <2>3, <2>7
<1>2. CASE Done(sys, "idle")
  BY <1>2 DEF AccountFirst, InOrder, Settled, Matching, CpuAfter
<1> QED BY <1>1, <1>2

(* A thread that works on the venv.                                        *)
LEMMA VenvInv ==
  ASSUME IInv,
         \/ \E j \in {"install", "remove"} : VenvJob(j)
         \/ VenvMade \/ VenvInstalled \/ VenvRemoved
  PROVE  IInv'
<1> USE DEF IInv, TypeInv, TypeOK, Calls, Marks
<1>1. ASSUME NEW j \in {"install", "remove"}, VenvJob(j)
      PROVE  IInv'
  BY <1>1 DEF VenvJob, AccountFirst, InOrder, Settled, Matching, CpuAfter
<1>2. ASSUME NEW v \in {"none", "partial", "full"},
             sys' = [sys EXCEPT !.venv = v], job' \in {"none", job},
             UNCHANGED <<status, limit, pc, marks>>,
             v # "none" => sys.venv # "none" \/ job = "install"
      PROVE  IInv'
  <2>1. /\ sys' \in Machine
        /\ sys'.user = sys.user /\ sys'.hardened = sys.hardened
        /\ sys'.venv = v /\ sys'.cgroup = sys.cgroup
        /\ sys'.writable = sys.writable /\ sys'.mps = sys.mps
        /\ sys'.tcp = sys.tcp /\ sys'.password = sys.password
    BY <1>2 DEF Machine
  <2>2. AccountFirst'
    BY <1>2, <2>1 DEF AccountFirst
  <2>3. InOrder'
    BY <1>2, <2>1 DEF InOrder, Settled, Matching, CpuAfter
  <2> QED BY <1>2, <2>1, <2>2, <2>3
<1>3. ASSUME UNCHANGED <<status, limit, pc, sys, marks>>, job' = "none"
      PROVE  IInv'
  BY <1>3 DEF AccountFirst, InOrder, Settled, Matching, CpuAfter
<1>4. CASE VenvMade
  BY <1>2, <1>4 DEF VenvMade
<1>5. CASE VenvInstalled
  BY <1>2, <1>3, <1>5 DEF VenvInstalled
<1>6. CASE VenvRemoved
  BY <1>2, <1>3, <1>6 DEF VenvRemoved
<1> QED BY <1>1, <1>4, <1>5, <1>6

(* The application starts over, with or without a reboot.                  *)
LEMMA RestartInv ==
  ASSUME IInv, Restart
  PROVE  IInv'
<1> USE DEF IInv, TypeInv, TypeOK, Calls, Marks, Restart
<1>1. ASSUME NEW mine \in {FALSE, sys.cgroup # NoCgroup},
             sys' = [sys EXCEPT !.writable = mine], UNCHANGED job
      PROVE  IInv'
  <2>1. /\ sys' \in Machine
        /\ sys'.writable => sys'.cgroup # NoCgroup
        /\ sys'.user = sys.user /\ sys'.hardened = sys.hardened
        /\ sys'.venv = sys.venv /\ sys'.password = sys.password
        /\ sys'.tcp = sys.tcp /\ sys'.mps = sys.mps
    BY <1>1 DEF Machine
  <2>2. TypeInv'
    BY <1>1, <2>1
  <2>3. AccountFirst' /\ InOrder'
    BY <1>1, <2>1 DEF AccountFirst, InOrder
  <2> QED BY <2>2, <2>3
<1>2. ASSUME NEW kept \in BOOLEAN, job' = "none",
             sys' = [sys EXCEPT !.cgroup = NoCgroup, !.writable = FALSE,
                                !.mps = FALSE,
                                !.tcp = @ /\ kept, !.mdns = @ /\ kept]
      PROVE  IInv'
  <2> DEFINE t == sys.tcp /\ kept
             d == sys.mdns /\ kept
  <2>0. t \in BOOLEAN /\ d \in BOOLEAN /\ (t => sys.tcp)
    OBVIOUS
  <2>1. sys' = [sys EXCEPT !.cgroup = NoCgroup, !.writable = FALSE,
                           !.mps = FALSE, !.tcp = t, !.mdns = d]
    BY <1>2 DEF Machine
  <2> HIDE DEF t, d
  <2>2. /\ sys' \in Machine /\ sys'.writable = FALSE /\ sys'.mps = FALSE
        /\ sys'.user = sys.user /\ sys'.hardened = sys.hardened
        /\ sys'.venv = sys.venv /\ sys'.password = sys.password
        /\ sys'.tcp = t
    BY <2>0, <2>1, ZenonT(30) DEF Machine
  <2> QED BY <1>2, <2>0, <2>2 DEF AccountFirst, InOrder
<1> QED BY <1>1, <1>2

LEMMA NextInv == IInv /\ [Next]_vars => IInv'
<1> SUFFICES ASSUME IInv, [Next]_vars PROVE IInv'
  OBVIOUS
<1>1. CASE UNCHANGED vars
  BY <1>1 DEF vars, IInv, TypeInv, TypeOK, AccountFirst, InOrder, Settled,
              Matching, CpuAfter
<1>2. CASE EnableCgroup
  <2>1. /\ pc = "cgroup"
        /\ WriteCgroup(limit, "openPort") \/ HelperCgroup(limit, "openPort")
        /\ UNCHANGED <<status, limit, job>>
    BY <1>2 DEF EnableCgroup
  <2> QED BY <2>1, ApplyInv
<1>3. CASE ApplyLimits
  <2>1. /\ pc = "limits"
        /\ WriteCgroup(limit, "idle") \/ HelperCgroup(limit, "idle")
        /\ UNCHANGED <<status, limit, job>>
    BY <1>3 DEF ApplyLimits
  <2> QED BY <2>1, ApplyInv
<1> QED BY <1>1, <1>2, <1>3, BeginInv, SetLimitsInv, CreateUserInv,
           FullCgroupInv, EnableOpenPortInv, EnableSetupMpsInv, TeardownInv,
           RemoveUserInv, PauseInv, ResumeInv, PasswordInv, VenvInv,
           RestartInv DEF Next

LEMMA AlwaysIInv == Spec => []IInv
BY InitInv, NextInv, PTL DEF Spec

-----------------------------------------------------------------------------
(* Every variable has a value the program can give it.                     *)
THEOREM TypeCorrect == Spec => []TypeOK
BY AlwaysIInv, PTL DEF IInv, TypeInv

(* A machine that shares, or can resume, has a hardened account and a      *)
(* cgroup, whatever was refused or cut off on the way there.               *)
THEOREM Caged == Spec => []SharesFromACage
<1>1. IInv => SharesFromACage
  BY DEF IInv, AccountFirst, SharesFromACage
<1> QED BY <1>1, AlwaysIInv, PTL

(* What only remove-user removes is never there without the account whose  *)
(* absence makes disable a no-op.                                          *)
THEOREM WithinReach == Spec => []NothingOutOfReach
<1>1. IInv => NothingOutOfReach
  BY DEF IInv, TypeInv, TypeOK, Machine, AccountFirst, NothingOutOfReach
<1> QED BY <1>1, AlwaysIInv, PTL

(* At rest, with nothing refused since the last enable or disable began,   *)
(* the machine is what the configuration says.                             *)
THEOREM ConfigurationHolds == Spec => []InStep
<1>1. IInv => InStep
  BY DEF IInv, TypeInv, TypeOK, AccountFirst, InOrder, Settled, Matching,
         InStep
<1> QED BY <1>1, AlwaysIInv, PTL

(* A disable that returns Ok leaves nothing behind that it is to remove.   *)
THEOREM DisableComplete == Spec => DisableCleansUp
<1>1. IInv' /\ DisableReturnsOk => CleanedUp'
  BY DEF IInv, TypeInv, TypeOK, AccountFirst, InOrder, Settled,
         DisableReturnsOk, CleanedUp
<1>2. IInv' /\ [Next]_vars => [DisableReturnsOk => CleanedUp']_vars
  BY <1>1
<1> QED BY <1>2, AlwaysIInv, PTL DEF Spec, DisableCleansUp

=============================================================================
