---------------------------- MODULE ManagedRuntime ----------------------------
(***************************************************************************)
(* The per-user MCP runtime (core/mcp/managed_runtime.py) and the command  *)
(* `sca mcp` (cli/main.py): processes install, uninstall and repair one    *)
(* directory, which install.lock is to keep to one of them at a time.      *)
(*                                                                         *)
(* The lock is a file: an exception or a Ctrl-C unlinks it on the way out, *)
(* the death of its process does not, and then only the user can.          *)
(*                                                                         *)
(* Abstractions: a runtime is whole, or in part gone; one that is in part  *)
(* gone may look whole, since a status asks for two files only.  The       *)
(* handshake that follows an installation changes nothing.  Node and npm   *)
(* are there.  A process that dies may come back with its old pid.         *)
(***************************************************************************)
EXTENDS Naturals

CONSTANTS
  Processes,    \* pids of `sca mcp` commands
  Versions,     \* runtime ids, one per lock file that a build of sca ships
  Nobody,       \* no process, no version
  MaxCommands,  \* commands that are given (bounds the model)
  MaxFaults     \* deaths and Ctrl-Cs (bounds the model)

ASSUME RuntimeAssumption ==
  /\ Nobody \notin Processes \cup Versions
  /\ {MaxCommands, MaxFaults} \subseteq Nat

VARIABLES
  entries,   \* children of the root: its markers, and files of someone else
  rooted,    \* the root directory exists
  versions,  \* what versions/<id> holds
  current,   \* the id in current.json
  staging,   \* processes whose staging directory exists
  lock,      \* the process that created install.lock
  pc,        \* where each process stands
  command,   \* what each process was asked to do, and its build of sca
  result,    \* how its last command ended
  issued,    \* commands given so far
  faults,    \* deaths and Ctrl-Cs so far
  torn       \* history: a removal was cut short

files == <<entries, rooted, versions, current, staging>>
runtimeVars == <<entries, rooted, versions, current, staging, lock, pc, command,
                 result, issued, faults, torn>>

Commands == [name : {"install", "uninstall", "repair"}, build : Versions]

RuntimeInit ==
  /\ entries \in {{}, {"foreign"}}
  /\ rooted = (entries # {})
  /\ versions = [v \in Versions |-> "none"]
  /\ current = Nobody
  /\ staging = {}
  /\ lock = Nobody
  /\ pc = [p \in Processes |-> "off"]
  /\ command \in [Processes -> [name : {"install"}, build : Versions]]
  /\ result = [p \in Processes |-> "none"]
  /\ issued = 0
  /\ faults = 0
  /\ torn = FALSE

Owned == "ownership" \in entries

Installed == {v \in Versions : versions[v] # "none"}

Empty == entries = {} /\ Installed = {} /\ current = Nobody /\ staging = {}

\* managed_runtime_status: a marker, an owned root and the required binaries,
\* which a runtime that is partly gone may still have.
MayBeHealthy == Owned /\ current # Nobody /\ versions[current] # "none"
MustBeHealthy == MayBeHealthy /\ versions[current] = "whole"

Go(p, s) == pc' = [pc EXCEPT ![p] = s]

End(p, how) == Go(p, "off") /\ result' = [result EXCEPT ![p] = how]

Unlock(p) == lock' = IF lock = p THEN Nobody ELSE lock

-----------------------------------------------------------------------------
Begin(p, c) ==
  /\ pc[p] = "off" /\ issued < MaxCommands
  /\ issued' = issued + 1
  /\ command' = [command EXCEPT ![p] = c]
  /\ result' = [result EXCEPT ![p] = "none"]
  /\ Go(p, IF c.name = "install" THEN "asking" ELSE "owning")
  /\ UNCHANGED <<files, lock, faults, torn>>

\* install_managed_runtime asks for the status before it has the lock, and is
\* content with a healthy runtime whatever its id.
FindHealthy(p) ==
  /\ pc[p] = "asking" /\ MayBeHealthy
  /\ End(p, "healthy")
  /\ UNCHANGED <<files, lock, command, issued, faults, torn>>

FindUnhealthy(p) ==
  /\ pc[p] = "asking" /\ ~MustBeHealthy
  /\ Go(p, "installing")
  /\ UNCHANGED <<files, lock, command, result, issued, faults, torn>>

\* uninstall_managed_runtime before the lock.
NothingToRemove(p) ==
  /\ pc[p] = "owning" /\ ~rooted
  /\ IF command[p].name = "repair" THEN Go(p, "asking") /\ UNCHANGED result
                                   ELSE End(p, "removed")
  /\ UNCHANGED <<files, lock, command, issued, faults, torn>>

RefuseForeign(p) ==
  /\ pc[p] = "owning" /\ rooted /\ ~Owned
  /\ End(p, "refused")
  /\ UNCHANGED <<files, lock, command, issued, faults, torn>>

MayRemove(p) ==
  /\ pc[p] = "owning" /\ rooted /\ Owned
  /\ Go(p, "uninstalling")
  /\ UNCHANGED <<files, lock, command, result, issued, faults, torn>>

\* _installation_lock, which also makes the root.
LockThen(p) == IF pc[p] = "installing" THEN "preparing" ELSE "removing"

\* Fault: the file is opened without O_EXCL.
LockAnyway(p) ==
  /\ pc[p] \in {"installing", "uninstalling"}
  /\ rooted' = TRUE
  /\ lock' = p /\ Go(p, LockThen(p))
  /\ UNCHANGED <<entries, versions, current, staging, command, result,
                 issued, faults, torn>>

Lock(p) ==
  /\ pc[p] \in {"installing", "uninstalling"}
  /\ rooted' = TRUE
  /\ IF lock = Nobody THEN lock' = p /\ Go(p, LockThen(p)) /\ UNCHANGED result
                      ELSE End(p, "locked") /\ UNCHANGED lock
  /\ UNCHANGED <<entries, versions, current, staging, command, issued,
                 faults, torn>>

\* Fault: the ownership of the root is not asked for.
PrepareAnywhere(p) ==
  /\ pc[p] = "preparing"
  /\ staging' = staging \cup {p}
  /\ Go(p, "building")
  /\ UNCHANGED <<entries, rooted, versions, current, lock, command, result,
                 issued, faults, torn>>

\* Only an owned or an empty root is built in.
Prepare(p) ==
  /\ pc[p] = "preparing"
  /\ IF (~Empty /\ ~Owned) \/ p \in staging
     THEN End(p, "refused") /\ Unlock(p) /\ UNCHANGED staging
     ELSE /\ staging' = staging \cup {p}
          /\ Go(p, "building")
          /\ UNCHANGED <<lock, result>>
  /\ UNCHANGED <<entries, rooted, versions, current, command, issued, faults,
                 torn>>

\* npm ci fails, takes too long or leaves out a binary.
NpmFails(p) ==
  /\ pc[p] = "building"
  /\ staging' = staging \ {p}
  /\ End(p, "failed") /\ Unlock(p)
  /\ UNCHANGED <<entries, rooted, versions, current, command, issued, faults,
                 torn>>

\* Fault: npm works in the directory that current.json may point to.
BuildInPlace(p) ==
  /\ pc[p] = "building"
  /\ versions' = [versions EXCEPT ![command[p].build] = "part"]
  /\ Go(p, "promoting")
  /\ UNCHANGED <<entries, rooted, current, staging, lock, command, result,
                 issued, faults, torn>>

NpmWorks(p) ==
  /\ pc[p] = "building"
  /\ Go(p, "promoting")
  /\ UNCHANGED <<files, lock, command, result, issued, faults, torn>>

\* The staging directory becomes the runtime, unless the target is there.
Promote(p) ==
  /\ pc[p] = "promoting"
  /\ staging' = staging \ {p}
  /\ versions' = [versions EXCEPT ![command[p].build] =
                    IF @ = "none" THEN "whole" ELSE @]
  /\ Go(p, "claiming")
  /\ UNCHANGED <<entries, rooted, current, lock, command, result, issued,
                 faults, torn>>

Claim(p) ==
  /\ pc[p] = "claiming"
  /\ entries' = entries \cup {"ownership"}
  /\ Go(p, "pointing")
  /\ UNCHANGED <<rooted, versions, current, staging, lock, command, result,
                 issued, faults, torn>>

\* current.json is written aside and replaced.
Point(p) ==
  /\ pc[p] = "pointing"
  /\ current' = command[p].build
  /\ Go(p, "unlocking")
  /\ UNCHANGED <<entries, rooted, versions, staging, lock, command, result,
                 issued, faults, torn>>

InstallUnlocks(p) ==
  /\ pc[p] = "unlocking"
  /\ Unlock(p)
  /\ Go(p, "checking")
  /\ UNCHANGED <<files, command, result, issued, faults, torn>>

CheckInstalled(p) ==
  /\ pc[p] = "checking"
  /\ \/ MayBeHealthy /\ End(p, "healthy")
     \/ ~MustBeHealthy /\ End(p, "failed")
  /\ UNCHANGED <<files, lock, command, issued, faults, torn>>

-----------------------------------------------------------------------------
\* The children of the root go one by one, in the order of the directory; a
\* runtime goes file by file.
RemoveMarker(p) ==
  /\ pc[p] = "removing"
  /\ \/ current # Nobody /\ current' = Nobody /\ UNCHANGED entries
     \/ \E e \in entries : entries' = entries \ {e} /\ UNCHANGED current
  /\ UNCHANGED <<rooted, versions, staging, lock, pc, command, result,
                 issued, faults, torn>>

RemoveStaging(p, q) ==
  /\ pc[p] = "removing" /\ q \in staging
  /\ staging' = staging \ {q}
  /\ UNCHANGED <<entries, rooted, versions, current, lock, pc, command,
                 result, issued, faults, torn>>

RemoveFiles(p, v) ==
  /\ pc[p] = "removing" /\ v \in Installed
  /\ versions' = [versions EXCEPT ![v] = IF @ = "whole" THEN "part" ELSE "none"]
  /\ UNCHANGED <<entries, rooted, current, staging, lock, pc, command,
                 result, issued, faults, torn>>

\* The lock goes first, then the root, which someone may have built in since.
UninstallUnlocks(p) ==
  /\ pc[p] = "removing" /\ Empty
  /\ Unlock(p)
  /\ Go(p, "unrooting")
  /\ UNCHANGED <<files, command, result, issued, faults, torn>>

RemoveRoot(p) ==
  /\ pc[p] = "unrooting"
  /\ rooted' = ~(Empty /\ lock = Nobody)
  /\ IF command[p].name = "repair" THEN Go(p, "asking") /\ UNCHANGED result
                                   ELSE End(p, "removed")
  /\ UNCHANGED <<entries, versions, current, staging, lock, command, issued,
                 faults, torn>>

-----------------------------------------------------------------------------
Holding(p) == pc[p] \in {"preparing", "building", "promoting", "claiming",
                         "pointing", "unlocking", "removing"}

CutShort(p) ==
  /\ pc[p] # "off" /\ faults < MaxFaults
  /\ faults' = faults + 1
  /\ torn' = (torn \/ pc[p] = "removing")
  /\ End(p, "interrupted")
  /\ UNCHANGED <<files, command, issued>>

\* Ctrl-C: KeyboardInterrupt is no Exception, so that only the lock is undone.
Interrupt(p) ==
  /\ CutShort(p)
  /\ IF Holding(p) THEN Unlock(p) ELSE UNCHANGED lock

Die(p) == CutShort(p) /\ UNCHANGED lock

\* The user removes the lock of a process that is no more.
BreakLock ==
  /\ lock # Nobody /\ ~Holding(lock)
  /\ lock' = Nobody
  /\ UNCHANGED <<files, pc, command, result, issued, faults, torn>>

Install(p) ==
  \/ FindHealthy(p) \/ FindUnhealthy(p) \/ Prepare(p) \/ NpmFails(p)
  \/ NpmWorks(p) \/ Promote(p) \/ Claim(p) \/ Point(p) \/ InstallUnlocks(p)
  \/ CheckInstalled(p)

Uninstall(p) ==
  \/ NothingToRemove(p) \/ RefuseForeign(p) \/ MayRemove(p) \/ RemoveMarker(p)
  \/ \E q \in Processes : RemoveStaging(p, q)
  \/ \E v \in Versions : RemoveFiles(p, v)
  \/ UninstallUnlocks(p) \/ RemoveRoot(p)

RuntimeNext ==
  \/ \E p \in Processes : \/ \E c \in Commands : Begin(p, c)
                          \/ Install(p) \/ Lock(p) \/ Uninstall(p)
                          \/ Interrupt(p) \/ Die(p)
  \/ BreakLock

RuntimeSpec == RuntimeInit /\ [][RuntimeNext]_runtimeVars

-----------------------------------------------------------------------------
\* Every variable has its type.
RuntimeTypeOK ==
  /\ entries \subseteq {"ownership", "foreign"}
  /\ rooted \in BOOLEAN
  /\ versions \in [Versions -> {"none", "part", "whole"}]
  /\ current \in Versions \cup {Nobody}
  /\ staging \subseteq Processes
  /\ lock \in Processes \cup {Nobody}
  /\ pc \in [Processes -> {"off", "asking", "owning", "installing", "uninstalling",
                           "preparing", "building", "promoting", "claiming",
                           "pointing", "unlocking", "checking", "removing",
                           "unrooting"}]
  /\ command \in [Processes -> Commands]
  /\ result \in [Processes -> {"none", "healthy", "removed", "refused", "locked",
                               "failed", "interrupted"}]
  /\ issued \in 0..MaxCommands
  /\ faults \in 0..MaxFaults
  /\ torn \in BOOLEAN

\* One process at a time changes the runtime, also when a lock was left behind
\* and the user took it away (_installation_lock).
OneAtATime == \A p, q \in Processes : Holding(p) /\ Holding(q) => p = q

\* Unless a removal was cut short, what managed_binary hands to an Actor is a
\* whole runtime: no installation, however it ended and whatever other command
\* got in between its status and its lock, shows one that is being built, and
\* only a removal takes one that is shown away.
ShownRuntimeIsWhole ==
  MayBeHealthy /\ ~torn /\ (\A p \in Processes : pc[p] # "removing")
    => versions[current] = "whole"

\* A file that was there before the runtime outlives every command.
ForeignFilesStay == [][entries \cap {"foreign"} \subseteq entries']_runtimeVars
=============================================================================
