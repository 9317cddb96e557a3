---------------------------- MODULE InstanceLock ----------------------------
(***************************************************************************)
(* kernel/config/lock.py: the file that keeps a second process out of an   *)
(* instance directory, with the liveness probe of process.py.  A process   *)
(* is created once, tries to acquire the lock and may crash at any step;   *)
(* the file it leaves behind is judged by the processes that come later,   *)
(* one of which may have been given its PID.  An action is one system call *)
(* and what is decided from it.                                            *)
(*                                                                         *)
(* Pinning is the platform: on Windows a file that is open cannot be       *)
(* deleted, on POSIX it can (lock.py, module docstring).                   *)
(***************************************************************************)
EXTENDS FiniteSets

CONSTANTS
  Processes,
  Pids,
  PidOf,
  Hosts,
  HostOf,
  Pinning,
  NoFile,      (* there is no file at the path of the lock                 *)
  Unreadable   (* what _read_holder() makes of a file without a PID, and   *)
               (* of no file                                               *)

ASSUME ConstantsAssumption ==
  /\ PidOf \in [Processes -> Pids]
  /\ HostOf \in [Processes -> Hosts]
  /\ Pinning \in BOOLEAN
  /\ NoFile \notin [by : Processes, written : BOOLEAN]
  /\ Unreadable \notin Processes

VARIABLES
  file,  (* at the lock's path: who created it, and if its content is there *)
  pc,    (* per process: the step it is about to take                       *)
  seen   (* per process: the holder it read from the file                   *)

vars == <<file, pc, seen>>

Gone    == {"unborn", "gone"}
Steps   == Gone \cup {"create", "writing", "inspect", "probe", "reclaim", "retry",
                      "held", "closing", "unlinking", "released",
                      "refused",   (* CONFIG_INSTANCE_LOCKED    *)
                      "failed"}    (* PERSISTENCE_WRITE_FAILED  *)

Alive(p) == pc[p] \notin Gone
Goto(p, step) == pc' = [pc EXCEPT ![p] = step]

(* Mutant: the descriptor is closed once the file is written. *)
OpenToWrite(p) == pc[p] = "writing"

(* The descriptor of the file that p created is open. *)
Open(p) == pc[p] \in {"writing", "held"}

(* The file at the path cannot be deleted. *)
Pinned == Pinning /\ file # NoFile /\ Open(file.by)

(* Path.unlink(), whoever the file at the path belongs to. *)
Unlinked == file' = IF Pinned THEN file ELSE NoFile

(* _read_holder(): the process that the file names. *)
Holder == IF file # NoFile /\ file.written THEN file.by ELSE Unreadable

SamePid(p, q) == HostOf[p] = HostOf[q] /\ PidOf[p] = PidOf[q]
-----------------------------------------------------------------------------
Init ==
  /\ file = NoFile
  /\ pc = [p \in Processes |-> "unborn"]
  /\ seen = [p \in Processes |-> Unreadable]

(* A process starts and calls acquire(); its PID is free. *)
Start(p) ==
  /\ pc[p] = "unborn"
  /\ \A q \in Processes : SamePid(p, q) => ~Alive(q)
  /\ Goto(p, "create")
  /\ UNCHANGED <<file, seen>>

(* Mutant: os.open() without O_EXCL. *)
CreateShared(p, ok) ==
  /\ pc[p] \in {"create", "retry"}
  /\ IF ok THEN file' = [by |-> p, written |-> FALSE] /\ Goto(p, "writing")
     ELSE UNCHANGED file /\ Goto(p, "failed")
  /\ UNCHANGED seen

(* os.open(O_CREAT | O_EXCL).  A file in the way is inspected the first     *)
(* time and ends the attempt the second; any other error ends it at once.  *)
Create(p, ok) ==
  /\ pc[p] \in {"create", "retry"}
  /\ \/ /\ file = NoFile /\ ok
        /\ file' = [by |-> p, written |-> FALSE]
        /\ Goto(p, "writing")
     \/ /\ file # NoFile /\ ok
        /\ Goto(p, IF pc[p] = "create" THEN "inspect" ELSE "refused")
        /\ UNCHANGED file
     \/ /\ ~ok
        /\ Goto(p, "failed")
        /\ UNCHANGED file
  /\ UNCHANGED seen

(* os.write() through the descriptor reaches the file even if it is no      *)
(* longer the one at the path.  When it fails, the descriptor is closed    *)
(* and the path unlinked.                                                  *)
Write(p, ok) ==
  LET mine == file # NoFile /\ file.by = p IN
  /\ pc[p] = "writing"
  /\ \/ /\ ok
        /\ file' = IF mine THEN [file EXCEPT !.written = TRUE] ELSE file
        /\ Goto(p, "held")
     \/ /\ ~ok
        /\ file' = IF Pinned /\ ~mine THEN file ELSE NoFile
        /\ Goto(p, "failed")
  /\ UNCHANGED seen

(* Mutant: a file without a PID is taken for a live lock. *)
InspectStrictly(p) ==
  /\ pc[p] = "inspect"
  /\ seen' = [seen EXCEPT ![p] = Holder]
  /\ Goto(p, IF Holder = Unreadable THEN "refused" ELSE "probe")
  /\ UNCHANGED file

(* Mutant: None is probed like any holder. *)
InspectUnchecked(p) ==
  /\ pc[p] = "inspect"
  /\ seen' = [seen EXCEPT ![p] = Holder]
  /\ Goto(p, "probe")
  /\ UNCHANGED file

(* _reclaim_or_fail() reads the holder: a lock that names nobody is stale. *)
Inspect(p) ==
  /\ pc[p] = "inspect"
  /\ seen' = [seen EXCEPT ![p] = Holder]
  /\ Goto(p, IF Holder = Unreadable THEN "reclaim" ELSE "probe")
  /\ UNCHANGED file

(* What process_is_alive() and process_started_at() tell p about the holder *)
(* it read: it is gone; or some process has its PID, which may be seen to  *)
(* be a younger one.                                                       *)
Stale(p) ==
  /\ HostOf[seen[p]] = HostOf[p]
  /\ PidOf[seen[p]] # PidOf[p]
  /\ ~Alive(seen[p])

Occupied(p) ==
  \/ HostOf[seen[p]] # HostOf[p]
  \/ PidOf[seen[p]] = PidOf[p]
  \/ \E q \in Processes : SamePid(q, seen[p]) /\ Alive(q)

Probe(p) ==
  /\ pc[p] = "probe"
  /\ \/ Stale(p) /\ Goto(p, "reclaim")
     \/ Occupied(p) /\ Goto(p, "refused")
  /\ UNCHANGED <<file, seen>>

(* _reclaim(): the file is deleted, or it is taken for a live lock. *)
Reclaim(p) ==
  /\ pc[p] = "reclaim"
  /\ Unlinked
  /\ Goto(p, IF Pinned THEN "refused" ELSE "retry")
  /\ UNCHANGED seen

(* release(): the descriptor is closed first, *)
Close(p) ==
  /\ pc[p] = "held"
  /\ Goto(p, "closing")
  /\ UNCHANGED <<file, seen>>

(* then the file is left alone if it names another PID, *)
ReleaseCheck(p) ==
  /\ pc[p] = "closing"
  /\ Goto(p, IF Holder # Unreadable /\ PidOf[Holder] # PidOf[p] THEN "released" ELSE "unlinking")
  /\ UNCHANGED <<file, seen>>

(* and deleted otherwise. *)
Unlink(p) ==
  /\ pc[p] = "unlinking"
  /\ Unlinked
  /\ Goto(p, "released")
  /\ UNCHANGED seen

(* The process ends or is killed, wherever it is. *)
Die(p) ==
  /\ Alive(p)
  /\ Goto(p, "gone")
  /\ UNCHANGED <<file, seen>>

Next ==
  \E p \in Processes :
    \/ Start(p)
    \/ \E ok \in BOOLEAN : Create(p, ok) \/ Write(p, ok)
    \/ Inspect(p) \/ Probe(p) \/ Reclaim(p)
    \/ Close(p) \/ ReleaseCheck(p) \/ Unlink(p)
    \/ Die(p)

(* A process that is not killed goes on, and its system calls do not fail   *)
(* for ever; it may hold the lock as long as it likes.                     *)
Fairness ==
  \A p \in Processes :
    WF_vars(Create(p, TRUE) \/ Write(p, TRUE) \/ Inspect(p) \/ Probe(p) \/ Reclaim(p))

Spec == Init /\ [][Next]_vars
FairSpec == Spec /\ Fairness
-----------------------------------------------------------------------------
TypeOK ==
  /\ file \in [by : Processes, written : BOOLEAN] \cup {NoFile}
  /\ pc \in [Processes -> Steps]
  /\ seen \in [Processes -> Processes \cup {Unreadable}]
  /\ \A p \in Processes : pc[p] = "probe" => seen[p] \in Processes

(* "One process at a time runs in an instance directory"                    *)
(* (docs/configuration.md:20), whatever processes start, crash and race.   *)
OneHolder ==
  \A p, q \in Processes : pc[p] = "held" /\ pc[q] = "held" => p = q

(* The lock that a process holds can be found and names it, so that the     *)
(* next one is told who is in its way (EDG-507), and only its own release  *)
(* takes it away.                                                          *)
HolderNamed == \A p \in Processes : pc[p] = "held" => Holder = p

(* No crash bricks the instance: wherever the processes before it were      *)
(* killed, one that is left alone gets the lock.  (A lock that names the   *)
(* caller's own PID, or another host, is refused even if it is stale.)     *)
Undisturbed(p) ==
  /\ \A q \in Processes \ {p} : ~Alive(q)
  /\ file # NoFile /\ file.by # p =>
       HostOf[file.by] = HostOf[p] /\ PidOf[file.by] # PidOf[p]

LoneStarterSucceeds ==
  \A p \in Processes :
    [](pc[p] = "create" /\ []Undisturbed(p) =>
         /\ [](pc[p] # "refused")
         /\ <>(pc[p] \in {"held", "failed", "gone"}))
=============================================================================
