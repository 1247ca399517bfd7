-------------------------------- MODULE JobLock --------------------------------
(***************************************************************************)
(* The lease on corpus maintenance: a lock file taken with O_EXCL and      *)
(* judged by its readers (agentic/embedding_maintenance.py).  Every process *)
(* is as fine as its file-system calls, because nothing makes two of them  *)
(* atomic: a reader decides that a lock is dead in one call and removes    *)
(* whatever is at the path in a later one.                                 *)
(*                                                                         *)
(* Time is abstracted to two events: a file becomes older than one second, *)
(* and a lease becomes older than its TTL.  Neither can happen to a process *)
(* that keeps up, so both cost a fault; a crash does too.                  *)
(***************************************************************************)
EXTENDS Naturals, FiniteSets

CONSTANTS
  Procs,      \* (process, owner name) pairs that use the lease
  Faults,     \* what may go wrong: "crash", "overrun" and "pause"
  MaxFaults   \* bound: how often, in one behaviour

ASSUME FaultsAssumption == /\ Faults \subseteq {"crash", "overrun", "pause"}
                           /\ MaxFaults \in Nat

VARIABLES
  lock,     \* what is at JOB_LOCK_PATH
  maker,    \* the process whose file that is
  pc,       \* per process, the next file-system call
  call,     \* per process, the function that called job_holder
  working,  \* processes told they hold the lease that have not released it
  robbed,   \* history: processes whose file others took, or that overran the TTL
  faults

vars == <<lock, maker, pc, call, working, robbed, faults>>

\* empty: created, not yet written, less than a second old; residue: the same but
\* older; held and stale: well formed, of a live or of a dead or overrun holder.
LockState == {"absent", "empty", "residue", "held", "stale"}
Steps     == {"rest", "open", "write", "look", "suspect", "steal", "replace", "unlink"}
Calls     == {"claim", "renew", "release", "check"}

\* Type invariant of the lease.
TypeOK ==
  /\ lock \in LockState
  /\ maker \in Procs
  /\ pc \in [Procs -> Steps]
  /\ call \in [Procs -> Calls]
  /\ working \subseteq Procs
  /\ robbed \subseteq Procs
  /\ faults \in Nat

Init ==
  /\ lock = "absent"
  /\ maker \in Procs
  /\ pc = [p \in Procs |-> "rest"]
  /\ call = [p \in Procs |-> "check"]
  /\ working = {} /\ robbed = {} /\ faults = 0

Goto(p, step) == pc' = [pc EXCEPT ![p] = step]

Fault(kind) == kind \in Faults /\ faults < MaxFaults /\ faults' = faults + 1

\* The owner whose file is on disk loses it to somebody else.
Live == lock \in {"empty", "residue", "held"}
        /\ (maker \in working \/ pc[maker] = "write")
Rob(p) == robbed' = IF Live /\ maker # p THEN robbed \cup {maker} ELSE robbed

Call(p, c) ==
  /\ pc[p] = "rest"
  /\ call' = [call EXCEPT ![p] = c]

\* claim_job, release_job, renew_job and job_active begin.
Claim(p) ==
  /\ Call(p, "claim") /\ p \notin working
  /\ Goto(p, "open")
  /\ UNCHANGED <<lock, maker, working, robbed, faults>>

Release(p) ==
  /\ Call(p, "release") /\ p \in working
  /\ working' = working \ {p} /\ robbed' = robbed \ {p}
  /\ Goto(p, "look")
  /\ UNCHANGED <<lock, maker, faults>>

Ask(p) ==
  /\ \/ Call(p, "renew") /\ p \in working
     \/ Call(p, "check") /\ p \notin working
  /\ Goto(p, "look")
  /\ UNCHANGED <<lock, maker, working, robbed, faults>>

\* Seeded fault: a plain create instead of an exclusive one.
OpenShared(p) ==
  /\ pc[p] = "open"
  /\ lock' = "empty" /\ maker' = p /\ Goto(p, "write")
  /\ UNCHANGED <<call, working, robbed, faults>>

\* os.open(O_CREAT | O_EXCL)
Open(p) ==
  /\ pc[p] = "open"
  /\ IF lock = "absent"
     THEN lock' = "empty" /\ maker' = p /\ Goto(p, "write")
     ELSE Goto(p, "look") /\ UNCHANGED <<lock, maker>>
  /\ UNCHANGED <<call, working, robbed, faults>>

\* os.write goes to the file this process created, at the path or not.
Write(p) ==
  /\ pc[p] = "write"
  /\ lock' = IF maker = p /\ lock \in {"empty", "residue"} THEN "held" ELSE lock
  /\ working' = working \cup {p}
  /\ Goto(p, "rest")
  /\ UNCHANGED <<maker, call, robbed, faults>>

\* Seeded fault: a claim that finds nobody goes to a state its loop does not have.
NoHolderRetries(p) == Goto(p, IF call[p] = "claim" THEN "retry" ELSE "rest")

\* job_holder returned None to its caller.
NoHolder(p) == Goto(p, IF call[p] = "claim" THEN "open" ELSE "rest")

\* job_holder reads the file; a claim that meets a live holder waits or gives up,
\* and renew_job and release_job go on only if the holder is the caller.
Look(p) ==
  /\ pc[p] = "look"
  /\ \/ lock = "held" /\ call[p] = "claim" /\ \E s \in {"open", "rest"} : Goto(p, s)
     \/ lock = "held" /\ call[p] = "check" /\ Goto(p, "rest")
     \/ lock = "held" /\ call[p] = "renew" /\ Goto(p, IF maker = p THEN "replace" ELSE "rest")
     \/ lock = "held" /\ call[p] = "release" /\ Goto(p, IF maker = p THEN "unlink" ELSE "rest")
     \/ lock = "stale" /\ Goto(p, "steal")
     \/ lock \in {"absent", "empty", "residue"} /\ Goto(p, "suspect")
  /\ UNCHANGED <<lock, maker, call, working, robbed, faults>>

\* Seeded fault: a malformed lock is never cleaned up.
StatKeeps(p) ==
  /\ pc[p] = "suspect"
  /\ NoHolder(p)
  /\ UNCHANGED <<lock, maker, call, working, robbed, faults>>

\* Seeded fault: no grace second for a file that is being written.
StatNoGrace(p) ==
  /\ pc[p] = "suspect"
  /\ IF lock # "absent" THEN Goto(p, "steal") ELSE NoHolder(p)
  /\ UNCHANGED <<lock, maker, call, working, robbed, faults>>

\* A file that could not be read is removed when what is at the path by now is
\* older than a second: residue, or a good lock if this reader was paused for long.
Stat(p) ==
  /\ pc[p] = "suspect"
  /\ \/ lock = "residue" /\ Goto(p, "steal") /\ UNCHANGED faults
     \/ lock # "residue" /\ NoHolder(p) /\ UNCHANGED faults
     \/ lock \in {"held", "stale"} /\ Fault("pause") /\ Goto(p, "steal")
  /\ UNCHANGED <<lock, maker, call, working, robbed>>

\* unlink(missing_ok=True) removes the file that is there now.
Steal(p) ==
  /\ pc[p] = "steal"
  /\ lock' = "absent" /\ Rob(p)
  /\ NoHolder(p)
  /\ UNCHANGED <<maker, call, working, faults>>

\* renew_job replaces the file; release_job removes it.
Replace(p) ==
  /\ pc[p] = "replace"
  /\ lock' = "held" /\ maker' = p /\ Rob(p)
  /\ Goto(p, "rest")
  /\ UNCHANGED <<call, working, faults>>

Unlink(p) ==
  /\ pc[p] = "unlink"
  /\ lock' = "absent" /\ Rob(p)
  /\ Goto(p, "rest")
  /\ UNCHANGED <<maker, call, working, faults>>

\* A process dies and comes back with another pid.
Crash(p) ==
  /\ Fault("crash")
  /\ pc[p] # "rest" \/ p \in working
  /\ lock' = IF lock = "held" /\ maker = p THEN "stale" ELSE lock
  /\ working' = working \ {p} /\ robbed' = robbed \ {p}
  /\ Goto(p, "rest")
  /\ UNCHANGED <<maker, call>>

\* An empty file gets older than a second: its writer is gone, or is slow.
Age ==
  /\ lock = "empty"
  /\ lock' = "residue"
  /\ IF pc[maker] = "write" THEN Fault("pause") ELSE UNCHANGED faults
  /\ UNCHANGED <<maker, pc, call, working, robbed>>

\* The holder works on past JOB_LOCK_TTL_S without a renewal.
Overrun ==
  /\ lock = "held" /\ Fault("overrun")
  /\ lock' = "stale"
  /\ robbed' = robbed \cup ({maker} \cap working)
  /\ UNCHANGED <<maker, pc, call, working>>

Step(p) == Open(p) \/ Write(p) \/ Look(p) \/ Stat(p) \/ Steal(p) \/ Replace(p) \/ Unlink(p)

Next ==
  \/ \E p \in Procs : Claim(p) \/ Release(p) \/ Ask(p) \/ Step(p) \/ Crash(p)
  \/ Age \/ Overrun

\* A function that was called runs to its end, the idle worker claims again every
\* cycle, a holder finishes its work, and seconds pass.
Fairness ==
  /\ \A p \in Procs : WF_vars(Step(p)) /\ WF_vars(Claim(p)) /\ WF_vars(Release(p))
  /\ WF_vars(Age)

Spec == Init /\ [][Next]_vars /\ Fairness
-----------------------------------------------------------------------------
(* Properties.                                                             *)

\* claim_job: "Atomically claim corpus/index mutation".  As long as nothing crashed, overran its
\* TTL or paused for a second, it is so, and no two processes are told that they hold the lease:
\* the windows between the calls of job_holder cost nothing to processes that keep up.
OrderlyExclusion == faults = 0 => \A p, q \in working : p = q

\* Whatever crashes, overruns and pauses happen: two processes work at once only if
\* one of them had its lock file taken away; the exclusive create never admits two.
SoleWorker == \A p, q \in working \ robbed : p = q

\* The lock of a dead process, written or still empty, does not block the corpora:
\* its readers clear it.
DeadLockClears == []<>(lock \notin {"empty", "residue", "stale"})

\* Why SoleWorker holds: whoever was not robbed made the file that is on disk.
OnDisk ==
  /\ \A p \in working \ robbed : lock = "held" /\ maker = p
  /\ \A p \in Procs \ robbed : pc[p] = "write" => lock \in {"empty", "residue"} /\ maker = p
  /\ \A p \in working :
       /\ call[p] \in {"claim", "release"} => pc[p] = "rest"
       /\ pc[p] \notin {"open", "write", "unlink"}
       /\ pc[p] \in {"suspect", "steal"} => p \in robbed
  /\ robbed \subseteq working \cup {p \in Procs : pc[p] = "write"}

\* Why nobody is robbed without a fault: no lock is ever dead, so no reader is on
\* its way to remove one, and a process that renews or releases still owns its file.
NoRobbers ==
  faults = 0 =>
    /\ robbed = {}
    /\ lock = "empty" => pc[maker] = "write"
    /\ lock \notin {"residue", "stale"}
    /\ \A p \in Procs :
         /\ pc[p] # "steal"
         /\ pc[p] \in {"replace", "unlink"} => lock = "held" /\ maker = p
=============================================================================
