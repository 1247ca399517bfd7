------------------------------- MODULE Watchdog -------------------------------
(* What keeps the dashboard alive: the watchdog process                       *)
(* (scripts/operations/dashboard_watchdog.py), which probes it, kills what     *)
(* looks like a dashboard and starts another, the one-shot restart that        *)
(* POST restart starts beside it, and the start of the dashboard itself,       *)
(* which probes, kills the jobs it finds and binds the port.                  *)
EXTENDS Naturals, FiniteSets

CONSTANTS Dashboards,  \* processes that can run the dashboard at a time
          Watchdogs,
          MaxFaults,   \* bound: crashes and hangs, of dashboards and watchdogs
          MaxMisses    \* bound: probes that time out and process lists that come back empty

VARIABLES
  dash,    \* per dashboard process: off, start, bind, serving, or hung with the port held
  dog,     \* per watchdog: step, failed probes in a row, whether it is in its grace period
  slot,    \* the watchdog pid file: "none", "empty", a watchdog, or "stale", the pid of a dead one
  restart, \* per restarter, the watchdogs and the one-shot: step and pids it is to kill
  faults, misses

vars == <<dash, dog, slot, restart, faults, misses>>

Restarters == Watchdogs \cup {"oneshot"}
NoDog == [pc |-> "off", fails |-> 0, grace |-> FALSE]
NoRestart == [pc |-> "off", pids |-> {}]

Init ==
  /\ dash = [d \in Dashboards |-> "off"]
  /\ dog = [w \in Watchdogs |-> NoDog]
  /\ slot = "none" /\ restart = [r \in Restarters |-> NoRestart]
  /\ faults = 0 /\ misses = 0

Answers == \E d \in Dashboards : dash[d] = "serving"
Held == \E d \in Dashboards : dash[d] \in {"serving", "hung"}
Missed == misses < MaxMisses /\ misses' = misses + 1
Watching(w) == dog[w].pc = "watch"
Step(w, pc) == dog' = [dog EXCEPT ![w].pc = pc]

----------------------------------------------------------------------------
(* web_dashboard.py: the probe of two seconds, then the bind.                 *)

Probe(d) ==
  /\ dash[d] = "start"
  /\ \/ dash' = [dash EXCEPT ![d] = IF Answers THEN "off" ELSE "bind"] /\ UNCHANGED misses
     \/ Answers /\ Missed /\ dash' = [dash EXCEPT ![d] = "bind"]
  /\ UNCHANGED <<dog, slot, restart, faults>>

Bind(d) ==
  /\ dash[d] = "bind"
  /\ dash' = [dash EXCEPT ![d] = IF Held THEN "off" ELSE "serving"]
  /\ UNCHANGED <<dog, slot, restart, faults, misses>>

----------------------------------------------------------------------------
(* claim_watchdog_slot.  The file is created, then written and closed; until   *)
(* then nobody else can remove it.                                           *)

Begin(w) ==
  /\ dog[w].pc = "off" /\ Step(w, "claim")
  /\ UNCHANGED <<dash, slot, restart, faults, misses>>

Create(w) ==
  /\ dog[w].pc = "claim" /\ slot = "none"
  /\ slot' = "empty" /\ Step(w, "write")
  /\ UNCHANGED <<dash, restart, faults, misses>>

WritePid(w) ==
  /\ dog[w].pc = "write" /\ slot' = w /\ Step(w, "watch")
  /\ UNCHANGED <<dash, restart, faults, misses>>

OwnedForEver == slot # "none"  \* mutant: a pid file is taken at its word
Owned == slot \in Watchdogs

ReadPid(w) ==
  /\ dog[w].pc = "claim" /\ slot # "none"
  /\ dog' = [dog EXCEPT ![w] = IF Owned THEN NoDog ELSE [@ EXCEPT !.pc = "unlink"]]
  /\ UNCHANGED <<dash, slot, restart, faults, misses>>

(* Whatever the file says by now.                                            *)
Unlink(w) ==
  /\ dog[w].pc = "unlink"
  /\ IF \E v \in Watchdogs : dog[v].pc = "write"
     THEN dog' = [dog EXCEPT ![w] = NoDog] /\ UNCHANGED slot
     ELSE Step(w, "claim") /\ slot' = "none"
  /\ UNCHANGED <<dash, restart, faults, misses>>

----------------------------------------------------------------------------
(* run_watchdog: a probe every few seconds, three failures, a restart, and a  *)
(* grace period in which nothing is counted.                                 *)

Failures(w) == dog' = [dog EXCEPT ![w].fails = IF dog[w].grace THEN @ ELSE IF @ < 3 THEN @ + 1 ELSE @]

Check(w) ==
  /\ Watching(w) /\ restart[w].pc = "off" /\ dog[w].fails < 3
  /\ \/ Answers /\ dog' = [dog EXCEPT ![w].fails = 0, ![w].grace = FALSE] /\ UNCHANGED misses
     \/ ~Answers /\ ~dog[w].grace /\ Failures(w) /\ UNCHANGED misses
     \/ Answers /\ ~dog[w].grace /\ Failures(w) /\ Missed
  /\ UNCHANGED <<dash, slot, restart, faults>>

(* Four minutes, longer than a restart by anybody and a start take.           *)
GraceEnds(w) ==
  /\ Watching(w) /\ dog[w].grace /\ \A r \in Restarters : restart[r].pc = "off"
  /\ \A d \in Dashboards : dash[d] \notin {"start", "bind"}
  /\ dog' = [dog EXCEPT ![w].grace = FALSE]
  /\ UNCHANGED <<dash, slot, restart, faults, misses>>

FoundByPidFile == {}  \* mutant: the process list of a tool that is no longer installed
Found == {d \in Dashboards : dash[d] # "off"}

(* restart_dashboard: the list, the kills, the start.                         *)
List(r) ==
  /\ restart[r].pc = "off"
  /\ IF r = "oneshot" THEN \E d \in Dashboards : dash[d] = "serving" ELSE Watching(r) /\ dog[r].fails = 3
  /\ \/ restart' = [restart EXCEPT ![r] = [pc |-> "kill", pids |-> Found]] /\ UNCHANGED misses
     \/ Missed /\ restart' = [restart EXCEPT ![r] = [pc |-> "kill", pids |-> {}]]
  /\ UNCHANGED <<dash, dog, slot, faults>>

KillAll(r) ==
  /\ restart[r].pc = "kill" /\ restart' = [restart EXCEPT ![r] = [pc |-> "launch", pids |-> {}]]
  /\ dash' = [d \in Dashboards |-> IF d \in restart[r].pids THEN "off" ELSE dash[d]]
  /\ UNCHANGED <<dog, slot, faults, misses>>

Launch(r) ==
  /\ restart[r].pc = "launch" /\ restart' = [restart EXCEPT ![r] = NoRestart]
  /\ \E d \in Dashboards : dash[d] = "off" /\ dash' = [dash EXCEPT ![d] = "start"]
  /\ dog' = [w \in Watchdogs |-> IF w = r THEN [dog[w] EXCEPT !.fails = 0, !.grace = TRUE] ELSE dog[w]]
  /\ UNCHANGED <<slot, faults, misses>>

----------------------------------------------------------------------------
Fault == faults < MaxFaults /\ faults' = faults + 1

DashboardFails(d) ==
  /\ dash[d] # "off" /\ Fault
  /\ dash' \in {[dash EXCEPT ![d] = s] : s \in {"off"} \cup IF dash[d] = "serving" THEN {"hung"} ELSE {}}
  /\ UNCHANGED <<dog, slot, restart, misses>>

WatchdogDies(w) ==
  /\ dog[w].pc # "off" /\ Fault
  /\ dog' = [dog EXCEPT ![w] = NoDog] /\ restart' = [restart EXCEPT ![w] = NoRestart]
  /\ slot' = IF slot = w THEN "stale" ELSE slot
  /\ UNCHANGED <<dash, misses>>

Claim(w) == Create(w) \/ WritePid(w) \/ ReadPid(w) \/ Unlink(w)
Restart(r) == KillAll(r) \/ Launch(r)
DogStep(w) == Claim(w) \/ Check(w) \/ GraceEnds(w) \/ List(w) \/ Restart(w)

Next ==
  \/ \E d \in Dashboards : Probe(d) \/ Bind(d) \/ DashboardFails(d)
  \/ \E w \in Watchdogs : Begin(w) \/ DogStep(w) \/ WatchdogDies(w)
  \/ List("oneshot") \/ Restart("oneshot")

(* Processes go on, and the person who uses the dashboard starts a watchdog   *)
(* when none is there; nobody asks for restarts without end.                 *)
Fairness ==
  /\ \A d \in Dashboards : WF_vars(Probe(d)) /\ WF_vars(Bind(d))
  /\ \A w \in Watchdogs : WF_vars(DogStep(w)) /\ WF_vars(Begin(w))
  /\ WF_vars(Restart("oneshot")) /\ <>[][~List("oneshot")]_vars

Spec == Init /\ [][Next]_vars /\ Fairness

----------------------------------------------------------------------------
(* However dashboards and watchdogs crash and hang, wherever a watchdog died   *)
(* in claiming its slot, and with several actors restarting it at a time (the  *)
(* claim lets two watchdogs in when both find the file of a dead one), there   *)
(* is again and again a dashboard that serves.                               *)
DashboardComesBack == []<>(\E d \in Dashboards : dash[d] = "serving")
=============================================================================
