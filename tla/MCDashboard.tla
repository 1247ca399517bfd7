----------------------------- MODULE MCDashboard -----------------------------
(* What goes on around the dashboard in processes of their own: the users of   *)
(* the job lease, the watchdogs that keep a dashboard serving, and the jobs a   *)
(* dashboard starts.  They share no variable, so a behaviour shows one of the   *)
(* three and the others stay as they were: the states of the parts add up.     *)
EXTENDS JobLock

CONSTANTS
  idle, drain, research,  \* the users of the lease
  Children                \* child processes that can exist at a time

\* The three users of the lease; they differ only in their names.
Users     == {idle, drain, research}
AllFaults == {"crash", "overrun", "pause"}

VARIABLES part,
  dash, dog, slot, restart, deaths, misses,   \* watchdogs
  up, child, known, spawn, run, progress      \* jobs

wvars == <<dash, dog, slot, restart, deaths, misses>>
jvars == <<up, child, known, spawn, run, progress>>
allVars == <<part, vars, wvars, jvars>>

W == INSTANCE Watchdog WITH Dashboards <- {1, 2}, Watchdogs <- {"w1", "w2"}, MaxFaults <- 2,
       MaxMisses <- 1, faults <- deaths
J == INSTANCE Jobs

\* A part that does not run has one initial state.
MCInit ==
  /\ part \in {"lease", "watchdogs", "jobs"}
  /\ maker \in IF part = "lease" THEN Procs ELSE {idle}
  /\ Init /\ W!Init /\ J!Init

MCNext ==
  \/ part = "lease" /\ Next /\ UNCHANGED <<part, wvars, jvars>>
  \/ part = "watchdogs" /\ W!Next /\ UNCHANGED <<part, vars, jvars>>
  \/ part = "jobs" /\ J!Next /\ UNCHANGED <<part, vars, wvars>>

\* The fairness of each part, while it runs.
MCFairness ==
  /\ \A p \in Procs : /\ WF_vars(part = "lease" /\ Step(p)) /\ WF_vars(part = "lease" /\ Claim(p))
                      /\ WF_vars(part = "lease" /\ Release(p))
  /\ WF_vars(part = "lease" /\ Age)
  /\ \A d \in {1, 2} : /\ WF_wvars(part = "watchdogs" /\ W!Probe(d))
                       /\ WF_wvars(part = "watchdogs" /\ W!Bind(d))
  /\ \A w \in {"w1", "w2"} : /\ WF_wvars(part = "watchdogs" /\ W!DogStep(w))
                             /\ WF_wvars(part = "watchdogs" /\ W!Begin(w))
  /\ WF_wvars(part = "watchdogs" /\ W!Restart("oneshot"))
  /\ <>[][~(part = "watchdogs" /\ W!List("oneshot"))]_wvars

MCSpec == MCInit /\ [][MCNext]_allVars /\ MCFairness

(* There is again and again a dashboard that serves (Watchdog).               *)
DashboardComesBack ==
  []<>(part = "watchdogs" => \E d \in {1, 2} : dash[d] = "serving")
(* Of the jobs of a kind, and of the runs, one is alive (Jobs).               *)
OneOfAKind == J!OneOfAKind
=============================================================================
