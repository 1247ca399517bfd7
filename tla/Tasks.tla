-------------------------------- MODULE Tasks --------------------------------
(* The multi-step tasks of the agent (agent/task_planner.py) and the tools    *)
(* that start them: a planner writes a row with a list of steps, an executor  *)
(* runs the steps in order and keeps its position in the row, and a step that *)
(* starts background work waits for it by polling a progress file that every  *)
(* research of the machine shares.                                            *)
(*                                                                           *)
(* The executor modelled is one called in the thread that opened the store;   *)
(* the thread that plan_task and resume_task start has the store of another   *)
(* thread, and SQLite refuses its first read.                                 *)
EXTENDS Naturals, Sequences, FiniteSets

CONSTANTS Plans,      \* step lists a planner may write: sequences of "sync", "research", "ingest"
          Retries,    \* max_retries of execute
          MaxCalls,   \* bound: calls of execute and resume
          MaxOthers,  \* bound: research and ingestions other sessions start
          MaxCrashes  \* bound: crashes of the executor's process

VARIABLES
  row,      \* the row of the task: status, position, kind and status of each step
  exec,     \* the executor: where it is, its copy of the row, failed tries of the step
  asked,    \* the query of the task is among the recently researched ones
  file,     \* per kind of work: what its progress file says, and of whose run
  own,      \* the research the task launched: none, running, ended, declared dead
  mine,     \* the step that launched it
  notYet,   \* ingestions accepted by the dashboard whose thread has written nothing yet
  calls, others, crashes

work == <<asked, file, own, mine, notYet, others>>
vars == <<row, exec, work, calls, crashes>>

Kinds == {"research", "ingest"}
NoRow == [status |-> "none", cur |-> 1, kind |-> <<>>, sub |-> <<>>]
Off == [pc |-> "off", copy |-> NoRow, tries |-> 0]

Init ==
  /\ row = NoRow /\ exec = Off
  /\ asked \in BOOLEAN
  /\ file \in [Kinds -> {[st |-> "none", who |-> "none"], [st |-> "done", who |-> "other"]}]
  /\ own = "none" /\ mine = 0 /\ notYet = {} /\ calls = 0 /\ others = 0 /\ crashes = 0

TypeOK ==
  /\ row.status \in {"none", "planned", "running", "completed", "failed"}
  /\ row.cur \in 1 .. Len(row.sub) + 1
  /\ exec.pc \in {"off", "loop", "call", "wait", "failed"}
  /\ own \in {"none", "running", "ended", "dead"}

(* One generation of the model, or the template that matches the goal.        *)
Written(p) == [status |-> "planned", cur |-> 1, kind |-> p, sub |-> [i \in DOMAIN p |-> "pending"]]

Plan ==
  /\ row.status = "none"
  /\ \E p \in Plans : row' = Written(p)
  /\ UNCHANGED <<exec, work, calls, crashes>>

----------------------------------------------------------------------------
(* The store reads the row, changes one step and writes the row back.         *)
Closed == {"completed", "skipped"}

MarkedLate(r, i, st) ==  \* mutant: the next step is taken for done as well
  LET sub == [r.sub EXCEPT ![i] = st]
      cur == IF st \in Closed THEN i + 1 ELSE r.cur
      left == {j \in cur + 1 .. Len(sub) : sub[j] = "pending"}
      bad == (\E j \in DOMAIN sub : sub[j] = "failed") /\ \A j \in DOMAIN sub : sub[j] # "completed"
  IN [r EXCEPT !.sub = sub, !.cur = cur,
        !.status = IF st \in Closed \cup {"failed"} /\ left = {}
                   THEN IF bad THEN "failed" ELSE "completed" ELSE @]

Marked(r, i, st) ==
  LET sub == [r.sub EXCEPT ![i] = st]
      cur == IF st \in Closed THEN i + 1 ELSE r.cur
      left == {j \in cur .. Len(sub) : sub[j] = "pending"}
      bad == (\E j \in DOMAIN sub : sub[j] = "failed") /\ \A j \in DOMAIN sub : sub[j] # "completed"
  IN [r EXCEPT !.sub = sub, !.cur = cur,
        !.status = IF st \in Closed \cup {"failed"} /\ left = {}
                   THEN IF bad THEN "failed" ELSE "completed" ELSE @]

(* execute, on a new plan or by resume.                                       *)
Begin ==
  /\ exec.pc = "off" /\ calls < MaxCalls /\ calls' = calls + 1
  /\ row' = [row EXCEPT !.status = "running"]
  /\ exec' = [Off EXCEPT !.pc = "loop", !.copy = row']
  /\ UNCHANGED <<work, crashes>>

Execute == row.status = "planned" /\ Begin

Resume == row.status \in {"failed", "planned"} /\ Begin

Step == exec.copy.cur
KindOf == exec.copy.kind[Step]

(* A step that is pending or was cut off is started; a step that failed is    *)
(* skipped by reading the row again, position included.                      *)
NextStep ==
  /\ exec.pc = "loop" /\ Step <= Len(exec.copy.sub)
  /\ IF exec.copy.sub[Step] \in {"completed", "skipped", "failed"}
     THEN exec' = [exec EXCEPT !.copy = row] /\ UNCHANGED row
     ELSE /\ row' = Marked(row, Step, "running")
          /\ exec' = [exec EXCEPT !.pc = "call", !.tries = 0]
  /\ UNCHANGED <<work, calls, crashes>>

LastStep ==
  /\ exec.pc = "loop" /\ Step > Len(exec.copy.sub)
  /\ exec' = Off
  /\ UNCHANGED <<row, work, calls, crashes>>

Retry == [exec EXCEPT !.tries = @ + 1, !.pc = IF exec.tries < Retries THEN "call" ELSE "failed"]
Complete == /\ row' = Marked(row, Step, "completed")
            /\ exec' = [exec EXCEPT !.pc = "loop", !.copy = row']

CallFails ==
  /\ exec.pc = "call" /\ exec' = Retry
  /\ UNCHANGED <<row, work, calls, crashes>>

CallSync ==
  /\ exec.pc = "call" /\ KindOf = "sync" /\ Complete
  /\ UNCHANGED <<work, calls, crashes>>

Wait == exec' = [exec EXCEPT !.pc = "wait"]

LaunchSilent ==  \* mutant: the record is left to the process that is started
  file' = file /\ asked' = TRUE /\ own' = "running" /\ mine' = Step

(* A launch writes the record itself, before the process exists.              *)
Launch ==
  file' = [file EXCEPT !["research"] = [st |-> "running", who |-> "task"]] /\ asked' = TRUE /\ own' = "running" /\ mine' = Step

(* A running research, or a query researched lately, is an answer without a   *)
(* launch, and the executor waits all the same.                              *)
CallResearch ==
  /\ exec.pc = "call" /\ KindOf = "research" /\ Wait
  /\ IF file["research"].st = "running" \/ asked THEN UNCHANGED <<asked, file, own, mine>> ELSE Launch
  /\ UNCHANGED <<row, notYet, others, calls, crashes>>

CallIngest ==
  /\ exec.pc = "call" /\ KindOf = "ingest" /\ Wait
  /\ notYet' = IF file["ingest"].st = "running" \/ notYet # {} THEN notYet ELSE {"task"}
  /\ UNCHANGED <<row, asked, file, own, mine, others, calls, crashes>>

(* One reading of the file; a running state is read again until time is up.   *)
Poll ==
  /\ exec.pc = "wait"
  /\ \/ file[KindOf].st = "done" /\ Complete
     \/ file[KindOf].st = "failed" /\ exec' = Retry /\ UNCHANGED row
  /\ UNCHANGED <<work, calls, crashes>>

TimeUp ==
  /\ exec.pc = "wait" /\ file[KindOf].st \notin {"done", "failed"}
  /\ exec' = Retry
  /\ UNCHANGED <<row, work, calls, crashes>>

MarkFailed ==
  /\ exec.pc = "failed"
  /\ row' = Marked(row, Step, "failed")
  /\ exec' = [exec EXCEPT !.pc = "loop", !.copy = row']
  /\ UNCHANGED <<work, calls, crashes>>

Crash ==
  /\ exec.pc # "off" /\ crashes < MaxCrashes /\ crashes' = crashes + 1
  /\ exec' = Off
  /\ UNCHANGED <<row, work, calls>>

----------------------------------------------------------------------------
(* The background work.                                                      *)

IngestBegins ==
  /\ notYet # {} /\ notYet' = {}
  /\ file' = [file EXCEPT !["ingest"] = [st |-> "running", who |-> CHOOSE w \in notYet : TRUE]]
  /\ UNCHANGED <<row, exec, asked, own, mine, others, calls, crashes>>

IngestEnds ==
  /\ file["ingest"].st = "running"
  /\ \E st \in {"done", "failed"} : file' = [file EXCEPT !["ingest"].st = st]
  /\ UNCHANGED <<row, exec, asked, own, mine, notYet, others, calls, crashes>>

(* A research writes the end of its own run, whatever the file says by then.  *)
ResearchEnds ==
  /\ own \in {"running", "dead"}
  /\ \E st \in {"done", "failed"} :
       file' = [file EXCEPT !["research"] = [st |-> st, who |-> "task"]]
  /\ own' = "ended"
  /\ UNCHANGED <<row, exec, asked, mine, notYet, others, calls, crashes>>

OtherEnds ==
  /\ file["research"] = [st |-> "running", who |-> "other"]
  /\ \E st \in {"done", "failed"} : file' = [file EXCEPT !["research"].st = st]
  /\ UNCHANGED <<row, exec, asked, own, mine, notYet, others, calls, crashes>>

(* A chat researches something: nothing runs, or what runs is older than three *)
(* times the seconds this chat asks for and is declared dead.                 *)
OtherLaunches ==
  /\ others < MaxOthers /\ others' = others + 1
  /\ \E dead \in BOOLEAN :
       /\ file["research"].st = "running" <=> dead
       /\ own' = IF dead /\ own = "running" /\ file["research"].who = "task" THEN "dead" ELSE own
  /\ file' = [file EXCEPT !["research"] = [st |-> "running", who |-> "other"]]
  /\ UNCHANGED <<row, exec, asked, mine, notYet, calls, crashes>>

Forgotten ==
  /\ asked /\ row.status = "none" /\ asked' = FALSE
  /\ UNCHANGED <<row, exec, file, own, mine, notYet, others, calls, crashes>>

Call == CallFails \/ CallSync \/ CallResearch \/ CallIngest
Executor == NextStep \/ LastStep \/ Call \/ Poll \/ TimeUp \/ MarkFailed

Next ==
  \/ Plan \/ Execute \/ Resume \/ Executor \/ Crash
  \/ IngestBegins \/ IngestEnds \/ ResearchEnds \/ OtherEnds \/ OtherLaunches \/ Forgotten

Fairness == WF_vars(Executor)

Spec == Init /\ [][Next]_vars /\ Fairness

----------------------------------------------------------------------------
(* A task is reported completed, or failed, only when none of its steps is    *)
(* still to be done, wherever the process died and however often it was       *)
(* resumed.                                                                  *)
ClosedIsWhole ==
  row.status \in {"completed", "failed"} => \A i \in DOMAIN row.sub : row.sub[i] # "pending"

(* The step after a research sees what it found: the research this step       *)
(* launched has ended when the next step starts, although the file it waits   *)
(* on belongs to every session; only another session that declares it dead    *)
(* makes the executor go on without it.                                      *)
ResearchIsIn == own = "running" => row.sub[mine] # "completed"

(* A step that cannot be done is marked failed and the task goes on.          *)
ExecuteReturns == (exec.pc # "off") ~> (exec.pc = "off")
=============================================================================
