----------------------------- MODULE JobLockProofs -----------------------------
(***************************************************************************)
(* What JobLock promises for any number of users and faults, and what Jobs *)
(* promises for any number of children.                                    *)
(***************************************************************************)
EXTENDS MCDashboard, TLAPS

\* Every reachable state of the lease is well typed.
THEOREM JobTypes == Spec => []TypeOK
<1>1. Init => TypeOK
  BY FaultsAssumption DEF Init, TypeOK, LockState, Steps, Calls
<1>2. TypeOK /\ [Next]_vars => TypeOK'
  <2> SUFFICES ASSUME TypeOK, [Next]_vars
               PROVE  TypeOK'
    OBVIOUS
  <2> USE DEF TypeOK, LockState, Steps, Calls, Goto, Call, NoHolder, Rob, Fault
  <2>1. ASSUME NEW p \in Procs, Claim(p) \/ Release(p) \/ Ask(p)
        PROVE  TypeOK'
    BY <2>1 DEF Claim, Release, Ask
  <2>2. ASSUME NEW p \in Procs, Open(p) \/ Write(p)
        PROVE  TypeOK'
    BY <2>2 DEF Open, Write
  <2>3. ASSUME NEW p \in Procs, Look(p)
        PROVE  TypeOK'
    BY <2>3 DEF Look
  <2>4. ASSUME NEW p \in Procs, Stat(p)
        PROVE  TypeOK'
    BY <2>4, FaultsAssumption DEF Stat
  <2>5. ASSUME NEW p \in Procs, Steal(p) \/ Replace(p) \/ Unlink(p)
        PROVE  TypeOK'
    BY <2>5 DEF Steal, Replace, Unlink
  <2>6. ASSUME NEW p \in Procs, Crash(p)
        PROVE  TypeOK'
    BY <2>6, FaultsAssumption DEF Crash
  <2>7. CASE Age \/ Overrun
    BY <2>7, FaultsAssumption DEF Age, Overrun
  <2>8. CASE UNCHANGED vars
    BY <2>8 DEF vars
  <2> QED
    BY <2>1, <2>2, <2>3, <2>4, <2>5, <2>6, <2>7, <2>8 DEF Next, Step
<1> QED
  BY <1>1, <1>2, PTL DEF Spec

\* Whoever is about to write, or works without having been robbed, made the file
\* that is at the path: the invariant behind SoleWorker.
LEMMA FileOnDisk == Spec => []OnDisk
<1>1. Init => OnDisk
  BY DEF Init, OnDisk
<1>2. TypeOK /\ OnDisk /\ [Next]_vars => OnDisk'
  <2> SUFFICES ASSUME TypeOK, OnDisk, [Next]_vars
               PROVE  OnDisk'
    OBVIOUS
  <2> USE DEF TypeOK, OnDisk, Steps, Goto, Call
  <2>1. ASSUME NEW p \in Procs, Claim(p) \/ Release(p) \/ Ask(p)
        PROVE  OnDisk'
    BY <2>1 DEF Claim, Release, Ask
  <2>2. ASSUME NEW p \in Procs, Open(p)
        PROVE  OnDisk'
    BY <2>2 DEF Open
  <2>3. ASSUME NEW p \in Procs, Write(p)
        PROVE  OnDisk'
    BY <2>3 DEF Write
  <2>4. ASSUME NEW p \in Procs, Look(p) \/ Stat(p)
        PROVE  OnDisk'
    BY <2>4 DEF Look, Stat, NoHolder
  <2>5. ASSUME NEW p \in Procs, Steal(p)
        PROVE  OnDisk'
    BY <2>5 DEF Steal, NoHolder, Rob, Live
  <2>6. ASSUME NEW p \in Procs, Replace(p)
        PROVE  OnDisk'
    BY <2>6 DEF Replace, Rob, Live
  <2>7. ASSUME NEW p \in Procs, Unlink(p)
        PROVE  OnDisk'
    BY <2>7 DEF Unlink, Rob, Live
  <2>8. ASSUME NEW p \in Procs, Crash(p)
        PROVE  OnDisk'
    BY <2>8 DEF Crash
  <2>9. CASE Age
    BY <2>9 DEF Age
  <2>10. CASE Overrun
    BY <2>10 DEF Overrun
  <2>11. CASE UNCHANGED vars
    BY <2>11 DEF vars
  <2> QED
    BY <2>1, <2>2, <2>3, <2>4, <2>5, <2>6, <2>7, <2>8, <2>9, <2>10, <2>11 DEF Next, Step
<1> QED
  BY <1>1, <1>2, JobTypes, PTL DEF Spec

\* Two processes work at once only after one of them was robbed of its file.
THEOREM RobbedOrAlone == Spec => []SoleWorker
<1>1. OnDisk => SoleWorker
  BY DEF OnDisk, SoleWorker
<1> QED
  BY <1>1, FileOnDisk, PTL

\* Without a fault no reader ever sets out to remove a lock.
LEMMA NobodyRobs == Spec => []NoRobbers
<1>1. Init => NoRobbers
  BY DEF Init, NoRobbers
<1>2. TypeOK /\ OnDisk /\ NoRobbers /\ [Next]_vars => NoRobbers'
  <2> SUFFICES ASSUME TypeOK, OnDisk, NoRobbers, [Next]_vars, faults' = 0
               PROVE  NoRobbers'
    BY DEF NoRobbers
  <2> USE DEF TypeOK, NoRobbers, Goto, Call
  <2>1. ASSUME NEW p \in Procs, Claim(p) \/ Release(p) \/ Ask(p)
        PROVE  NoRobbers'
    BY <2>1 DEF Claim, Release, Ask
  <2>2. ASSUME NEW p \in Procs, Open(p)
        PROVE  NoRobbers'
    BY <2>2 DEF Open
  <2>3. ASSUME NEW p \in Procs, Write(p)
        PROVE  NoRobbers'
    BY <2>3 DEF Write, OnDisk
  <2>4. ASSUME NEW p \in Procs, Look(p)
        PROVE  NoRobbers'
    BY <2>4 DEF Look, OnDisk, LockState, Calls
  <2>5. ASSUME NEW p \in Procs, Stat(p)
        PROVE  NoRobbers'
    BY <2>5 DEF Stat, NoHolder, Fault
  <2>6. ASSUME NEW p \in Procs, Steal(p) \/ Replace(p) \/ Unlink(p)
        PROVE  NoRobbers'
    BY <2>6 DEF Steal, Replace, Unlink, Rob, Live
  <2>7. ASSUME NEW p \in Procs, Crash(p)
        PROVE  NoRobbers'
    BY <2>7 DEF Crash, Fault
  <2>8. CASE Age \/ Overrun
    BY <2>8 DEF Age, Overrun, Fault
  <2>9. CASE UNCHANGED vars
    BY <2>9 DEF vars
  <2> QED
    BY <2>1, <2>2, <2>3, <2>4, <2>5, <2>6, <2>7, <2>8, <2>9 DEF Next, Step
<1> QED
  BY <1>1, <1>2, JobTypes, FileOnDisk, PTL DEF Spec

\* Where nothing has crashed, overrun or paused yet, the users exclude each other,
\* however many they are: claim_job is atomic but for the removal of dead locks.
THEOREM MutualExclusion == Spec => []OrderlyExclusion
<1>1. SoleWorker /\ NoRobbers => OrderlyExclusion
  BY DEF SoleWorker, NoRobbers, OrderlyExclusion
<1> QED
  BY <1>1, NobodyRobs, RobbedOrAlone, PTL

-----------------------------------------------------------------------------
(* The jobs of the dashboard and its runs.                                  *)

\* A child is none, or a piece of work that a job or a run has started.
ChildRecord == {J!NoChild} \cup [kind : J!Kinds, by : {"job", "run"}]

\* A live child of that kind and origin.
Running(k, who) == \E p \in Children : child[p] = [kind |-> k, by |-> who]

\* The inductive form of OneOfAKind: between its kills and its start nobody else starts
\* what a spawn is about to start, and the same for the two children of a run.
KindInv ==
  /\ child \in [Children -> ChildRecord]
  /\ spawn \in J!Kinds \cup {"none"}
  /\ DOMAIN run = {"pc", "sc", "fp", "ok"}
  /\ \A p, q \in Children : child[p] = child[q] /\ child[p].kind \in {"scraper", "pipeline"} => p = q
  /\ spawn \in {"scraper", "pipeline"} => ~Running(spawn, "job")
  /\ run.pc = "scrape" => ~Running("scraper", "run") /\ ~Running("pipeline", "run")
  /\ run.pc = "fast" => ~Running("pipeline", "run")

\* Where children only go, and nobody gets closer to a start, the invariant stays.
LEMMA FewerChildren ==
  ASSUME KindInv, NEW P, child' = J!ChildAfter(P),
         spawn' \in {spawn, "none"}, DOMAIN run' = {"pc", "sc", "fp", "ok"},
         run'.pc = run.pc \/ run'.pc \notin {"scrape", "fast"}
  PROVE  KindInv'
<1>1. \A p \in Children : child'[p] \in {child[p], J!NoChild}
  BY DEF J!ChildAfter
<1>2. child' \in [Children -> ChildRecord]
  BY <1>1 DEF J!ChildAfter, KindInv, ChildRecord
<1>3. \A k \in J!Kinds, who \in {"job", "run"} : Running(k, who)' => Running(k, who)
  BY <1>1 DEF Running, J!NoChild, J!Kinds
<1>4. \A p \in Children : child'[p].kind \in {"scraper", "pipeline"} => child'[p] = child[p]
  BY <1>1 DEF J!NoChild
<1> QED
  BY <1>1, <1>2, <1>3, <1>4 DEF KindInv, J!Kinds

\* A child is started: no other of its kind and origin is alive, and it is none that a
\* spawn or a run which has killed its like is about to start.
LEMMA OneMoreChild ==
  ASSUME KindInv, NEW c \in Children, c \notin J!Alive, NEW k \in J!Kinds, NEW who \in {"job", "run"},
         k \in {"scraper", "pipeline"} => ~Running(k, who),
         child' = J!Started(c, k, who), DOMAIN run' = {"pc", "sc", "fp", "ok"},
         spawn' \in J!Kinds \cup {"none"},
         spawn' \in {"scraper", "pipeline"} => spawn' = spawn /\ who = "run",
         run'.pc = "scrape" => run.pc = "scrape" /\ who = "job",
         run'.pc = "fast" => ~Running("pipeline", "run") /\ (k = "scraper" \/ who = "job")
  PROVE  KindInv'
<1> DEFINE new == [kind |-> k, by |-> who]
<1>1. child' = [child EXCEPT ![c] = new] /\ new \in ChildRecord /\ child \in [Children -> ChildRecord]
  BY DEF J!Started, KindInv, ChildRecord
<1>2. child' \in [Children -> ChildRecord] /\ child'[c] = new /\ \A p \in Children : p # c => child'[p] = child[p]
  BY <1>1
<1>3. new.kind = k /\ new.by = who
  OBVIOUS
<1> HIDE DEF new
<1>4. \A p \in Children : child[p] = new /\ k \in {"scraper", "pipeline"} => FALSE
  BY DEF Running, new
<1>5. \A p, q \in Children : child'[p] = child'[q] /\ child'[p].kind \in {"scraper", "pipeline"} => p = q
  BY <1>2, <1>3, <1>4 DEF KindInv
<1>6. \A l \in J!Kinds, w \in {"job", "run"} : Running(l, w)' => Running(l, w) \/ (l = k /\ w = who)
  BY <1>2, <1>3 DEF Running
<1> QED
  BY <1>2, <1>5, <1>6 DEF KindInv, J!Kinds

\* Jobs, runs, polls, kills and restarts of the dashboard in any order keep KindInv.
LEMMA KindStep == KindInv /\ [J!Next]_jvars => KindInv'
<1> SUFFICES ASSUME KindInv, [J!Next]_jvars PROVE KindInv'
  OBVIOUS
<1>0. child = J!ChildAfter({})
  BY DEF KindInv, J!ChildAfter
<1>r. \A P, ok : /\ DOMAIN J!RunAfter(P, ok) = {"pc", "sc", "fp", "ok"}
                 /\ J!RunAfter(P, ok).pc = run.pc
  BY DEF KindInv, J!RunAfter
<1>n. DOMAIN J!NoRun = {"pc", "sc", "fp", "ok"} /\ J!NoRun.pc = "off"
  BY DEF J!NoRun
<1>d. DOMAIN run = {"pc", "sc", "fp", "ok"} /\ spawn \in J!Kinds \cup {"none"}
  BY DEF KindInv
<1>1. ASSUME NEW k \in J!Kinds, J!SpawnKills(k) PROVE KindInv'
  <2> DEFINE P == J!Matching({J!Orphans[k]})
  <2>1. spawn' = k /\ child' = J!ChildAfter(P) /\ run' = J!RunAfter(P, FALSE)
    BY <1>1 DEF J!SpawnKills, J!Gone
  <2>2. \A p \in Children : child'[p] \in {child[p], J!NoChild}
    BY <2>1 DEF J!ChildAfter
  <2>3. child' \in [Children -> ChildRecord]
    BY <2>1 DEF J!ChildAfter, KindInv, ChildRecord
  <2>4. \A l \in J!Kinds, w \in {"job", "run"} : Running(l, w)' => Running(l, w)
    BY <2>2 DEF Running, J!NoChild, J!Kinds
  <2>5. \A p \in Children : child'[p].kind \in {"scraper", "pipeline"} => child'[p] = child[p]
    BY <2>2 DEF J!NoChild
  <2>6. ASSUME k \in {"scraper", "pipeline"} PROVE ~Running(k, "job")'
    <3> SUFFICES ASSUME NEW p \in Children, child'[p] = [kind |-> k, by |-> "job"] PROVE FALSE
      BY DEF Running
    <3>1. child[p] = [kind |-> k, by |-> "job"] /\ child[p] # J!NoChild
      BY <2>2 DEF J!NoChild, J!Kinds
    <3>2. p \in P
      BY <2>6, <3>1 DEF J!Matching, J!Alive, J!Orphans, J!Shows
    <3>3. child'[p] = J!NoChild
      BY <2>1, <3>2 DEF J!ChildAfter
    <3> QED
      BY <3>1, <3>3, <2>2
  <2>7. run'.pc = run.pc /\ DOMAIN run' = {"pc", "sc", "fp", "ok"}
    BY <2>1, <1>r
  <2>8. \A p, q \in Children : child'[p] = child'[q] /\ child'[p].kind \in {"scraper", "pipeline"} => p = q
    BY <2>5 DEF KindInv
  <2>9. /\ run'.pc = "scrape" => ~Running("scraper", "run")' /\ ~Running("pipeline", "run")'
        /\ run'.pc = "fast" => ~Running("pipeline", "run")'
    BY <2>4, <2>7 DEF KindInv, J!Kinds
  <2>10. spawn' = k
    BY <2>1
  <2> HIDE DEF P
  <2> QED
    BY <2>3, <2>6, <2>7, <2>8, <2>9, <2>10 DEF KindInv
<1>2. ASSUME NEW p \in Children, J!ChildEnds(p) \/ J!Kill(p) PROVE KindInv'
  BY <1>2, <1>r, FewerChildren DEF J!ChildEnds, J!Kill, J!Gone
<1>3. CASE J!SpawnStarts
  <2>1. CASE UNCHANGED child
    BY <1>3, <2>1, <1>0, <1>d, FewerChildren DEF J!SpawnStarts
  <2>2. ASSUME NEW p \in Children \ J!Alive, child' = J!Started(p, spawn, "job") PROVE KindInv'
    BY <1>3, <2>2, <1>d, OneMoreChild DEF J!SpawnStarts, KindInv
  <2> QED
    BY <1>3, <2>1, <2>2 DEF J!SpawnStarts
<1>4. CASE J!RunKills
  <2> DEFINE P == J!Matching({"scrape", "fast"})
  <2>1. run' = [run EXCEPT !.pc = "scrape"] /\ child' = J!ChildAfter(P) /\ spawn' = spawn
    BY <1>4 DEF J!RunKills
  <2>2. \A p \in Children : child'[p] \in {child[p], J!NoChild}
    BY <2>1 DEF J!ChildAfter
  <2>3. child' \in [Children -> ChildRecord]
    BY <2>1 DEF J!ChildAfter, KindInv, ChildRecord
  <2>4. \A l \in J!Kinds, w \in {"job", "run"} : Running(l, w)' => Running(l, w)
    BY <2>2 DEF Running, J!NoChild, J!Kinds
  <2>5. \A p \in Children : child'[p].kind \in {"scraper", "pipeline"} => child'[p] = child[p]
    BY <2>2 DEF J!NoChild
  <2>6. \A p \in Children : child'[p].kind \notin {"scraper", "pipeline"}
    <3> SUFFICES ASSUME NEW p \in Children, child'[p].kind \in {"scraper", "pipeline"} PROVE FALSE
      OBVIOUS
    <3>1. child'[p] = child[p] /\ child[p] # J!NoChild
      BY <2>5 DEF J!NoChild
    <3>2. p \in P
      BY <3>1 DEF J!Matching, J!Alive, J!Shows
    <3> QED
      BY <2>1, <3>1, <3>2 DEF J!ChildAfter
  <2>7. \A w \in {"job", "run"} : ~Running("scraper", w)' /\ ~Running("pipeline", w)'
    BY <2>6 DEF Running
  <2>8. run'.pc = "scrape" /\ DOMAIN run' = {"pc", "sc", "fp", "ok"}
    BY <2>1, <1>d
  <2> HIDE DEF P
  <2> QED
    BY <2>1, <2>3, <2>6, <2>7, <2>8 DEF KindInv
<1>5. ASSUME NEW p \in Children, J!RunScrapes(p) PROVE KindInv'
  <2>1. run'.pc = "fast" /\ DOMAIN run' = {"pc", "sc", "fp", "ok"} /\ run.pc = "scrape"
    BY <1>5, <1>d DEF J!RunScrapes
  <2> QED
    BY <1>5, <2>1, <1>d, OneMoreChild DEF J!RunScrapes, KindInv, J!Kinds
<1>6. ASSUME NEW p \in Children, J!RunIndexes(p) PROVE KindInv'
  <2>1. run'.pc = "register" /\ DOMAIN run' = {"pc", "sc", "fp", "ok"} /\ run.pc = "fast"
    BY <1>6, <1>d DEF J!RunIndexes
  <2> QED
    BY <1>6, <2>1, <1>d, OneMoreChild DEF J!RunIndexes, KindInv, J!Kinds
<1>7. CASE J!ScraperFailed
  BY <1>7, <1>n, FewerChildren DEF J!ScraperFailed
<1>8. CASE J!RunBegins \/ J!RunRegisters \/ J!ScraperDone \/ J!RunWaits \/ J!RunEnds \/ J!RunRaises
  <2>1. DOMAIN run' = {"pc", "sc", "fp", "ok"} /\ run'.pc \notin {"scrape", "fast"}
    BY <1>8, <1>d, <1>n DEF J!RunBegins, J!RunRegisters, J!ScraperDone, J!RunWaits, J!RunEnds, J!RunRaises, J!NoRun
  <2>2. UNCHANGED <<child, spawn>>
    BY <1>8 DEF J!RunBegins, J!RunRegisters, J!ScraperDone, J!RunWaits, J!RunEnds, J!RunRaises
  <2> QED
    BY <2>1, <2>2, <1>0, FewerChildren
<1>9. CASE J!RunGivesUp
  BY <1>9, <1>r, FewerChildren DEF J!RunGivesUp, J!Gone
<1>10. CASE J!Stop
  BY <1>10, <1>r, FewerChildren DEF J!Stop
<1>11. CASE J!Die
  BY <1>11, <1>n, <1>0, FewerChildren DEF J!Die
<1>12. CASE J!Start
  BY <1>12, <1>d, FewerChildren DEF J!Start
<1>13. CASE UNCHANGED <<child, spawn, run>>
  BY <1>13 DEF KindInv, Running
<1>14. CASE J!ScrapeCounts \/ J!IndexCounts \/ J!Ages \/ J!Status \/ UNCHANGED jvars
  BY <1>13, <1>14 DEF J!ScrapeCounts, J!IndexCounts, J!Ages, J!Status, jvars
<1> QED
  BY <1>1, <1>2, <1>3, <1>4, <1>5, <1>6, <1>7, <1>8, <1>9, <1>10, <1>11, <1>12, <1>14 DEF J!Next, J!RunStep

(* For any number of children, and whatever jobs, runs, polls, kills and         *)
(* restarts overlap: of the jobs of a kind, and of the runs, one is alive        *)
(* (jobs.spawn_job and server.run_full_pipeline: both kill before they start).  *)
THEOREM KindsStaySingle == MCSpec => []OneOfAKind
<1>1. MCInit => KindInv
  BY DEF MCInit, J!Init, KindInv, ChildRecord, J!NoChild, J!NoRun, J!Kinds
<1>2. [MCNext]_allVars => [J!Next]_jvars
  BY DEF MCNext, allVars, jvars
<1>3. KindInv => OneOfAKind
  BY DEF KindInv, OneOfAKind, J!OneOfAKind, J!Alive
<1> QED
  BY <1>1, <1>2, <1>3, KindStep, PTL DEF MCSpec
=============================================================================
