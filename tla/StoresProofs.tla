----------------------------- MODULE StoresProofs -----------------------------
(* What the parts of MCStores promise, for every value of their constants: for *)
(* each its inductive invariant, the step lemma, and the theorem.            *)
EXTENDS MCStores, Integers, FiniteSetTheorems, SequenceTheorems, WellFoundedInduction, TLAPS

-----------------------------------------------------------------------------
(* Numbers and sequences.                                                    *)

\* A set of natural numbers that is not empty has a least element.
LEMMA LeastExists == ASSUME NEW D, D \subseteq Nat, D # {} PROVE \E m \in D : \A j \in D : m <= j
<1> DEFINE less == {ss \in Nat \X Nat : ss[1] < ss[2]}
<1>1. IsWellFoundedOn(less, Nat)
  <2>1. less = OpToRel(<, Nat)
    BY DEF OpToRel
  <2> QED
    BY <2>1, NatLessThanWellFounded
<1>2. \E x \in D : \A y \in D : ~ (<<y, x>> \in less)
  <2> HIDE DEF less
  <2> QED
    BY <1>1, WFMin
<1>3. PICK x \in D : \A y \in D : ~ (<<y, x>> \in less)
  BY <1>2
<1>4. ASSUME NEW y \in D PROVE x <= y
  <2>1. x \in Nat /\ y \in Nat /\ ~ (y < x)
    BY <1>3
  <2> QED
    BY <2>1
<1> QED
  BY <1>4

\* An element taken out of a sequence (RemoveAt): what is above it moves down by one.
TakenOut(s, k) == SubSeq(s, 1, k - 1) \o SubSeq(s, k + 1, Len(s))

LEMMA TakenOutShifts ==
  ASSUME NEW X, NEW s \in Seq(X), NEW k \in DOMAIN s
  PROVE  /\ TakenOut(s, k) \in Seq(X) /\ Len(TakenOut(s, k)) = Len(s) - 1
         /\ DOMAIN TakenOut(s, k) = 1 .. Len(s) - 1
         /\ \A i \in 1 .. Len(s) - 1 : TakenOut(s, k)[i] = s[IF i < k THEN i ELSE i + 1]
<1> DEFINE below == SubSeq(s, 1, k - 1)
           above == SubSeq(s, k + 1, Len(s))
           new == TakenOut(s, k)
<1>1. k \in 1 .. Len(s) /\ Len(s) \in Nat
  OBVIOUS
<1>2. /\ below \in Seq(X) /\ Len(below) = k - 1
      /\ \A i \in 1 .. k - 1 : below[i] = s[i]
  BY <1>1, SubSeqProperties
<1>3. /\ above \in Seq(X) /\ Len(above) = Len(s) - k
      /\ \A i \in 1 .. Len(s) - k : above[i] = s[k + i]
  BY <1>1, SubSeqProperties
<1>4. new = below \o above
  BY DEF TakenOut
<1> HIDE DEF below, above, new
<1>5. new \in Seq(X) /\ Len(new) = Len(s) - 1 /\ DOMAIN new = 1 .. Len(s) - 1
  <2>1. new \in Seq(X) /\ Len(new) = Len(below) + Len(above)
    BY <1>2, <1>3, <1>4, ConcatProperties
  <2> QED
    BY <1>1, <1>2, <1>3, <2>1
<1>6. ASSUME NEW i \in 1 .. Len(s) - 1 PROVE new[i] = s[IF i < k THEN i ELSE i + 1]
  <2>1. \A j \in 1 .. Len(below) + Len(above) :
          new[j] = IF j <= Len(below) THEN below[j] ELSE above[j - Len(below)]
    BY <1>2, <1>3, <1>4, ConcatProperties
  <2>2. CASE i < k
    <3>1. i \in 1 .. k - 1 /\ i \in 1 .. Len(below) + Len(above) /\ i <= Len(below)
      BY <1>1, <1>2, <1>3, <2>2
    <3>2. new[i] = below[i]
      BY <2>1, <3>1
    <3> QED
      BY <1>2, <2>2, <3>1, <3>2
  <2>3. CASE ~ i < k
    <3>1. i - (k - 1) \in 1 .. Len(s) - k /\ k + (i - (k - 1)) = i + 1
      BY <1>1, <2>3
    <3>2. new[i] = above[i - (k - 1)]
      <4>1. i \in 1 .. Len(below) + Len(above) /\ ~ i <= Len(below) /\ Len(below) = k - 1
        BY <1>1, <1>2, <1>3, <2>3
      <4> QED
        BY <2>1, <4>1
    <3>3. above[i - (k - 1)] = s[k + (i - (k - 1))]
      BY <1>3, <3>1
    <3> QED
      BY <2>3, <3>1, <3>2, <3>3
  <2> QED
    BY <2>2, <2>3
<1> QED
  BY <1>5, <1>6 DEF new

\* The cardinality that module Lessons uses is the one of FiniteSets.
LEMMA CardinalityInL == ASSUME NEW X PROVE L!Cardinality(X) = Cardinality(X)
  BY DEF L!Cardinality, Cardinality

-----------------------------------------------------------------------------
(* The ingestion run.                                                       *)

FastPathTypes ==
  /\ store \subseteq Files /\ queue \subseteq Files
  /\ fp \in {"none", "claim", "ended"} \cup Watching
  /\ fpOut \in {"none", "idle", "orphan", "refused", "crashed", "killed"}
  /\ drain \in {"lease", "head", "pass", "report"} \cup Drained
  /\ drainOut \in {"none", "ok", "gave up", "failed"}
  /\ over \in BOOLEAN /\ last \in BOOLEAN

\* How the fast path left, from the moment it decides to.
LeftInv ==
  /\ over => fp \in {"join", "ended"}
  /\ fp = "join" => fpOut \in {"idle", "orphan"}
  /\ fp \in {"claim", "first", "pass", "check"} => fpOut = "none"
  /\ fp = "ended" => fpOut # "none"
  /\ fpOut \in {"idle", "orphan"} => over

\* The drain: after the event the store is fixed, so a pass of the last section that
\* found nothing has found the store embedded.
LastInv ==
  /\ last => over
  /\ drainOut = "ok" => over /\ store \subseteq lance
  /\ drain = "report" /\ last /\ ~took => store \subseteq lance
  /\ drain = "ended" /\ fp # "ended" => drainOut # "none"
  /\ fp = "ended" /\ fpOut \in {"idle", "orphan"} => drainOut # "none"

DrainInv == FastPathTypes /\ LeftInv /\ LastInv

\* With the gate open nothing is written any more, and a round that counts works on a
\* listing made after that.
Closed == sentinel /\ ~stale
RoundInv ==
  /\ rounds \in Nat /\ scraped \subseteq landing \cup store
  /\ Closed => scraper # "running"
  /\ rounds > 0 => sentinel
  /\ fp = "pass" /\ rounds > 0 /\ Closed /\ news = "none" => landing \subseteq store \cup todo
  /\ fp = "check" /\ rounds > 0 /\ Closed /\ news = "none" => landing \subseteq store
  /\ fpOut = "idle" => sentinel /\ (stale \/ scraped \subseteq store)

\* A fast path leaves as an orphan only when the run that started it is gone.
RunInv ==
  /\ dash \in BOOLEAN
  /\ pl \in {"off", "scrape", "wait", "sweep", "ended"}
  /\ ~dash => pl = "off"
  /\ pl = "wait" => sentinel
  /\ fpOut = "orphan" => pl = "off"
  /\ pl = "sweep" => fp = "ended" /\ fpOut # "orphan"
  /\ progress = <<"ingestion", "done">> => fp = "ended" /\ fpOut # "orphan"

\* A pass takes nothing only from an empty queue.
LEMMA EmptyBatch ==
  ASSUME NEW q \in SUBSET Files, {} \in Batches(q) PROVE q = {}
<1>1. IsFiniteSet(q)
  BY FilesAssumption, FS_Subset
<1>2. Cardinality({}) = 0 /\ Cardinality(q) \in Nat
  BY <1>1, FS_EmptySet, FS_CardinalityType
<1>3. Cardinality(q) = 0
  BY <1>2, PassAssumption DEF Batches, Least
<1> QED
  BY <1>1, <1>3, FS_EmptySet

\* Both threads of the fast path, and whoever stops them, keep DrainInv.
LEMMA DrainStep == DrainInv /\ [Next]_vars => DrainInv'
<1> SUFFICES ASSUME DrainInv, [Next]_vars PROVE DrainInv'
  OBVIOUS
<1> USE DEF DrainInv, FastPathTypes, LeftInv, LastInv, Watching, Drained, dashVars, scrapeVars,
            watchVars, drainVars, dataVars, envVars, Fault
<1>1. CASE StartRun
  <2>1. CASE sentinel' = FALSE
    BY <1>1, <2>1 DEF StartRun
  <2>2. CASE stale' = TRUE
    BY <1>1, <2>2 DEF StartRun
  <2> QED
    BY <1>1, <2>1, <2>2 DEF StartRun
<1>2. CASE ScraperFailed
  BY <1>2 DEF ScraperFailed, StopFastPath
<1>3. CASE ScraperDone
  BY <1>3 DEF ScraperDone
<1>4. CASE FastPathEnded
  BY <1>4 DEF FastPathEnded
<1>5. CASE SweepAndReport
  BY <1>5 DEF SweepAndReport
<1>6. CASE WaitTooLong
  BY <1>6 DEF WaitTooLong, StopFastPath
<1>7. CASE MarkInterrupted
  BY <1>7 DEF MarkInterrupted
<1>8. CASE DashboardDies
  BY <1>8 DEF DashboardDies
<1>9. CASE DashboardRestarts
  BY <1>9 DEF DashboardRestarts
<1>10. ASSUME NEW f \in Files, ScraperWrites(f) PROVE DrainInv'
  BY <1>10 DEF ScraperWrites
<1>11. CASE ScraperExits
  BY <1>11 DEF ScraperExits
<1>12. CASE ScraperIsKilled
  BY <1>12 DEF ScraperIsKilled
<1>13. CASE ClaimTier0
  BY <1>13 DEF ClaimTier0
<1>14. ASSUME NEW f \in Files, IngestFile(f) PROVE DrainInv'
  BY <1>14 DEF IngestFile
<1>15. CASE EndPass
  BY <1>15 DEF EndPass, NextPass
<1>16. CASE CheckExit
  <2>1. CASE Orphaned /\ Leave("orphan") /\ UNCHANGED <<rounds, news, todo>>
    BY <1>16, <2>1 DEF CheckExit, Orphaned, Leave
  <2>2. CASE IsIdle /\ rounds' = rounds + 1 /\ rounds + 1 >= IdleExit /\ Leave("idle")
             /\ UNCHANGED <<news, todo>>
    BY <1>16, <2>2 DEF CheckExit, IsIdle, Leave
  <2>3. CASE IsIdle /\ rounds' = rounds + 1 /\ NextPass /\ UNCHANGED <<fpOut, over>>
    BY <1>16, <2>3 DEF CheckExit, IsIdle, NextPass
  <2>4. CASE /\ NextPass /\ rounds' = (IF sentinel THEN 0 ELSE rounds) /\ UNCHANGED <<fpOut, over>>
    BY <1>16, <2>4 DEF CheckExit, NextPass
  <2> QED
    BY <1>16, <2>1, <2>2, <2>3, <2>4 DEF CheckExit
<1>17. CASE JoinDrain
  BY <1>17 DEF JoinDrain
<1>18. CASE FileBusy
  BY <1>18 DEF FileBusy
<1>19. CASE FastPathCrashes
  BY <1>19 DEF FastPathCrashes
<1>20. CASE DrainTakesLease
  BY <1>20 DEF DrainTakesLease
<1>21. CASE DrainHead
  BY <1>21 DEF DrainHead
<1>22. CASE DrainPass
  <2>1. PICK b \in Batches(Refilled) :
          lance' = lance \cup b /\ queue' = Refilled \ b /\ took' = (b # {})
    BY <1>22 DEF DrainPass
  <2>2. Refilled \in SUBSET Files
    BY DEF Refilled
  <2>3. ~took' => store \subseteq lance
    <3> SUFFICES ASSUME b = {} PROVE store \subseteq lance
      BY <2>1
    <3>1. Refilled = {}
      BY <2>1, <2>2, EmptyBatch
    <3> QED
      BY <3>1 DEF Refilled
  <2>4. queue' \subseteq Files /\ lance \subseteq lance'
    BY <2>1, <2>2
  <2>5. /\ drain = "pass" /\ drain' = "report"
        /\ UNCHANGED <<fp, fpOut, drainOut, over, last, store>>
    BY <1>22 DEF DrainPass
  <2> QED
    BY <2>3, <2>4, <2>5
<1>23. CASE DrainReport
  BY <1>23 DEF DrainReport, EndDrain
<1>24. CASE DrainGivesUp
  BY <1>24 DEF DrainGivesUp, EndDrain
<1>25. CASE DrainYields
  BY <1>25 DEF DrainYields
<1>26. CASE DrainFails
  BY <1>26 DEF DrainFails, EndDrain
<1>27. CASE HeavyTaken
  BY <1>27 DEF HeavyTaken
<1>28. CASE HeavyFreed
  BY <1>28 DEF HeavyFreed
<1>29. CASE Tier0Freed
  BY <1>29 DEF Tier0Freed
<1>30. CASE UNCHANGED vars
  BY <1>30 DEF vars
<1> QED
  BY <1>1, <1>2, <1>3, <1>4, <1>5, <1>6, <1>7, <1>8, <1>9, <1>10, <1>11,
     <1>12, <1>13, <1>14, <1>15, <1>16, <1>17, <1>18, <1>19, <1>20, <1>21, <1>22,
     <1>23, <1>24, <1>25, <1>26, <1>27, <1>28, <1>29, <1>30 DEF Next,
     PipelineThread, WatchThread, DrainThread

\* The pipeline, the scraper and the watch loop keep RoundInv.
LEMMA RoundStep == 1 < IdleExit /\ DrainInv /\ RoundInv /\ [Next]_vars => RoundInv'
<1> SUFFICES ASSUME 1 < IdleExit, DrainInv, RoundInv, [Next]_vars PROVE RoundInv'
  OBVIOUS
<1> USE IdleExitAssumption
<1> USE DEF RoundInv, Closed, DrainInv, FastPathTypes, LeftInv, Watching, dashVars, scrapeVars,
            watchVars, drainVars, dataVars, envVars, Fault
<1>0. rounds \in Nat /\ IdleExit \in Nat /\ 1 < IdleExit
  OBVIOUS
<1>1. CASE StartRun
  <2>1. rounds' \in Nat
    BY <1>1 DEF StartRun
  <2>2. scraped' \subseteq landing' \cup store'
    BY <1>1 DEF StartRun
  <2>3. Closed' => scraper' # "running"
    BY <1>1 DEF StartRun
  <2>4. rounds' = 0 /\ fp' = "claim" /\ fpOut' = "none"
    BY <1>1 DEF StartRun
  <2> QED
    BY ONLY <2>1, <2>2, <2>3, <2>4 DEF RoundInv
<1>2. CASE ScraperFailed
  BY <1>2 DEF ScraperFailed, StopFastPath
<1>3. CASE ScraperDone
  BY <1>3 DEF ScraperDone
<1>4. CASE FastPathEnded
  BY <1>4 DEF FastPathEnded
<1>5. CASE SweepAndReport
  BY <1>5 DEF SweepAndReport
<1>6. CASE WaitTooLong
  BY <1>6 DEF WaitTooLong, StopFastPath
<1>7. CASE MarkInterrupted
  BY <1>7 DEF MarkInterrupted
<1>8. CASE DashboardDies
  BY <1>8 DEF DashboardDies
<1>9. CASE DashboardRestarts
  BY <1>9 DEF DashboardRestarts
<1>10. ASSUME NEW f \in Files, ScraperWrites(f) PROVE RoundInv'
  BY <1>10 DEF ScraperWrites
<1>11. CASE ScraperExits
  BY <1>11 DEF ScraperExits
<1>12. CASE ScraperIsKilled
  BY <1>12 DEF ScraperIsKilled
<1>13. CASE ClaimTier0
  BY <1>13 DEF ClaimTier0
<1>14. ASSUME NEW f \in Files, IngestFile(f) PROVE RoundInv'
  BY <1>14 DEF IngestFile
<1>15. CASE EndPass
  BY <1>15 DEF EndPass, NextPass
<1>16. CASE CheckExit
  <2>1. CASE Orphaned /\ Leave("orphan") /\ UNCHANGED <<rounds, news, todo>>
    BY <1>16, <2>1 DEF CheckExit, Orphaned, Leave
  <2>2. CASE IsIdle /\ rounds' = rounds + 1 /\ rounds + 1 >= IdleExit /\ Leave("idle")
             /\ UNCHANGED <<news, todo>>
    <3>1. rounds > 0 /\ rounds' \in Nat /\ rounds' > 0
      BY ONLY <2>2, <1>0
    <3>2. sentinel /\ news = "none" /\ fp = "check" /\ (Closed => landing \subseteq store)
      BY <1>16, <2>2, <3>1 DEF CheckExit, IsIdle
    <3>3. fp' = "join" /\ UNCHANGED <<dashVars, scrapeVars, dataVars>>
      BY <1>16, <2>2 DEF CheckExit, Leave
    <3> QED
      BY <3>1, <3>2, <3>3
  <2>3. CASE IsIdle /\ rounds' = rounds + 1 /\ NextPass /\ UNCHANGED <<fpOut, over>>
    <3>1. rounds' \in Nat /\ sentinel
      BY ONLY <2>3, <1>0 DEF IsIdle
    <3>2. fp' = "pass" /\ landing' \subseteq store' \cup todo'
      BY <1>16, <2>3 DEF CheckExit, NextPass
    <3>3. UNCHANGED <<dashVars, scrapeVars, dataVars, fpOut>>
      BY <1>16, <2>3 DEF CheckExit
    <3> QED
      BY <3>1, <3>2, <3>3
  <2>4. CASE /\ NextPass /\ rounds' = (IF sentinel THEN 0 ELSE rounds) /\ UNCHANGED <<fpOut, over>>
    BY <1>16, <2>4 DEF CheckExit, NextPass
  <2> QED
    BY <1>16, <2>1, <2>2, <2>3, <2>4 DEF CheckExit
<1>17. CASE JoinDrain
  BY <1>17 DEF JoinDrain
<1>18. CASE FileBusy
  BY <1>18 DEF FileBusy
<1>19. CASE FastPathCrashes
  BY <1>19 DEF FastPathCrashes
<1>20. CASE DrainTakesLease
  BY <1>20 DEF DrainTakesLease
<1>21. CASE DrainHead
  BY <1>21 DEF DrainHead
<1>22. CASE DrainPass
  BY <1>22 DEF DrainPass, Refilled
<1>23. CASE DrainReport
  BY <1>23 DEF DrainReport, EndDrain
<1>24. CASE DrainGivesUp
  BY <1>24 DEF DrainGivesUp, EndDrain
<1>25. CASE DrainYields
  BY <1>25 DEF DrainYields
<1>26. CASE DrainFails
  BY <1>26 DEF DrainFails, EndDrain
<1>27. CASE HeavyTaken
  BY <1>27 DEF HeavyTaken
<1>28. CASE HeavyFreed
  BY <1>28 DEF HeavyFreed
<1>29. CASE Tier0Freed
  BY <1>29 DEF Tier0Freed
<1>30. CASE UNCHANGED vars
  BY <1>30 DEF vars
<1> QED
  BY <1>1, <1>2, <1>3, <1>4, <1>5, <1>6, <1>7, <1>8, <1>9, <1>10, <1>11,
     <1>12, <1>13, <1>14, <1>15, <1>16, <1>17, <1>18, <1>19, <1>20, <1>21, <1>22,
     <1>23, <1>24, <1>25, <1>26, <1>27, <1>28, <1>29, <1>30 DEF Next,
     PipelineThread, WatchThread, DrainThread

\* Every step of the run keeps RunInv.
LEMMA RunStep == DrainInv /\ RunInv /\ [Next]_vars => RunInv'
<1> SUFFICES ASSUME DrainInv, RunInv, [Next]_vars PROVE RunInv'
  OBVIOUS
<1> USE DEF RunInv, DrainInv, FastPathTypes, LeftInv, Watching, dashVars, scrapeVars,
            watchVars, drainVars, dataVars, envVars, Fault
<1>1. CASE StartRun
  <2>1. CASE sentinel' = FALSE
    BY <1>1, <2>1 DEF StartRun
  <2>2. CASE stale' = TRUE
    BY <1>1, <2>2 DEF StartRun
  <2> QED
    BY <1>1, <2>1, <2>2 DEF StartRun
<1>2. CASE ScraperFailed
  BY <1>2 DEF ScraperFailed, StopFastPath
<1>3. CASE ScraperDone
  BY <1>3 DEF ScraperDone
<1>4. CASE FastPathEnded
  BY <1>4 DEF FastPathEnded
<1>5. CASE SweepAndReport
  BY <1>5 DEF SweepAndReport
<1>6. CASE WaitTooLong
  BY <1>6 DEF WaitTooLong, StopFastPath
<1>7. CASE MarkInterrupted
  BY <1>7 DEF MarkInterrupted
<1>8. CASE DashboardDies
  BY <1>8 DEF DashboardDies
<1>9. CASE DashboardRestarts
  BY <1>9 DEF DashboardRestarts
<1>10. ASSUME NEW f \in Files, ScraperWrites(f) PROVE RunInv'
  BY <1>10 DEF ScraperWrites
<1>11. CASE ScraperExits
  BY <1>11 DEF ScraperExits
<1>12. CASE ScraperIsKilled
  BY <1>12 DEF ScraperIsKilled
<1>13. CASE ClaimTier0
  BY <1>13 DEF ClaimTier0
<1>14. ASSUME NEW f \in Files, IngestFile(f) PROVE RunInv'
  BY <1>14 DEF IngestFile
<1>15. CASE EndPass
  BY <1>15 DEF EndPass, NextPass
<1>16. CASE CheckExit
  <2>1. CASE Orphaned /\ Leave("orphan") /\ UNCHANGED <<rounds, news, todo>>
    BY <1>16, <2>1 DEF CheckExit, Orphaned, Leave
  <2>2. CASE IsIdle /\ rounds' = rounds + 1 /\ rounds + 1 >= IdleExit /\ Leave("idle")
             /\ UNCHANGED <<news, todo>>
    BY <1>16, <2>2 DEF CheckExit, IsIdle, Leave
  <2>3. CASE IsIdle /\ rounds' = rounds + 1 /\ NextPass /\ UNCHANGED <<fpOut, over>>
    BY <1>16, <2>3 DEF CheckExit, IsIdle, NextPass
  <2>4. CASE /\ NextPass /\ rounds' = (IF sentinel THEN 0 ELSE rounds) /\ UNCHANGED <<fpOut, over>>
    BY <1>16, <2>4 DEF CheckExit, NextPass
  <2> QED
    BY <1>16, <2>1, <2>2, <2>3, <2>4 DEF CheckExit
<1>17. CASE JoinDrain
  BY <1>17 DEF JoinDrain
<1>18. CASE FileBusy
  BY <1>18 DEF FileBusy
<1>19. CASE FastPathCrashes
  BY <1>19 DEF FastPathCrashes
<1>20. CASE DrainTakesLease
  BY <1>20 DEF DrainTakesLease
<1>21. CASE DrainHead
  BY <1>21 DEF DrainHead
<1>22. CASE DrainPass
  BY <1>22 DEF DrainPass, Refilled
<1>23. CASE DrainReport
  BY <1>23 DEF DrainReport, EndDrain
<1>24. CASE DrainGivesUp
  BY <1>24 DEF DrainGivesUp, EndDrain
<1>25. CASE DrainYields
  BY <1>25 DEF DrainYields
<1>26. CASE DrainFails
  BY <1>26 DEF DrainFails, EndDrain
<1>27. CASE HeavyTaken
  BY <1>27 DEF HeavyTaken
<1>28. CASE HeavyFreed
  BY <1>28 DEF HeavyFreed
<1>29. CASE Tier0Freed
  BY <1>29 DEF Tier0Freed
<1>30. CASE UNCHANGED vars
  BY <1>30 DEF vars
<1> QED
  BY <1>1, <1>2, <1>3, <1>4, <1>5, <1>6, <1>7, <1>8, <1>9, <1>10, <1>11,
     <1>12, <1>13, <1>14, <1>15, <1>16, <1>17, <1>18, <1>19, <1>20, <1>21, <1>22,
     <1>23, <1>24, <1>25, <1>26, <1>27, <1>28, <1>29, <1>30 DEF Next,
     PipelineThread, WatchThread, DrainThread

(* For any files, idle rounds, pass size, runs and faults: a fast path that    *)
(* leaves by itself has embedded what it committed, unless its drain gave up   *)
(* or failed (fast_path_cli, its shutdown).                                  *)
THEOREM ExitDrains == MCSpec => []ExitIsDrained
<1>1. MCInit => DrainInv
  BY DEF MCInit, Init, DrainInv, FastPathTypes, LeftInv, LastInv, Watching, Drained
<1>2. [MCNext]_allVars => [Next]_vars
  BY DEF MCNext, allVars
<1>3. DrainInv => ExitIsDrained
  BY DEF DrainInv, FastPathTypes, LeftInv, LastInv, ExitIsDrained
<1> QED
  BY <1>1, <1>2, <1>3, DrainStep, PTL DEF MCSpec

(* With more than one idle round before it exits, and the dashboard asks for    *)
(* three (server.py:1833): a run that reports everything processed has a vector *)
(* for everything the scraper wrote, but for the ways it can end early.       *)
THEOREM DoneIsVectorized == ASSUME 1 < IdleExit PROVE MCSpec => []DoneMeansVectorized
<1>1. MCInit => DrainInv /\ RoundInv /\ RunInv
  <2> SUFFICES ASSUME MCInit PROVE DrainInv /\ RoundInv /\ RunInv
    OBVIOUS
  <2>1. DrainInv
    BY DEF MCInit, Init, DrainInv, FastPathTypes, LeftInv, LastInv, Watching, Drained
  <2>2. RoundInv
    BY DEF MCInit, Init, RoundInv, Closed
  <2>3. RunInv
    BY DEF MCInit, Init, RunInv
  <2> QED
    BY <2>1, <2>2, <2>3
<1>2. [MCNext]_allVars => [Next]_vars
  BY DEF MCNext, allVars
<1>3. DrainInv /\ RoundInv /\ RunInv => DoneMeansVectorized
  BY DEF DrainInv, FastPathTypes, LeftInv, LastInv, RoundInv, RunInv, DoneMeansVectorized
<1> QED
  BY <1>1, <1>2, <1>3, DrainStep, RoundStep, RunStep, PTL DEF MCSpec

-----------------------------------------------------------------------------
(* Approvals.                                                               *)

(* The inductive form of GateIsTrue: a request that has saved its approval     *)
(* works on a fact a person agreed to, and what a request moves from pending   *)
(* to active it had added itself.                                             *)
GateInv ==
  /\ active \in [Facts -> Nat] /\ waits \in [Facts -> Int]
  /\ request \in [Requests -> [pc : {"off", "save", "apply", "decide"}, f : Facts \cup {"none"},
                              e : A!Epochs \cup {0}]]
  /\ \A r \in Requests :
       /\ request[r].pc # "off" => request[r].f \in Facts
       /\ request[r].pc \in {"apply", "decide"} => request[r].f \in agreed
  /\ A!GateIsTrue

\* A fact moves through proposal, approval and user model in step with GateInv.
LEMMA GateStep == GateInv /\ [A!Next]_avars => GateInv'
<1> SUFFICES ASSUME GateInv, [A!Next]_avars
             PROVE  GateInv'
  OBVIOUS
<1> USE DEF GateInv, A!GateIsTrue, A!NoReq
<1>1. ASSUME NEW f \in Facts, A!Propose(f)
      PROVE  GateInv'
  BY <1>1 DEF A!Propose
<1>2. ASSUME NEW f \in Facts, NEW e \in A!Epochs, A!Reject(f, e)
      PROVE  GateInv'
  BY <1>2 DEF A!Reject
<1>3. ASSUME NEW f \in Facts, NEW e \in A!Epochs, NEW r \in Requests, A!Approve(r, f, e)
      PROVE  GateInv'
  BY <1>3 DEF A!Approve
<1>4. ASSUME NEW r \in Requests, A!SaveApproved(r)
      PROVE  GateInv'
  BY <1>4 DEF A!SaveApproved
<1>5. ASSUME NEW r \in Requests, A!Apply(r)
      PROVE  GateInv'
  <2> DEFINE f == request[r].f
  <2>1. f \in Facts /\ f \in agreed
    BY <1>5 DEF A!Apply
  <2>2. CASE ~(prop[f][request[r].e] = "approved" /\ ~A!Known(f))
    BY <1>5, <2>1, <2>2 DEF A!Apply, A!Known
  <2>3. CASE prop[f][request[r].e] = "approved" /\ ~A!Known(f)
    BY <1>5, <2>1, <2>3 DEF A!Apply, A!Known
  <2> QED
    BY <2>2, <2>3
<1>6. ASSUME NEW r \in Requests, A!DecideFact(r)
      PROVE  GateInv'
  <2> DEFINE f == request[r].f
  <2>1. f \in Facts /\ f \in agreed
    BY <1>6 DEF A!DecideFact
  <2> QED
    BY <1>6, <2>1 DEF A!DecideFact
<1>7. CASE A!Restart
  BY <1>7 DEF A!Restart
<1>8. CASE UNCHANGED avars
  BY <1>8 DEF avars
<1> QED
  BY <1>1, <1>2, <1>3, <1>4, <1>5, <1>6, <1>7, <1>8 DEF A!Next

(* For any number of facts, request threads, proposals and restarts: what the *)
(* panel calls approved is in force, and nothing is there that no person      *)
(* approved (POST /api/agent/approvals/decide).                              *)
THEOREM GateHolds == MCSpec => []GateIsTrue
<1>1. MCInit => GateInv
  BY DEF MCInit, A!Init, GateInv, A!GateIsTrue, A!NoReq
<1>2. [MCNext]_allVars => [A!Next]_avars
  BY DEF MCNext, allVars, avars
<1>3. GateInv => GateIsTrue
  BY DEF GateInv, GateIsTrue
<1> QED
  BY <1>1, <1>2, <1>3, GateStep, PTL DEF MCSpec

-----------------------------------------------------------------------------
(* Reports.                                                                 *)

(* The inductive form of EditableIsStored: what a run is about to write, and   *)
(* what an edit has read, was stored before.                                  *)
Stages == {"off", "ingest", "index", "fill", "vectors", "curate", "topics", "write", "record", "store"}
Work == [pc : Stages, made : [Papers -> R!Kinds \cup {"none"}], cats : SUBSET SUBSET Papers]

StoredInv ==
  /\ topics \in [R!Dirs -> SUBSET SUBSET Papers]
  /\ file \in [R!Dirs -> [state : {"none", "whole", "torn"}, cats : SUBSET SUBSET Papers]]
  /\ run \in Work /\ tool \in Work
  /\ edit \in [dir : R!Dirs \cup {"none"}, cats : SUBSET SUBSET Papers, of : SUBSET Papers]
  /\ latest \in R!Dirs \cup {"none"} /\ main \subseteq Papers
  /\ run.pc = "write" => run.cats \subseteq topics["pipeline"]
  /\ edit.dir = "pipeline" => edit.cats \subseteq topics["pipeline"]
  /\ R!EditableIsStored

\* Runs, tool calls, edits and routes keep StoredInv.
LEMMA StoredStep == StoredInv /\ [R!Next]_rvars => StoredInv'
<1> SUFFICES ASSUME StoredInv, [R!Next]_rvars
             PROVE  StoredInv'
  OBVIOUS
<1> USE DEF StoredInv, Work, Stages, R!Idle, R!NoEdit, R!NoReport, R!Dirs, R!Kinds,
           R!EditableIsStored, R!IndexVars, R!Human
<1>1. CASE R!Start
  BY <1>1 DEF R!Start
<1>2. CASE R!Ingest
  BY <1>2 DEF R!Ingest
<1>3. CASE R!Tantivy \/ R!Fill \/ R!IndexLance
  BY <1>3 DEF R!Tantivy, R!Fill, R!IndexLance
<1>4. CASE R!Curate
  <2>1. PICK v \in [Papers -> R!Kinds] : run' = [run EXCEPT !.pc = "topics", !.made = v]
    BY <1>4 DEF R!Curate, R!Documents
  <2>2. v \in [Papers -> R!Kinds \cup {"none"}]
    BY <2>1
  <2>3. run' \in Work /\ run'.pc = "topics"
    BY <2>1, <2>2
  <2> QED
    BY <1>4, <2>3 DEF R!Curate
<1>5. CASE R!Topics
  <2>1. PICK cats \in R!Groupings(R!Selected(run.made)) :
          /\ run' = [run EXCEPT !.pc = "write", !.cats = cats, !.made = R!Idle.made]
          /\ topics' = [topics EXCEPT !["pipeline"] = @ \cup cats]
    BY <1>5 DEF R!Topics
  <2>2. cats \in SUBSET SUBSET Papers
    BY DEF R!Groupings, R!Selected
  <2> QED
    BY <1>5, <2>1, <2>2 DEF R!Topics
<1>6. CASE R!Write
  BY <1>6 DEF R!Write, R!WriteFile
<1>7. CASE R!Record
  BY <1>7 DEF R!Record
<1>8. CASE R!Fail
  BY <1>8 DEF R!Fail
<1>9. CASE R!Compile
  <2>1. PICK docs \in SUBSET R!Loadable :
          \E cats \in R!Groupings(docs) : tool' = [R!Idle EXCEPT !.pc = "write", !.cats = cats]
    BY <1>9 DEF R!Compile
  <2>2. PICK cats \in R!Groupings(docs) : tool' = [R!Idle EXCEPT !.pc = "write", !.cats = cats]
    BY <2>1
  <2>3. cats \in SUBSET SUBSET Papers
    BY DEF R!Groupings, R!Loadable
  <2> QED
    BY <1>9, <2>2, <2>3 DEF R!Compile
<1>10. CASE R!CompileWrite
  BY <1>10 DEF R!CompileWrite, R!WriteFile
<1>11. CASE R!CompileStore
  BY <1>11 DEF R!CompileStore
<1>12. CASE R!EditRead
  BY <1>12 DEF R!EditRead, R!Latest
<1>13. CASE R!EditWrite
  BY <1>13 DEF R!EditWrite, R!WriteFile
<1>14. CASE R!ReportApproved \/ R!ChangesRequested \/ R!DeleteReport
  BY <1>14 DEF R!ReportApproved, R!ChangesRequested, R!DeleteReport, R!ToPromote
<1>15. ASSUME NEW d \in Papers, R!DecisionReview(d) \/ R!FastPath(d)
       PROVE  StoredInv'
  BY <1>15 DEF R!DecisionReview, R!FastPath
<1>16. CASE UNCHANGED rvars
  BY <1>16 DEF rvars
<1> QED
  BY <1>1, <1>2, <1>3, <1>4, <1>5, <1>6, <1>7, <1>8, <1>9, <1>10, <1>11, <1>12, <1>13, <1>14, <1>15, <1>16
  DEF R!Next

(* For any documents, runs, edits, reviews and crashes: what a human can edit  *)
(* in the report of the pipeline is in its store (reporter_pipeline.run,      *)
(* server.update_latest_topic).                                              *)
THEOREM EditsFindTheirTopic == MCSpec => []EditableIsStored
<1>1. MCInit => StoredInv
  BY DEF MCInit, R!Init, StoredInv, Work, Stages, R!Idle, R!NoEdit, R!NoReport, R!Dirs, R!Kinds,
     R!EditableIsStored
<1>2. [MCNext]_allVars => [R!Next]_rvars
  BY DEF MCNext, allVars, rvars
<1>3. StoredInv => EditableIsStored
  BY DEF StoredInv, EditableIsStored
<1> QED
  BY <1>1, <1>2, <1>3, StoredStep, PTL DEF MCSpec

-----------------------------------------------------------------------------
(* The stand-alone pipeline.                                                *)

\* A function on 1 .. n is a sequence.
LEMMA FunctionIsSequence == ASSUME NEW X, NEW n \in Nat, NEW q \in [1 .. n -> X]
                            PROVE  q \in Seq(X)
  OBVIOUS

\* The cardinality that module Continuous uses is the one of FiniteSets.
LEMMA CardinalityInC == ASSUME NEW X PROVE C!Cardinality(X) = Cardinality(X)
  BY DEF C!Cardinality, Cardinality

\* The inductive form of CommittedIsKept: a file is unlinked only after what it holds
\* is in Archive, if it was committed; nothing is committed that was never written.
KeptInv ==
  /\ written \in [Inputs -> Nat] /\ ground \in [Inputs -> Nat]
  /\ \A p \in Inputs : ground[p] \in {0, written[p]}
  /\ waiting \in Seq(Inputs)
  /\ pc \in {"move", "unlink"} => waiting # <<>>
  /\ kept \subseteq Inputs \X Nat
  /\ \A p \in Inputs, n \in Nat : <<p, n>> \in kept => n <= written[p]
  /\ pc = "unlink" => (\A p \in Inputs : p = Head(waiting) /\ <<p, ground[p]>> \in kept => <<p, ground[p]>> \in archive)
  /\ \A p \in Inputs, n \in Nat :
       <<p, n>> \in kept => <<p, n>> \in archive \/ ground[p] = n \/ written[p] > n

\* Other writers, the run, its failures and its restarts keep KeptInv.
LEMMA KeptStep == KeptInv /\ [C!Next]_cvars => KeptInv'
<1> SUFFICES ASSUME KeptInv, [C!Next]_cvars PROVE KeptInv'
  OBVIOUS
<1> USE DEF KeptInv, C!fileVars, C!runVars, C!corpusVars, C!At
<1>1. ASSUME NEW p \in Inputs, C!Publish(p) PROVE KeptInv'
  BY <1>1 DEF C!Publish
<1>2. CASE C!Start
  BY <1>2 DEF C!Start
<1>3. CASE C!Poll
  <2>1. PICK q \in C!SetToSeqs(C!Present \ processed) : waiting' = q
    BY <1>3 DEF C!Poll
  <2>2. IsFiniteSet(C!Present \ processed)
    BY InputsAssumption, FS_Subset DEF C!Present
  <2> DEFINE n == Cardinality(C!Present \ processed)
  <2>3. n \in Nat
    BY <2>2, FS_CardinalityType, CardinalityInC
  <2>4. q \in [1 .. n -> Inputs]
    BY <2>1, CardinalityInC DEF C!SetToSeqs, C!Present
  <2> HIDE DEF n
  <2>5. waiting' \in Seq(Inputs)
    BY <2>1, <2>3, <2>4, FunctionIsSequence
  <2> QED
    BY <1>3, <2>5 DEF C!Poll
<1>4. CASE C!Ingest
  BY <1>4 DEF C!Ingest
<1>5. CASE C!IngestFails
  BY <1>5 DEF C!IngestFails
<1>6. CASE C!CopyToArchive
  BY <1>6 DEF C!CopyToArchive
<1>7. CASE C!Unlink
  <2> DEFINE h == Head(waiting)
  <2>1. h \in Inputs /\ Tail(waiting) \in Seq(Inputs)
    BY <1>7 DEF C!Unlink
  <2>2. ASSUME NEW p \in Inputs, NEW n \in Nat, <<p, n>> \in kept
        PROVE  <<p, n>> \in archive \/ ground'[p] = n \/ written[p] > n
    <3>1. CASE p = h
      <4>1. ground[p] = n => <<p, n>> \in archive
        BY <1>7, <2>1, <2>2, <3>1 DEF C!Unlink
      <4> QED
        BY <2>2, <4>1
    <3>2. CASE p # h
      BY <1>7, <2>1, <2>2, <3>2 DEF C!Unlink
    <3> QED
      BY <3>1, <3>2
  <2>3. ground' \in [Inputs -> Nat] /\ \A p \in Inputs : ground'[p] \in {0, written[p]}
    BY <1>7, <2>1 DEF C!Unlink
  <2> QED
    BY <1>7, <2>1, <2>2, <2>3 DEF C!Unlink
<1>8. CASE C!EndBatch
  BY <1>8 DEF C!EndBatch
<1>9. CASE C!IdleTimeout
  BY <1>9 DEF C!IdleTimeout
<1>10. CASE C!Build
  BY <1>10 DEF C!Build
<1>11. CASE C!Enrich
  BY <1>11 DEF C!Enrich
<1>12. CASE C!Stop
  BY <1>12 DEF C!Stop
<1>13. CASE UNCHANGED cvars
  BY <1>13 DEF cvars
<1> QED
  BY <1>1, <1>2, <1>3, <1>4, <1>5, <1>6, <1>7, <1>8, <1>9, <1>10, <1>11, <1>12, <1>13 DEF C!Next

(* For any finite set of paths and any number of rewrites, failures and crashes: *)
(* every committed document keeps its source, in Archive or at its path, until  *)
(* another program writes over it (continuous_pipeline.move_to_archive).           *)
THEOREM CommittedStaysKept == MCSpec => []CommittedIsKept
<1>1. MCInit => KeptInv
  BY DEF MCInit, C!Init, KeptInv
<1>2. [MCNext]_allVars => [C!Next]_cvars
  BY DEF MCNext, allVars, cvars
<1>3. KeptInv => CommittedIsKept
  BY DEF KeptInv, CommittedIsKept, C!CommittedIsKept
<1> QED
  BY <1>1, <1>2, <1>3, KeptStep, PTL DEF MCSpec

-----------------------------------------------------------------------------
(* The groups of topics.                                                     *)

\* The inductive form of GroupsAreSound: what is under a key is related to the key,
\* which need not be one of its members any more.
GroupInv ==
  /\ near \in SUBSET G!Pairs
  /\ group \in [G!Topics -> SUBSET G!Topics]
  /\ \A x \in G!Topics : \E k \in G!Topics : x \in group[k]
  /\ \A k, l \in G!Topics : \A x \in group[k] : x \in group[l] => k = l
  /\ \A Z \in SUBSET G!Topics : G!Related(Z) => \A k \in G!Topics : \A x \in group[k] : x \in Z <=> k \in Z

\* The group of j joins what is under i.
LEMMA JoinKeeps ==
  ASSUME GroupInv, NEW i \in G!Topics, NEW j \in G!Topics, NEW p \in near, p[1] = i, p[2] = j,
         group' = G!Join(group, i, j), UNCHANGED near
  PROVE  GroupInv'
<1> DEFINE ks == {k \in G!Topics \ {i} : j \in group[k]}
<1>1. CASE ks = {}
  <2>1. group' = group
    BY <1>1 DEF G!Join
  <2> QED
    BY <2>1 DEF GroupInv, G!Related
<1>2. CASE ks # {}
  <2> DEFINE l == CHOOSE k \in ks : TRUE
  <2>1. l \in ks
    BY <1>2
  <2>2. group' = [group EXCEPT ![i] = group[i] \cup group[l], ![l] = {}]
    BY <1>2 DEF G!Join, GroupInv
  <2>3. l \in G!Topics /\ l # i /\ j \in group[l]
    BY <2>1
  <2> HIDE DEF l, ks
  <2>4. /\ group' \in [G!Topics -> SUBSET G!Topics]
        /\ group'[i] = group[i] \cup group[l] /\ group'[l] = {}
        /\ \A k \in G!Topics : k # i /\ k # l => group'[k] = group[k]
    BY <2>2, <2>3 DEF GroupInv
  <2>5. \A x \in G!Topics : \E k \in G!Topics : x \in group'[k]
    BY <2>3, <2>4 DEF GroupInv
  <2>6. \A k, m \in G!Topics : \A x \in group'[k] : x \in group'[m] => k = m
    BY <2>3, <2>4 DEF GroupInv
  <2>7. ASSUME NEW Z \in SUBSET G!Topics, G!Related(Z), NEW k \in G!Topics, NEW x \in group'[k] PROVE x \in Z <=> k \in Z
    <3>1. (i \in Z <=> j \in Z) /\ (j \in Z <=> l \in Z)
      BY <2>3, <2>7 DEF GroupInv, G!Related
    <3> QED
      BY <2>3, <2>4, <2>7, <3>1 DEF GroupInv
  <2> QED
    BY <2>4, <2>5, <2>6, <2>7 DEF GroupInv, G!Related
<1> QED
  BY <1>1, <1>2

\* The walk keeps it, and nothing else touches the groups.
LEMMA GroupStep == GroupInv /\ [G!Next]_gvars => GroupInv'
<1> SUFFICES ASSUME GroupInv, [G!Next]_gvars PROVE GroupInv'
  OBVIOUS
<1>1. CASE UNCHANGED <<near, group>>
  BY <1>1 DEF GroupInv, G!Related
<1>2. CASE G!Merge
  <2>1. CASE at \in near
    <3>1. at[1] \in G!Topics /\ at[2] \in G!Topics
      BY <2>1 DEF GroupInv, G!Pairs
    <3> QED
      BY <1>2, <2>1, <3>1, JoinKeeps DEF G!Merge
  <2>2. CASE at \notin near
    BY <1>1, <1>2, <2>2 DEF G!Merge
  <2> QED
    BY <2>1, <2>2
<1>3. CASE G!Finish \/ \E c \in G!Candidates : G!Propose(c)
  BY <1>1, <1>3 DEF G!Finish, G!Propose
<1> QED
  BY <1>1, <1>2, <1>3 DEF G!Next, gvars

\* At the start every topic is alone under its own key.
LEMMA GroupInit == near \in SUBSET G!Pairs /\ group = [i \in G!Topics |-> {i}] => GroupInv
  BY DEF GroupInv

\* It says that the groups are sound.
LEMMA GroupImplies == GroupInv => G!GroupsAreSound
<1> SUFFICES ASSUME GroupInv PROVE G!GroupsAreSound
  OBVIOUS
<1>1. UNION G!Groups(group) = G!Topics
  <2>1. \A x \in G!Topics : x \in UNION G!Groups(group)
    BY DEF GroupInv, G!Groups
  <2>2. \A x \in UNION G!Groups(group) : x \in G!Topics
    BY DEF GroupInv, G!Groups
  <2> QED
    BY <2>1, <2>2
<1>2. \A k, l \in G!Topics : k # l => group[k] \cap group[l] = {}
  BY DEF GroupInv
<1>3. ASSUME NEW Z \in SUBSET G!Topics, G!Related(Z), NEW k \in G!Topics, group[k] \cap Z # {} PROVE group[k] \subseteq Z
  BY <1>3 DEF GroupInv
<1> QED
  BY <1>1, <1>2, <1>3 DEF G!GroupsAreSound

(* For any number of topics, any keywords they share and any grouping a model  *)
(* proposes: the walk over the pairs loses no topic, puts none in two groups,  *)
(* and puts together no two that no chain of shared keywords relates           *)
(* (reporter_topics.py, the deterministic grouping).                           *)
THEOREM GroupsStaySound == MCSpec => []GroupsAreSound
<1>1. MCInit => GroupInv
  BY GroupInit DEF MCInit, Only, G!Init
<1>2. [MCNext]_allVars => [G!Next]_gvars
  BY DEF MCNext, allVars, gvars
<1>3. GroupInv => GroupsAreSound
  BY GroupImplies DEF GroupsAreSound
<1> QED
  BY <1>1, <1>2, <1>3, GroupStep, PTL DEF MCSpec

-----------------------------------------------------------------------------
(* What idle cognition proposes.                                             *)

Row == [p : Patterns \cup {I!Other}, status : I!Open \cup {"rejected", "executed"}, fixed : BOOLEAN]

\* A row the pass may come upon while it saves: its window held the pattern, the person
\* worded it, or it is a research already decided.
Minded(r) == r.p \in pass.known \cup {I!Other} \/ (kind = "agenda" /\ r.status # "pending")

\* The inductive form of AskedOnce: an identifier names one row, and what is left to
\* propose is in no row of the window that could still be asked about.
AskInv ==
  /\ rows \in Seq(Row)
  /\ \A i, j \in DOMAIN rows : rows[i].fixed /\ rows[j].fixed /\ rows[i].p = rows[j].p => i = j
  /\ pass \in [pc : {"off", "interests", "length", "read", "save"}, seen : [Patterns -> Int],
               known : SUBSET (Patterns \cup {I!Other}), left : SUBSET Patterns]
  /\ uses \in [Patterns -> Int]
  /\ pass.pc = "save" => /\ pass.left \cap pass.known = {}
                         /\ \A i \in I!Newest : Minded(rows[i])

\* The rows a principle is saved after: the old row of its identifier is taken out, and
\* what is above it moves down by one.
LEMMA WithoutShifts ==
  ASSUME AskInv, NEW p \in Patterns
  PROVE  /\ I!Without(p) \in Seq(Row)
         /\ \A i \in DOMAIN I!Without(p) : I!Without(p)[i].p = p => ~ I!Without(p)[i].fixed
         /\ \/ I!Without(p) = rows
            \/ /\ Len(I!Without(p)) = Len(rows) - 1
               /\ \E k \in DOMAIN rows : \A i \in DOMAIN I!Without(p) :
                    I!Without(p)[i] = rows[IF i < k THEN i ELSE i + 1]
<1> DEFINE old == {i \in DOMAIN rows : rows[i].p = p /\ rows[i].fixed}
<1>1. CASE old = {}
  BY <1>1 DEF AskInv, I!Without
<1>2. CASE old # {}
  <2> DEFINE k == CHOOSE i \in old : TRUE
             new == I!Without(p)
  <2>1. k \in old
    BY <1>2
  <2>2. k \in 1 .. Len(rows) /\ rows[k].p = p /\ rows[k].fixed /\ rows \in Seq(Row)
    BY <2>1 DEF AskInv
  <2>3. new = TakenOut(rows, k)
    BY <1>2 DEF I!Without, I!RemoveAt, TakenOut
  <2> HIDE DEF new, k, old
  <2>4. new \in Seq(Row) /\ Len(new) = Len(rows) - 1 /\ DOMAIN new = 1 .. Len(rows) - 1
    BY <2>2, <2>3, TakenOutShifts
  <2>5. \A i \in 1 .. Len(rows) - 1 : new[i] = rows[IF i < k THEN i ELSE i + 1]
    BY <2>2, <2>3, TakenOutShifts
  <2>6. \A i \in DOMAIN new : new[i].p = p => ~ new[i].fixed
    <3> SUFFICES ASSUME NEW i \in 1 .. Len(rows) - 1, new[i].p = p, new[i].fixed PROVE FALSE
      BY <2>4
    <3> DEFINE j == IF i < k THEN i ELSE i + 1
    <3>1. j \in 1 .. Len(rows) /\ j # k /\ new[i] = rows[j]
      BY <2>2, <2>5
    <3> HIDE DEF j
    <3> QED
      BY <2>2, <3>1 DEF AskInv
  <2> QED
    BY <2>2, <2>4, <2>5, <2>6 DEF new
<1> QED
  BY <1>1, <1>2

\* A row is added last: the window moves up by one.
LEMMA AddedLast ==
  ASSUME NEW s \in Seq(Row), NEW r \in Row
  PROVE  /\ Append(s, r) \in Seq(Row) /\ Len(Append(s, r)) = Len(s) + 1
         /\ DOMAIN Append(s, r) = 1 .. Len(s) + 1
         /\ Append(s, r)[Len(s) + 1] = r /\ \A i \in 1 .. Len(s) : Append(s, r)[i] = s[i]
OBVIOUS

\* After a step that adds one row to the table, old row of its identifier taken out or
\* not, the other rows of the window were in the window before.
LEMMA WindowSlides ==
  ASSUME AskInv, NEW s \in Seq(Row), NEW r \in Row, rows' = Append(s, r),
         \/ s = rows
         \/ /\ Len(s) = Len(rows) - 1
            /\ \E k \in DOMAIN rows : \A i \in DOMAIN s : s[i] = rows[IF i < k THEN i ELSE i + 1]
  PROVE  \A i \in I!Newest' : rows'[i] = r \/ \E j \in I!Newest : rows'[i] = rows[j]
<1> SUFFICES ASSUME NEW i \in I!Newest', i # Len(s) + 1
             PROVE  \E j \in I!Newest : rows'[i] = rows[j]
  BY AddedLast DEF I!Newest
<1>1. /\ i \in 1 .. Len(s) /\ rows'[i] = s[i] /\ i > Len(s) + 1 - Window
      /\ DOMAIN rows = 1 .. Len(rows) /\ Len(rows) \in Nat /\ Len(s) \in Nat
  <2>1. /\ DOMAIN rows' = 1 .. Len(s) + 1 /\ Len(rows') = Len(s) + 1 /\ Len(s) \in Nat
        /\ \A j \in 1 .. Len(s) : rows'[j] = s[j]
    BY AddedLast
  <2>2. i \in DOMAIN rows' /\ i > Len(rows') - Window
    BY DEF I!Newest
  <2>3. rows \in Seq(Row)
    BY DEF AskInv
  <2>4. DOMAIN rows = 1 .. Len(rows) /\ Len(rows) \in Nat
    BY <2>3
  <2>5. i # Len(s) + 1
    OBVIOUS
  <2>6. i \in 1 .. Len(s) + 1 /\ i > Len(s) + 1 - Window
    BY <2>1, <2>2, PatternsAssumption
  <2>7. i \in 1 .. Len(s)
    BY <2>1, <2>5, <2>6
  <2> QED
    BY <2>1, <2>4, <2>6, <2>7
<1>2. CASE s = rows
  BY <1>1, <1>2, PatternsAssumption DEF I!Newest
<1>3. CASE s # rows
  <2>1. PICK k \in DOMAIN rows : \A j \in DOMAIN s : s[j] = rows[IF j < k THEN j ELSE j + 1]
    BY <1>3
  <2>2. Len(s) = Len(rows) - 1 /\ DOMAIN s = 1 .. Len(s)
    BY <1>3
  <2> DEFINE j == IF i < k THEN i ELSE i + 1
  <2>3. j \in I!Newest
    BY <1>1, <2>2, PatternsAssumption DEF I!Newest
  <2>4. s[i] = rows[j]
    BY <1>1, <2>1, <2>2
  <2> QED
    BY <1>1, <2>3, <2>4
<1> QED
  BY <1>2, <1>3

\* A change of one row's status leaves what the pass minds: a research that was decided
\* is not asked about again.
LEMMA StatusKeeps ==
  ASSUME AskInv, NEW i \in DOMAIN rows, NEW st \in {"approved", "rejected", "executed"},
         rows' = [rows EXCEPT ![i].status = st], UNCHANGED <<kind, uses, pass>>
  PROVE  AskInv'
<1>1. /\ rows' \in Seq(Row) /\ DOMAIN rows' = DOMAIN rows /\ Len(rows') = Len(rows)
      /\ \A j \in DOMAIN rows : /\ rows'[j].p = rows[j].p /\ rows'[j].fixed = rows[j].fixed
                                /\ rows'[j].status = IF j = i THEN st ELSE rows[j].status
  <2>1. rows \in Seq(Row) /\ rows[i] \in Row
    BY DEF AskInv
  <2>2. [rows[i] EXCEPT !.status = st] \in Row
    BY <2>1 DEF Row, I!Open
  <2> QED
    BY <2>1, <2>2, ExceptSeq DEF Row
<1>2. I!Newest' = I!Newest
  BY <1>1 DEF I!Newest
<1>3. I!Newest \subseteq DOMAIN rows
  BY DEF I!Newest
<1> QED
  BY <1>1, <1>2, <1>3 DEF AskInv, Minded

\* Every step keeps it.
LEMMA AskStep == AskInv /\ [I!Next]_ivars => AskInv'
<1> SUFFICES ASSUME AskInv, [I!Next]_ivars PROVE AskInv'
  OBVIOUS
<1>1. CASE UNCHANGED <<kind, rows, pass>> /\ uses' \in [Patterns -> Int]
  BY <1>1 DEF AskInv, I!Newest, Minded
<1>2. CASE UNCHANGED <<kind, rows, uses>> /\ pass'.pc # "save"
           /\ pass' \in [pc : {"off", "interests", "length", "read", "save"}, seen : [Patterns -> Int],
                         known : SUBSET (Patterns \cup {I!Other}), left : SUBSET Patterns]
  BY <1>2 DEF AskInv
<1>3. CASE UNCHANGED ivars
  BY <1>1, <1>3 DEF ivars, AskInv
<1>4. ASSUME NEW p \in Patterns, I!Use(p) \/ I!Fade(p) PROVE AskInv'
  <2>1. uses' \in [Patterns -> Int]
    BY <1>4 DEF AskInv, I!Use, I!Fade
  <2> QED
    BY <1>1, <1>4, <2>1 DEF I!Use, I!Fade
<1>5. CASE I!DeclareLength \/ \E p \in Patterns : I!DeclareInterest(p)
  BY <1>1, <1>5 DEF AskInv, I!DeclareLength, I!DeclareInterest
<1>6. CASE I!DeclareGoal
  <2> DEFINE r == [p |-> I!Other, status |-> "approved", fixed |-> FALSE]
  <2>1. r \in Row /\ rows' = Append(rows, r) /\ UNCHANGED <<kind, uses, pass>> /\ rows \in Seq(Row)
    BY <1>6 DEF AskInv, I!DeclareGoal, Row, I!Open
  <2>2. r.p = I!Other /\ ~ r.fixed
    OBVIOUS
  <2> HIDE DEF r
  <2>3. \A i \in I!Newest' : rows'[i] = r \/ \E j \in I!Newest : rows'[i] = rows[j]
    BY <2>1, WindowSlides
  <2>4. \A i, j \in DOMAIN rows' : rows'[i].fixed /\ rows'[j].fixed /\ rows'[i].p = rows'[j].p => i = j
    BY <2>1, <2>2, AddedLast DEF AskInv
  <2> QED
    <3>1. rows' \in Seq(Row)
      BY <2>1, AddedLast
    <3>2. pass'.pc = "save" => \A i \in I!Newest' : Minded(rows[i])'
      BY <2>1, <2>2, <2>3 DEF AskInv, Minded
    <3> QED
      BY <2>1, <2>4, <3>1, <3>2 DEF AskInv
<1>7. ASSUME NEW i \in 1 .. MaxRows, NEW st \in {"approved", "rejected"}, I!Decide(i, st) PROVE AskInv'
  BY <1>7, StatusKeeps DEF I!Decide
<1>8. ASSUME NEW i \in 1 .. MaxRows, I!Execute(i) PROVE AskInv'
  BY <1>8, StatusKeeps DEF I!Execute, I!Newest
<1>9. CASE I!BeginCycle \/ I!CountInterests \/ I!EndPass \/ I!InferLength \/ I!Restart
  <2>1. pass'.pc # "save"
    <3>1. CASE I!BeginCycle
      BY <3>1 DEF I!BeginCycle, I!NoPass
    <3>2. CASE I!CountInterests
      BY <3>2 DEF AskInv, I!CountInterests
    <3>3. CASE I!EndPass \/ I!InferLength \/ I!Restart
      BY <3>3 DEF I!EndPass, I!InferLength, I!Restart, I!NoPass
    <3> QED
      BY <1>9, <3>1, <3>2, <3>3
  <2>2. UNCHANGED <<kind, rows, uses>>
    BY <1>9 DEF I!BeginCycle, I!CountInterests, I!EndPass, I!InferLength, I!Restart
  <2>3. I!NoPass \in [pc : {"off", "interests", "length", "read", "save"}, seen : [Patterns -> Int],
                      known : SUBSET (Patterns \cup {I!Other}), left : SUBSET Patterns]
    BY DEF I!NoPass
  <2>4. pass' \in [pc : {"off", "interests", "length", "read", "save"}, seen : [Patterns -> Int],
                   known : SUBSET (Patterns \cup {I!Other}), left : SUBSET Patterns]
    <3>1. CASE I!BeginCycle
      BY <2>3, <3>1 DEF AskInv, I!BeginCycle
    <3>2. CASE I!CountInterests
      BY <3>2 DEF AskInv, I!CountInterests
    <3>3. CASE I!EndPass \/ I!InferLength \/ I!Restart
      BY <2>3, <3>3 DEF I!EndPass, I!InferLength, I!Restart
    <3> QED
      BY <1>9, <3>1, <3>2, <3>3
  <2> QED
    BY <1>2, <2>1, <2>2, <2>4
<1>10. CASE I!ReadWindow
  <2>1. PICK ps \in SUBSET Patterns :
          pass' = [pass EXCEPT !.pc = "save", !.known = I!Known, !.left = (ps \cap I!Frequent) \ I!Known]
    BY <1>10 DEF I!ReadWindow
  <2>2. UNCHANGED <<kind, uses, rows>>
    BY <1>10 DEF I!ReadWindow
  <2>3. I!Known \subseteq Patterns \cup {I!Other}
    <3>1. \A i \in DOMAIN rows : rows[i].p \in Patterns \cup {I!Other}
      <4>1. rows \in Seq(Row)
        BY DEF AskInv
      <4>2. \A i \in DOMAIN rows : rows[i] \in Row
        BY <4>1
      <4> QED
        BY <4>2 DEF Row
    <3> QED
      BY <3>1 DEF I!Known, I!Newest
  <2>4. \A i \in I!Newest : rows[i].p \in I!Known \/ (kind = "agenda" /\ rows[i].status # "pending")
    BY DEF I!Known, I!Open
  <2>5. pass'.known = I!Known /\ pass'.left = (ps \cap I!Frequent) \ I!Known
    BY <2>1 DEF AskInv
  <2>6. pass' \in [pc : {"off", "interests", "length", "read", "save"}, seen : [Patterns -> Int],
                   known : SUBSET (Patterns \cup {I!Other}), left : SUBSET Patterns]
    BY <2>1, <2>3 DEF AskInv
  <2>7. I!Newest' = I!Newest
    BY <2>2 DEF I!Newest
  <2>8. \A i \in I!Newest' : Minded(rows[i])'
    BY <2>2, <2>4, <2>5, <2>7 DEF Minded
  <2> QED
    BY <2>2, <2>5, <2>6, <2>8 DEF AskInv
<1>11. ASSUME NEW p \in Patterns, NEW s \in Seq(Row), NEW f \in BOOLEAN, NEW l \in SUBSET Patterns,
              pass.pc = "save", UNCHANGED <<kind, uses>>,
              rows' = Append(s, [p |-> p, status |-> "pending", fixed |-> f]),
              \/ s = rows
              \/ /\ Len(s) = Len(rows) - 1
                 /\ \E k \in DOMAIN rows : \A i \in DOMAIN s : s[i] = rows[IF i < k THEN i ELSE i + 1],
              f => \A i \in DOMAIN s : s[i].p = p => ~ s[i].fixed,
              l \subseteq pass.left \ {p}, pass' = [pass EXCEPT !.left = l, !.known = @ \cup {p}]
       PROVE  AskInv'
  <2> DEFINE r == [p |-> p, status |-> "pending", fixed |-> f]
  <2>1. r \in Row /\ rows' = Append(s, r)
    BY <1>11 DEF Row, I!Open
  <2>2. r.p = p /\ r.fixed = f
    OBVIOUS
  <2> HIDE DEF r
  <2>3. \A i \in I!Newest' : rows'[i] = r \/ \E j \in I!Newest : rows'[i] = rows[j]
    BY <1>11, <2>1, WindowSlides
  <2>4. /\ pass' \in [pc : {"off", "interests", "length", "read", "save"}, seen : [Patterns -> Int],
                      known : SUBSET (Patterns \cup {I!Other}), left : SUBSET Patterns]
        /\ pass'.known = pass.known \cup {p} /\ pass'.left = l
    BY <1>11 DEF AskInv
  <2>5. \A i, j \in DOMAIN s : s[i].fixed /\ s[j].fixed /\ s[i].p = s[j].p => i = j
    <3>1. CASE s = rows
      BY <3>1 DEF AskInv
    <3>2. CASE s # rows
      <4>1. PICK k \in DOMAIN rows : \A i \in DOMAIN s : s[i] = rows[IF i < k THEN i ELSE i + 1]
        BY <1>11, <3>2
      <4>2. /\ Len(s) = Len(rows) - 1 /\ DOMAIN s = 1 .. Len(s) /\ DOMAIN rows = 1 .. Len(rows)
            /\ Len(rows) \in Nat
        BY <1>11, <3>2 DEF AskInv
      <4> SUFFICES ASSUME NEW i \in DOMAIN s, NEW j \in DOMAIN s, s[i].fixed, s[j].fixed, s[i].p = s[j].p
                   PROVE  i = j
        OBVIOUS
      <4> DEFINE a == IF i < k THEN i ELSE i + 1
                 b == IF j < k THEN j ELSE j + 1
      <4>3. a \in DOMAIN rows /\ b \in DOMAIN rows /\ s[i] = rows[a] /\ s[j] = rows[b]
        BY <4>1, <4>2
      <4>4. a = b
        <5> HIDE DEF a, b
        <5> QED
          BY <4>3 DEF AskInv
      <4> QED
        BY <4>2, <4>4
    <3> QED
      BY <3>1, <3>2
  <2>6. \A i, j \in DOMAIN rows' : rows'[i].fixed /\ rows'[j].fixed /\ rows'[i].p = rows'[j].p => i = j
    <3>1. /\ DOMAIN rows' = 1 .. Len(s) + 1 /\ rows'[Len(s) + 1] = r /\ Len(s) \in Nat
          /\ \A i \in 1 .. Len(s) : rows'[i] = s[i]
      BY <2>1, AddedLast
    <3>2. \A i \in DOMAIN rows' : i \in DOMAIN s \/ i = Len(s) + 1
      BY <3>1
    <3>3. DOMAIN s = 1 .. Len(s)
      OBVIOUS
    <3> QED
      BY <1>11, <2>2, <2>5, <3>1, <3>2, <3>3
  <2>7. \A i \in I!Newest' : Minded(rows[i])'
    <3> SUFFICES ASSUME NEW i \in I!Newest' PROVE rows'[i].p \in pass'.known \cup {I!Other} \/ (kind = "agenda" /\ rows'[i].status # "pending")
      BY <1>11 DEF Minded
    <3>1. CASE rows'[i] = r
      BY <2>2, <2>4, <3>1
    <3>2. CASE \E j \in I!Newest : rows'[i] = rows[j]
      BY <1>11, <2>4, <3>2 DEF AskInv, Minded
    <3> QED
      BY <2>3, <3>1, <3>2
  <2>8. pass'.left \cap pass'.known = {}
    BY <1>11, <2>4 DEF AskInv
  <2>9. rows' \in Seq(Row)
    BY <2>1, AddedLast
  <2> QED
    BY <1>11, <2>4, <2>6, <2>7, <2>8, <2>9 DEF AskInv
<1>12. ASSUME NEW p \in Patterns, I!ReflectWithModel(p) PROVE AskInv'
  <2>1. pass' = [pass EXCEPT !.left = pass.left, !.known = @ \cup {p}]
    BY <1>12 DEF AskInv, I!ReflectWithModel
  <2>2. pass.left \subseteq pass.left \ {p} /\ pass.left \in SUBSET Patterns /\ rows \in Seq(Row)
    BY <1>12 DEF AskInv, I!ReflectWithModel
  <2> QED
    BY <1>11, <1>12, <2>1, <2>2 DEF I!ReflectWithModel
<1>13. ASSUME NEW p \in Patterns, I!Save(p) PROVE AskInv'
  <2>1. /\ pass.left \ {p} \in SUBSET Patterns /\ rows \in Seq(Row) /\ pass.pc = "save"
        /\ pass' = [pass EXCEPT !.left = pass.left \ {p}, !.known = @ \cup {p}]
        /\ UNCHANGED <<kind, uses>> /\ rows' = I!Saved(p)
    BY <1>13 DEF AskInv, I!Save
  <2>2. CASE kind = "principle"
    BY <1>11, <2>1, <2>2, WithoutShifts DEF I!Saved
  <2>3. CASE kind # "principle"
    BY <1>11, <2>1, <2>3 DEF I!Saved
  <2> QED
    BY <2>2, <2>3
<1> QED
  BY <1>3, <1>4, <1>5, <1>6, <1>7, <1>8, <1>9, <1>10, <1>12, <1>13 DEF I!Next, I!Idle

\* A step that proposes a pattern appends its row while the pass saves, and the pass has
\* not found the pattern in its window.
LEMMA ProposalIsSaved ==
  ASSUME AskInv, [I!Next]_ivars, NEW p \in Patterns, I!Proposes(p)
  PROVE  pass.pc = "save" /\ p \notin pass.known
<1>1. rows' # rows /\ rows'[Len(rows')].p = p /\ rows'[Len(rows')].status = "pending"
  BY DEF I!Proposes
<1>2. ASSUME NEW i \in DOMAIN rows, NEW st \in {"approved", "rejected", "executed"},
             rows' = [rows EXCEPT ![i].status = st]
      PROVE  FALSE
  <2>1. /\ Len(rows') = Len(rows) /\ DOMAIN rows' = DOMAIN rows /\ rows'[i].status = st
        /\ \A j \in DOMAIN rows : j # i => rows'[j] = rows[j]
    <3>1. rows \in Seq(Row) /\ rows[i] \in Row
      BY DEF AskInv
    <3>2. [rows[i] EXCEPT !.status = st] \in Row
      BY <3>1 DEF Row, I!Open
    <3> QED
      BY <1>2, <3>1, <3>2, ExceptSeq DEF Row
  <2> QED
    BY <2>1 DEF I!Proposes
<1>3. ASSUME NEW q \in Patterns, I!Save(q) PROVE pass.pc = "save" /\ p \notin pass.known
  <2>1. \E s \in Seq(Row) : \E f \in BOOLEAN : rows' = Append(s, [p |-> q, status |-> "pending", fixed |-> f])
    BY <1>3, WithoutShifts DEF I!Save, I!Saved, AskInv
  <2>2. PICK s \in Seq(Row), f \in BOOLEAN : rows' = Append(s, [p |-> q, status |-> "pending", fixed |-> f])
    BY <2>1
  <2>3. [p |-> q, status |-> "pending", fixed |-> f] \in Row
    BY DEF Row, I!Open
  <2>4. rows'[Len(rows')].p = q
    BY <2>2, <2>3, AddedLast
  <2> QED
    BY <1>1, <1>3, <2>4 DEF I!Save, AskInv
<1>4. ASSUME NEW q \in Patterns, I!ReflectWithModel(q) PROVE pass.pc = "save" /\ p \notin pass.known
  <2>1. [p |-> q, status |-> "pending", fixed |-> FALSE] \in Row
    BY DEF Row, I!Open
  <2>2. rows'[Len(rows')].p = q
    BY <1>4, <2>1, AddedLast DEF I!ReflectWithModel, AskInv
  <2> QED
    BY <1>1, <1>4, <2>2 DEF I!ReflectWithModel
<1>5. CASE I!DeclareGoal
  <2>1. [p |-> I!Other, status |-> "approved", fixed |-> FALSE] \in Row
    BY DEF Row, I!Open
  <2>2. rows'[Len(rows')].status = "approved"
    BY <1>5, <2>1, AddedLast DEF I!DeclareGoal, AskInv
  <2> QED
    BY <1>1, <2>2
<1>6. CASE UNCHANGED rows
  BY <1>1, <1>6
<1>7. ASSUME NEW i \in 1 .. MaxRows, NEW st \in {"approved", "rejected"}, I!Decide(i, st) PROVE FALSE
  BY <1>2, <1>7 DEF I!Decide
<1>8. ASSUME NEW i \in 1 .. MaxRows, I!Execute(i) PROVE FALSE
  BY <1>2, <1>8 DEF I!Execute, I!Newest
<1>9. ASSUME NEW q \in Patterns, I!Use(q) \/ I!Fade(q) \/ I!DeclareInterest(q) PROVE FALSE
  BY <1>6, <1>9, <1>1 DEF I!Use, I!Fade, I!DeclareInterest
<1>10. CASE \/ I!BeginCycle \/ I!CountInterests \/ I!ReadWindow \/ I!EndPass \/ I!InferLength
            \/ I!Restart \/ I!DeclareLength \/ UNCHANGED ivars
  BY <1>6, <1>10 DEF I!BeginCycle, I!CountInterests, I!ReadWindow, I!EndPass, I!InferLength, I!Restart,
                     I!DeclareLength, ivars
<1> QED
  BY <1>3, <1>4, <1>5, <1>7, <1>8, <1>9, <1>10 DEF I!Next, I!Idle

(* For any patterns, any size of the window and any number of rows, cycles and *)
(* decisions: nothing is proposed that a row of the window still asks or, but  *)
(* for research, answers, although the window was read before the chat and     *)
(* the decisions of the meantime (existing_patterns and its siblings).          *)
THEOREM NobodyIsAskedTwice == MCSpec => AskedOnce
<1>1. MCInit => AskInv
  BY DEF MCInit, I!Init, I!NoPass, AskInv
<1>2. [MCNext]_allVars => [I!Next]_ivars
  BY DEF MCNext, allVars, ivars
<1>3. AskInv /\ [I!Next]_ivars =>
        [\A p \in Patterns : I!Proposes(p) =>
           \A i \in I!Newest : rows[i].p = p => kind = "agenda" /\ rows[i].status # "pending"]_(I!cvars)
  <2> SUFFICES ASSUME AskInv, [I!Next]_ivars, NEW p \in Patterns, I!Proposes(p),
                      NEW i \in I!Newest, rows[i].p = p
               PROVE  kind = "agenda" /\ rows[i].status # "pending"
    OBVIOUS
  <2>1. pass.pc = "save" /\ p \notin pass.known
    BY ProposalIsSaved
  <2>2. p # I!Other
    BY PatternsAssumption DEF I!Other
  <2> QED
    BY <2>1, <2>2 DEF AskInv, Minded
<1> QED
  BY <1>1, <1>2, <1>3, AskStep, PTL DEF MCSpec, AskedOnce, I!AskedOnce
-----------------------------------------------------------------------------
(* Summaries.                                                               *)

PassFields == {"pc", "todo", "batch", "sent", "got", "guarded", "stuck", "pend", "last"}
\* What a pass is to embed again stays pending until it is marked, and by then it is
\* in the index.
IndexInv ==
  /\ DOMAIN work = PassFields /\ \A c \in Chunks : DOMAIN chunk[c] = {"st", "of"}
  /\ \A c \in Chunks : c \in work.pend => chunk[c].st = "pending"
  /\ \A c \in Chunks : c \in work.pend /\ work.pc = "mark" => vec[c] = [has |-> TRUE, of |-> chunk[c].of]
  /\ S!CompleteIsIndexed

\* The pass, its generator and its watchdogs keep IndexInv.
LEMMA IndexStep == IndexInv /\ [S!Next]_svars => IndexInv'
<1> SUFFICES ASSUME IndexInv, [S!Next]_svars PROVE IndexInv'
  OBVIOUS
<1> USE DEF IndexInv, PassFields, S!CompleteIsIndexed, S!NoWork, S!Fault
<1>1. CASE S!Begin
  BY <1>1 DEF S!Begin, S!Loaded, S!PendingReembed, S!InState
<1>2. CASE S!Take
  BY <1>2 DEF S!Take
<1>3. CASE S!Finish
  <2>1. CASE work.pend = {}
    BY <1>3, <2>1 DEF S!Finish
  <2>2. CASE work.pend # {}
    BY <1>3, <2>2 DEF S!Finish
  <2> QED
    BY <2>1, <2>2
<1>4. CASE S!Send
  BY <1>4 DEF S!Send
<1>5. CASE S!Arm
  BY <1>5 DEF S!Arm
<1>6. ASSUME NEW j \in gen, S!Iterate(j) PROVE IndexInv'
  BY <1>6 DEF S!Iterate
<1>7. CASE S!Hang
  BY <1>7 DEF S!Hang
<1>8. CASE S!Watchdog \/ S!StaleWatchdog
  BY <1>8 DEF S!Watchdog, S!StaleWatchdog
<1>9. CASE S!Raise
  BY <1>9 DEF S!Raise
<1>10. CASE S!Store
  <2>1. PICK ok \in SUBSET S!Answered, step \in {"flush", "take"} :
          /\ S!WriteEnrichment(ok)
          /\ work' = [work EXCEPT !.pc = step, !.pend = work.pend \cup S!Written(ok),
                                 !.guarded = FALSE, !.got = <<>>, !.batch = <<>>, !.sent = 0]
    BY ONLY <1>10 DEF S!Store
  <2>2. /\ work'.pend = work.pend \cup S!Written(ok) /\ work'.pc # "mark"
        /\ DOMAIN work' = PassFields
    BY <2>1
  <2>3. \A c \in Chunks : IF c \in S!Written(ok)
                         THEN chunk'[c].st = "pending" /\ DOMAIN chunk'[c] = {"st", "of"}
                         ELSE chunk'[c] = chunk[c]
    BY <2>1 DEF S!WriteEnrichment
  <2>4. UNCHANGED vec
    BY <1>10 DEF S!Store
  <2> HIDE DEF PassFields
  <2> QED
    BY <2>2, <2>3, <2>4
<1>11. CASE S!Delete
  BY <1>11 DEF S!Delete
<1>12. CASE S!Add
  BY <1>12 DEF S!Add
<1>13. CASE S!Mark
  <2>1. \A c \in Chunks : IF c \in work.pend
                         THEN chunk'[c] = [chunk[c] EXCEPT !.st = "complete"] ELSE chunk'[c] = chunk[c]
    BY <1>13 DEF S!Mark
  <2>2. DOMAIN work' = PassFields /\ work'.pend = {}
    <3>1. CASE work.last
      BY <1>13, <3>1 DEF S!Mark
    <3>2. CASE ~work.last
      BY <1>13, <3>2 DEF S!Mark
    <3> QED
      BY <3>1, <3>2
  <2>3. UNCHANGED vec /\ work.pc = "mark"
    BY <1>13 DEF S!Mark
  <2> HIDE DEF PassFields
  <2> QED
    BY <2>1, <2>2, <2>3
<1>14. CASE S!Break
  BY <1>14 DEF S!Break
<1>15. CASE UNCHANGED svars
  BY <1>15 DEF svars
<1> QED
  BY <1>1, <1>2, <1>3, <1>4, <1>5, <1>6, <1>7, <1>8, <1>9, <1>10, <1>11, <1>12, <1>13, <1>14, <1>15 DEF S!Next

(* For any number of chunks, batches, passes, errors and watchdogs: a chunk     *)
(* marked complete is in the vector index with the text the store holds       *)
(* (chunk_enrichment._flush_reembed).                                        *)
THEOREM CompleteStaysIndexed == MCSpec => []CompleteIsIndexed
<1>1. MCInit => IndexInv
  BY DEF MCInit, S!Init, IndexInv, PassFields, S!NoWork, S!CompleteIsIndexed
<1>2. [MCNext]_allVars => [S!Next]_svars
  BY DEF MCNext, allVars, svars
<1>3. IndexInv => CompleteIsIndexed
  BY DEF IndexInv, CompleteIsIndexed
<1> QED
  BY <1>1, <1>2, <1>3, IndexStep, PTL DEF MCSpec

-----------------------------------------------------------------------------
(* What an assessment leaves of the learner.                                *)

AssessType == [pc : {"rest", "model", "read", "write"}, id : Nat, was : [attempts : Nat, ids : SUBSET Nat]]
Holding == {i \in {1, 2} : assess[i].pc \in {"read", "write"}}
\* A record or a copy of it: as many attempts as it names evidence, all of it recorded.
IsEvidenced(r) == IsFiniteSet(r.ids) /\ r.ids \subseteq 1 .. log /\ r.attempts = Cardinality(r.ids)
\* The inductive form of MasteryIsEvidenced: two assessments never hold the same
\* evidence, and what one of them is about to write names none that the other holds.
EvidenceInv ==
  /\ log \in Nat
  /\ record \in [attempts : Nat, ids : SUBSET Nat]
  /\ assess \in [{1, 2} -> AssessType]
  /\ IsEvidenced(record)
  /\ \A i \in Holding :
       /\ assess[i].id \in 1 .. log /\ assess[i].id \notin record.ids
       /\ \A j \in Holding \ {i} : assess[j].id # assess[i].id
  /\ \A i \in {1, 2} : assess[i].pc = "write" =>
       /\ IsEvidenced(assess[i].was)
       /\ \A j \in Holding : assess[j].id \notin assess[i].was.ids

\* An assessment whose evidence was just recorded.
LEMMA ReadingIsTyped ==
  ASSUME NEW n \in Nat
  PROVE  /\ L!Rest \in AssessType /\ [L!Rest EXCEPT !.pc = "read", !.id = n] \in AssessType
         /\ [L!Rest EXCEPT !.pc = "read", !.id = n].pc = "read" /\ [L!Rest EXCEPT !.pc = "read", !.id = n].id = n
<1>1. L!Rest \in AssessType
  BY DEF L!Rest, L!Nothing, AssessType
<1> QED
  BY <1>1 DEF AssessType

\* Assessments in any order, a restart, and what happens to the course keep EvidenceInv.
LEMMA EvidenceStep == EvidenceInv /\ [L!Next]_lvars => EvidenceInv'
<1> SUFFICES ASSUME EvidenceInv, [L!Next]_lvars PROVE EvidenceInv'
  OBVIOUS
<1> USE DEF EvidenceInv, L!learner, L!Rest, L!Nothing, AssessType
<1>0. ASSUME UNCHANGED L!learner PROVE EvidenceInv'
  BY <1>0 DEF Holding, IsEvidenced
<1>1. ASSUME NEW i \in {1, 2}, L!StartAssess(i) PROVE EvidenceInv'
  BY <1>1 DEF L!StartAssess, Holding, IsEvidenced
<1>2. ASSUME NEW i \in {1, 2}, L!Classified(i) PROVE EvidenceInv'
  <2>1. log + 1 \notin record.ids /\ \A j \in {1, 2} : assess[j].pc = "write" => log + 1 \notin assess[j].was.ids
    BY DEF IsEvidenced
  <2>2. 1 .. log \subseteq 1 .. log + 1 /\ log + 1 \in 1 .. log + 1
    OBVIOUS
  <2>3. CASE assess' = [assess EXCEPT ![i] = L!Rest]
    BY <1>2, <2>1, <2>2, <2>3 DEF L!Classified, L!RecordEvidence, Holding, IsEvidenced
  <2>4. CASE assess' = [assess EXCEPT ![i] = [L!Rest EXCEPT !.pc = "read", !.id = log + 1]]
    <3> HIDE DEF L!Rest, L!Nothing, AssessType
    <3> DEFINE new == [L!Rest EXCEPT !.pc = "read", !.id = log + 1]
    <3>a. log + 1 \in Nat
      OBVIOUS
    <3>b. new \in AssessType /\ new.pc = "read" /\ new.id = log + 1
      BY ONLY <3>a, ReadingIsTyped, Zenon
    <3>d. assess' = [assess EXCEPT ![i] = new]
      BY <2>4
    <3> HIDE DEF new
    <3>1. /\ assess' \in [{1, 2} -> AssessType]
          /\ assess'[i].pc = "read" /\ assess'[i].id = log + 1
          /\ \A j \in {1, 2} \ {i} : assess'[j] = assess[j]
      BY <3>b, <3>d
    <3>2. Holding' = Holding \cup {i}
      BY <3>1 DEF Holding
    <3>3. log' = log + 1 /\ record' = record
      BY <1>2 DEF L!Classified, L!RecordEvidence
    <3>4. \A j \in Holding \ {i} : assess[j].id # log + 1
      OBVIOUS
    <3>5. \A j \in Holding' : /\ assess'[j].id \in 1 .. log' /\ assess'[j].id \notin record'.ids
                            /\ \A k \in Holding' \ {j} : assess'[k].id # assess'[j].id
      <4> SUFFICES ASSUME NEW j \in Holding'
                   PROVE  /\ assess'[j].id \in 1 .. log' /\ assess'[j].id \notin record'.ids
                          /\ \A k \in Holding' \ {j} : assess'[k].id # assess'[j].id
        OBVIOUS
      <4>1. CASE j = i
        BY <2>1, <2>2, <3>1, <3>2, <3>3, <3>4, <4>1 DEF Holding
      <4>2. CASE j # i
        BY <2>1, <2>2, <3>1, <3>2, <3>3, <3>4, <4>2 DEF Holding
      <4> QED
        BY <4>1, <4>2
    <3>6. \A j \in {1, 2} : assess'[j].pc = "write" =>
             /\ j # i /\ IsEvidenced(assess[j].was)'
             /\ \A k \in Holding' : assess'[k].id \notin assess'[j].was.ids
      <4> SUFFICES ASSUME NEW j \in {1, 2}, assess'[j].pc = "write"
                   PROVE  /\ j # i /\ IsEvidenced(assess[j].was)'
                          /\ \A k \in Holding' : assess'[k].id \notin assess'[j].was.ids
        OBVIOUS
      <4>1. j # i /\ assess'[j] = assess[j] /\ assess[j].pc = "write"
        BY <3>1
      <4>2. IsEvidenced(assess[j].was)'
        BY <2>2, <3>3, <4>1 DEF IsEvidenced
      <4> QED
        BY <2>1, <3>1, <3>2, <4>1, <4>2 DEF Holding
    <3>7. IsEvidenced(record)'
      BY <2>2, <3>3 DEF IsEvidenced
    <3> QED
      BY <3>1, <3>3, <3>5, <3>6, <3>7
  <2> QED
    BY <1>2, <2>3, <2>4 DEF L!Classified, L!RecordEvidence
<1>3. ASSUME NEW i \in {1, 2}, L!ReadRecord(i) PROVE EvidenceInv'
  BY <1>3 DEF L!ReadRecord, Holding, IsEvidenced
<1>4. ASSUME NEW i \in {1, 2}, L!UpdateMastery(i) PROVE EvidenceInv'
  <2> DEFINE was == assess[i].was
             mark == assess[i].id
  <2>1. IsFiniteSet(was.ids) /\ mark \notin was.ids /\ was.attempts = Cardinality(was.ids)
    BY <1>4 DEF L!UpdateMastery, IsEvidenced, Holding
  <2>2. IsFiniteSet(was.ids \cup {mark}) /\ Cardinality(was.ids \cup {mark}) = was.attempts + 1
    BY <2>1, FS_AddElement
  <2>3. IsEvidenced(record)'
    BY <1>4, <2>2 DEF L!UpdateMastery, IsEvidenced, Holding
  <2>4. Holding' = Holding \ {i}
    BY <1>4 DEF L!UpdateMastery, Holding
  <2> QED
    BY <1>4, <2>3, <2>4 DEF L!UpdateMastery, Holding, IsEvidenced
<1>5. CASE L!Restart
  BY <1>5 DEF L!Restart, Holding, IsEvidenced
<1>6. CASE L!ShowProjects \/ L!Propose \/ L!Draft \/ L!Inherit \/ L!ExpandEnds \/ \E v \in L!Versions : L!VersionStep(v)
  <2> USE DEF L!learner
  <2>1. UNCHANGED L!learner
    BY <1>6 DEF L!ShowProjects, L!Propose, L!Draft, L!Inherit, L!ExpandEnds, L!VersionStep, L!AddUnit, L!RemoveUnit, L!EditUnit,
         L!Expand, L!Approve, L!Activate, L!ChangeDepth, L!ReorderUnits, L!FreezeDraft, L!Thaw, L!Reopen, L!Reject, L!Advance
  <2> QED
    BY <2>1, <1>0
<1>7. CASE UNCHANGED lvars
  BY <1>7, <1>0 DEF lvars
<1> QED
  BY <1>1, <1>2, <1>3, <1>4, <1>5, <1>6, <1>7 DEF L!Next, L!AssessStep

(* For any units, depth and number of assessments and restarts: what the record *)
(* of a topic says traces to recorded evidence, one attempt for each           *)
(* (tutor_runtime: the evidence is inserted before the record is updated).     *)
THEOREM MasteryTraces == MCSpec => []MasteryIsEvidenced
<1>1. MCInit => EvidenceInv
  <2>1. IsFiniteSet({}) /\ Cardinality({}) = 0
    BY FS_EmptySet
  <2> QED
    BY <2>1 DEF MCInit, L!Init, EvidenceInv, IsEvidenced, Holding, AssessType, L!Rest, L!Nothing
<1>2. [MCNext]_allVars => [L!Next]_lvars
  BY DEF MCNext, allVars, lvars
<1>3. EvidenceInv => MasteryIsEvidenced
  BY CardinalityInL DEF EvidenceInv, IsEvidenced, MasteryIsEvidenced, L!MasteryIsEvidenced
<1> QED
  BY <1>1, <1>2, <1>3, EvidenceStep, PTL DEF MCSpec

-----------------------------------------------------------------------------
(* How a course ends.                                                        *)

\* The units of a course: a course has none of them twice.
Course(s) == s \in Seq(Units) /\ \A i, j \in DOMAIN s : s[i] = s[j] => i = j
\* The progress of a version, whatever the words for it.
Marks == {"pending", "current", "done"}

\* The units of the two versions are courses, however they are edited.
CourseInv ==
  /\ units \in [L!Versions -> Seq(Units)]
  /\ \A v \in L!Versions : Course(units[v])
  /\ marks \in [L!Versions -> [Units -> Marks]]

\* p is at most m requests from the end of the course s. Requests walk up from the first
\* unit in progress, k; when that walk is over, from the first that is not done, j.
Near(p, s, m) ==
  \/ \A i \in DOMAIN s : p[s[i]] = "done"
  \/ \E j \in DOMAIN s : /\ \A i \in DOMAIN s : p[s[i]] # "current" /\ (i < j => p[s[i]] = "done")
                         /\ Len(s) - j + 1 <= m
  \/ \E k \in DOMAIN s : /\ p[s[k]] = "current"
                         /\ \A i \in DOMAIN s : i < k => p[s[i]] # "current"
                         /\ \/ Len(s) - k + 1 <= m /\ \A i \in DOMAIN s : i < k => p[s[i]] = "done"
                            \/ \E j \in DOMAIN s : /\ \A i \in DOMAIN s : i < j => p[s[i]] = "done"
                                                   /\ (Len(s) - k + 1) + (Len(s) - j + 1) <= m

\* Min is the least element of a set of numbers.
LEMMA MinInL == ASSUME NEW D, D \subseteq Nat, D # {} PROVE L!Min(D) \in D /\ \A j \in D : L!Min(D) <= j
BY LeastExists DEF L!Min

\* A request: the first open unit is done, the next one current.
LEMMA OneRequest ==
  ASSUME NEW s, Course(s), NEW p \in [Units -> Marks], L!OpenUnits(p, s) # {}
  PROVE  \E i \in L!OpenUnits(p, s) :
           /\ \A j \in L!OpenUnits(p, s) : i <= j
           /\ L!Advanced(p, s) \in [Units -> Marks]
           /\ \A j \in DOMAIN s : L!Advanced(p, s)[s[j]] =
                IF j = i THEN "done" ELSE IF j = i + 1 THEN "current" ELSE p[s[j]]
<1> DEFINE O == L!OpenUnits(p, s)
           a == L!Min(O)
<1>1. O \subseteq DOMAIN s /\ DOMAIN s = 1 .. Len(s) /\ Len(s) \in Nat
  BY DEF Course, L!OpenUnits
<1>2. a \in O /\ \A j \in O : a <= j
  BY <1>1, MinInL
<1>3. L!Advanced(p, s) = [u \in Units |-> CASE u = s[a] -> "done"
                                            [] a < Len(s) /\ u = s[a + 1] -> "current"
                                            [] OTHER -> p[u]]
  BY DEF L!Advanced
<1> HIDE DEF O, a
<1>4. a \in 1 .. Len(s) /\ (a < Len(s) => a + 1 \in 1 .. Len(s)) /\ \A j \in 1 .. Len(s) : s[j] \in Units
  BY <1>1, <1>2 DEF Course
<1>5. \A i, j \in 1 .. Len(s) : s[i] = s[j] => i = j
  BY <1>1 DEF Course
<1>6. ASSUME NEW j \in 1 .. Len(s)
      PROVE  L!Advanced(p, s)[s[j]] = IF j = a THEN "done" ELSE IF j = a + 1 THEN "current" ELSE p[s[j]]
  <2>1. CASE j = a
    <3>1. s[j] = s[a] /\ s[a] \in Units /\ (a < Len(s) => s[a + 1] # s[a])
      BY <1>4, <1>5, <2>1
    <3>2. L!Advanced(p, s)[s[a]] = "done"
      BY <1>3, <3>1
    <3> QED
      BY <2>1, <3>1, <3>2
  <2>2. CASE j = a + 1
    <3>1. s[j] # s[a] /\ a < Len(s) /\ j # a
      BY <1>4, <1>5, <2>2
    <3> QED
      BY <1>3, <1>4, <2>2, <3>1
  <2>3. CASE j # a /\ j # a + 1
    <3>1. s[j] # s[a] /\ (a < Len(s) => s[j] # s[a + 1])
      BY <1>4, <1>5, <2>3
    <3> QED
      BY <1>3, <1>4, <2>3, <3>1
  <2> QED
    BY <2>1, <2>2, <2>3
<1>7. L!Advanced(p, s) \in [Units -> Marks]
  BY <1>3 DEF Marks
<1> QED
  BY <1>1, <1>2, <1>6, <1>7 DEF O

\* A request brings the end nearer by one.
LEMMA RequestNears ==
  ASSUME NEW s, Course(s), NEW p \in [Units -> Marks], NEW m \in Nat, Near(p, s, m + 1)
  PROVE  Near(L!Advanced(p, s), s, m) /\ L!Advanced(p, s) \in [Units -> Marks]
<1> DEFINE q == L!Advanced(p, s)
           n == Len(s)
<1>0. DOMAIN s = 1 .. n /\ n \in Nat /\ \A i \in DOMAIN s : s[i] \in Units
  BY DEF Course
<1>1. CASE L!OpenUnits(p, s) = {}
  <2>1. \A i \in DOMAIN s : p[s[i]] = "done"
    BY <1>1 DEF L!OpenUnits
  <2>2. q = p
    BY <1>1 DEF L!Advanced
  <2> QED
    BY <2>1, <2>2 DEF Near
<1>2. CASE L!OpenUnits(p, s) # {}
  <2>1. PICK a \in L!OpenUnits(p, s) :
           /\ \A j \in L!OpenUnits(p, s) : a <= j
           /\ q \in [Units -> Marks]
           /\ \A j \in DOMAIN s : q[s[j]] = IF j = a THEN "done" ELSE IF j = a + 1 THEN "current" ELSE p[s[j]]
    BY <1>2, OneRequest
  <2> HIDE DEF q
  <2>2. CASE \A i \in DOMAIN s : p[s[i]] # "current"
    <3>1. L!OpenUnits(p, s) = {i \in DOMAIN s : p[s[i]] # "done"}
      BY <2>2 DEF L!OpenUnits
    <3>2. /\ a \in 1 .. n /\ \A i \in 1 .. n : i < a => p[s[i]] = "done"
          /\ p[s[a]] # "done"
      BY <1>0, <2>1, <3>1
    <3>3. n - a + 1 <= m + 1
      <4>1. PICK j \in DOMAIN s : (\A i \in DOMAIN s : i < j => p[s[i]] = "done") /\ n - j + 1 <= m + 1
        BY <2>2, <3>2, <1>0 DEF Near
      <4>2. j <= a
        BY <1>0, <3>2, <4>1
      <4> QED
        BY <1>0, <3>2, <4>1, <4>2
    <3>4. CASE a = n
      <4>1. \A i \in DOMAIN s : q[s[i]] = "done"
        BY <1>0, <2>1, <3>2, <3>4
      <4> QED
        BY <2>1, <4>1 DEF Near, q
    <3>5. CASE a # n
      <4>1. a + 1 \in DOMAIN s /\ q[s[a + 1]] = "current" /\ n - (a + 1) + 1 <= m
        <5>1. a + 1 \in 1 .. n /\ n - (a + 1) + 1 <= m
          <6>1. a \in 1 .. n /\ n \in Nat /\ n - a + 1 <= m + 1 /\ a # n
            BY <1>0, <3>2, <3>3, <3>5
          <6> HIDE DEF n
          <6> QED
            BY <6>1
        <5>2. q[s[a + 1]] = "current"
          BY <1>0, <2>1, <3>2, <5>1
        <5> QED
          BY <1>0, <5>1, <5>2
      <4>2. \A i \in DOMAIN s : i < a + 1 => q[s[i]] = "done"
        BY <1>0, <2>1, <3>2
      <4>3. Near(q, s, m)
        BY <4>1, <4>2 DEF Near
      <4> QED
        BY <2>1, <4>3 DEF q
    <3> QED
      BY <3>4, <3>5
  <2>3. CASE \E i \in DOMAIN s : p[s[i]] = "current"
    <3>1. L!OpenUnits(p, s) = {i \in DOMAIN s : p[s[i]] = "current"}
      BY <2>3 DEF L!OpenUnits
    <3>2. /\ a \in 1 .. n /\ \A i \in 1 .. n : i < a => p[s[i]] # "current"
          /\ p[s[a]] = "current"
      BY <1>0, <2>1, <3>1
    <3>3. \/ n - a + 1 <= m + 1 /\ \A i \in DOMAIN s : i < a => p[s[i]] = "done"
          \/ \E j \in DOMAIN s : /\ \A i \in DOMAIN s : i < j => p[s[i]] = "done"
                                 /\ (n - a + 1) + (n - j + 1) <= m + 1
      <4>1. PICK k \in DOMAIN s :
              /\ p[s[k]] = "current" /\ \A i \in DOMAIN s : i < k => p[s[i]] # "current"
              /\ \/ n - k + 1 <= m + 1 /\ \A i \in DOMAIN s : i < k => p[s[i]] = "done"
                 \/ \E j \in DOMAIN s : /\ \A i \in DOMAIN s : i < j => p[s[i]] = "done"
                                        /\ (n - k + 1) + (n - j + 1) <= m + 1
        BY <2>3, <3>2, <1>0 DEF Near
      <4>2. k = a
        BY <1>0, <3>2, <4>1
      <4> QED
        BY <4>1, <4>2
    <3>4. CASE a = n
      <4>1. \A i \in DOMAIN s : q[s[i]] # "current" /\ (i # n => q[s[i]] = p[s[i]]) /\ (i = n => q[s[i]] = "done")
        BY <1>0, <2>1, <3>2, <3>4
      <4>2. CASE \A i \in DOMAIN s : i < a => p[s[i]] = "done"
        <5>1. \A i \in DOMAIN s : q[s[i]] = "done"
          BY <1>0, <3>4, <4>1, <4>2
        <5> QED
          BY <2>1, <5>1 DEF Near, q
      <4>3. ASSUME NEW j \in DOMAIN s, \A i \in DOMAIN s : i < j => p[s[i]] = "done",
                   (n - a + 1) + (n - j + 1) <= m + 1
            PROVE  Near(q, s, m)
        <5>1. n - j + 1 <= m
          BY <1>0, <3>4, <4>3
        <5>2. \A i \in DOMAIN s : q[s[i]] # "current" /\ (i < j => q[s[i]] = "done")
          BY <1>0, <4>1, <4>3
        <5> QED
          BY <5>1, <5>2 DEF Near
      <4> QED
        BY <2>1, <3>3, <4>2, <4>3 DEF q
    <3>5. CASE a # n
      <4>1. a + 1 \in DOMAIN s /\ q[s[a + 1]] = "current" /\ \A i \in DOMAIN s : i < a + 1 => q[s[i]] # "current"
        <5>1. a + 1 \in 1 .. n
          <6>1. a \in 1 .. n /\ n \in Nat /\ a # n
            BY <1>0, <3>2, <3>5
          <6> HIDE DEF n
          <6> QED
            BY <6>1
        <5>2. q[s[a + 1]] = "current"
          BY <1>0, <2>1, <3>2, <5>1
        <5>3. ASSUME NEW i \in DOMAIN s, i < a + 1 PROVE q[s[i]] # "current"
          BY <1>0, <2>1, <3>2, <5>3
        <5> QED
          BY <1>0, <5>1, <5>2, <5>3
      <4>2. CASE n - a + 1 <= m + 1 /\ \A i \in DOMAIN s : i < a => p[s[i]] = "done"
        <5>1. n - (a + 1) + 1 <= m /\ \A i \in DOMAIN s : i < a + 1 => q[s[i]] = "done"
          BY <1>0, <2>1, <3>2, <4>2
        <5>2. Near(q, s, m)
          BY <4>1, <5>1 DEF Near
        <5> QED
          BY <2>1, <5>2 DEF q
      <4>3. ASSUME NEW j \in DOMAIN s, \A i \in DOMAIN s : i < j => p[s[i]] = "done",
                   (n - a + 1) + (n - j + 1) <= m + 1
            PROVE  Near(q, s, m)
        <5>1. j <= a
          BY <1>0, <3>2, <4>3
        <5>2. (n - (a + 1) + 1) + (n - j + 1) <= m
          BY <1>0, <3>2, <4>3
        <5>3. \A i \in DOMAIN s : i < j => q[s[i]] = "done"
          BY <1>0, <2>1, <3>2, <4>3, <5>1
        <5> QED
          BY <4>1, <5>2, <5>3 DEF Near
      <4> QED
        BY <2>1, <3>3, <4>2, <4>3 DEF q
    <3> QED
      BY <3>4, <3>5
  <2> QED
    BY <2>2, <2>3
<1> QED
  BY <1>1, <1>2

\* A course is at most two walks from its end.
LEMMA AnyIsNear ==
  ASSUME NEW s, Course(s), NEW p \in [Units -> Marks], NEW m \in Nat, 2 * Len(s) <= m
  PROVE  Near(p, s, m)
<1> DEFINE n == Len(s)
           O == {i \in DOMAIN s : p[s[i]] # "done"}
           C0 == {i \in DOMAIN s : p[s[i]] = "current"}
<1>1. DOMAIN s = 1 .. n /\ n \in Nat /\ 2 * n <= m
  BY DEF Course
<1>2. O \subseteq Nat /\ C0 \subseteq Nat
  BY <1>1
<1>3. CASE O = {}
  BY <1>3 DEF Near
<1>4. CASE O # {} /\ C0 = {}
  <2>1. PICK j \in O : \A i \in O : j <= i
    BY <1>2, <1>4, LeastExists
  <2>2. j \in DOMAIN s /\ n - j + 1 <= m
    BY <1>1, <2>1
  <2>3. \A i \in DOMAIN s : p[s[i]] # "current" /\ (i < j => p[s[i]] = "done")
    BY <1>1, <1>4, <2>1
  <2> QED
    BY <2>2, <2>3 DEF Near
<1>5. CASE C0 # {}
  <2>1. PICK k \in C0 : \A i \in C0 : k <= i
    BY <1>2, <1>5, LeastExists
  <2>2. k \in 1 .. n /\ p[s[k]] = "current" /\ \A i \in DOMAIN s : i < k => p[s[i]] # "current"
    BY <1>1, <2>1
  <2>3. PICK j \in O : \A i \in O : j <= i
    <3>1. k \in O
      BY <2>1
    <3> QED
      BY <1>2, <3>1, LeastExists
  <2>4. j \in 1 .. n /\ \A i \in DOMAIN s : i < j => p[s[i]] = "done"
    BY <1>1, <2>3
  <2>5. (n - k + 1) + (n - j + 1) <= m
    <3>1. k \in 1 .. n /\ j \in 1 .. n /\ n \in Nat /\ 2 * n <= m
      BY <1>1, <2>2, <2>4
    <3> HIDE DEF n
    <3> QED
      BY <3>1
  <2> QED
    BY <1>1, <2>2, <2>4, <2>5 DEF Near
<1> QED
  BY <1>3, <1>4, <1>5

\* When no request is left to make, the course has ended.
LEMMA NoneLeft ==
  ASSUME NEW s, Course(s), NEW p, Near(p, s, 0)
  PROVE  \A i \in DOMAIN s : p[s[i]] = "done"
<1>1. DOMAIN s = 1 .. Len(s) /\ Len(s) \in Nat
  BY DEF Course
<1> QED
  BY <1>1 DEF Near

\* The bound of requests, and a course that is no longer than it allows.
LEMMA CourseIsShort ==
  /\ L!EnoughRequests \in Nat
  /\ \A s : Course(s) => 2 * Len(s) <= L!EnoughRequests
<1>1. Cardinality(Units) \in Nat /\ L!EnoughRequests = 2 * Cardinality(Units)
  BY FS_CardinalityType, UnitsAssumption, CardinalityInL DEF L!EnoughRequests
<1>2. ASSUME NEW s, Course(s) PROVE Len(s) <= Cardinality(Units)
  <2>1. s \in [1 .. Len(s) -> Units] /\ Len(s) \in Nat
    BY <1>2 DEF Course
  <2>2. s \in Injection(1 .. Len(s), Units)
    BY <1>2, <2>1 DEF Course, Injection, IsInjective
  <2>3. Cardinality(1 .. Len(s)) <= Cardinality(Units)
    BY <2>2, FS_Injection, UnitsAssumption
  <2>4. Cardinality(1 .. Len(s)) = Len(s)
    <3>1. 1 \in Int /\ Len(s) \in Int
      BY <2>1
    <3>2. Cardinality(1 .. Len(s)) = IF 1 > Len(s) THEN 0 ELSE Len(s) - 1 + 1
      BY <3>1, FS_Interval
    <3> QED
      BY <2>1, <3>2
  <2> QED
    BY <2>3, <2>4
<1>3. ASSUME NEW s, Course(s) PROVE 2 * Len(s) <= L!EnoughRequests
  <2>1. Len(s) \in Nat
    BY <1>3 DEF Course
  <2> QED
    BY <1>1, <1>2, <1>3, <2>1
<1> QED
  BY <1>1, <1>3

\* What After says of the requests up to the n-th.
Runs(f, p, s, n) ==
  f = [i \in 0 .. n |-> IF i = 0 THEN L!Seeded(p, s) ELSE L!Advanced(f[i - 1], s)]

\* The recursion of After has a solution.
LEMMA RunsExist ==
  ASSUME NEW s, NEW p, NEW N \in Nat
  PROVE  \E f : Runs(f, p, s, N)
<1> DEFINE D == {n \in Nat : ~ \E f : Runs(f, p, s, n)}
<1>1. CASE D = {}
  BY <1>1
<1>2. CASE D # {}
  <2>1. PICK n \in D : \A i \in D : n <= i
    BY <1>2, LeastExists
  <2>2. CASE n = 0
    <3> DEFINE f == [i \in 0 .. 0 |-> L!Seeded(p, s)]
    <3>1. f = [i \in 0 .. 0 |-> IF i = 0 THEN L!Seeded(p, s) ELSE L!Advanced(f[i - 1], s)]
      OBVIOUS
    <3>2. Runs(f, p, s, 0)
      BY <3>1 DEF Runs
    <3> QED
      BY <2>1, <2>2, <3>2
  <2>3. CASE n # 0
    <3>1. n \in Nat /\ n - 1 \in Nat /\ n - 1 \notin D
      BY <2>1, <2>3
    <3>2. PICK g : Runs(g, p, s, n - 1)
      BY <3>1
    <3> DEFINE f == [i \in 0 .. n |-> IF i = n THEN L!Advanced(g[n - 1], s) ELSE g[i]]
               F(h, i) == IF i = 0 THEN L!Seeded(p, s) ELSE L!Advanced(h[i - 1], s)
    <3>3. \A i \in 0 .. n - 1 : g[i] = F(g, i)
      BY <3>1, <3>2 DEF Runs
    <3>4. ASSUME NEW i \in 0 .. n PROVE f[i] = F(f, i)
      <4>1. CASE i = n
        <5>1. f[n] = L!Advanced(g[n - 1], s) /\ f[n - 1] = g[n - 1]
          BY <3>1
        <5> QED
          BY <2>3, <4>1, <5>1
      <4>2. CASE i # n
        <5>1. i \in 0 .. n - 1 /\ f[i] = g[i]
          BY <3>1, <4>2
        <5>2. i # 0 => f[i - 1] = g[i - 1]
          BY <3>1, <5>1
        <5> QED
          BY <3>3, <5>1, <5>2
      <4> QED
        BY <4>1, <4>2
    <3>5. f = [i \in 0 .. n |-> F(f, i)]
      BY <3>4
    <3>6. Runs(f, p, s, n)
      BY <3>5 DEF Runs
    <3> QED
      BY <2>1, <3>6
  <2> QED
    BY <2>2, <2>3
<1> QED
  BY <1>1, <1>2

\* After is such a solution.
LEMMA AfterRuns ==
  ASSUME NEW s, NEW p
  PROVE  Runs(L!After(p, s), p, s, L!EnoughRequests)
<1>1. \E f : Runs(f, p, s, L!EnoughRequests)
  BY RunsExist, CourseIsShort
<1>2. L!After(p, s) = CHOOSE f : Runs(f, p, s, L!EnoughRequests)
  BY DEF L!After, Runs
<1> QED
  BY <1>1, <1>2

\* From any progress of a course, after all requests every unit is done.
LEMMA RequestsEnd ==
  ASSUME NEW s, Course(s), NEW p \in [Units -> Marks]
  PROVE  \A i \in DOMAIN s : L!After(p, s)[L!EnoughRequests][s[i]] = "done"
<1> DEFINE f == L!After(p, s)
           K == L!EnoughRequests
           Good(n) == f[n] \in [Units -> Marks] /\ Near(f[n], s, K - n)
           D == {n \in 0 .. K : ~ Good(n)}
<1>1. K \in Nat /\ 2 * Len(s) <= K
  BY CourseIsShort
<1>2. \A n \in 0 .. K : f[n] = IF n = 0 THEN L!Seeded(p, s) ELSE L!Advanced(f[n - 1], s)
  <2> DEFINE F(n) == IF n = 0 THEN L!Seeded(p, s) ELSE L!Advanced(f[n - 1], s)
  <2>1. f = [n \in 0 .. K |-> F(n)]
    BY AfterRuns DEF Runs
  <2> HIDE DEF f, K, F
  <2>2. \A n \in 0 .. K : f[n] = F(n)
    BY <2>1
  <2> QED
    BY <2>2 DEF F
<1>3. Good(0)
  <2>1. L!Seeded(p, s) \in [Units -> Marks]
    BY DEF L!Seeded, Marks, Course
  <2>2. f[0] = L!Seeded(p, s)
    BY <1>1, <1>2
  <2>3. Near(f[0], s, K)
    BY <1>1, <2>1, <2>2, AnyIsNear
  <2>4. K - 0 = K
    BY <1>1
  <2> QED
    BY <2>1, <2>2, <2>3, <2>4
<1> HIDE DEF f, K
<1>4. D = {}
  <2> SUFFICES ASSUME D # {} PROVE FALSE
    OBVIOUS
  <2>1. PICK n \in D : \A i \in D : n <= i
    <3>1. D \subseteq Nat /\ D # {}
      BY <1>1
    <3> HIDE DEF D
    <3> QED
      BY <3>1, LeastExists
  <2>2. n \in 0 .. K /\ ~ Good(n)
    BY <2>1
  <2>3. n # 0
    BY <1>3, <2>2
  <2>4. n - 1 \in 0 .. K /\ K - n \in Nat /\ K - (n - 1) = (K - n) + 1
    BY <1>1, <2>2, <2>3
  <2>5. Good(n - 1)
    <3>1. n - 1 \notin D
      BY <2>1, <2>2
    <3> QED
      BY <2>4, <3>1
  <2>6. f[n] = L!Advanced(f[n - 1], s)
    BY <1>2, <2>2, <2>3
  <2>7. Near(f[n - 1], s, (K - n) + 1) /\ f[n - 1] \in [Units -> Marks]
    BY <2>4, <2>5
  <2>8. Good(n)
    BY <2>4, <2>6, <2>7, RequestNears
  <2> QED
    BY <2>2, <2>8
<1>5. Near(f[K], s, 0)
  <2>1. Good(K)
    BY <1>1, <1>4
  <2>2. K - K = 0
    BY <1>1
  <2> QED
    BY <2>1, <2>2
<1> QED
  BY <1>5, NoneLeft DEF f, K

\* The first proposal of the model is a course.
LEMMA ShapedIsCourse == Course(L!Shaped)
<1>1. Course(<<CHOOSE u \in Units : TRUE>>)
  BY UnitsAssumption DEF Course
<1>2. Course(L!SetToSeq(Units))
  <2> DEFINE n == Cardinality(Units)
             F == {f \in [1 .. n -> Units] : \A i, j \in 1 .. n : f[i] = f[j] => i = j}
  <2>1. n \in Nat /\ F # {}
    BY FS_CardinalityType, UnitsAssumption DEF ExistsBijection, Bijection, Injection, IsInjective
  <2>2. \E f \in [1 .. n -> Units] : L!IsInjective(f)
    BY <2>1 DEF L!IsInjective
  <2>3. /\ L!SetToSeq(Units) \in [1 .. n -> Units]
        /\ L!IsInjective(L!SetToSeq(Units))
    BY <2>2, CardinalityInL DEF L!SetToSeq
  <2> QED
    BY <2>1, <2>3 DEF Course, L!IsInjective
<1> QED
  BY <1>1, <1>2 DEF L!Shaped

\* Proposals, drafts, edits, inheritance and requests keep it.
LEMMA CourseStep == CourseInv /\ [L!Next]_lvars => CourseInv'
<1> SUFFICES ASSUME CourseInv, [L!Next]_lvars PROVE CourseInv'
  OBVIOUS
<1>0. ASSUME UNCHANGED <<units, marks>> PROVE CourseInv'
  BY <1>0 DEF CourseInv
<1>1. ASSUME NEW v \in L!Versions, NEW s, Course(s), units' = [units EXCEPT ![v] = s], UNCHANGED marks
      PROVE  CourseInv'
  <2>1. s \in Seq(Units)
    BY <1>1 DEF Course
  <2> QED
    BY <1>1, <2>1 DEF CourseInv
<1>2. CASE L!Propose
  BY <1>1, <1>2, ShapedIsCourse DEF L!Propose, L!Versions
<1>3. CASE L!Draft
  BY <1>1, <1>3 DEF L!Draft, L!Versions, CourseInv
<1>4. ASSUME NEW v \in L!Versions, NEW u \in Units, L!AddUnit(v, u) PROVE CourseInv'
  <2>1. Course(units[v]) /\ u \notin L!In(v) /\ L!In(v) = {units[v][i] : i \in DOMAIN units[v]}
    BY <1>4 DEF CourseInv, L!AddUnit, L!In, L!ToSet
  <2>2. Course(Append(units[v], u))
    BY <2>1 DEF Course
  <2> QED
    BY <1>1, <1>4, <2>2 DEF L!AddUnit, L!path
<1>5. ASSUME NEW v \in L!Versions, NEW u \in Units, L!RemoveUnit(v, u) PROVE CourseInv'
  <2>1. PICK i \in DOMAIN units[v] : units' = [units EXCEPT ![v] = L!RemoveAt(@, i)]
    BY <1>5 DEF L!RemoveUnit
  <2>2. L!RemoveAt(units[v], i) = TakenOut(units[v], i)
    BY DEF L!RemoveAt, TakenOut
  <2>3. Course(TakenOut(units[v], i))
    <3> DEFINE s == units[v]
               t == TakenOut(s, i)
    <3>1. s \in Seq(Units) /\ \A j, k \in 1 .. Len(s) : s[j] = s[k] => j = k
      BY DEF CourseInv, Course
    <3>2. /\ t \in Seq(Units) /\ DOMAIN t = 1 .. Len(s) - 1
          /\ \A j \in 1 .. Len(s) - 1 : t[j] = s[IF j < i THEN j ELSE j + 1]
      BY <3>1, TakenOutShifts
    <3>3. i \in 1 .. Len(s) /\ Len(s) \in Nat
      BY <3>1
    <3> HIDE DEF s, t
    <3>4. ASSUME NEW j \in 1 .. Len(s) - 1, NEW k \in 1 .. Len(s) - 1, t[j] = t[k] PROVE j = k
      <4> DEFINE a == IF j < i THEN j ELSE j + 1
                 b == IF k < i THEN k ELSE k + 1
      <4>1. a \in 1 .. Len(s) /\ b \in 1 .. Len(s) /\ t[j] = s[a] /\ t[k] = s[b]
        BY <3>2, <3>3
      <4>2. a = b
        <5> HIDE DEF a, b
        <5> QED
          BY <3>1, <3>4, <4>1
      <4> QED
        BY <3>3, <4>2
    <3> QED
      BY <3>2, <3>4 DEF Course, s, t
  <2> QED
    BY <1>1, <1>5, <2>1, <2>2, <2>3 DEF L!RemoveUnit
<1>6. ASSUME NEW v \in L!Versions, L!ReorderUnits(v) PROVE CourseInv'
  <2>1. PICK s \in [DOMAIN units[v] -> L!In(v)] : L!IsInjective(s) /\ units' = [units EXCEPT ![v] = s]
    BY <1>6 DEF L!ReorderUnits
  <2>2. units[v] \in Seq(Units)
    BY DEF CourseInv
  <2>3. L!In(v) \subseteq Units
    BY <2>2 DEF L!In, L!ToSet
  <2>4. DOMAIN units[v] = 1 .. Len(units[v]) /\ Len(units[v]) \in Nat
    BY <2>2
  <2>5. Course(s)
    <3>1. s \in [1 .. Len(units[v]) -> Units]
      BY <2>3, <2>4
    <3> QED
      BY <2>1, <2>4, <3>1 DEF Course, L!IsInjective
  <2> QED
    BY <1>1, <1>6, <2>1, <2>5 DEF L!ReorderUnits
<1>7. CASE L!Inherit
  <2>1. marks' = [marks EXCEPT ![2] = [u \in Units |->
          IF u \in L!In(2) /\ marks[1][u] # "pending" THEN marks[1][u] ELSE marks[2][u]]]
    BY <1>7 DEF L!Inherit
  <2>2. UNCHANGED units
    BY <1>7 DEF L!Inherit
  <2> QED
    BY <2>1, <2>2 DEF CourseInv, L!Versions
<1>8. ASSUME NEW v \in L!Versions, L!Advance(v) PROVE CourseInv'
  <2>1. marks' = [marks EXCEPT ![v] = L!Advanced(L!Seeded(marks[v], units[v]), units[v])]
    BY <1>8 DEF L!Advance
  <2>2. UNCHANGED units
    BY <1>8 DEF L!Advance
  <2>3. Course(units[v]) /\ marks[v] \in [Units -> Marks]
    BY DEF CourseInv
  <2>4. L!Seeded(marks[v], units[v]) \in [Units -> Marks]
    BY <2>3 DEF L!Seeded, Marks, Course
  <2>5. L!Advanced(L!Seeded(marks[v], units[v]), units[v]) \in [Units -> Marks]
    <3> DEFINE p == L!Seeded(marks[v], units[v])
               s == units[v]
    <3>1. Course(s) /\ p \in [Units -> Marks]
      BY <2>3, <2>4
    <3> HIDE DEF p, s
    <3>2. L!OpenUnits(p, s) = {} => L!Advanced(p, s) \in [Units -> Marks]
      BY <3>1 DEF L!Advanced
    <3>3. L!OpenUnits(p, s) # {} => L!Advanced(p, s) \in [Units -> Marks]
      BY <3>1, OneRequest
    <3> QED
      BY <3>2, <3>3 DEF p, s
  <2> QED
    BY <2>1, <2>2, <2>5 DEF CourseInv
<1>9. CASE L!ShowProjects \/ L!ExpandEnds \/ L!Restart \/ \E i \in {1, 2} : L!AssessStep(i)
  BY <1>0, <1>9 DEF L!ShowProjects, L!ExpandEnds, L!Restart, L!AssessStep, L!StartAssess, L!Classified, L!ReadRecord,
                    L!UpdateMastery, L!path
<1>10. ASSUME NEW v \in L!Versions,
              \/ \E u \in Units : L!EditUnit(v, u) \/ L!Expand(v, u)
              \/ \E card \in BOOLEAN : L!Approve(v, card) \/ L!Activate(v, card)
              \/ \E d \in 0 .. MaxDepth : L!ChangeDepth(v, d)
              \/ L!FreezeDraft(v) \/ L!Thaw(v) \/ L!Reopen(v) \/ L!Reject(v)
       PROVE  CourseInv'
  BY <1>0, <1>10 DEF L!EditUnit, L!Expand, L!Approve, L!Activate, L!ChangeDepth, L!FreezeDraft, L!Thaw, L!Reopen,
                     L!Reject, L!path
<1>11. CASE UNCHANGED lvars
  BY <1>0, <1>11 DEF lvars
<1> QED
  BY <1>2, <1>3, <1>4, <1>5, <1>6, <1>7, <1>8, <1>9, <1>10, <1>11 DEF L!Next, L!VersionStep

(* For any number of units: however a course is proposed, drafted, edited and   *)
(* reordered, and whatever progress it inherited, twice as many requests for    *)
(* the next unit as there are units leave every one of them done               *)
(* (tutor_chat.py, _advance_unit).                                           *)
THEOREM CoursesEnd == MCSpec => []CourseCanEnd
<1>1. MCInit => CourseInv
  BY DEF MCInit, L!Init, L!Pending, CourseInv, Course, Marks
<1>2. [MCNext]_allVars => [L!Next]_lvars
  BY DEF MCNext, allVars, lvars
<1>3. CourseInv => CourseCanEnd
  <2> SUFFICES ASSUME CourseInv, NEW v \in L!Versions, NEW u \in Units, u \in L!In(v)
               PROVE  L!After(marks[v], units[v])[L!EnoughRequests][u] = "done"
    BY DEF CourseCanEnd, L!CourseCanEnd
  <2>1. PICK i \in DOMAIN units[v] : u = units[v][i]
    BY DEF L!In, L!ToSet
  <2>2. Course(units[v]) /\ marks[v] \in [Units -> Marks]
    BY DEF CourseInv
  <2> QED
    BY <2>1, <2>2, RequestsEnd
<1> QED
  BY <1>1, <1>2, <1>3, CourseStep, PTL DEF MCSpec
-----------------------------------------------------------------------------
(* Tasks of several steps.                                                   *)
RowFields == {"status", "cur", "kind", "sub"}
SubStates == {"pending", "running", "completed", "failed"}
\* A row: its position, and as many kinds as states of steps.
Typed(r) ==
  /\ DOMAIN r = RowFields
  /\ r.cur \in Nat \ {0} /\ r.kind \in Seq({"sync", "research", "ingest"})
  /\ r.sub \in Seq(SubStates) /\ Len(r.sub) = Len(r.kind)
Attempting == exec.pc \in {"call", "wait", "failed"}
\* The executor holds the kinds of its row, and its step is the one marked running.
ExecInv ==
  /\ Typed(row) /\ Typed(exec.copy) /\ DOMAIN exec = {"pc", "copy", "tries"}
  /\ exec.pc # "off" => row.status # "none" /\ exec.copy.kind = row.kind
  /\ Attempting => T!Step \in DOMAIN row.sub /\ row.sub[T!Step] = "running"
\* The inductive form of ResearchIsIn: while the research of the task runs, the file
\* says so in its name, and the step that launched it is not completed.
FileInv ==
  /\ DOMAIN disk = T!Kinds
  /\ own = "running" =>
       /\ row.status # "none" /\ mine \in DOMAIN row.sub
       /\ row.kind[mine] = "research" /\ row.sub[mine] # "completed"
       /\ disk["research"] = [st |-> "running", who |-> "task"]

\* Marking a step keeps the kinds, and changes the state of that step alone.
LEMMA MarkedTypes ==
  ASSUME NEW r, Typed(r), NEW i \in DOMAIN r.sub, NEW st \in SubStates
  PROVE  /\ Typed(T!Marked(r, i, st)) /\ T!Marked(r, i, st).kind = r.kind
         /\ r.status # "none" => T!Marked(r, i, st).status # "none"
         /\ T!Marked(r, i, st).sub = [r.sub EXCEPT ![i] = st]
  BY DEF Typed, T!Marked, RowFields, SubStates

\* The executor, its retries, crashes and resumptions keep ExecInv.
LEMMA ExecStep == ExecInv /\ [T!Next]_tvars => ExecInv'
<1> SUFFICES ASSUME ExecInv, [T!Next]_tvars PROVE ExecInv'
  OBVIOUS
<1>0. Typed(T!NoRow) /\ DOMAIN T!Off = {"pc", "copy", "tries"} /\ T!Off.pc = "off" /\ T!Off.copy = T!NoRow
  BY DEF Typed, T!NoRow, RowFields, T!Off
<1>00. \A r : Typed(r) => r.cur \in Nat /\ r.sub \in Seq(SubStates) /\ DOMAIN r.sub = 1 .. Len(r.sub)
  BY DEF Typed
<1>a. ASSUME UNCHANGED <<row, exec>> PROVE ExecInv'
  BY <1>a DEF ExecInv, Attempting, T!Step
<1>b. ASSUME UNCHANGED row, exec' = T!Off PROVE ExecInv'
  BY <1>b, <1>0 DEF ExecInv, Attempting, T!Step
<1>c. ASSUME Attempting, UNCHANGED row, exec' = T!Retry PROVE ExecInv'
  BY <1>c DEF ExecInv, Attempting, T!Step, T!Retry
<1>d. ASSUME Attempting, NEW st \in SubStates, row' = T!Marked(row, T!Step, st),
             exec' = [exec EXCEPT !.pc = "loop", !.copy = row']
      PROVE  ExecInv'
  <2>0. Typed(row) /\ T!Step \in DOMAIN row.sub
    BY <1>d DEF ExecInv
  <2>1. /\ Typed(row') /\ row'.kind = row.kind
        /\ row.status # "none" => row'.status # "none"
    BY <1>d, <2>0, MarkedTypes
  <2>2. exec'.pc = "loop" /\ exec'.copy = row' /\ DOMAIN exec' = {"pc", "copy", "tries"}
    BY <1>d DEF ExecInv
  <2> QED
    BY <1>d, <2>1, <2>2 DEF ExecInv, Attempting
<1>1. CASE T!Plan
  BY <1>1, PlansAssumption DEF T!Plan, T!Written, ExecInv, Typed, RowFields, SubStates, Attempting
<1>2. CASE T!Execute \/ T!Resume
  <2>1. /\ exec.pc = "off" /\ row' = [row EXCEPT !.status = "running"]
        /\ exec' = [T!Off EXCEPT !.pc = "loop", !.copy = row']
    BY <1>2 DEF T!Execute, T!Resume, T!Begin
  <2>2. Typed(row') /\ row'.status = "running"
    BY <2>1 DEF ExecInv, Typed, RowFields
  <2>3. exec'.pc = "loop" /\ exec'.copy = row' /\ DOMAIN exec' = {"pc", "copy", "tries"}
    BY <2>1, <1>0
  <2> QED
    BY <2>2, <2>3 DEF ExecInv, Attempting
<1>3. CASE T!NextStep
  <2>1. CASE exec' = [exec EXCEPT !.copy = row] /\ UNCHANGED row
    BY <1>3, <2>1 DEF T!NextStep, ExecInv, Attempting
  <2>2. CASE row' = T!Marked(row, T!Step, "running") /\ exec' = [exec EXCEPT !.pc = "call", !.tries = 0]
    <3>1. Typed(exec.copy) /\ Typed(row) /\ exec.copy.kind = row.kind /\ exec.pc = "loop" /\ T!Step <= Len(exec.copy.sub)
      BY <1>3 DEF T!NextStep, ExecInv
    <3>2. Len(exec.copy.sub) = Len(row.sub) /\ T!Step \in DOMAIN row.sub
      BY <3>1, <1>00 DEF Typed, T!Step
    <3>3. /\ exec'.pc = "call" /\ exec'.copy = exec.copy /\ DOMAIN exec' = {"pc", "copy", "tries"}
          /\ T!Step' = T!Step
      BY <2>2 DEF ExecInv, T!Step
    <3>4. /\ Typed(row') /\ row'.kind = row.kind
          /\ row.status # "none" => row'.status # "none"
          /\ row'.sub = [row.sub EXCEPT ![T!Step] = "running"]
      BY <2>2, <3>1, <3>2, MarkedTypes DEF SubStates
    <3>5. row.sub \in Seq(SubStates)
      BY <3>1, <1>00
    <3>6. row'.sub[T!Step] = "running" /\ DOMAIN row'.sub = DOMAIN row.sub
      BY <3>2, <3>4, <3>5
    <3> QED
      BY <3>1, <3>2, <3>3, <3>4, <3>6 DEF ExecInv, Attempting
  <2> QED
    BY <1>3, <2>1, <2>2 DEF T!NextStep
<1>4. CASE T!LastStep \/ T!Crash
  BY <1>4, <1>b DEF T!LastStep, T!Crash
<1>5. CASE T!CallFails \/ T!TimeUp
  BY <1>5, <1>c DEF T!CallFails, T!TimeUp, Attempting
<1>6. CASE T!CallSync \/ T!MarkFailed
  BY <1>6, <1>d DEF T!CallSync, T!MarkFailed, T!Complete, Attempting, SubStates
<1>7. CASE T!CallResearch \/ T!CallIngest
  BY <1>7 DEF T!CallResearch, T!CallIngest, T!Wait, ExecInv, Attempting, T!Step
<1>8. CASE T!Poll
  BY <1>8, <1>c, <1>d DEF T!Poll, T!Complete, Attempting, SubStates
<1>9. CASE T!IngestBegins \/ T!IngestEnds \/ T!ResearchEnds \/ T!OtherEnds \/ T!OtherLaunches \/ T!Forgotten \/ UNCHANGED tvars
  BY <1>9, <1>a DEF T!IngestBegins, T!IngestEnds, T!ResearchEnds, T!OtherEnds, T!OtherLaunches, T!Forgotten, tvars
<1> QED
  BY <1>1, <1>2, <1>3, <1>4, <1>5, <1>6, <1>7, <1>8, <1>9 DEF T!Next, T!Executor, T!Call

\* So do they, other sessions' research and the ends of both, for FileInv.
LEMMA FileStep == ExecInv /\ FileInv /\ [T!Next]_tvars => FileInv'
<1> SUFFICES ASSUME ExecInv, FileInv, [T!Next]_tvars PROVE FileInv'
  OBVIOUS
<1>0. Typed(row) /\ row.sub \in Seq(SubStates) /\ DOMAIN row = RowFields
  BY DEF ExecInv, Typed
<1>a. ASSUME UNCHANGED <<disk, own, mine>>, row'.kind = row.kind, row.status # "none" => row'.status # "none",
             DOMAIN row'.sub = DOMAIN row.sub,
             own = "running" => row'.sub[mine] = row.sub[mine] \/ row'.sub[mine] # "completed"
      PROVE  FileInv'
  BY <1>a DEF FileInv
<1>b. ASSUME NEW i \in DOMAIN row.sub, NEW st \in SubStates, row' = T!Marked(row, i, st),
             own = "running" => i # mine \/ st # "completed", UNCHANGED <<disk, own, mine>>
      PROVE  FileInv'
  <2>1. /\ row'.kind = row.kind
        /\ row.status # "none" => row'.status # "none"
        /\ row'.sub = [row.sub EXCEPT ![i] = st]
    BY <1>0, <1>b, MarkedTypes
  <2>2. /\ DOMAIN row'.sub = DOMAIN row.sub /\ row'.sub[i] = st
        /\ \A j \in DOMAIN row.sub \ {i} : row'.sub[j] = row.sub[j]
    BY <2>1, <1>0
  <2> QED
    BY <1>a, <1>b, <2>1, <2>2 DEF FileInv
<1>1. CASE T!Plan
  BY <1>1 DEF T!Plan, T!work, FileInv
<1>2. CASE T!Execute \/ T!Resume
  <2>1. UNCHANGED <<disk, own, mine>> /\ row' = [row EXCEPT !.status = "running"]
    BY <1>2 DEF T!Execute, T!Resume, T!Begin, T!work
  <2>2. row'.kind = row.kind /\ row'.sub = row.sub /\ row'.status = "running"
    BY <2>1, <1>0 DEF RowFields
  <2> QED
    BY <2>1, <2>2, <1>a
<1>3. CASE T!NextStep
  <2>1. CASE UNCHANGED row
    BY <1>3, <2>1, <1>a DEF T!NextStep, T!work
  <2>2. CASE row' = T!Marked(row, T!Step, "running") /\ exec' = [exec EXCEPT !.pc = "call", !.tries = 0]
    <3>1. Typed(exec.copy) /\ exec.copy.kind = row.kind /\ T!Step <= Len(exec.copy.sub)
      BY <1>3 DEF T!NextStep, ExecInv
    <3>2. T!Step \in DOMAIN row.sub
      BY <3>1, <1>0 DEF Typed, T!Step
    <3> QED
      BY <1>3, <2>2, <3>2, <1>b DEF T!NextStep, T!work, SubStates
  <2> QED
    BY <1>3, <2>1, <2>2 DEF T!NextStep
<1>4. CASE UNCHANGED <<disk, own, mine, row>>
  BY <1>4, <1>a
<1>5. CASE T!CallSync
  BY <1>5, <1>b DEF T!CallSync, T!Complete, T!KindOf, ExecInv, FileInv, Attempting, T!work, SubStates
<1>6. CASE T!MarkFailed
  BY <1>6, <1>b DEF T!MarkFailed, ExecInv, Attempting, T!work, SubStates
<1>7. CASE T!CallResearch
  BY <1>7, <1>4 DEF T!CallResearch, T!Launch, T!KindOf, ExecInv, FileInv, Attempting, T!Kinds
<1>8. CASE T!Poll
  <2>1. CASE UNCHANGED row
    BY <1>8, <2>1, <1>4 DEF T!Poll, T!work
  <2>2. CASE disk[T!KindOf].st = "done" /\ T!Complete
    <3>1. own = "running" => T!Step # mine
      BY <2>2, <1>8 DEF T!Poll, T!KindOf, ExecInv, FileInv
    <3> QED
      BY <1>8, <2>2, <3>1, <1>b DEF T!Poll, T!Complete, ExecInv, Attempting, T!work, SubStates
  <2> QED
    BY <1>8, <2>1, <2>2 DEF T!Poll
<1>9. CASE T!LastStep \/ T!Crash \/ T!CallFails \/ T!TimeUp \/ T!CallIngest \/ T!Forgotten \/ UNCHANGED tvars
  BY <1>9, <1>4 DEF T!LastStep, T!Crash, T!CallFails, T!TimeUp, T!CallIngest, T!Forgotten, tvars, T!work
<1>10. CASE T!IngestBegins \/ T!IngestEnds
  BY <1>10 DEF T!IngestBegins, T!IngestEnds, FileInv, T!Kinds
<1>11. CASE T!ResearchEnds
  BY <1>11 DEF T!ResearchEnds, FileInv
<1>12. CASE T!OtherEnds
  BY <1>12 DEF T!OtherEnds, FileInv
<1>13. CASE T!OtherLaunches
  BY <1>13 DEF T!OtherLaunches, FileInv
<1> QED
  BY <1>1, <1>2, <1>3, <1>5, <1>6, <1>7, <1>8, <1>9, <1>10, <1>11, <1>12, <1>13 DEF T!Next, T!Executor, T!Call

(* For any plans of known kinds, retries, calls, crashes and research of other  *)
(* sessions: the step after a research starts only when the research this task  *)
(* launched has ended, or another session declared it dead                     *)
(* (system_tools._wait_for_progress on the shared progress file).              *)
THEOREM ResearchEndsFirst == MCSpec => []ResearchIsIn
<1>1. MCInit => ExecInv /\ FileInv
  <2>1. Typed(T!NoRow)
    BY DEF T!NoRow, Typed, RowFields, SubStates
  <2>2. T!Off.pc = "off" /\ T!Off.copy = T!NoRow /\ DOMAIN T!Off = {"pc", "copy", "tries"}
    BY DEF T!Off
  <2> QED
    BY <2>1, <2>2 DEF MCInit, T!Init, ExecInv, FileInv, Attempting
<1>2. [MCNext]_allVars => [T!Next]_tvars
  BY DEF MCNext, allVars, tvars
<1>3. FileInv => ResearchIsIn
  BY DEF FileInv, ResearchIsIn, T!ResearchIsIn
<1> QED
  BY <1>1, <1>2, <1>3, ExecStep, FileStep, PTL DEF MCSpec

-----------------------------------------------------------------------------
(* The backfill of topic clusters.                                          *)

\* The cardinality that module Backfill uses is the one of FiniteSets.
LEMMA CardinalityInB == ASSUME NEW X PROVE B!Cardinality(X) = Cardinality(X)
  BY DEF B!Cardinality, Cardinality
RoundFields == {"pc", "old", "left", "assigned", "alone"}
\* Sets of documents large enough and alike.
Sound(fam, ds) == Cardinality(ds) >= MinSize /\ \A d, e \in ds : fam[d] = fam[e]
\* The inductive form of ClustersAreSound: a cluster as the pass read it is part of what
\* it is now, and what the pass has still to place is in no cluster.
PassInv ==
  /\ there \subseteq B!Docs /\ members \in [Clusters -> SUBSET B!Docs]
  /\ DOMAIN round = RoundFields /\ round.old \in [Clusters -> SUBSET B!Docs]
  /\ round.left \subseteq B!Docs /\ round.alone \subseteq B!Docs
  /\ \A c \in Clusters : /\ members[c] # {} => Sound(family, members[c])
                         /\ \A o \in Clusters \ {c} : members[o] \cap members[c] = {}
  /\ round.pc \in {"assign", "form"} => \A c \in Clusters : round.alone \cap members[c] = {}
  /\ round.pc = "assign" =>
       /\ round.left \cap round.alone = {}
       /\ \A c \in Clusters : /\ round.left \cap members[c] = {}
                              /\ round.old[c] \subseteq members[c]
                              /\ round.old[c] # {} => Sound(family, round.old[c])

\* A document like one of a set of documents joins it.
LEMMA LargerIsSound ==
  ASSUME NEW ds \in SUBSET B!Docs, Sound(family, ds), NEW d \in B!Docs, \E e \in ds : family[e] = family[d]
  PROVE  Sound(family, ds \cup {d})
<1>1. IsFiniteSet(B!Docs)
  BY PointsAssumption, FS_Interval DEF B!Docs
<1>2. IsFiniteSet(ds \cup {d})
  BY <1>1, FS_Subset
<1>3. Cardinality(ds) <= Cardinality(ds \cup {d})
  BY <1>2, FS_Subset
<1>4. Cardinality(ds) \in Nat /\ Cardinality(ds \cup {d}) \in Nat
  BY <1>1, <1>2, FS_Subset, FS_CardinalityType
<1>5. Cardinality(ds \cup {d}) >= MinSize
  BY <1>3, <1>4, PointsAssumption DEF Sound
<1> QED
  BY <1>5 DEF Sound
\* Passes on what they read at their start, new documents and crashes keep PassInv.
LEMMA PassStep == PassInv /\ [B!Next]_bvars => PassInv'
<1> SUFFICES ASSUME PassInv, [B!Next]_bvars PROVE PassInv'
  OBVIOUS
<1>1. CASE B!Begin
  <2>1. B!FirstOf(there \ B!Topicized) \subseteq there \ B!Topicized
    BY DEF B!FirstOf
  <2>2. UNCHANGED <<family, there, members>>
    BY <1>1 DEF B!Begin
  <2>3. /\ DOMAIN round' = RoundFields /\ round'.pc = "assign" /\ round'.old = members
        /\ round'.left = B!FirstOf(there \ B!Topicized) /\ round'.alone = {}
    BY <1>1 DEF B!Begin, B!NoRound, RoundFields
  <2>4. /\ round'.left \subseteq B!Docs /\ \A c \in Clusters : round'.left \cap members[c] = {}
    BY <2>1, <2>3 DEF PassInv, B!Topicized
  <2> QED
    BY <2>2, <2>3, <2>4 DEF PassInv
<1>2. CASE B!Assigned
  BY <1>2 DEF B!Assigned, PassInv, RoundFields
<1>3. CASE B!End \/ B!Crash
  BY <1>3 DEF B!End, B!Crash, B!NoRound, PassInv, RoundFields
<1>4. ASSUME NEW d \in B!Docs, B!Ingest(d) \/ B!Vectorise(d) PROVE PassInv'
  BY <1>4 DEF B!Ingest, B!Vectorise, PassInv, RoundFields
<1>5. ASSUME NEW d \in B!Docs, B!PassOver(d) \/ B!NoMatch(d) PROVE PassInv'
  <2>1. /\ DOMAIN round' = RoundFields /\ round'.pc = "assign" /\ round.pc = "assign" /\ round'.old = round.old
        /\ round'.left = round.left \ {d} /\ UNCHANGED <<family, there, members>>
        /\ d \in round.left
    BY <1>5 DEF B!PassOver, B!NoMatch, B!First, PassInv, RoundFields
  <2>2. round'.alone = round.alone \/ round'.alone = round.alone \cup {d}
    BY <1>5 DEF B!PassOver, B!NoMatch, PassInv, RoundFields
  <2> QED
    BY <2>1, <2>2 DEF PassInv
<1>6. ASSUME NEW d \in B!Docs, NEW c \in Clusters, B!Assign(d, c) PROVE PassInv'
  <2>1. /\ d \in round.left /\ round.pc = "assign"
        /\ \E e \in round.old[c] : family[e] = family[d]
        /\ members' = [members EXCEPT ![c] = round.old[c] \cup {d}]
        /\ round' = [round EXCEPT !.left = @ \ {d}, !.assigned = @ \cup {<<d, c>>}]
        /\ UNCHANGED <<family, there>>
    BY <1>6 DEF B!Assign, B!First, B!Fits, B!Enlarged
  <2>2. /\ DOMAIN round' = RoundFields /\ round'.pc = "assign" /\ round'.old = round.old
        /\ round'.left = round.left \ {d} /\ round'.alone = round.alone
    BY <2>1 DEF PassInv, RoundFields
  <2>3. Sound(family, round.old[c] \cup {d})
    BY <2>1, LargerIsSound DEF PassInv
  <2>4. /\ members'[c] = round.old[c] \cup {d} /\ members' \in [Clusters -> SUBSET B!Docs]
        /\ \A o \in Clusters \ {c} : members'[o] = members[o]
    BY <2>1 DEF PassInv
  <2> QED
    BY <2>1, <2>2, <2>3, <2>4 DEF PassInv
<1>7. ASSUME NEW f \in Families, NEW c \in Clusters, B!Form(f, c) PROVE PassInv'
  <2>1. /\ DOMAIN round' = RoundFields /\ round'.pc = "form" /\ round.pc = "form" /\ round'.old = round.old
        /\ round'.left = round.left /\ round'.alone = round.alone \ B!Alike(f) /\ UNCHANGED <<family, there>>
        /\ members[c] = {} /\ members' = [members EXCEPT ![c] = B!Alike(f)]
    BY <1>7 DEF B!Form, PassInv, RoundFields
  <2>2. B!Alike(f) \subseteq round.alone /\ Sound(family, B!Alike(f))
    BY <1>7, CardinalityInB DEF B!Form, B!Alike, Sound
  <2>3. /\ members'[c] = B!Alike(f) /\ members' \in [Clusters -> SUBSET B!Docs]
        /\ \A o \in Clusters \ {c} : members'[o] = members[o]
    BY <2>1, <2>2 DEF PassInv
  <2> QED
    BY <2>1, <2>2, <2>3 DEF PassInv
<1>8. CASE UNCHANGED bvars
  BY <1>8 DEF bvars, PassInv
<1> QED
  BY <1>1, <1>2, <1>3, <1>4, <1>5, <1>6, <1>7, <1>8 DEF B!Next

(* For any number of documents, families, clusters, pass size, smallest cluster *)
(* and crashes: clusters are disjoint, of documents that are alike, and never   *)
(* smaller than they may be (topic_clusters.backfill_topics).                  *)
THEOREM ClustersStaySound == MCSpec => []ClustersAreSound
<1>1. MCInit => PassInv
  BY DEF MCInit, B!Init, B!NoRound, PassInv, RoundFields
<1>2. [MCNext]_allVars => [B!Next]_bvars
  BY DEF MCNext, allVars, bvars
<1>3. PassInv => ClustersAreSound
  BY CardinalityInB DEF PassInv, ClustersAreSound, B!ClustersAreSound, Sound
<1> QED
  BY <1>1, <1>2, <1>3, PassStep, PTL DEF MCSpec

-----------------------------------------------------------------------------
(* Recall.                                                                  *)
VersionMap == [Items -> Nat]
RecallFields == {"pc", "at", "read", "began", "alone", "whole", "todo"}
\* What a recall that began with b has seen copied once the stores before a are done.
Copied(b, a) == \A i \in Items, k \in 1 .. 4 :
                  k < a /\ StoreOf[i] = M!Stores[k] /\ StoreOf[i] # "strategic" => item[i] >= b[i]
\* In the middle of a recall that runs alone and has read every store; the stores it
\* is past are those before the one it is at.
Mid(x) == x.pc # "off" /\ x.alone /\ x.whole
Past(x) == IF x.pc \in {"list", "write"} THEN x.at ELSE 5
SyncTypes ==
  /\ source \in VersionMap /\ item \in VersionMap
  /\ \A r \in Recallers :
       /\ DOMAIN recaller[r] = RecallFields /\ recaller[r].at \in 1 .. 4
       /\ recaller[r].read \in VersionMap /\ recaller[r].began \in VersionMap
       /\ \A i \in Items : recaller[r].began[i] <= source[i]
\* The inductive form of RecallIsCurrent: a recall that runs alone has copied what the
\* stores it is past held when it began, and has read that much of the one it is at.
SyncInv ==
  /\ SyncTypes /\ DOMAIN recaller = Recallers
  /\ \A r \in Recallers : Mid(recaller[r]) =>
       /\ \A q \in Recallers \ {r} : recaller[q].pc = "off"
       /\ Copied(recaller[r].began, Past(recaller[r]))
       /\ recaller[r].pc = "write" => \A i \in Items :
            /\ recaller[r].read[i] > 0 => recaller[r].read[i] >= recaller[r].began[i]
            /\ StoreOf[i] = M!Stores[recaller[r].at] /\ StoreOf[i] # "strategic" /\ recaller[r].began[i] > 0
                 => recaller[r].read[i] > 0

\* Past all the stores, every item is copied but the principles.
LEMMA CopiedAll ==
  ASSUME NEW b, Copied(b, 5), NEW i \in Items, StoreOf[i] # "strategic" PROVE item[i] >= b[i]
  BY StoresAssumption DEF Copied, M!Stores
\* Recalls side by side, faults of stores and new texts keep SyncInv.
LEMMA SyncStep == SyncInv /\ [M!Next]_mvars => SyncInv'
<1> SUFFICES ASSUME SyncInv, [M!Next]_mvars PROVE SyncInv'
  OBVIOUS
<1>0. M!Off \in [pc : {"off"}, at : {1}, read : {M!None}, began : {M!None}, alone : BOOLEAN, whole : BOOLEAN, todo : {M!None}]
  BY DEF M!Off
<1>00. /\ DOMAIN M!Off = RecallFields /\ M!Off.pc = "off" /\ M!Off.at = 1 /\ M!Off.read = M!None /\ M!Off.began = M!None
       /\ M!None \in VersionMap /\ \A i \in Items : M!None[i] = 0
  BY <1>0 DEF M!Off, RecallFields, M!None, VersionMap
<1> HIDE DEF M!Off, M!None
<1>1. ASSUME NEW i \in Items, M!Learn(i) PROVE SyncInv'
  BY <1>1 DEF M!Learn, SyncInv, SyncTypes, VersionMap, Mid, Past, Copied
<1>2. ASSUME NEW r \in Recallers, M!Begin(r) PROVE SyncInv'
  <2> DEFINE new == [M!Off EXCEPT !.pc = "list", !.began = source, !.alone = ~ M!Busy(r)]
  <2>1. /\ DOMAIN new = RecallFields /\ new.pc = "list" /\ new.at = 1 /\ new.read = M!None /\ new.began = source
        /\ new.alone = ~ M!Busy(r)
    BY <1>00 DEF RecallFields
  <2>2. \A q \in Recallers \ {r} : recaller[q].pc # "off" =>
          /\ DOMAIN [recaller[q] EXCEPT !.alone = FALSE] = RecallFields
          /\ [recaller[q] EXCEPT !.alone = FALSE].alone = FALSE
          /\ [recaller[q] EXCEPT !.alone = FALSE].pc = recaller[q].pc
          /\ [recaller[q] EXCEPT !.alone = FALSE].at = recaller[q].at
          /\ [recaller[q] EXCEPT !.alone = FALSE].read = recaller[q].read
          /\ [recaller[q] EXCEPT !.alone = FALSE].began = recaller[q].began
    BY DEF SyncInv, SyncTypes, RecallFields
  <2> HIDE DEF new
  <2>3. DOMAIN recaller' = Recallers /\ recaller'[r] = new
    BY <1>2 DEF M!Begin, new
  <2>4. \A q \in Recallers \ {r} : recaller'[q] = IF recaller[q].pc = "off" THEN M!Off
                                                   ELSE [recaller[q] EXCEPT !.alone = FALSE]
    BY <1>2 DEF M!Begin
  <2>5. UNCHANGED <<source, item>>
    BY <1>2 DEF M!Begin
  <2>6. SyncTypes'
    <3>1. \A q \in Recallers \ {r} :
            /\ DOMAIN recaller'[q] = RecallFields /\ recaller'[q].at \in 1 .. 4
            /\ recaller'[q].read \in VersionMap
            /\ recaller'[q].began = recaller[q].began \/ recaller'[q].began = M!None
      <4> SUFFICES ASSUME NEW q \in Recallers \ {r}
                   PROVE  /\ DOMAIN recaller'[q] = RecallFields /\ recaller'[q].at \in 1 .. 4
                          /\ recaller'[q].read \in VersionMap
                          /\ recaller'[q].began = recaller[q].began \/ recaller'[q].began = M!None
        OBVIOUS
      <4>1. CASE recaller[q].pc = "off"
        <5>1. recaller'[q] = M!Off
          BY <2>4, <4>1
        <5> QED
          BY <1>00, <5>1
      <4>2. CASE recaller[q].pc # "off"
        <5>1. recaller'[q] = [recaller[q] EXCEPT !.alone = FALSE]
          BY <2>4, <4>2
        <5>2. /\ DOMAIN recaller'[q] = RecallFields /\ recaller'[q].at = recaller[q].at
              /\ recaller'[q].read = recaller[q].read /\ recaller'[q].began = recaller[q].began
          BY <2>2, <4>2, <5>1
        <5> QED
          BY <5>2 DEF SyncInv, SyncTypes
      <4> QED
        BY <4>1, <4>2
    <3>2. \A i \in Items : source[i] \in Nat /\ source[i] >= source[i] /\ source[i] >= M!None[i]
      BY <1>00 DEF SyncInv, SyncTypes, VersionMap
    <3> QED
      BY <1>00, <2>1, <2>3, <2>5, <3>1, <3>2 DEF SyncInv, SyncTypes
  <2>7. \A q \in Recallers \ {r} : ~ Mid(recaller[q])' /\ recaller'[q].pc = recaller[q].pc
    BY <1>00, <2>2, <2>4 DEF Mid
  <2>8. Copied(source, 1)'
    BY <2>5 DEF Copied
  <2> QED
    BY <2>1, <2>3, <2>6, <2>7, <2>8, <2>5 DEF SyncInv, Mid, Past, M!Busy, Copied
<1>3. ASSUME NEW r \in Recallers, M!List(r) PROVE SyncInv'
  <2> DEFINE got == [i \in Items |-> IF i \in M!Listed(M!Stores[recaller[r].at]) THEN source[i] ELSE 0]
  <2>1. recaller' = [recaller EXCEPT ![r].pc = "write", ![r].read = got] /\ UNCHANGED <<source, item>>
        /\ recaller[r].pc = "list"
    BY <1>3 DEF M!List
  <2>2. got \in VersionMap
    BY DEF VersionMap, SyncInv, SyncTypes
  <2>3. \A i \in Items : /\ got[i] > 0 => got[i] = source[i]
                         /\ StoreOf[i] = M!Stores[recaller[r].at] /\ StoreOf[i] # "strategic" /\ source[i] > 0
                              => got[i] > 0
    BY DEF M!Listed
  <2> HIDE DEF got
  <2>4. /\ DOMAIN recaller' = Recallers /\ \A q \in Recallers \ {r} : recaller'[q] = recaller[q]
        /\ DOMAIN recaller'[r] = RecallFields /\ recaller'[r].pc = "write" /\ recaller'[r].read = got
        /\ recaller'[r].at = recaller[r].at /\ recaller'[r].began = recaller[r].began
        /\ recaller'[r].alone = recaller[r].alone /\ recaller'[r].whole = recaller[r].whole
    BY <2>1 DEF SyncInv, SyncTypes, RecallFields
  <2>5. SyncTypes'
    BY <2>1, <2>2, <2>4 DEF SyncInv, SyncTypes
  <2>6. \A i \in Items : source[i] \in Nat /\ recaller[r].began[i] \in Nat /\ recaller[r].began[i] <= source[i]
    BY DEF SyncInv, SyncTypes, VersionMap
  <2>7. Copied(recaller[r].began, recaller[r].at) => Copied(recaller[r].began, recaller[r].at)'
    BY <2>1, <2>4 DEF Copied
  <2>8. ASSUME NEW q \in Recallers \ {r}, Mid(recaller[q])' PROVE FALSE
    BY <2>1, <2>4, <2>8 DEF SyncInv, Mid
  <2>9. ASSUME Mid(recaller[r])'
        PROVE  /\ \A q \in Recallers \ {r} : recaller'[q].pc = "off"
               /\ Copied(recaller[r].began, recaller[r].at)'
    BY <2>1, <2>4, <2>7, <2>9 DEF SyncInv, Mid, Past
  <2>10. ASSUME Mid(recaller[r])', NEW i \in Items
        PROVE  /\ recaller'[r].read[i] > 0 => recaller'[r].read[i] >= recaller'[r].began[i]
               /\ StoreOf[i] = M!Stores[recaller'[r].at] /\ StoreOf[i] # "strategic" /\ recaller'[r].began[i] > 0
                    => recaller'[r].read[i] > 0
    BY <2>3, <2>4, <2>6
  <2> QED
    BY <2>4, <2>5, <2>8, <2>9, <2>10 DEF SyncInv, Past
<1>4. ASSUME NEW r \in Recallers, M!ListFails(r) PROVE SyncInv'
  <2>1. /\ DOMAIN recaller' = Recallers /\ \A q \in Recallers \ {r} : recaller'[q] = recaller[q]
        /\ DOMAIN recaller'[r] = RecallFields /\ recaller'[r].pc # "off" /\ recaller[r].pc # "off"
        /\ recaller'[r].read = recaller[r].read
        /\ recaller'[r].at \in 1 .. 4 /\ recaller'[r].began = recaller[r].began
        /\ recaller'[r].whole = FALSE /\ UNCHANGED <<source, item>>
    BY <1>4 DEF M!ListFails, M!Following, M!Stores, SyncInv, SyncTypes, RecallFields
  <2> QED
    BY <2>1 DEF SyncInv, SyncTypes, Mid, Past, Copied
<1>5. ASSUME NEW r \in Recallers, M!Write(r) PROVE SyncInv'
  <2>1. /\ recaller[r].pc = "write"
        /\ recaller' = [recaller EXCEPT ![r].pc = M!Following(r), ![r].at = (@ % Len(M!Stores)) + 1, ![r].read = M!None]
        /\ item' = [i \in Items |-> IF recaller[r].read[i] > 0 THEN recaller[r].read[i] ELSE item[i]]
        /\ UNCHANGED source
    BY <1>5 DEF M!Write
  <2>2. /\ DOMAIN recaller' = Recallers /\ \A q \in Recallers \ {r} : recaller'[q] = recaller[q]
        /\ DOMAIN recaller'[r] = RecallFields /\ recaller'[r].pc = M!Following(r) /\ recaller'[r].read = M!None
        /\ recaller'[r].at = (recaller[r].at % Len(M!Stores)) + 1 /\ recaller'[r].began = recaller[r].began
        /\ recaller'[r].alone = recaller[r].alone /\ recaller'[r].whole = recaller[r].whole
    BY <2>1 DEF SyncInv, SyncTypes, RecallFields
  <2>3. /\ recaller[r].at \in 1 .. 4 /\ Len(M!Stores) = 4
    BY DEF SyncInv, SyncTypes, M!Stores
  <2>4. /\ recaller'[r].at \in 1 .. 4 /\ Past(recaller[r])' = recaller[r].at + 1 /\ recaller'[r].pc \in {"search", "list"}
    BY <2>2, <2>3 DEF M!Following, Past
  <2>5. item' \in VersionMap
    BY <2>1 DEF SyncInv, SyncTypes, VersionMap
  <2>6. SyncTypes'
    BY <2>1, <2>2, <2>4, <2>5, <1>00 DEF SyncInv, SyncTypes
  <2>7. ASSUME NEW q \in Recallers \ {r}, Mid(recaller[q])' PROVE FALSE
    BY <2>1, <2>2, <2>7 DEF SyncInv, Mid
  <2>8. ASSUME Mid(recaller[r])'
        PROVE  /\ Mid(recaller[r]) /\ \A q \in Recallers \ {r} : recaller'[q].pc = "off"
               /\ Copied(recaller[r].began, recaller[r].at)
    BY <2>1, <2>2, <2>8 DEF SyncInv, Mid, Past
  <2>9. ASSUME Mid(recaller[r])', NEW i \in Items, NEW k \in 1 .. 4, k < recaller[r].at + 1,
               StoreOf[i] = M!Stores[k], StoreOf[i] # "strategic"
        PROVE  item'[i] >= recaller'[r].began[i]
    <3>1. /\ recaller[r].read[i] > 0 => recaller[r].read[i] >= recaller[r].began[i]
          /\ StoreOf[i] = M!Stores[recaller[r].at] /\ recaller[r].began[i] > 0 => recaller[r].read[i] > 0
      BY <2>1, <2>8, <2>9 DEF SyncInv
    <3>2. recaller[r].began[i] \in Nat /\ item[i] \in Nat /\ recaller[r].read[i] \in Nat
      BY DEF SyncInv, SyncTypes, VersionMap
    <3>3. k < recaller[r].at => item[i] >= recaller[r].began[i]
      BY <2>8, <2>9 DEF Copied
    <3> QED
      BY <2>1, <2>2, <2>3, <2>9, <3>1, <3>2, <3>3
  <2> QED
    BY <2>2, <2>4, <2>6, <2>7, <2>8, <2>9 DEF SyncInv, Copied
<1>6. ASSUME NEW r \in Recallers, M!SearchText(r) \/ M!Embed(r) \/ M!EmbedFails(r) \/ \E ss \in M!Scopes : M!Pick(r, ss)
      PROVE SyncInv'
  <2>1. /\ DOMAIN recaller' = Recallers /\ \A q \in Recallers \ {r} : recaller'[q] = recaller[q]
        /\ DOMAIN recaller'[r] = RecallFields /\ recaller'[r].pc \in {"embed", "answer"} /\ recaller[r].pc \in {"search", "embed"}
        /\ recaller'[r].read = recaller[r].read
        /\ recaller'[r].at = recaller[r].at /\ recaller'[r].began = recaller[r].began
        /\ recaller'[r].alone = recaller[r].alone /\ recaller'[r].whole = recaller[r].whole
        /\ UNCHANGED <<source, item>>
    BY <1>6 DEF M!SearchText, M!Embed, M!EmbedFails, M!Pick, SyncInv, SyncTypes, RecallFields
  <2> QED
    BY <2>1 DEF SyncInv, SyncTypes, Mid, Past, Copied
<1>7. ASSUME NEW r \in Recallers, M!Answer(r) PROVE SyncInv'
  <2>1. /\ DOMAIN recaller' = Recallers /\ recaller'[r] = M!Off /\ \A q \in Recallers \ {r} : recaller'[q] = recaller[q]
        /\ UNCHANGED <<source, item>>
    BY <1>7 DEF M!Answer, SyncInv
  <2> QED
    BY <2>1, <1>00 DEF SyncInv, SyncTypes, Mid, Past, Copied, VersionMap
<1>8. CASE UNCHANGED mvars
  BY <1>8 DEF mvars, SyncInv, SyncTypes, Mid, Past, Copied
<1> QED
  BY <1>1, <1>2, <1>3, <1>4, <1>5, <1>6, <1>7, <1>8 DEF M!Next

(* For any recallers, items, stores, caps, batches and faults: a recall that   *)
(* ran alone and read every store answers from what the stores held when it    *)
(* began, whatever earlier recalls side by side left behind                     *)
(* (memory_store.sync, called by every recall).                                *)
THEOREM RecallStaysCurrent == MCSpec => []RecallIsCurrent
<1>1. MCInit => SyncInv
  BY DEF MCInit, M!Init, M!Off, M!None, SyncInv, SyncTypes, Mid, RecallFields, VersionMap
<1>2. [MCNext]_allVars => [M!Next]_mvars
  BY DEF MCNext, allVars, mvars
<1>3. SyncInv => RecallIsCurrent
  BY CopiedAll DEF SyncInv, RecallIsCurrent, M!RecallIsCurrent, M!Alone, Mid, Past
<1> QED
  BY <1>1, <1>2, <1>3, SyncStep, PTL DEF MCSpec

-----------------------------------------------------------------------------
(* Work permits.                                                            *)

\* A path that fits a glob of literals is the path they name.
LEMMA NamedFits ==
  ASSUME NEW X, NEW p \in Seq(X), NEW Y, NEW g \in Seq(Y), P!Fits(p, g),
         \A i \in DOMAIN g : \E n : g[i].names = {n}
  PROVE  P!Named(g) = p
<1>1. DOMAIN g = 1 .. Len(g) /\ DOMAIN p = 1 .. Len(p) /\ Len(p) = Len(g)
  BY DEF P!Fits
<1>2. \A i \in DOMAIN g : P!Name(g[i]) = p[i]
  BY DEF P!Fits, P!Name
<1>3. p = [i \in DOMAIN p |-> p[i]]
  OBVIOUS
<1> QED
  BY <1>1, <1>2, <1>3 DEF P!Named

\* A glob of literals matches one path.
LEMMA LiteralMatch ==
  ASSUME NEW p \in Paths, NEW g \in Globs, P!Literal(g), P!Match(p, g)
  PROVE  P!Named(g) = p
<1>1. {i \in DOMAIN g : g[i].kind = "deep"} = {}
  BY DEF P!Literal
<1>2. P!Fits(p, g)
  BY <1>1 DEF P!Match
<1> QED
  BY <1>2, NamedFits, PathsAssumption, ScopesAssumption DEF P!Literal

\* The first elements of a sequence.
LEMMA StartOfSeq ==
  ASSUME NEW X, NEW q \in Seq(X), NEW n \in 0 .. Len(q)
  PROVE  /\ SubSeq(q, 1, n) \in Seq(X) /\ Len(SubSeq(q, 1, n)) = n /\ DOMAIN SubSeq(q, 1, n) = 1 .. n
         /\ \A i \in 1 .. n : SubSeq(q, 1, n)[i] = q[i]
  OBVIOUS
\* A path that a glob matches begins with the directories before its first wildcard.
LEMMA MatchPrefix ==
  ASSUME NEW p \in Paths, NEW g \in Globs, ~ P!Literal(g), P!Match(p, g)
  PROVE  \E n \in 0 .. Len(p) : P!ScopePrefix(g) = SubSeq(p, 1, n)
<1> DEFINE wild == {i \in DOMAIN g : g[i].kind # "literal"}
           deep == {i \in DOMAIN g : g[i].kind = "deep"}
           k == CHOOSE i \in wild : \A j \in wild : i <= j
<1>1. /\ p \in Seq({p[i] : i \in DOMAIN p}) /\ g \in Seq({g[i] : i \in DOMAIN g})
      /\ DOMAIN g = 1 .. Len(g) /\ Len(g) \in Nat /\ Len(p) \in Nat
  BY PathsAssumption, ScopesAssumption
<1>0. Len(g) \in Nat /\ Len(p) \in Nat /\ DOMAIN g = 1 .. Len(g)
  BY <1>1
<1>2. PICK m \in wild : \A j \in wild : m <= j
  <2>1. wild # {} /\ wild \subseteq Nat
    BY <1>1 DEF P!Literal
  <2> QED
    BY <2>1, LeastExists
<1>3. k \in wild /\ \A j \in wild : k <= j
  BY <1>2
<1>5. P!ScopePrefix(g) = P!Named(SubSeq(g, 1, k - 1))
  BY <1>2 DEF P!ScopePrefix
<1> HIDE DEF k
<1>4. /\ k \in 1 .. Len(g) /\ \A i \in 1 .. Len(g) : i < k => g[i].kind = "literal"
  <2>1. k \in 1 .. Len(g)
    BY <1>0, <1>3
  <2>2. ASSUME NEW i \in 1 .. Len(g), i < k PROVE i \notin wild
    BY <2>1, <2>2, <1>3
  <2>3. ASSUME NEW i \in DOMAIN g, i \notin wild PROVE g[i].kind = "literal"
    BY <2>3
  <2> QED
    BY <1>0, <2>1, <2>2, <2>3
<1> HIDE DEF wild
<1>6. k - 1 <= Len(p) /\ \A i \in 1 .. Len(g) : i < k => p[i] \in g[i].names
  <2>1. CASE deep = {}
    <3>1. P!Fits(p, g)
      BY <2>1 DEF P!Match
    <3> HIDE DEF deep
    <3> QED
      BY <3>1, <1>0, <1>4 DEF P!Fits
  <2>2. CASE deep # {}
    <3> DEFINE d == CHOOSE i \in deep : TRUE
               rest == Len(g) - d
    <3>1. d \in 1 .. Len(g) /\ g[d].kind = "deep"
      BY <2>2, <1>1
    <3>2. /\ Len(p) >= d - 1 + rest + (IF rest = 0 THEN 1 ELSE 0)
          /\ P!Fits(SubSeq(p, 1, d - 1), SubSeq(g, 1, d - 1))
      BY <2>2 DEF P!Match
    <3> HIDE DEF d, deep
    <3>3. k <= d /\ d - 1 <= Len(p)
      <4>1. rest \in Nat /\ d \in Nat /\ (IF rest = 0 THEN 1 ELSE 0) \in Nat
        BY <3>1, <1>0
      <4>2. d - 1 <= Len(p)
        <5> HIDE DEF rest
        <5> QED
          BY <4>1, <3>2, <1>0
      <4>3. ~ (d < k)
        BY <3>1, <1>4
      <4> QED
        BY <4>1, <4>2, <4>3, <1>4
    <3>4. /\ Len(SubSeq(g, 1, d - 1)) = d - 1 /\ DOMAIN SubSeq(g, 1, d - 1) = 1 .. d - 1
          /\ \A i \in 1 .. d - 1 : SubSeq(g, 1, d - 1)[i] = g[i] /\ SubSeq(p, 1, d - 1)[i] = p[i]
      BY <3>1, <3>3, <1>1
    <3>5. \A i \in 1 .. d - 1 : p[i] \in g[i].names
      BY <3>2, <3>4 DEF P!Fits
    <3> QED
      BY <3>1, <3>3, <3>5, <1>1, <1>4
  <2> QED
    BY <2>1, <2>2
<1>7. /\ k - 1 \in 0 .. Len(p) /\ k - 1 \in 0 .. Len(g)
      /\ \A i \in 1 .. k - 1 : p[i] \in g[i].names /\ g[i].kind = "literal" /\ i \in DOMAIN g
  BY <1>1, <1>4, <1>6
<1>8. /\ SubSeq(p, 1, k - 1) \in Seq({p[i] : i \in DOMAIN p})
      /\ SubSeq(g, 1, k - 1) \in Seq({g[i] : i \in DOMAIN g})
      /\ Len(SubSeq(p, 1, k - 1)) = k - 1 /\ Len(SubSeq(g, 1, k - 1)) = k - 1
      /\ DOMAIN SubSeq(g, 1, k - 1) = 1 .. k - 1
      /\ \A i \in 1 .. k - 1 : SubSeq(g, 1, k - 1)[i] = g[i] /\ SubSeq(p, 1, k - 1)[i] = p[i]
  BY <1>1, <1>7, StartOfSeq
<1>9. P!Named(SubSeq(g, 1, k - 1)) = SubSeq(p, 1, k - 1)
  <2>1. P!Fits(SubSeq(p, 1, k - 1), SubSeq(g, 1, k - 1))
    BY <1>7, <1>8 DEF P!Fits
  <2>2. \A i \in 1 .. k - 1 : \E n : SubSeq(g, 1, k - 1)[i].names = {n}
    <3>1. \A i \in DOMAIN g : g[i].kind = "literal" => \E n : g[i].names = {n}
      BY ScopesAssumption
    <3> QED
      BY <1>7, <1>8, <3>1
  <2> QED
    BY <1>8, <2>1, <2>2, NamedFits
<1> QED
  BY <1>5, <1>7, <1>9

\* Of two beginnings of one path one is a beginning of the other.
LEMMA PrefixesCompare ==
  ASSUME NEW X, NEW p \in Seq(X), NEW m \in 0 .. Len(p), NEW n \in 0 .. Len(p)
  PROVE  P!Comparable(SubSeq(p, 1, m), SubSeq(p, 1, n))
<1>1. ASSUME NEW a \in 0 .. Len(p), NEW b \in 0 .. Len(p), a <= b
      PROVE P!IsPrefix(SubSeq(p, 1, a), SubSeq(p, 1, b))
  <2> DEFINE s == SubSeq(p, 1, a)
             t == SubSeq(p, 1, b)
  <2>1. /\ Len(s) = a /\ Len(t) = b /\ s \in Seq(X) /\ t \in Seq(X)
        /\ \A i \in 1 .. a : s[i] = p[i] /\ t[i] = p[i]
    BY <1>1
  <2> HIDE DEF s, t
  <2>2. SubSeq(s, 1, a) = SubSeq(t, 1, a)
    BY <1>1, <2>1
  <2>3. P!IsPrefix(s, t)
    BY <1>1, <2>1, <2>2 DEF P!IsPrefix
  <2> QED
    BY <2>3 DEF s, t
<1> QED
  BY <1>1 DEF P!Comparable

(* Overlap, decided on the globs alone, is never under-reported: two scopes that *)
(* match one path overlap (work_permits.scopes_overlap).                        *)
THEOREM OverlapIsReported ==
  ASSUME NEW p \in Paths, NEW g \in Globs, NEW h \in Globs, P!Match(p, g), P!Match(p, h)
  PROVE  P!ScopesOverlap(g, h)
<1>1. CASE P!Literal(g) /\ P!Literal(h)
  <2>1. P!Named(g) = p /\ P!Named(h) = p
    BY <1>1, LiteralMatch
  <2>2. P!IsPrefix(p, p)
    BY PathsAssumption DEF P!IsPrefix
  <2> QED
    BY <1>1, <2>1, <2>2 DEF P!ScopesOverlap, P!Comparable
<1>2. CASE P!Literal(g) /\ ~ P!Literal(h)
  BY <1>2, LiteralMatch DEF P!ScopesOverlap
<1>3. CASE ~ P!Literal(g) /\ P!Literal(h)
  BY <1>3, LiteralMatch DEF P!ScopesOverlap
<1>4. CASE ~ P!Literal(g) /\ ~ P!Literal(h)
  <2>1. P!Comparable(P!ScopePrefix(g), P!ScopePrefix(h))
    BY <1>4, MatchPrefix, PrefixesCompare, PathsAssumption
  <2> QED
    BY <1>4, <2>1 DEF P!ScopesOverlap
<1> QED
  BY <1>1, <1>2, <1>3, <1>4

\* What the check before a permit is written gives: an exclusive permit of another
\* session shares no path with it.
Apart(g, h) == \A path \in Paths : ~ (P!Match(path, g) /\ P!Match(path, h))
CmdType == [pc : {"off", "wait", "unlink", "check", "write"}, type : {"exclusive", "advisory"},
            scope : Globs \cup {<<>>}, force : BOOLEAN]
PermitType == [no : Nat, session : Sessions, pid : Nat, type : {"exclusive", "advisory"},
               scope : Globs, forced : BOOLEAN]
PermitTypes ==
  /\ killed \in Nat /\ issued \in Nat /\ proc \in [Sessions -> Nat] /\ alive \subseteq Sessions
  /\ cmd \in [Sessions -> CmdType] /\ permit \subseteq PermitType
  /\ \A p \in permit : p.pid <= proc[p.session]
  /\ \A s \in Sessions : cmd[s].pc \in {"check", "write"} => cmd[s].scope \in Globs
\* While nobody was killed no lock file is old, and one is held until its holder is done.
LockInv ==
  killed = 0 =>
    /\ lock.old = FALSE
    /\ \A s \in Sessions : /\ cmd[s].pc # "unlink"
                           /\ cmd[s].pc # "off" => s \in alive
                           /\ cmd[s].pc \in {"check", "write"} => lock.by = {s}
Rivals(p, q) == p.type = "exclusive" /\ q.type = "exclusive" /\ p.session # q.session
ApartInv ==
  killed = 0 =>
    /\ \A p, q \in P!Active : Rivals(p, q) /\ ~ p.forced /\ ~ q.forced => Apart(p.scope, q.scope)
    /\ \A s \in Sessions : cmd[s].pc = "write" /\ ~ cmd[s].force =>
         \A p \in P!Active : p.session # s /\ p.type = "exclusive" => Apart(p.scope, cmd[s].scope)


\* Moving a command along keeps what it is about.
LEMMA CmdFields ==
  ASSUME NEW c \in CmdType, NEW stage \in {"off", "wait", "unlink", "check", "write"}
  PROVE  /\ [c EXCEPT !.pc = stage] \in CmdType /\ [c EXCEPT !.pc = stage].pc = stage
         /\ [c EXCEPT !.pc = stage].scope = c.scope /\ [c EXCEPT !.pc = stage].force = c.force
         /\ [c EXCEPT !.pc = stage].type = c.type
  BY DEF CmdType
\* The command of one session changes alone.
LEMMA CmdWrites ==
  ASSUME PermitTypes, NEW s \in Sessions, NEW c \in CmdType, cmd' = [cmd EXCEPT ![s] = c]
  PROVE  cmd' \in [Sessions -> CmdType] /\ cmd'[s] = c /\ \A u \in Sessions \ {s} : cmd'[u] = cmd[u]
  BY DEF PermitTypes
\* The same for a step that only moves it.
LEMMA ToWrites ==
  ASSUME PermitTypes, NEW s \in Sessions, NEW stage \in {"off", "wait", "unlink", "check", "write"}, P!To(s, stage)
  PROVE  /\ cmd' \in [Sessions -> CmdType] /\ \A u \in Sessions \ {s} : cmd'[u] = cmd[u]
         /\ cmd'[s].pc = stage /\ cmd'[s].scope = cmd[s].scope /\ cmd'[s].force = cmd[s].force
<1> DEFINE c == [cmd[s] EXCEPT !.pc = stage]
<1>1. cmd' = [cmd EXCEPT ![s] = c] /\ cmd[s] \in CmdType
  BY DEF P!To, PermitTypes
<1>2. /\ c \in CmdType /\ c.pc = stage /\ c.scope = cmd[s].scope /\ c.force = cmd[s].force
  BY <1>1, CmdFields
<1> HIDE DEF c
<1> QED
  BY <1>1, <1>2, CmdWrites
\* No command is one that is off.
LEMMA NoCmdIsTyped == P!NoCmd \in CmdType /\ P!NoCmd.pc = "off"
  BY DEF P!NoCmd, CmdType

\* Every step keeps the types; a process is never older than the permits of its session.
LEMMA PermitTypesStep == PermitTypes /\ [P!Next]_pvars => PermitTypes'
<1> SUFFICES ASSUME PermitTypes, [P!Next]_pvars PROVE PermitTypes'
  OBVIOUS
<1>a. ASSUME UNCHANGED <<P!store, proc>>, killed' \in Nat, alive' \subseteq Sessions, cmd' \in [Sessions -> CmdType],
             \A u \in Sessions : cmd'[u].pc \in {"check", "write"} => cmd'[u].scope \in Globs
      PROVE  PermitTypes'
  BY <1>a DEF PermitTypes, P!store
<1>1. ASSUME NEW s \in Sessions, P!Acquire(s) \/ P!SeeOld(s) \/ P!Unlink(s) PROVE PermitTypes'
  <2>1. P!To(s, "wait") \/ P!To(s, "unlink")
    BY <1>1 DEF P!Acquire, P!SeeOld, P!Unlink
  <2>2. UNCHANGED <<P!store, proc, alive, killed>>
    BY <1>1 DEF P!Acquire, P!SeeOld, P!Unlink
  <2> QED
    BY <2>1, <2>2, <1>a, ToWrites DEF PermitTypes
<1>2. ASSUME NEW s \in Sessions, P!Create(s) PROVE PermitTypes'
  <2>1. PICK type \in {"exclusive", "advisory"}, scope \in Globs, force \in BOOLEAN :
          cmd' = [cmd EXCEPT ![s] = [pc |-> "check", type |-> type, scope |-> scope, force |-> force]]
    BY <1>2 DEF P!Create
  <2>2. /\ [pc |-> "check", type |-> type, scope |-> scope, force |-> force] \in CmdType
        /\ [pc |-> "check", type |-> type, scope |-> scope, force |-> force].scope \in Globs
    BY DEF CmdType
  <2>3. UNCHANGED <<P!store, proc, alive, killed>>
    BY <1>2 DEF P!Create
  <2> QED
    BY <2>1, <2>2, <2>3, <1>a, CmdWrites DEF PermitTypes
<1>3. ASSUME NEW s \in Sessions, P!Busy(s) PROVE PermitTypes'
  BY <1>3, <1>a, CmdWrites, NoCmdIsTyped DEF P!Busy, PermitTypes
<1>4. ASSUME NEW s \in Sessions, P!Check(s) PROVE PermitTypes'
  <2>1. UNCHANGED <<P!store, proc, alive, killed>> /\ cmd[s].pc = "check"
        /\ (cmd' = [cmd EXCEPT ![s] = P!NoCmd] \/ P!To(s, "write"))
    BY <1>4 DEF P!Check
  <2> QED
    BY <2>1, <1>a, CmdWrites, ToWrites, NoCmdIsTyped DEF PermitTypes
<1>5. ASSUME NEW s \in Sessions, P!Write(s) PROVE PermitTypes'
  <2> DEFINE new == [no |-> issued + 1, session |-> s, pid |-> proc[s], type |-> cmd[s].type,
                     scope |-> cmd[s].scope, forced |-> cmd[s].force]
  <2>1. /\ cmd[s].pc = "write" /\ issued' = issued + 1 /\ permit' = permit \cup {new}
        /\ cmd' = [cmd EXCEPT ![s] = P!NoCmd] /\ UNCHANGED <<proc, alive, killed>>
    BY <1>5 DEF P!Write
  <2>2. cmd[s] \in CmdType /\ cmd[s].scope \in Globs /\ issued + 1 \in Nat /\ proc[s] \in Nat
    BY <2>1 DEF PermitTypes
  <2>3. new \in PermitType /\ new.pid <= proc[new.session]
    BY <2>2 DEF PermitType, CmdType
  <2> HIDE DEF new
  <2> QED
    BY <2>1, <2>2, <2>3, CmdWrites, NoCmdIsTyped DEF PermitTypes
<1>6. ASSUME NEW s \in Sessions, P!Close(s) \/ P!OnSessionEnd(s) PROVE PermitTypes'
  BY <1>6 DEF P!Close, P!OnSessionEnd, PermitTypes
<1>7. ASSUME NEW s \in Sessions, P!Kill(s) PROVE PermitTypes'
  BY <1>7, <1>a, CmdWrites, NoCmdIsTyped DEF P!Kill, PermitTypes
<1>8. ASSUME NEW s \in Sessions, P!OnSessionStart(s) PROVE PermitTypes'
  <2>1. /\ UNCHANGED <<permit, issued, cmd, killed>> /\ alive' \subseteq Sessions /\ proc' \in [Sessions -> Nat]
        /\ \A u \in Sessions : proc'[u] >= proc[u] /\ proc[u] \in Nat
    BY <1>8 DEF P!OnSessionStart, P!store, PermitTypes
  <2>2. \A p \in permit : p.pid \in Nat /\ p.session \in Sessions
    BY DEF PermitTypes, PermitType
  <2>3. \A p \in permit : p.pid <= proc'[p.session]
    BY <2>1, <2>2 DEF PermitTypes
  <2> QED
    BY <2>1, <2>3 DEF PermitTypes
<1>9. CASE UNCHANGED pvars
  BY <1>9 DEF pvars, P!store, PermitTypes
<1> QED
  BY <1>1, <1>2, <1>3, <1>4, <1>5, <1>6, <1>7, <1>8, <1>9 DEF P!Next

\* Where nobody was killed, nobody was killed before.
LEMMA NoKill == PermitTypes /\ [P!Next]_pvars /\ killed' = 0 => killed = 0 /\ \A s \in Sessions : ~ P!Kill(s)
<1> SUFFICES ASSUME PermitTypes, [P!Next]_pvars, killed' = 0 PROVE killed = 0 /\ \A s \in Sessions : ~ P!Kill(s)
  OBVIOUS
<1>1. killed \in Nat
  BY DEF PermitTypes
<1>2. ASSUME NEW s \in Sessions PROVE ~ P!Kill(s)
  BY <1>1 DEF P!Kill
<1>3. ASSUME NEW s \in Sessions,
             P!Acquire(s) \/ P!Create(s) \/ P!SeeOld(s) \/ P!Unlink(s) \/ P!Busy(s) \/ P!Check(s) \/ P!Write(s)
      PROVE  killed' = killed
  BY <1>3 DEF P!Acquire, P!Create, P!SeeOld, P!Unlink, P!Busy, P!Check, P!Write
<1>4. ASSUME NEW s \in Sessions, P!Close(s) \/ P!OnSessionEnd(s) \/ P!OnSessionStart(s) PROVE killed' = killed
  BY <1>4 DEF P!Close, P!OnSessionEnd, P!OnSessionStart
<1> QED
  BY <1>2, <1>3, <1>4 DEF P!Next, pvars

\* Until a session is killed the lock has one holder, from its creation to the write.
LEMMA LockStep == PermitTypes /\ LockInv /\ [P!Next]_pvars => LockInv'
<1> SUFFICES ASSUME PermitTypes, LockInv, [P!Next]_pvars, killed' = 0
             PROVE  /\ lock'.old = FALSE
                    /\ \A s \in Sessions : /\ cmd'[s].pc # "unlink"
                                           /\ cmd'[s].pc # "off" => s \in alive'
                                           /\ cmd'[s].pc \in {"check", "write"} => lock'.by = {s}
  BY DEF LockInv
<1> DEFINE Goal == /\ lock'.old = FALSE
                    /\ \A s \in Sessions : /\ cmd'[s].pc # "unlink"
                                           /\ cmd'[s].pc # "off" => s \in alive'
                                           /\ cmd'[s].pc \in {"check", "write"} => lock'.by = {s}
<1>0. killed = 0 /\ \A s \in Sessions : ~ P!Kill(s)
  BY NoKill
<1>1. ASSUME NEW s \in Sessions, P!Acquire(s) PROVE Goal
  BY <1>0, <1>1, ToWrites DEF P!Acquire, LockInv
<1>2. ASSUME NEW s \in Sessions, P!Create(s) PROVE Goal
  <2>1. PICK type \in {"exclusive", "advisory"}, scope \in Globs, force \in BOOLEAN :
          cmd' = [cmd EXCEPT ![s] = [pc |-> "check", type |-> type, scope |-> scope, force |-> force]]
    BY <1>2 DEF P!Create
  <2> DEFINE c == [pc |-> "check", type |-> type, scope |-> scope, force |-> force]
  <2>2. c \in CmdType /\ c.pc = "check"
    BY DEF CmdType
  <2> HIDE DEF c
  <2>3. cmd'[s].pc = "check" /\ \A u \in Sessions \ {s} : cmd'[u] = cmd[u]
    BY <2>1, <2>2, CmdWrites DEF c
  <2> QED
    BY <1>0, <1>2, <2>3 DEF P!Create, LockInv
<1>3. ASSUME NEW s \in Sessions, P!SeeOld(s) \/ P!Unlink(s) PROVE Goal
  <2>1. lock.old = FALSE /\ cmd[s].pc # "unlink"
    BY <1>0 DEF LockInv
  <2> QED
    BY <1>3, <2>1 DEF P!SeeOld, P!Unlink
<1>4. ASSUME NEW s \in Sessions, P!Busy(s) PROVE Goal
  BY <1>0, <1>4, CmdWrites, NoCmdIsTyped DEF P!Busy, LockInv
<1>5. ASSUME NEW s \in Sessions, P!Check(s) \/ P!Write(s) PROVE Goal
  <2>1. CASE cmd' = [cmd EXCEPT ![s] = P!NoCmd] /\ lock' = P!NoLock
    <3>1. cmd'[s].pc = "off" /\ \A u \in Sessions \ {s} : cmd'[u] = cmd[u]
      BY <2>1, CmdWrites, NoCmdIsTyped
    <3>2. lock.by = {s} /\ alive' = alive
      BY <1>0, <1>5 DEF P!Check, P!Write, LockInv
    <3> QED
      BY <1>0, <2>1, <3>1, <3>2 DEF LockInv, P!NoLock
  <2>2. CASE P!To(s, "write") /\ UNCHANGED lock
    BY <1>0, <1>5, <2>2, ToWrites DEF P!Check, P!Write, LockInv
  <2> QED
    BY <1>5, <2>1, <2>2 DEF P!Check, P!Write
<1>6. ASSUME NEW s \in Sessions, P!Close(s) \/ P!OnSessionEnd(s) \/ P!OnSessionStart(s) PROVE Goal
  BY <1>0, <1>6 DEF P!Close, P!OnSessionEnd, P!OnSessionStart, LockInv
<1>7. CASE UNCHANGED pvars
  BY <1>0, <1>7 DEF pvars, LockInv
<1> QED
  BY <1>0, <1>1, <1>2, <1>3, <1>4, <1>5, <1>6, <1>7 DEF P!Next

\* So what was checked still holds when it is written, and exclusive permits stay apart.
LEMMA ApartStep == PermitTypes /\ LockInv /\ ApartInv /\ [P!Next]_pvars => ApartInv'
<1> SUFFICES ASSUME PermitTypes, LockInv, ApartInv, [P!Next]_pvars, killed' = 0
             PROVE  ApartInv'
  BY DEF ApartInv
<1>0. killed = 0 /\ \A s \in Sessions : ~ P!Kill(s)
  BY NoKill
<1>a. ASSUME P!Active' \subseteq P!Active,
             \A u \in Sessions : cmd'[u].pc = "write" => cmd'[u] = cmd[u]
      PROVE  ApartInv'
  BY <1>0, <1>a DEF ApartInv, Rivals
<1>b. ASSUME UNCHANGED <<permit, alive, proc>> PROVE P!Active' = P!Active
  BY <1>b DEF P!Active, P!Alive
<1>1. ASSUME NEW s \in Sessions, P!Acquire(s) \/ P!SeeOld(s) \/ P!Unlink(s) PROVE ApartInv'
  BY <1>1, <1>a, <1>b, ToWrites DEF P!Acquire, P!SeeOld, P!Unlink, P!store
<1>2. ASSUME NEW s \in Sessions, P!Create(s) PROVE ApartInv'
  <2>1. PICK type \in {"exclusive", "advisory"}, scope \in Globs, force \in BOOLEAN :
          cmd' = [cmd EXCEPT ![s] = [pc |-> "check", type |-> type, scope |-> scope, force |-> force]]
    BY <1>2 DEF P!Create
  <2> DEFINE c == [pc |-> "check", type |-> type, scope |-> scope, force |-> force]
  <2>2. c \in CmdType /\ c.pc = "check"
    BY DEF CmdType
  <2> HIDE DEF c
  <2>3. cmd'[s].pc = "check" /\ \A u \in Sessions \ {s} : cmd'[u] = cmd[u]
    BY <2>1, <2>2, CmdWrites DEF c
  <2> QED
    BY <1>2, <2>3, <1>a, <1>b DEF P!Create, P!store
<1>3. ASSUME NEW s \in Sessions, P!Busy(s) PROVE ApartInv'
  BY <1>3, <1>a, <1>b, CmdWrites, NoCmdIsTyped DEF P!Busy, P!store
<1>4. ASSUME NEW s \in Sessions, P!Check(s) PROVE ApartInv'
  <2>0. P!Active' = P!Active
    BY <1>4, <1>b DEF P!Check, P!store
  <2>1. CASE cmd' = [cmd EXCEPT ![s] = P!NoCmd]
    BY <2>0, <2>1, <1>a, CmdWrites, NoCmdIsTyped
  <2>2. CASE P!To(s, "write") /\ (P!Conflicts(s, cmd[s].scope) = {} \/ cmd[s].force)
    <3>1. /\ cmd'[s].scope = cmd[s].scope /\ cmd'[s].force = cmd[s].force
          /\ \A u \in Sessions \ {s} : cmd'[u] = cmd[u]
      BY <2>2, ToWrites
    <3>2. ASSUME ~ cmd[s].force, NEW p \in P!Active, p.session # s, p.type = "exclusive"
          PROVE  Apart(p.scope, cmd[s].scope)
      <4>1. ~ P!ScopesOverlap(p.scope, cmd[s].scope)
        BY <2>2, <3>2 DEF P!Conflicts
      <4>2. p.scope \in Globs /\ cmd[s].scope \in Globs
        BY <1>4 DEF P!Check, PermitTypes, PermitType, P!Active
      <4> QED
        BY <4>1, <4>2, OverlapIsReported DEF Apart
    <3> QED
      BY <1>0, <2>0, <3>1, <3>2 DEF ApartInv, Rivals
  <2> QED
    BY <1>4, <2>1, <2>2 DEF P!Check
<1>5. ASSUME NEW s \in Sessions, P!Write(s) PROVE ApartInv'
  <2> DEFINE new == [no |-> issued + 1, session |-> s, pid |-> proc[s], type |-> cmd[s].type,
                     scope |-> cmd[s].scope, forced |-> cmd[s].force]
  <2>1. /\ cmd[s].pc = "write" /\ permit' = permit \cup {new}
        /\ cmd' = [cmd EXCEPT ![s] = P!NoCmd] /\ UNCHANGED <<proc, alive, killed>>
    BY <1>5 DEF P!Write
  <2>2. new.session = s /\ new.scope = cmd[s].scope /\ new.forced = cmd[s].force
    OBVIOUS
  <2> HIDE DEF new
  <2>3. P!Active' \subseteq P!Active \cup {new}
    BY <2>1 DEF P!Active, P!Alive
  <2>4. cmd'[s].pc = "off" /\ \A u \in Sessions \ {s} : cmd'[u] = cmd[u]
    BY <2>1, CmdWrites, NoCmdIsTyped
  <2>5. \A u \in Sessions : cmd'[u].pc # "write"
    BY <1>0, <2>1, <2>4 DEF LockInv
  <2>6. \A p \in P!Active : ~ new.forced /\ p.session # s /\ p.type = "exclusive" =>
          Apart(p.scope, new.scope) /\ Apart(new.scope, p.scope)
    BY <1>0, <2>1, <2>2 DEF ApartInv, Apart
  <2> QED
    BY <1>0, <2>2, <2>3, <2>5, <2>6 DEF ApartInv, Rivals
<1>6. ASSUME NEW s \in Sessions, P!Close(s) \/ P!OnSessionEnd(s) PROVE ApartInv'
  <2>1. P!Active' \subseteq P!Active
    BY <1>6 DEF P!Close, P!OnSessionEnd, P!Active, P!Alive
  <2> QED
    BY <1>6, <2>1, <1>a DEF P!Close, P!OnSessionEnd
<1>7. ASSUME NEW s \in Sessions, P!OnSessionStart(s) PROVE ApartInv'
  <2>1. permit' = permit /\ cmd' = cmd /\ alive' = alive \cup {s} /\ proc' = [proc EXCEPT ![s] = @ + 1]
    BY <1>7 DEF P!OnSessionStart, P!store
  <2>2. /\ proc[s] \in Nat /\ proc'[s] = proc[s] + 1 /\ \A u \in Sessions \ {s} : proc'[u] = proc[u]
    BY <2>1 DEF PermitTypes
  <2>3. \A p \in permit : p.session \in Sessions /\ p.pid \in Nat /\ p.pid <= proc[p.session]
    BY DEF PermitTypes, PermitType
  <2>4. P!Active' \subseteq P!Active
    BY <2>1, <2>2, <2>3 DEF P!Active, P!Alive
  <2> QED
    BY <2>1, <2>4, <1>a
<1>8. CASE UNCHANGED pvars
  BY <1>8, <1>a, <1>b DEF pvars, P!store
<1> QED
  BY <1>0, <1>1, <1>2, <1>3, <1>4, <1>5, <1>6, <1>7, <1>8 DEF P!Next

\* Exclusive permits that share no path leave one session to each path.
LEMMA ApartIsAlone == PermitTypes /\ ApartInv /\ killed = 0 => P!ExclusiveAlone
<1> SUFFICES ASSUME PermitTypes, ApartInv, killed = 0, \A p \in P!Active : ~p.forced,
                    NEW p \in P!Active, NEW path \in Paths, p.type = "exclusive", P!Match(path, p.scope)
             PROVE  {s \in Sessions : P!MayEdit(s, path)} = {p.session}
  BY DEF P!ExclusiveAlone
<1>1. p.session \in Sessions
  BY DEF PermitTypes, PermitType, P!Active
<1>2. P!MayEdit(p.session, path)
  BY DEF P!MayEdit, P!Blockers, ApartInv, Rivals, Apart
<1>3. ASSUME NEW s \in Sessions, s # p.session PROVE ~ P!MayEdit(s, path)
  BY <1>3 DEF P!MayEdit, P!Blockers
<1> QED
  BY <1>1, <1>2, <1>3

(* For any sessions, paths and scopes: until a session is killed, exactly the   *)
(* holder of an exclusive permit may edit inside its scope, unless a permit was *)
(* forced (work_permits.acquire under its lock, and the hook permit_guard).  A  *)
(* killed session leaves its lock behind, and two that find it old may each    *)
(* unlink the other's: there the property is only that of the bounded run.     *)
THEOREM ExclusiveHolds == MCSpec => [](killed = 0 => ExclusiveAlone)
<1>1. MCInit => PermitTypes /\ LockInv /\ ApartInv
  BY NoCmdIsTyped DEF MCInit, P!Init, PermitTypes, LockInv, ApartInv, P!NoLock, P!Active
<1>2. [MCNext]_allVars => [P!Next]_pvars
  BY DEF MCNext, allVars, pvars
<1>3. PermitTypes /\ ApartInv => (killed = 0 => ExclusiveAlone)
  BY ApartIsAlone DEF ExclusiveAlone
<1> QED
  BY <1>1, <1>2, <1>3, PermitTypesStep, LockStep, ApartStep, PTL DEF MCSpec

=============================================================================
