----------------------------- MODULE FindingsProofs -----------------------------
(* What the review, the Landing tree and the curation promise, for every value *)
(* of their constants: the inductive invariants, the step lemmas and the       *)
(* theorems.                                                                   *)
EXTENDS MCFindings, TLAPS

-----------------------------------------------------------------------------
(* The review of rejected articles.                                          *)

\* The inductive form of PromotedHasSource: from the write to the mark a reviewer has
\* one article in work, whose file is written before the scan and which the scan has
\* indexed; and what is indexed has its source, was taken, or will get it.
SourceInv ==
  /\ R!ReviewTypeOK
  /\ \A w \in Reviewers : rv[w] \in {"write", "ingest", "source", "mark"} => \E i \in Runs : cur[w] = {i}
  /\ \A w \in Reviewers : rv[w] = "ingest" => cur[w] \subseteq files
  /\ \A w \in Reviewers : rv[w] \in {"source", "mark"} => cur[w] \subseteq indexed
  /\ \A i \in Runs : item[i] = "promoted" => i \in indexed
  /\ \A i \in indexed : i \in sourced \cup taken \/ R!RecordsSource(i)

\* What else may happen to an article of the queue: it is pending again.
LEMMA EnqueueStep ==
  ASSUME SourceInv, NEW X, R!Enqueue(X), UNCHANGED <<files, indexed, sourced, taken, R!reviewerVars>>
  PROVE  SourceInv'
<1> DEFINE new == [i \in Runs |-> IF i \in X THEN "pending" ELSE item[i]]
<1>1. item' = new /\ new \in [Runs -> {"none", "pending", "promoted", "discarded", "error"}]
  BY DEF SourceInv, R!ReviewTypeOK, R!Enqueue
<1>2. \A i \in Runs : item'[i] = "promoted" => item[i] = "promoted"
  BY <1>1
<1>3. R!ReviewTypeOK'
  BY <1>1 DEF SourceInv, R!ReviewTypeOK, R!reviewerVars
<1>4. \A i : R!RecordsSource(i)' <=> R!RecordsSource(i)
  BY DEF R!reviewerVars, R!RecordsSource
<1> QED
  BY <1>2, <1>3, <1>4 DEF SourceInv, R!reviewerVars

\* A reviewer on whatever snapshot it took keeps it, beside any other.
LEMMA ReviewKeeps ==
  ASSUME SourceInv, NEW w \in Reviewers, R!ReviewStep(w)
  PROVE  SourceInv'
<1> USE DEF SourceInv, R!ReviewTypeOK, R!reviewerVars, R!queueVars, R!GoTo, R!RecordsSource, R!Mark
<1>1. CASE R!Poll(w)
  BY <1>1 DEF R!Poll, R!Pending
<1>2. CASE R!EndReview(w)
  BY <1>2 DEF R!EndReview
<1>3. CASE R!WriteFile(w)
  BY <1>3 DEF R!WriteFile
<1>4. CASE R!ScanDirectory(w)
  <2>1. PICK i \in Runs : cur[w] = {i}
    BY <1>4 DEF R!ScanDirectory
  <2>2. R!ReviewTypeOK' /\ i \in files
    BY <1>4, <2>1 DEF R!ScanDirectory
  <2>3. ASSUME NEW j \in indexed' PROVE (j \in sourced \cup taken \/ R!RecordsSource(j))'
    <3>1. CASE j \in indexed
      BY <1>4, <3>1 DEF R!ScanDirectory
    <3>2. CASE j \notin indexed /\ j = i
      <4>1. cur[w] \cap indexed = {}
        BY <2>1, <3>2
      <4>2. rv'[w] = "source" /\ mine'[w] = TRUE /\ j \in cur'[w]
        BY <1>4, <2>1, <3>2, <4>1 DEF R!ScanDirectory
      <4> QED
        BY <4>2
    <3>3. CASE j \notin indexed /\ j # i
      BY <1>4, <2>1, <2>3, <3>3 DEF R!ScanDirectory
    <3> QED
      BY <3>1, <3>2, <3>3
  <2>4. \A u \in Reviewers : rv'[u] \in {"write", "ingest", "source",
          "mark"} => \E k \in Runs : cur'[u] = {k}
    BY <1>4, <2>1 DEF R!ScanDirectory
  <2>5. /\ \A u \in Reviewers : rv'[u] = "ingest" => cur'[u] \subseteq files'
        /\ \A u \in Reviewers : rv'[u] \in {"source", "mark"} => cur'[u] \subseteq indexed'
        /\ \A k \in Runs : item'[k] = "promoted" => k \in indexed'
    BY <1>4 DEF R!ScanDirectory
  <2> QED
    BY <2>2, <2>3, <2>4, <2>5
<1>5. CASE R!ScanFails(w)
  BY <1>5 DEF R!ScanFails
<1>6. CASE R!RecordSource(w)
  BY <1>6 DEF R!RecordSource
<1>7. CASE R!MarkPromoted(w)
  BY <1>7 DEF R!MarkPromoted
<1>8. ASSUME NEW i \in Runs, NEW v \in {"promoted", "discarded", "error"}, R!Verdict(w, i, v)
      PROVE  SourceInv'
  BY <1>8 DEF R!Verdict
<1> QED
  BY <1>1, <1>2, <1>3, <1>4, <1>5, <1>6, <1>7, <1>8 DEF R!ReviewStep

\* When all reviewers die, what they had not recorded counts as taken.
LEMMA DiesKeeps == SourceInv /\ R!ReviewDies => SourceInv'
<1> SUFFICES ASSUME SourceInv, R!ReviewDies PROVE SourceInv'
  OBVIOUS
<1> USE DEF SourceInv, R!ReviewTypeOK, R!ReviewDies
<1>1. \A i : R!RecordsSource(i) => i \in taken'
  BY DEF R!RecordsSource
<1>2. taken' \in SUBSET Runs /\ taken \subseteq taken'
  OBVIOUS
<1>3. R!ReviewTypeOK'
  BY <1>2
<1> QED
  BY <1>1, <1>2, <1>3

\* Nothing else in a research disturbs it.
LEMMA SourceStep == SourceInv /\ [R!Next]_rvars => SourceInv'
<1> SUFFICES ASSUME SourceInv, [R!Next]_rvars PROVE SourceInv'
  OBVIOUS
<1>0. CASE UNCHANGED R!reviewVars
  BY <1>0 DEF R!reviewVars, R!queueVars, R!reviewerVars, SourceInv, R!ReviewTypeOK, R!RecordsSource
<1>1. ASSUME NEW r \in Runs, R!RunStep(r) PROVE SourceInv'
  <2>1. CASE R!Scrape(r)
    BY <2>1, EnqueueStep DEF R!Scrape
  <2>2. CASE UNCHANGED R!reviewVars
    BY <2>2, <1>0
  <2> QED
    BY <1>1, <2>1, <2>2
       DEF R!RunStep, R!SearchWeb, R!Finish, R!EnterHeavy, R!PollHeavy, R!GiveUp, R!IngestRun,
           R!EmbedRun, R!LeaveHeavy
<1>2. ASSUME NEW r \in Runs, R!Die(r) \/ \E overrun \in BOOLEAN : R!Launch(r, overrun) PROVE SourceInv'
  BY <1>0, <1>2 DEF R!Die, R!Launch
<1>3. CASE R!DrainEnters \/ R!DrainPass \/ R!DrainEnds \/ R!Watcher \/ R!WatchWaits \/ R!Expire
  BY <1>0, <1>3
     DEF R!DrainEnters, R!DrainPass, R!DrainEnds, R!Watcher, R!WatchRead, R!WatchPush, R!WatchTell,
         R!WatchWrite, R!WatchWaits, R!Expire
<1>4. CASE R!Restart
  BY <1>4, DiesKeeps DEF R!Restart
<1>5. ASSUME NEW w \in Reviewers, R!Reread(w) PROVE SourceInv'
  BY <1>5, ReviewKeeps DEF R!Reread
<1>6. ASSUME NEW i \in Runs, R!Requeue(i) PROVE SourceInv'
  BY <1>6, EnqueueStep DEF R!Requeue
<1>7. CASE UNCHANGED rvars
  BY <1>0, <1>7 DEF rvars, R!reviewVars, R!queueVars, R!reviewerVars
<1> QED
  BY <1>1, <1>2, <1>3, <1>4, <1>5, <1>6, <1>7 DEF R!Next

(* For any number of reviewers, articles, verdicts, repeated queries and        *)
(* restarts: what is marked promoted is in the corpus with its source, or a     *)
(* reviewer records it, or another scan had indexed it first                   *)
(* (server._review_ingest: write, ingest, provenance, mark).                   *)
THEOREM PromotedIsSourced == MCSpec => []PromotedHasSource
<1>1. MCInit => SourceInv
  BY DEF MCInit, R!Init, R!ReviewInit, SourceInv, R!ReviewTypeOK
<1>2. [MCNext]_allVars => [R!Next]_rvars
  BY DEF MCNext, allVars, rvars
<1>3. SourceInv => PromotedHasSource
  BY DEF SourceInv, PromotedHasSource, R!PromotedHasSource
<1> QED
  BY <1>1, <1>2, <1>3, SourceStep, PTL DEF MCSpec

-----------------------------------------------------------------------------
(* The files of Landing.                                                     *)

\* The ingester and the sweep.
IngType == [pc : {"rest", "file", "register", "parse", "store", "index", "commit"},
            left : SUBSET Paths, path : Paths \cup {"none"}, art : Contents \cup {"none"}]
SweepType == [pc : {"rest", "registry", "staging", "byPath", "byHash", "transit"},
              seen : SUBSET Contents, status : [Contents -> L!Statuses],
              action : [Contents -> L!Actions], drop : SUBSET Contents,
              arts : SUBSET Contents, paths : SUBSET Paths]

\* What the two invariants need of the types.
FileTypes ==
  /\ landing \in [Paths -> Contents \cup {"none"}]
  /\ transit \in SUBSET Contents /\ archive \in SUBSET Contents
  /\ status \in [Contents -> L!Statuses]
  /\ uri \in [Contents -> Paths \cup {"none"}]
  /\ live \in [Contents -> SUBSET {"main", "staging"}]
  /\ rejects \in [Contents -> BOOLEAN]
  /\ ing \in IngType
  /\ ing.pc \in {"register", "parse"} => ing.path \in Paths
  /\ ing.pc \in {"parse", "store", "index", "commit"} => ing.art \in Contents /\ uri[ing.art] \in Paths
  /\ sw \in SweepType
  /\ \A a \in Contents : status[a] # "none" => uri[a] \in Paths
  /\ sw.pc = "staging" => \A a \in Contents : sw.status[a] # "none" => uri[a] \in Paths
  /\ sw.pc = "byPath" => \A a \in sw.arts : uri[a] \in Paths

\* A step of the ingester.
LEMMA IngestTypes ==
  ASSUME FileTypes, L!IngestStep, UNCHANGED L!sweepVars
  PROVE  FileTypes'
<1> USE DEF FileTypes, IngType, L!sweepVars, L!files, L!registry, L!stores, L!counters, L!Resting,
            L!NextStep, L!CommitWith, L!Statuses
<1> USE ContentsAssumption
<1>1. CASE L!StartPass
  BY <1>1 DEF L!StartPass
<1>2. CASE L!EndPass
  BY <1>2 DEF L!EndPass
<1>3. ASSUME NEW p \in Paths, L!NextFile(p) PROVE FileTypes'
  BY <1>3 DEF L!NextFile
<1>4. CASE L!Register
  <2>1. CASE landing[ing.path] = "none"
    BY <1>4, <2>1 DEF L!Register
  <2>2. CASE landing[ing.path] # "none"
    <3> DEFINE a == landing[ing.path]
    <3>1. a \in Contents /\ ing.path \in Paths
      BY <1>4, <2>2 DEF L!Register
    <3>2. /\ status' = [status EXCEPT ![a] = IF @ = "none" THEN "received" ELSE @]
          /\ uri' = [uri EXCEPT ![a] = IF @ = "none" THEN ing.path ELSE @]
          /\ ing' = [ing EXCEPT !.pc = "parse", !.art = a]
          /\ UNCHANGED <<L!files, L!stores, rejects, sw>>
      BY <1>4, <2>2 DEF L!Register
    <3> HIDE DEF a
    <3>3. status' \in [Contents -> L!Statuses] /\ uri' \in [Contents -> Paths \cup {"none"}] /\ ing' \in IngType
      BY <3>1, <3>2
    <3>4. /\ ing'.pc = "parse" /\ ing'.path \in Paths /\ ing'.art = a
          /\ \A c \in Contents : uri[c] \in Paths => uri'[c] \in Paths
          /\ uri'[a] \in Paths
          /\ \A c \in Contents : c # a => status'[c] = status[c]
      BY <3>1, <3>2
    <3> QED
      BY <3>1, <3>2, <3>3, <3>4 DEF SweepType
  <2> QED
    BY <2>1, <2>2
<1>5. CASE L!ParseFails \/ L!ParseFindsNoText
  <2>1. ing.pc = "parse" /\ \E st \in L!Statuses : status' = [status EXCEPT ![ing.art] = st]
    BY <1>5 DEF L!ParseFails, L!ParseFindsNoText
  <2>2. ing' = L!NextStep /\ UNCHANGED <<L!files, uri, L!stores, sw, rejects>>
    BY <1>5 DEF L!ParseFails, L!ParseFindsNoText
  <2>3. ing.art \in Contents /\ uri[ing.art] \in Paths
    BY <2>1
  <2>4. status' \in [Contents -> L!Statuses] /\ \A c \in Contents : c # ing.art => status'[c] = status[c]
    BY <2>1
  <2>5. ing' \in IngType /\ ing'.pc = "file"
    BY <2>2
  <2> QED
    BY <2>2, <2>3, <2>4, <2>5 DEF SweepType
<1>6. CASE L!ParseChunks
  BY <1>6 DEF L!ParseChunks
<1>7. CASE L!Store
  BY <1>7 DEF L!Store
<1>8. CASE L!Index
  BY <1>8 DEF L!Index
<1>9. CASE L!CommitIndexed
  BY <1>9 DEF L!CommitIndexed
<1> QED
  BY <1>1, <1>2, <1>3, <1>4, <1>5, <1>6, <1>7, <1>8, <1>9 DEF L!IngestStep

\* The scraper, a crash, the promotion and the human review.
LEMMA OtherTypes ==
  ASSUME FileTypes,
         \/ (\E p \in Paths, a \in Contents : L!ScraperWrites(p, a)) /\ UNCHANGED L!sweepVars
         \/ L!PassDies /\ UNCHANGED L!sweepVars
         \/ \E a \in Contents : L!Promote(a) \/ L!Rejected(a)
  PROVE  FileTypes'
<1> USE DEF FileTypes, IngType, L!sweepVars, L!files, L!registry, L!stores, L!counters, L!fastVars,
            L!Resting, L!Statuses
<1>1. ASSUME NEW p \in Paths, NEW a \in Contents, L!ScraperWrites(p, a),
        UNCHANGED L!sweepVars PROVE FileTypes'
  BY <1>1 DEF L!ScraperWrites
<1>2. ASSUME L!PassDies, UNCHANGED L!sweepVars PROVE FileTypes'
  BY <1>2 DEF L!PassDies
<1>3. ASSUME NEW a \in Contents, L!Promote(a) PROVE FileTypes'
  BY <1>3 DEF L!Promote
<1>4. ASSUME NEW a \in Contents, L!Rejected(a) PROVE FileTypes'
  BY <1>4 DEF L!Rejected
<1> QED
  BY <1>1, <1>2, <1>3, <1>4

\* What the sweep leaves alone.
LEMMA SweepLeaves ==
  ASSUME L!SweepStep
  PROVE  UNCHANGED <<L!registry, L!stores, ing, world, writes, rejects>>
BY DEF L!SweepStep, L!ReadMain, L!ReadRegistry, L!ReadStaging, L!SweepByPath, L!ListLeftovers,
       L!SweepByHash, L!ListTransit,
       L!SweepTransit, L!EndSweep, L!fastVars, L!registry, L!stores, L!counters, L!files

\* Acting on a file that is there keeps the types.
LEMMA ActTypes ==
  ASSUME FileTypes, NEW p \in Paths, landing[p] # "none", NEW action \in L!Actions, L!Act(p, action)
  PROVE  /\ landing' \in [Paths -> Contents \cup {"none"}]
         /\ transit' \in SUBSET Contents /\ archive' \in SUBSET Contents
BY DEF FileTypes, L!Act

\* The sweep.
LEMMA SweepTypes ==
  ASSUME FileTypes, L!SweepStep
  PROVE  FileTypes'
<1> USE DEF FileTypes, SweepType, L!registry, L!stores
<1>0. UNCHANGED <<L!registry, L!stores, ing, world, writes, rejects>>
  BY SweepLeaves
<1>a. L!NoSweep \in SweepType
  BY DEF L!NoSweep, L!Statuses, L!Actions
<1>1. CASE L!ReadMain
  BY <1>1, <1>a DEF L!ReadMain, L!NoSweep, L!fastVars, L!files
<1>2. CASE L!ReadRegistry
  BY <1>2 DEF L!ReadRegistry, L!fastVars, L!files
<1>3. CASE L!ReadStaging
  <2> DEFINE staged == {a \in Contents : "staging" \in live[a]}
             rejected == {a \in sw.seen \cup staged : rejects[a]}
             act == [a \in Contents |-> L!Classify(a, staged, rejected)]
             dropped == (rejected \cup {a \in Contents : sw.status[a] = "no_text"}) \ sw.seen
             known == {a \in Contents : sw.status[a] # "none"}
             at == {uri[a] : a \in known}
  <2>1. staged \in SUBSET Contents /\ rejected \in SUBSET Contents
    OBVIOUS
  <2>2. act \in [Contents -> L!Actions]
    BY DEF L!Classify, L!Actions
  <2>3. dropped \in SUBSET Contents /\ known \in SUBSET Contents
    BY <2>1
  <2>4. \A a \in known : uri[a] \in Paths
    BY <1>3 DEF L!ReadStaging
  <2>5. at \in SUBSET Paths
    BY <2>4
  <2>6. /\ sw' = [L!NoSweep EXCEPT !.pc = "byPath", !.seen = sw.seen \cup staged, !.action = act,
                                 !.drop = dropped, !.arts = known, !.paths = at]
        /\ UNCHANGED <<L!fastVars, rejects>>
    BY <1>3 DEF L!ReadStaging
  <2> HIDE DEF staged, rejected, act, dropped, known, at
  <2>7. sw' \in SweepType /\ sw'.pc = "byPath" /\ sw'.arts = known
    BY <1>a, <2>1, <2>2, <2>3, <2>5, <2>6
  <2> QED
    BY <2>4, <2>6, <2>7 DEF L!fastVars, L!files
<1>4. ASSUME NEW a \in Contents, L!SweepByPath(a) PROVE FileTypes'
  BY <1>0, <1>4, ActTypes DEF L!SweepByPath, L!files
<1>5. CASE L!ListLeftovers
  BY <1>5 DEF L!ListLeftovers, L!fastVars, L!files
<1>6. ASSUME NEW p \in Paths, L!SweepByHash(p) PROVE FileTypes'
  BY <1>0, <1>6, ActTypes DEF L!SweepByHash, L!files
<1>7. CASE L!ListTransit
  BY <1>7 DEF L!ListTransit, L!fastVars, L!files
<1>8. ASSUME NEW a \in Contents, L!SweepTransit(a) PROVE FileTypes'
  BY <1>0, <1>8 DEF L!SweepTransit
<1>9. CASE L!EndSweep
  BY <1>9, <1>a DEF L!EndSweep, L!NoSweep, L!fastVars, L!files
<1> QED
  BY <1>1, <1>2, <1>3, <1>4, <1>5, <1>6, <1>7, <1>8, <1>9 DEF L!SweepStep

\* Together.
LEMMA FileTypesStep == FileTypes /\ [L!Next]_lvars => FileTypes'
<1> SUFFICES ASSUME FileTypes, [L!Next]_lvars PROVE FileTypes'
  OBVIOUS
<1>1. CASE UNCHANGED lvars
  BY <1>1 DEF lvars, L!fastVars, L!sweepVars, L!files, L!registry, L!stores, FileTypes
<1> QED
  BY <1>1, IngestTypes, OtherTypes, SweepTypes DEF L!Next, L!FastNext

\* A pass starts with no artifact in work.
LEMMA StartsAtFile == L!StartPass => ing'.pc = "file" /\ ing'.art = "none"
<1> SUFFICES ASSUME L!StartPass PROVE ing'.pc = "file" /\ ing'.art = "none"
  OBVIOUS
<1>1. PICK X : ing' = [L!Resting EXCEPT !.pc = "file", !.left = X]
  BY DEF L!StartPass
<1> QED
  BY <1>1 DEF L!Resting

\* The inductive form of IndexedIsQueryable: the ingester goes from the store to the
\* index and from there to the commit, and nobody takes back what it wrote.
IndexedInv ==
  /\ FileTypes
  /\ ing.pc \in {"index", "commit"} => live[ing.art] # {}
  /\ ing.pc = "commit" => ing.art \in fts
  /\ L!IndexedIsQueryable

\* Every interleaving of ingester, scraper, sweep, promotion and review keeps it.
LEMMA IndexedStep == IndexedInv /\ [L!Next]_lvars => IndexedInv'
<1> SUFFICES ASSUME IndexedInv, [L!Next]_lvars PROVE IndexedInv'
  OBVIOUS
<1> USE DEF IndexedInv, L!IndexedIsQueryable
<1>0. FileTypes'
  BY FileTypesStep
<1>i. ing \in IngType
  BY DEF FileTypes
<1>1. CASE UNCHANGED <<L!stores, L!registry, ing>>
  BY <1>0, <1>1 DEF L!registry, L!stores
<1>2. ASSUME UNCHANGED <<L!stores, L!registry>>, ing'.pc \notin {"index", "commit"} PROVE IndexedInv'
  BY <1>0, <1>2 DEF L!registry, L!stores
<1>3. ASSUME UNCHANGED L!stores, ing'.pc \notin {"index", "commit"},
             \A a \in Contents : status'[a] = "indexed" => status[a] = "indexed"
      PROVE  IndexedInv'
  BY <1>0, <1>3 DEF L!stores
<1>4. CASE L!IngestStep
  <2>1. CASE L!StartPass \/ L!EndPass
    <3>1. ing'.pc \in {"file", "rest"}
      BY <2>1, StartsAtFile DEF L!EndPass, L!Resting
    <3> QED
      BY <2>1, <3>1, <1>2 DEF L!StartPass, L!EndPass
  <2>8. ASSUME NEW p \in Paths, L!NextFile(p) PROVE IndexedInv'
    <3>1. ing'.pc \notin {"index", "commit"}
      BY <2>8, <1>i DEF L!NextFile, L!Resting, IngType
    <3> QED
      BY <2>8, <3>1, <1>2 DEF L!NextFile
  <2>2. CASE L!Register
    <3>1. ing'.pc \notin {"index", "commit"}
      <4>1. CASE ing' = L!Resting
        BY <4>1 DEF L!Resting
      <4>2. CASE \E a : ing' = [ing EXCEPT !.pc = "parse", !.art = a]
        BY <4>2, <1>i DEF IngType
      <4> QED
        BY <2>2, <4>1, <4>2 DEF L!Register
    <3>2. \A a \in Contents : status'[a] = "indexed" => status[a] = "indexed"
      <4>1. CASE landing[ing.path] = "none"
        BY <2>2, <4>1 DEF L!Register, L!registry
      <4>2. CASE landing[ing.path] # "none"
        BY <2>2, <4>2 DEF L!Register, FileTypes
      <4> QED
        BY <4>1, <4>2
    <3> QED
      BY <2>2, <3>1, <3>2, <1>3 DEF L!Register
  <2>3. CASE L!ParseFails \/ L!ParseFindsNoText
    BY <2>3, <1>3, <1>i
       DEF L!ParseFails, L!ParseFindsNoText, L!CommitWith, L!NextStep, IngType, FileTypes
  <2>4. CASE L!ParseChunks
    BY <2>4, <1>2, <1>i DEF L!ParseChunks, IngType
  <2>5. CASE L!Store
    BY <2>5, <1>0, <1>i DEF L!Store, L!registry, IngType, FileTypes
  <2>6. CASE L!Index
    BY <2>6, <1>0, <1>i DEF L!Index, L!registry, IngType, FileTypes
  <2>7. CASE L!CommitIndexed
    BY <2>7, <1>0, <1>i DEF L!CommitIndexed, L!CommitWith, L!NextStep, L!stores, IngType, FileTypes
  <2> QED
    BY <1>4, <2>1, <2>2, <2>3, <2>4, <2>5, <2>6, <2>7, <2>8 DEF L!IngestStep
<1>5. ASSUME NEW p \in Paths, NEW a \in Contents, L!ScraperWrites(p, a) PROVE IndexedInv'
  BY <1>1, <1>5 DEF L!ScraperWrites
<1>6. CASE L!PassDies
  BY <1>2, <1>6 DEF L!PassDies, L!Resting
<1>7. CASE L!SweepStep
  BY <1>1, <1>7, SweepLeaves
<1>8. ASSUME NEW a \in Contents, L!Promote(a) \/ L!Rejected(a) PROVE IndexedInv'
  BY <1>0, <1>8 DEF L!Promote, L!Rejected, FileTypes, L!registry, L!stores, L!fastVars
<1>9. CASE UNCHANGED lvars
  BY <1>1, <1>9 DEF lvars, L!registry, L!stores
<1> QED
  BY <1>4, <1>5, <1>6, <1>7, <1>8, <1>9 DEF L!Next, L!FastNext

\* A document whose source the system may not have lost.
Safe(a) == rejects[a] \/ a \in L!Kept \/ a \in astray \/ a \in lost

\* The inductive form of SourceKept: what the ingester has in work is safe as well, and
\* the sweep deletes on what it read only what it did not see live, or a rejected document.
KeptInv ==
  /\ FileTypes
  /\ \A a \in Contents : live[a] # {} \/ ing.art = a => Safe(a)
  /\ sw.pc \in {"byPath", "byHash", "transit"} =>
       \A a \in Contents : sw.action[a] = "delete" => rejects[a] \/ a \notin sw.seen

\* The second conjunct of KeptInv.
SafeAll == \A a \in Contents : live[a] # {} \/ ing.art = a => Safe(a)

\* A step of the ingester has no other artifact in work than the one whose file it has just hashed.
LEMMA IngestKeeps ==
  ASSUME KeptInv, L!IngestStep, UNCHANGED L!sweepVars
  PROVE  KeptInv'
<1>0. FileTypes'
  BY IngestTypes DEF KeptInv
<1>i. ing \in IngType
  BY DEF KeptInv, FileTypes
<1>1. UNCHANGED <<landing, transit, archive, lost, sw, rejects, astray>>
  BY DEF L!IngestStep, L!StartPass, L!EndPass, L!NextFile, L!Register, L!ParseFails,
         L!ParseFindsNoText, L!ParseChunks, L!Store,
         L!Index, L!CommitIndexed, L!files, L!counters, L!sweepVars
<1>2. \A a : Safe(a) => Safe(a)'
  BY <1>1 DEF Safe, L!Kept
<1>3. ASSUME NEW a \in Contents,
        live'[a] # {} \/ ing'.art = a PROVE live[a] # {} \/ ing.art = a \/ Safe(a)
  <2>1. CASE L!Register
    <3>1. CASE landing[ing.path] = "none"
      BY <1>3, <2>1, <3>1, ContentsAssumption DEF L!Register, L!Resting, L!stores
    <3>2. CASE landing[ing.path] # "none"
      <4>1. ing.path \in Paths /\ ing'.art = landing[ing.path] /\ live' = live
        BY <1>i, <2>1, <3>2 DEF L!Register, IngType, L!stores, KeptInv, FileTypes
      <4> QED
        BY <1>3, <4>1 DEF Safe, L!Kept
    <3> QED
      BY <3>1, <3>2
  <2>2. CASE L!Store
    BY <1>3, <1>i, <2>2 DEF L!Store, IngType, KeptInv, FileTypes
  <2>4. ASSUME NEW p \in Paths, L!NextFile(p) PROVE live[a] # {} \/ ing.art = a \/ Safe(a)
    <3>1. ing'.art \in {"none", ing.art}
      BY <1>i, <2>4 DEF L!NextFile, L!Resting, IngType
    <3> QED
      BY <1>3, <2>4, <3>1, ContentsAssumption DEF L!NextFile, L!stores
  <2>3. CASE L!StartPass \/ L!EndPass \/ L!ParseFails \/ L!ParseFindsNoText \/ L!ParseChunks
             \/ L!Index \/ L!CommitIndexed
    <3>1. CASE L!StartPass \/ L!EndPass
      BY <1>3, <3>1, StartsAtFile, ContentsAssumption DEF L!StartPass, L!EndPass, L!Resting, L!stores
    <3>2. CASE L!ParseFails \/ L!ParseFindsNoText \/ L!CommitIndexed
      BY <1>3, <1>i, <3>2, ContentsAssumption
         DEF L!ParseFails, L!ParseFindsNoText, L!CommitIndexed, L!NextStep, IngType, L!stores
    <3>3. CASE L!ParseChunks \/ L!Index
      BY <1>3, <1>i, <3>3 DEF L!ParseChunks, L!Index, IngType, L!stores
    <3> QED
      BY <2>3, <3>1, <3>2, <3>3
  <2> QED
    BY <2>1, <2>2, <2>3, <2>4 DEF L!IngestStep
<1> QED
  BY <1>0, <1>1, <1>2, <1>3 DEF KeptInv

\* A file that goes is moved, or was deleted for a reason that excuses it.
LEMMA ActKeeps ==
  ASSUME KeptInv, sw.pc \in {"byPath", "byHash", "transit"}, NEW p \in Paths, NEW c \in Contents,
          c = landing[p],
         NEW a \in Contents, NEW action, action = sw.action[a], L!Act(p, action),
         astray \subseteq astray', a # c /\ action # "skip" => c \in astray', rejects' = rejects,
         NEW b \in Contents, live[b] # {} \/ ing.art = b
  PROVE  Safe(b)'
<1>1. Safe(b)
  BY DEF KeptInv
<1>2. CASE b # c
  BY <1>1, <1>2 DEF Safe, L!Kept, L!Act, KeptInv, FileTypes
<1>3. CASE b = c /\ (action = "skip" \/ action = "archive" \/ action = "transit")
  BY <1>1, <1>3 DEF Safe, L!Kept, L!Act, KeptInv, FileTypes
<1>4. CASE b = c /\ action = "delete"
  BY <1>1, <1>4 DEF Safe, L!Kept, L!Act, L!Retried, KeptInv
<1>5. action \in L!Actions
  BY DEF KeptInv, FileTypes, SweepType
<1> QED
  BY <1>2, <1>3, <1>4, <1>5 DEF L!Actions

\* The three passes of the sweep act on what it read at its start.
LEMMA SweepKeeps ==
  ASSUME KeptInv, L!SweepStep
  PROVE  KeptInv'
<1>0. FileTypes'
  BY SweepTypes DEF KeptInv
<1>1. UNCHANGED <<live, ing, rejects>>
  BY SweepLeaves DEF L!stores
<1>s. sw \in SweepType /\ L!NoSweep \in SweepType
  BY DEF KeptInv, FileTypes, SweepType, L!NoSweep, L!Actions, L!Statuses
<1>2. CASE UNCHANGED <<L!files, lost, astray>>
  <2>1. SafeAll'
    BY <1>1, <1>2 DEF SafeAll, Safe, L!Kept, KeptInv, L!files
  <2>2. CASE L!ReadMain \/ L!ReadRegistry \/ L!EndSweep
    BY <2>1, <2>2, <1>0, <1>s
       DEF L!ReadMain, L!ReadRegistry, L!EndSweep, L!NoSweep, KeptInv, SafeAll, SweepType
  <2>3. CASE L!ReadStaging
    <3>1. \A a \in Contents : sw'.action[a] = "delete" => rejects[a] \/ a \notin sw'.seen
      BY <2>3, <1>s DEF L!ReadStaging, L!NoSweep, L!Classify, SweepType
    <3> QED
      BY <2>1, <3>1, <1>0, <1>1 DEF KeptInv, SafeAll
  <2>4. CASE L!ListLeftovers \/ L!ListTransit \/ (\E p \in Paths : L!SweepByHash(p))
             \/ (\E a \in Contents : L!SweepByPath(a) \/ L!SweepTransit(a))
    <3>1. /\ sw.pc \in {"byPath", "byHash", "transit"}
          /\ sw'.action = sw.action /\ sw'.seen = sw.seen
      BY <2>4, <1>s
         DEF L!ListLeftovers, L!ListTransit, L!SweepByHash, L!SweepByPath, L!SweepTransit, SweepType
    <3> QED
      BY <2>1, <3>1, <1>0, <1>1 DEF KeptInv, SafeAll
  <2> QED
    BY <2>2, <2>3, <2>4 DEF L!SweepStep
<1>3. ASSUME NEW a \in Contents, L!SweepByPath(a), landing[uri[a]] # "none" PROVE KeptInv'
  <2>1. uri[a] \in Paths /\ landing[uri[a]] \in Contents
    BY <1>3 DEF L!SweepByPath, KeptInv, FileTypes
  <2>2. /\ L!Act(uri[a], sw.action[a])
        /\ astray' = IF landing[uri[a]] # a /\ sw.action[a] # "skip" THEN astray \cup {landing[uri[a]]} ELSE astray
        /\ sw.pc = "byPath" /\ sw' = [sw EXCEPT !.arts = @ \ {a}]
    BY <1>3 DEF L!SweepByPath
  <2>3. astray \subseteq astray' /\ (a # landing[uri[a]] /\ sw.action[a] # "skip" => landing[uri[a]] \in astray')
    BY <2>2
  <2>4. \A b \in Contents : live[b] # {} \/ ing.art = b => Safe(b)'
    BY <1>1, <2>1, <2>2, <2>3, ActKeeps
  <2>5. sw'.pc = sw.pc /\ sw'.action = sw.action /\ sw'.seen = sw.seen
    BY <2>2, <1>s DEF SweepType
  <2> QED
    BY <1>0, <1>1, <2>4, <2>5 DEF KeptInv
<1>4. ASSUME NEW p \in Paths, L!SweepByHash(p), landing[p] # "none" PROVE KeptInv'
  <2>1. landing[p] \in Contents
    BY <1>4 DEF KeptInv, FileTypes
  <2>2. /\ L!Act(p, sw.action[landing[p]]) /\ astray' = astray
        /\ sw.pc = "byHash" /\ sw' = [sw EXCEPT !.paths = @ \ {p}]
    BY <1>4 DEF L!SweepByHash
  <2>4. \A b \in Contents : live[b] # {} \/ ing.art = b => Safe(b)'
    BY <1>1, <2>1, <2>2, ActKeeps
  <2>5. sw'.pc = sw.pc /\ sw'.action = sw.action /\ sw'.seen = sw.seen
    BY <2>2, <1>s DEF SweepType
  <2> QED
    BY <1>0, <1>1, <2>4, <2>5 DEF KeptInv
<1>5. ASSUME NEW a \in Contents, L!SweepTransit(a) PROVE KeptInv'
  <2>1. sw.pc = "transit" /\ sw'.pc = sw.pc /\ sw'.action = sw.action /\ sw'.seen = sw.seen
    BY <1>5, <1>s DEF L!SweepTransit, SweepType
  <2>2. \A b \in Contents : Safe(b) => Safe(b)'
    BY <1>5 DEF L!SweepTransit, Safe, L!Kept
  <2> QED
    BY <1>0, <1>1, <2>1, <2>2 DEF KeptInv
<1>6. CASE L!ReadMain \/ L!ReadRegistry \/ L!ReadStaging \/ L!ListLeftovers \/ L!ListTransit \/ L!EndSweep
  BY <1>2, <1>6
     DEF L!ReadMain, L!ReadRegistry, L!ReadStaging, L!ListLeftovers, L!ListTransit, L!EndSweep,
         L!fastVars, L!counters
<1>7. ASSUME NEW a \in Contents, L!SweepByPath(a), landing[uri[a]] = "none" PROVE KeptInv'
  BY <1>2, <1>7 DEF L!SweepByPath
<1>8. ASSUME NEW p \in Paths, L!SweepByHash(p), landing[p] = "none" PROVE KeptInv'
  BY <1>2, <1>8 DEF L!SweepByHash
<1> QED
  BY <1>3, <1>4, <1>5, <1>6, <1>7, <1>8 DEF L!SweepStep

\* So do the others.
LEMMA KeptStep == KeptInv /\ [L!Next]_lvars => KeptInv'
<1> SUFFICES ASSUME KeptInv, [L!Next]_lvars PROVE KeptInv'
  OBVIOUS
<1>0. FileTypes'
  BY FileTypesStep DEF KeptInv
<1>1. ASSUME NEW p \in Paths, NEW a \in Contents, L!ScraperWrites(p, a),
        UNCHANGED L!sweepVars PROVE KeptInv'
  <2>1. \A b \in Contents : Safe(b) => Safe(b)'
    BY <1>1, ContentsAssumption DEF L!ScraperWrites, L!sweepVars, Safe, L!Kept, KeptInv, FileTypes
  <2> QED
    BY <1>0, <1>1, <2>1 DEF L!ScraperWrites, L!sweepVars, L!stores, KeptInv
<1>2. ASSUME L!PassDies, UNCHANGED L!sweepVars PROVE KeptInv'
  BY <1>0, <1>2, ContentsAssumption
     DEF L!PassDies, L!Resting, L!sweepVars, L!files, L!stores, KeptInv, Safe, L!Kept
<1>3. ASSUME NEW a \in Contents, L!Promote(a) PROVE KeptInv'
  <2>1. UNCHANGED <<L!files, ing, lost, rejects, sw, astray>>
    BY <1>3 DEF L!Promote, L!sweepVars, L!counters
  <2>2. \A b \in Contents : live'[b] # {} => live[b] # {}
    BY <1>3 DEF L!Promote, KeptInv, FileTypes
  <2>3. \A b \in Contents : Safe(b)' <=> Safe(b)
    BY <2>1 DEF Safe, L!Kept, L!files
  <2> QED
    BY <1>0, <2>1, <2>2, <2>3 DEF KeptInv
<1>4. ASSUME NEW a \in Contents, L!Rejected(a) PROVE KeptInv'
  BY <1>0, <1>4
     DEF L!Rejected, L!fastVars, L!files, L!stores, L!counters, KeptInv, FileTypes, Safe, L!Kept
<1>5. CASE UNCHANGED lvars
  BY <1>0, <1>5 DEF lvars, L!fastVars, L!sweepVars, L!files, L!stores, L!counters, KeptInv, Safe, L!Kept
<1> QED
  BY <1>1, <1>2, <1>3, <1>4, <1>5, IngestKeeps, SweepKeeps DEF L!Next, L!FastNext

\* Landing is empty at the start.
LEMMA FileTypesInit == MCInit => FileTypes
  BY DEF MCInit, L!Init, L!FastInit, FileTypes, IngType, SweepType, L!Resting, L!NoSweep, L!Statuses,
         L!Actions

(* For any paths, contents, writes and crashes: an artifact marked indexed,     *)
(* which later passes skip, is in the document store and in BM25               *)
(* (fast_path.FastPathIngester.ingest: the status is committed last).          *)
THEOREM IndexedCanBeFound == MCSpec => []IndexedIsQueryable
<1>1. MCInit => IndexedInv
  BY FileTypesInit DEF MCInit, L!Init, L!FastInit, IndexedInv, L!IndexedIsQueryable, L!Resting
<1>2. [MCNext]_allVars => [L!Next]_lvars
  BY DEF MCNext, allVars, lvars
<1>3. IndexedInv => IndexedIsQueryable
  BY DEF IndexedInv, IndexedIsQueryable
<1> QED
  BY <1>1, <1>2, <1>3, IndexedStep, PTL DEF MCSpec

(* For any of them, and whatever ingester, scraper, sweep, promotion and review  *)
(* do at the same time: the source of a live document that nobody rejected is  *)
(* on disk, save for the ways out that SourceKept names                         *)
(* (landing_sweep.sweep_landing: it classifies on what it read before).         *)
THEOREM SourceStaysOnDisk == MCSpec => []SourceKept
<1>1. MCInit => KeptInv
  BY FileTypesInit, ContentsAssumption DEF MCInit, L!Init, L!FastInit, KeptInv, L!Resting, L!NoSweep
<1>2. [MCNext]_allVars => [L!Next]_lvars
  BY DEF MCNext, allVars, lvars
<1>3. KeptInv => SourceKept
  BY DEF KeptInv, SourceKept, L!SourceKept, Safe
<1> QED
  BY <1>1, <1>2, <1>3, KeptStep, PTL DEF MCSpec

-----------------------------------------------------------------------------
(* The curation of what was ingested.                                        *)

\* What a decision and a pass are made of.
DecisionType == [kind : {"none", "keep", "duplicate"}, of : Docs \cup {"none", "main"}]
PassType == [pc : {"off", "flag", "flagged", "curate", "mark", "evaluate"},
             todo : SUBSET Docs, eval : SUBSET Docs, known : SUBSET Docs,
             url : [Urls -> Docs \cup {"none"}], text : [Texts -> Docs \cup {"none"}],
             made : [Docs -> DecisionType], rejected : SUBSET Docs]

\* Decisions f in which every chain ends: what a duplicate duplicates is decided as
\* well, and a set of decided documents that holds whatever its members duplicate
\* holds one that is kept or a duplicate of main.
Ends(f) ==
  /\ \A d \in Docs : f[d].kind = "duplicate" /\ f[d].of \in Docs => f[f[d].of].kind # "none"
  /\ \A S \in SUBSET Docs :
       /\ S # {}
       /\ \A d \in S : f[d].kind # "none"
       /\ \A d \in S : f[d].kind = "duplicate" /\ f[d].of \in Docs => f[d].of \in S
       => \E o \in S : f[o].kind = "keep" \/ f[o].of = "main"

\* The documents, their files and their decisions.
CurationTypes ==
  /\ doc \in [Docs -> [url : Urls, text : Texts, origin : Origins]]
  /\ file \in [Docs -> {"absent", "transit", "deleted", "archived"}]
  /\ decision \in [Docs -> DecisionType]
  /\ review \in [Docs -> {"none", "pending", "approved", "rejected"}]
  /\ curated \in SUBSET Docs /\ main \in SUBSET Docs
  /\ pass \in PassType

\* The inductive form of DuplicateHasOriginal: only duplicates that the batch has
\* marked curated are rejected or deleted, and the decisions of the store, like those
\* of the pass, end every chain; what the url and text maps point to is decided.
OriginalInv ==
  /\ CurationTypes
  /\ Ends(decision)
  /\ \A d \in Docs : file[d] = "deleted" \/ review[d] = "rejected" \/ d \in pass.rejected =>
       d \in curated /\ decision[d].kind = "duplicate"
  /\ pass.todo \cap curated = {}
  /\ pass.eval \subseteq curated \cup pass.todo
  /\ Ends(pass.made)
  /\ \A d \in Docs : pass.made[d].kind = "none" => pass.made[d] = Undecided
  /\ \A d \in Docs : pass.made[d].kind # "none" => d \in pass.todo
  /\ \A u \in Urls : pass.url[u] # "none" => pass.made[pass.url[u]].kind # "none"
  /\ \A t \in Texts : pass.text[t] # "none" => pass.made[pass.text[t]].kind # "none"
  /\ pass.pc = "evaluate" => pass.todo = {}
  /\ pass.pc \in {"flag", "flagged"} => \A d \in Docs : pass.made[d] = Undecided

\* One more decision, to keep or as a duplicate of main or of a decided document.
LEMMA OneMoreEnds ==
  ASSUME NEW f \in [Docs -> DecisionType], Ends(f), NEW d \in Docs, f[d] = Undecided,
         NEW new \in DecisionType,
         \/ new.kind = "keep"
         \/ new.kind = "duplicate" /\ new.of = "main"
         \/ new.kind = "duplicate" /\ new.of \in Docs /\ f[new.of].kind # "none"
  PROVE  Ends([f EXCEPT ![d] = new])
<1> DEFINE g == [f EXCEPT ![d] = new]
<1>1. g[d] = new /\ \A x \in Docs : x # d => g[x] = f[x]
  OBVIOUS
<1>2. f[d].kind = "none" /\ new.kind # "none" /\ "main" \notin Docs
  BY DocsAssumption DEF Undecided
<1> HIDE DEF g
<1>3. \A x \in Docs : g[x].kind = "duplicate" /\ g[x].of \in Docs => g[g[x].of].kind # "none"
  BY <1>1, <1>2 DEF Ends
<1>4. ASSUME NEW S \in SUBSET Docs, S # {}, \A x \in S : g[x].kind # "none",
             \A x \in S : g[x].kind = "duplicate" /\ g[x].of \in Docs => g[x].of \in S
      PROVE  \E o \in S : g[o].kind = "keep" \/ g[o].of = "main"
  <2>1. CASE d \in S /\ (new.kind = "keep" \/ new.of = "main")
    BY <1>1, <2>1
  <2>2. CASE d \in S /\ new.kind = "duplicate" /\ new.of \in Docs /\ f[new.of].kind # "none"
    <3>1. new.of \in S \ {d}
      BY <1>1, <1>2, <1>4, <2>2
    <3>2. \A x \in S \ {d} : f[x].kind # "none" /\ g[x] = f[x]
      BY <1>1, <1>4
    <3>3. \A x \in S \ {d} : f[x].kind = "duplicate" /\ f[x].of \in Docs => f[x].of \in S \ {d}
      BY <1>2, <1>4, <3>2 DEF Ends
    <3>4. PICK o \in S \ {d} : f[o].kind = "keep" \/ f[o].of = "main"
      BY <3>1, <3>2, <3>3 DEF Ends
    <3> QED
      BY <3>2, <3>4
  <2>3. CASE d \notin S
    <3>1. \A x \in S : g[x] = f[x]
      BY <1>1, <2>3
    <3> QED
      BY <1>4, <3>1 DEF Ends
  <2> QED
    BY <2>1, <2>2, <2>3
<1> QED
  BY <1>3, <1>4 DEF Ends, g

\* The decisions of a pass on T take the place of the stored ones.
LEMMA SavedEnds ==
  ASSUME NEW f \in [Docs -> DecisionType], NEW m \in [Docs -> DecisionType], NEW T \in SUBSET Docs,
         Ends(f), Ends(m),
         \A d \in T : m[d].kind # "none", \A d \in Docs \ T : m[d].kind = "none",
         NEW g, \A d \in T : g[d] = m[d], \A d \in Docs \ T : g[d] = f[d]
  PROVE  Ends(g)
<1>2. \A x \in T : m[x].kind = "duplicate" /\ m[x].of \in Docs => m[x].of \in T
  BY DEF Ends
<1>3. \A x \in Docs : g[x].kind = "duplicate" /\ g[x].of \in Docs => g[g[x].of].kind # "none"
  BY <1>2 DEF Ends
<1>4. ASSUME NEW S \in SUBSET Docs, S # {}, \A x \in S : g[x].kind # "none",
             \A x \in S : g[x].kind = "duplicate" /\ g[x].of \in Docs => g[x].of \in S
      PROVE  \E o \in S : g[o].kind = "keep" \/ g[o].of = "main"
  <2>1. CASE S \cap T # {}
    <3>1. \A x \in S \cap T : m[x].kind = "duplicate" /\ m[x].of \in Docs => m[x].of \in S \cap T
      BY <1>2, <1>4
    <3>2. PICK o \in S \cap T : m[o].kind = "keep" \/ m[o].of = "main"
      BY <2>1, <3>1 DEF Ends
    <3> QED
      BY <3>2
  <2>2. CASE S \cap T = {}
    <3>1. \A x \in S : g[x] = f[x]
      BY <2>2
    <3>2. \A x \in S : f[x].kind # "none" /\ (f[x].kind = "duplicate" /\ f[x].of \in Docs => f[x].of \in S)
      BY <1>4, <3>1
    <3>3. PICK o \in S : f[o].kind = "keep" \/ f[o].of = "main"
      BY <1>4, <3>2 DEF Ends
    <3> QED
      BY <3>1, <3>3
  <2> QED
    BY <2>1, <2>2
<1> QED
  BY <1>3, <1>4 DEF Ends

\* So do the copies of main that the pass flags.
LEMMA FlaggedEnds ==
  ASSUME NEW f \in [Docs -> DecisionType], NEW T \in SUBSET Docs, Ends(f)
  PROVE  Ends([d \in Docs |-> IF d \in T THEN OfMain ELSE f[d]])
<1> DEFINE g == [d \in Docs |-> IF d \in T THEN OfMain ELSE f[d]]
<1>1. /\ \A x \in T : g[x] = OfMain
      /\ \A x \in Docs \ T : g[x] = f[x]
      /\ OfMain.kind = "duplicate" /\ OfMain.of = "main" /\ "main" \notin Docs
  BY DocsAssumption DEF OfMain
<1> HIDE DEF g
<1>3. \A x \in Docs : g[x].kind = "duplicate" /\ g[x].of \in Docs => g[g[x].of].kind # "none"
  BY <1>1 DEF Ends
<1>4. ASSUME NEW S \in SUBSET Docs, S # {}, \A x \in S : g[x].kind # "none",
             \A x \in S : g[x].kind = "duplicate" /\ g[x].of \in Docs => g[x].of \in S
      PROVE  \E o \in S : g[o].kind = "keep" \/ g[o].of = "main"
  <2>1. CASE S \cap T # {}
    BY <1>1, <2>1
  <2>2. CASE S \cap T = {}
    <3>1. \A x \in S : g[x] = f[x]
      BY <1>1, <2>2
    <3> QED
      BY <1>4, <3>1 DEF Ends
  <2> QED
    BY <2>1, <2>2
<1> QED
  BY <1>3, <1>4 DEF Ends, g

\* What ends every chain ends the chain of a deleted document.
LEMMA OriginalImplies == OriginalInv => DuplicateHasOriginal
<1> SUFFICES ASSUME OriginalInv, NEW d \in Docs, file[d] = "deleted", NEW S \in SUBSET Docs, d \in S, Chained(S)
             PROVE  \E o \in S : Original(o)
  BY DEF DuplicateHasOriginal
<1> DEFINE D == {x \in S : decision[x].kind # "none"}
<1>1. D \in SUBSET Docs /\ d \in D
  BY DEF OriginalInv
<1>2. \A x \in D : decision[x].kind = "duplicate" /\ decision[x].of \in Docs => decision[x].of \in D
  BY DEF OriginalInv, Ends, Chained
<1>3. \A x \in D : decision[x].kind # "none" /\ x \in S
  OBVIOUS
<1> HIDE DEF D
<1>4. PICK o \in D : decision[o].kind = "keep" \/ decision[o].of = "main"
  BY <1>1, <1>2, <1>3 DEF OriginalInv, Ends
<1>5. decision[o].kind \in {"keep", "duplicate"}
  BY <1>1, <1>3 DEF OriginalInv, CurationTypes, DecisionType
<1> QED
  BY <1>1, <1>3, <1>4, <1>5 DEF OriginalInv, Original

\* A pass that is over, or has not begun to decide.
LEMMA NothingDecided ==
  ASSUME NEW made \in [Docs -> DecisionType], \A d \in Docs : made[d] = Undecided
  PROVE  Ends(made) /\ \A d \in Docs : made[d].kind = "none"
BY DEF Ends, Undecided

\* A pass that is over holds nothing.
LEMMA NoPassType ==
  /\ NoPass \in PassType /\ NoPass.pc = "off"
  /\ NoPass.todo = {} /\ NoPass.eval = {} /\ NoPass.rejected = {}
  /\ \A d \in Docs : NoPass.made[d] = Undecided
  /\ \A u \in Urls : NoPass.url[u] = "none"
  /\ \A t \in Texts : NoPass.text[t] = "none"
BY DEF NoPass, PassType, DecisionType, Undecided

\* The verdict of the gates on d.
LEMMA DecideCases ==
  ASSUME OriginalInv, NEW d \in Docs, NEW late \in BOOLEAN, NEW near \in BOOLEAN, NEW new, new = Decide(d,
         late, near)
  PROVE  /\ new \in DecisionType
         /\ \/ new.kind = "keep"
            \/ new.kind = "duplicate" /\ new.of = "main"
            \/ new.kind = "duplicate" /\ new.of \in Docs /\ pass.made[new.of].kind # "none"
<1>1. doc[d].url \in Urls /\ doc[d].text \in Texts
  BY DEF OriginalInv, CurationTypes
<1> DEFINE u == pass.url[doc[d].url]
           t == pass.text[doc[d].text]
<1>2. u \in Docs \cup {"none"} /\ t \in Docs \cup {"none"}
  BY <1>1 DEF OriginalInv, CurationTypes, PassType
<1>3. (u # "none" => pass.made[u].kind # "none") /\ (t # "none" => pass.made[t].kind # "none")
  BY <1>1 DEF OriginalInv
<1> HIDE DEF u, t
<1>4. \/ new = [kind |-> "keep", of |-> "none"]
      \/ new = OfMain
      \/ u # "none" /\ new = [kind |-> "duplicate", of |-> u]
      \/ t # "none" /\ new = [kind |-> "duplicate", of |-> t]
  BY DEF Decide, u, t
<1>5. CASE new = [kind |-> "keep", of |-> "none"]
  BY <1>5 DEF DecisionType
<1>6. CASE new = OfMain
  BY <1>6 DEF OfMain, DecisionType
<1>7. ASSUME NEW x \in Docs, pass.made[x].kind # "none", new = [kind |-> "duplicate", of |-> x]
      PROVE  /\ new \in DecisionType
             /\ new.kind = "duplicate" /\ new.of \in Docs /\ pass.made[new.of].kind # "none"
  BY <1>7 DEF DecisionType
<1> QED
  BY <1>2, <1>3, <1>4, <1>5, <1>6, <1>7

\* Every step of a pass, a stop of it, and what happens beside it.
LEMMA OriginalStep == OriginalInv /\ [Next]_vars => OriginalInv'
<1> SUFFICES ASSUME OriginalInv, [Next]_vars PROVE OriginalInv'
  OBVIOUS
<1> USE DocsAssumption
<1>p. pass \in PassType /\ pass.made \in [Docs -> DecisionType] /\ decision \in [Docs -> DecisionType]
  BY DEF OriginalInv, CurationTypes, PassType
<1>n. UNCHANGED decision => Ends(decision)'
  BY DEF OriginalInv, Ends
<1>m. UNCHANGED pass => Ends(pass.made)'
  BY DEF OriginalInv, Ends
<1>0. ASSUME UNCHANGED <<decision, review, curated, doc>>, file' \in [Docs -> {"absent", "transit", "deleted", "archived"}],
             \A d \in Docs : file'[d] = "deleted" => file[d] = "deleted" \/ review[d] = "rejected",
             main' \in SUBSET Docs, pass' = NoPass \/ pass' = pass
      PROVE  OriginalInv'
  <2>1. CASE pass' = NoPass
    BY <1>0, <2>1, <1>n, NoPassType, NothingDecided DEF OriginalInv, CurationTypes, PassType
  <2>2. CASE pass' = pass
    BY <1>0, <2>2, <1>n, <1>m DEF OriginalInv, CurationTypes
  <2> QED
    BY <1>0, <2>1, <2>2
<1>1. ASSUME NEW d \in Docs, Ingest(d) PROVE OriginalInv'
  BY <1>0, <1>1 DEF Ingest, OriginalInv, CurationTypes
<1>2. CASE StartPass
  <2> DEFINE new == Ingested \ curated
             pending == PendingEval
  <2>1. new \in SUBSET Docs /\ pending \in SUBSET Docs /\ new \cap curated = {} /\ pending \subseteq curated \cup new
    BY DEF Ingested, PendingEval
  <2>2. pass' = [NoPass EXCEPT !.pc = "flag", !.todo = new, !.eval = pending]
        /\ UNCHANGED <<doc, file, decision, review, curated, main>>
    BY <1>2 DEF StartPass
  <2> HIDE DEF new, pending
  <2>3. /\ pass' \in PassType /\ pass'.todo = new /\ pass'.eval = pending /\ pass'.made = NoPass.made
        /\ pass'.url = NoPass.url /\ pass'.text = NoPass.text /\ pass'.rejected = {}
    BY <2>1, <2>2, NoPassType DEF PassType
  <2>4. Ends(pass.made)' /\ \A d \in Docs : pass'.made[d] = Undecided /\ pass'.made[d].kind = "none"
    BY <2>3, NoPassType, NothingDecided DEF PassType
  <2> QED
    BY <2>1, <2>2, <2>3, <2>4, <1>n, NoPassType DEF OriginalInv, CurationTypes
<1>3. CASE SaveFlagged
  <2>1. /\ decision' = [d \in Docs |-> IF d \in Flagged THEN OfMain ELSE decision[d]]
        /\ review' = [d \in Docs |-> IF d \in Flagged THEN "approved" ELSE review[d]]
        /\ pass' = [pass EXCEPT !.pc = "flagged"] /\ pass.pc = "flag"
        /\ UNCHANGED <<doc, file, curated, main>>
    BY <1>3 DEF SaveFlagged
  <2>2. Flagged \in SUBSET Docs /\ Flagged \cap curated = {}
    BY <1>p DEF Flagged, PassType, OriginalInv
  <2>3. decision' \in [Docs -> DecisionType] /\ review' \in [Docs -> {"none", "pending", "approved", "rejected"}]
    BY <2>1, <1>p DEF OfMain, DecisionType, OriginalInv, CurationTypes
  <2>4. Ends(decision)'
    BY <2>1, <2>2, <1>p, FlaggedEnds DEF OriginalInv
  <2>5. /\ pass' \in PassType /\ pass'.pc = "flagged" /\ pass'.todo = pass.todo /\ pass'.eval = pass.eval
        /\ pass'.made = pass.made /\ pass'.url = pass.url /\ pass'.text = pass.text /\ pass'.rejected = pass.rejected
    BY <2>1, <1>p DEF PassType
  <2>6. \A d \in curated : decision'[d] = decision[d] /\ review'[d] = review[d]
    BY <2>1, <2>2 DEF OriginalInv, CurationTypes
  <2>7. \A d \in Docs \ curated : review'[d] = "rejected" => review[d] = "rejected"
    BY <2>1
  <2>8. Ends(pass.made)'
    BY <2>5 DEF OriginalInv
  <2>11. pass.pc = "flag" /\ UNCHANGED <<doc, file, curated, main>>
    BY <2>1
  <2>12. \A d \in Docs : file'[d] = "deleted" \/ review'[d] = "rejected" \/ d \in pass'.rejected =>
           d \in curated' /\ decision'[d].kind = "duplicate"
    BY <2>5, <2>6, <2>7, <2>11 DEF OriginalInv
  <2> QED
    BY <2>3, <2>4, <2>5, <2>8, <2>11, <2>12 DEF OriginalInv, CurationTypes
<1>4. CASE MarkFlagged
  <2>1. /\ curated' = curated \cup Flagged
        /\ pass' = [pass EXCEPT !.pc = "curate", !.todo = pass.todo \ flagged, !.known = main] /\ pass.pc = "flagged"
        /\ UNCHANGED <<doc, file, decision, review, main>>
    BY <1>4 DEF MarkFlagged
  <2>2. Flagged \in SUBSET Docs /\ Flagged = pass.todo \cap flagged
    BY <1>p DEF Flagged, PassType
  <2>3. /\ pass' \in PassType /\ pass'.pc = "curate" /\ pass'.todo = pass.todo \ flagged /\ pass'.eval = pass.eval
        /\ pass'.made = pass.made /\ pass'.url = pass.url /\ pass'.text = pass.text /\ pass'.rejected = pass.rejected
    BY <2>1, <1>p DEF PassType, OriginalInv, CurationTypes
  <2>4. \A d \in Docs : pass.made[d].kind = "none"
    BY <2>1 DEF OriginalInv, Undecided
  <2>5. Ends(pass.made)'
    BY <2>3 DEF OriginalInv
  <2> QED
    BY <2>1, <2>2, <2>3, <2>4, <2>5, <1>n DEF OriginalInv, CurationTypes
<1>5. ASSUME NEW d \in Docs, Curate(d) PROVE OriginalInv'
  <2>1. PICK late \in BOOLEAN, near \in Near(d) :
          pass' = [pass EXCEPT !.made[d] = Decide(d, late, near), !.url[doc[d].url] = d, !.text[doc[d].text] = d]
    BY <1>5 DEF Curate
  <2>2. near \in BOOLEAN
    BY DEF Near
  <2>3. PICK new \in DecisionType :
          /\ new = Decide(d, late, near)
          /\ \/ new.kind = "keep"
             \/ new.kind = "duplicate" /\ new.of = "main"
             \/ new.kind = "duplicate" /\ new.of \in Docs /\ pass.made[new.of].kind # "none"
    BY <2>2, DecideCases
  <2>4. /\ pass.pc = "curate" /\ d \in pass.todo /\ pass.made[d] = Undecided
        /\ UNCHANGED <<doc, file, decision, review, curated, main>>
    BY <1>5 DEF Curate
  <2>5. doc[d].url \in Urls /\ doc[d].text \in Texts
    BY DEF OriginalInv, CurationTypes
  <2>6. /\ pass' \in PassType /\ pass'.pc = "curate" /\ pass'.todo = pass.todo /\ pass'.eval = pass.eval
        /\ pass'.made = [pass.made EXCEPT ![d] = new] /\ pass'.rejected = pass.rejected
        /\ pass'.url = [pass.url EXCEPT ![doc[d].url] = d] /\ pass'.text = [pass.text EXCEPT ![doc[d].text] = d]
    BY <2>1, <2>3, <2>4, <2>5, <1>p DEF PassType
  <2>7. Ends(pass.made)'
    BY <2>3, <2>4, <2>6, <1>p, OneMoreEnds DEF OriginalInv
  <2>8. /\ pass'.made[d] = new /\ new.kind # "none"
        /\ \A x \in Docs : x # d => pass'.made[x] = pass.made[x]
    BY <2>3, <2>6, <1>p
  <2>9. \A u \in Urls : pass'.url[u] # "none" => pass'.made[pass'.url[u]].kind # "none"
    BY <2>5, <2>6, <2>8, <1>p DEF OriginalInv, PassType
  <2>10. \A t \in Texts : pass'.text[t] # "none" => pass'.made[pass'.text[t]].kind # "none"
    BY <2>5, <2>6, <2>8, <1>p DEF OriginalInv, PassType
  <2> QED
    BY <2>4, <2>6, <2>7, <2>8, <2>9, <2>10, <1>n DEF OriginalInv, CurationTypes
<1>6. CASE SaveDecisions
  <2>1. /\ decision' = [d \in Docs |-> IF d \in pass.todo THEN pass.made[d] ELSE decision[d]]
        /\ review' = [d \in Docs |-> IF d \in pass.todo THEN "pending" ELSE review[d]]
        /\ pass' = [pass EXCEPT !.pc = "mark"] /\ \A d \in pass.todo : pass.made[d] # Undecided
        /\ UNCHANGED <<doc, file, curated, main>>
    BY <1>6 DEF SaveDecisions
  <2>2. pass.todo \in SUBSET Docs
    BY <1>p DEF PassType
  <2>3. decision' \in [Docs -> DecisionType] /\ review' \in [Docs -> {"none", "pending", "approved", "rejected"}]
    BY <2>1, <1>p DEF OriginalInv, CurationTypes
  <2>9. /\ \A d \in pass.todo : pass.made[d].kind # "none"
        /\ \A d \in Docs \ pass.todo : pass.made[d].kind = "none"
    BY <2>1, <2>2 DEF OriginalInv
  <2>10. Ends(decision) /\ Ends(pass.made)
    BY DEF OriginalInv
  <2>4. Ends(decision)'
    <3>1. pass.made \in [Docs -> DecisionType] /\ decision \in [Docs -> DecisionType]
      BY <1>p
    <3>2. decision' = [d \in Docs |-> IF d \in pass.todo THEN pass.made[d] ELSE decision[d]]
      BY <2>1
    <3>3. /\ \A d \in pass.todo : decision'[d] = pass.made[d]
          /\ \A d \in Docs \ pass.todo : decision'[d] = decision[d]
      BY <2>2, <3>2
    <3> QED
      BY <2>2, <2>9, <2>10, <3>1, <3>3, SavedEnds
  <2>5. /\ pass' \in PassType /\ pass'.pc = "mark" /\ pass'.todo = pass.todo /\ pass'.eval = pass.eval
        /\ pass'.made = pass.made /\ pass'.url = pass.url /\ pass'.text = pass.text /\ pass'.rejected = pass.rejected
    BY <2>1, <1>p DEF PassType
  <2>6. \A d \in curated : decision'[d] = decision[d] /\ review'[d] = review[d]
    BY <2>1, <2>2 DEF OriginalInv, CurationTypes
  <2>7. \A d \in Docs \ curated : review'[d] = "rejected" => review[d] = "rejected"
    BY <2>1
  <2>8. Ends(pass.made)'
    BY <2>5 DEF OriginalInv
  <2>11. UNCHANGED <<doc, file, curated, main>>
    BY <2>1
  <2>12. \A d \in Docs : file'[d] = "deleted" \/ review'[d] = "rejected" \/ d \in pass'.rejected =>
           d \in curated' /\ decision'[d].kind = "duplicate"
    BY <2>5, <2>6, <2>7, <2>11 DEF OriginalInv
  <2> QED
    BY <2>3, <2>4, <2>5, <2>8, <2>11, <2>12 DEF OriginalInv, CurationTypes
<1>7. CASE MarkCurated
  <2>1. /\ curated' = curated \cup pass.todo
        /\ pass' = [NoPass EXCEPT !.pc = "evaluate", !.eval = pass.eval]
        /\ UNCHANGED <<doc, file, decision, review, main>>
    BY <1>7 DEF MarkCurated
  <2>2. pass.todo \in SUBSET Docs /\ pass.eval \in SUBSET Docs
    BY <1>p DEF PassType
  <2>3. /\ pass' \in PassType /\ pass'.pc = "evaluate" /\ pass'.todo = {} /\ pass'.eval = pass.eval /\ pass'.made = NoPass.made
        /\ pass'.url = NoPass.url /\ pass'.text = NoPass.text /\ pass'.rejected = {}
    BY <2>1, <2>2, NoPassType DEF PassType
  <2>4. Ends(pass.made)' /\ \A d \in Docs : pass'.made[d] = Undecided /\ pass'.made[d].kind = "none"
    BY <2>3, NoPassType, NothingDecided DEF PassType
  <2> QED
    BY <2>1, <2>2, <2>3, <2>4, <1>n, NoPassType DEF OriginalInv, CurationTypes
<1>8. ASSUME NEW d \in Docs, Evaluate(d) PROVE OriginalInv'
  <2> DEFINE X == pass.eval \ {d}
  <2>0. X \in SUBSET Docs /\ pass.rejected \in SUBSET Docs /\ pass.rejected \cup {d} \in SUBSET Docs
    BY <1>p DEF PassType
  <2>1. PICK Y \in SUBSET Docs :
          /\ pass' = [pass EXCEPT !.eval = X, !.rejected = Y]
          /\ \A x \in Y : x \in pass.rejected \/ (x = d /\ decision[d].kind = "duplicate")
    <3> USE <2>0
    <3>1. CASE Promotable(d) \/ decision[d].kind # "duplicate"
      <4>1. pass' = [pass EXCEPT !.eval = X, !.rejected = pass.rejected]
        BY <1>8, <3>1, <1>p DEF Evaluate, PassType
      <4> WITNESS pass.rejected \in SUBSET Docs
      <4> QED
        BY <4>1
    <3>2. CASE ~Promotable(d) /\ decision[d].kind = "duplicate"
      <4>1. pass' = [pass EXCEPT !.eval = X, !.rejected = pass.rejected \cup {d}]
        BY <1>8, <3>2 DEF Evaluate
      <4> WITNESS pass.rejected \cup {d} \in SUBSET Docs
      <4> QED
        BY <3>2, <4>1
    <3> QED
      BY <3>1, <3>2
  <2> HIDE DEF X
  <2>2. pass.pc = "evaluate" /\ d \in pass.eval /\ UNCHANGED <<doc, file, decision, review, curated, main>>
    BY <1>8 DEF Evaluate
  <2>3. /\ pass' \in PassType /\ pass'.pc = "evaluate" /\ pass'.todo = pass.todo /\ pass'.eval = X /\ X \subseteq pass.eval
        /\ pass'.made = pass.made
        /\ pass'.url = pass.url /\ pass'.text = pass.text /\ pass'.rejected = Y
    BY <2>0, <2>1, <2>2, <1>p DEF PassType, X
  <2>5. Ends(pass.made)'
    BY <2>3 DEF OriginalInv
  <2>6. \A x \in Docs : file'[x] = "deleted" \/ review'[x] = "rejected" \/ x \in pass'.rejected =>
           x \in curated' /\ decision'[x].kind = "duplicate"
    BY <2>1, <2>2, <2>3 DEF OriginalInv
  <2> QED
    BY <2>2, <2>3, <2>5, <2>6, <1>n DEF OriginalInv, CurationTypes
<1>9. CASE MarkRejected
  <2>1. /\ review' = [d \in Docs |-> IF d \in pass.rejected THEN "rejected" ELSE review[d]]
        /\ pass' = NoPass /\ UNCHANGED <<doc, file, decision, curated, main>>
    BY <1>9 DEF MarkRejected
  <2>2. Ends(pass.made)' /\ \A d \in Docs : pass'.made[d] = Undecided /\ pass'.made[d].kind = "none"
    BY <2>1, NoPassType, NothingDecided DEF PassType
  <2>3. \A d \in Docs : review'[d] = "rejected" => review[d] = "rejected" \/ d \in pass.rejected
    BY <2>1
  <2>4. review' \in [Docs -> {"none", "pending", "approved", "rejected"}]
    BY <2>1 DEF OriginalInv, CurationTypes
  <2> QED
    BY <2>1, <2>2, <2>3, <2>4, <1>n, NoPassType DEF OriginalInv, CurationTypes
<1>10. CASE Stop
  BY <1>0, <1>10 DEF Stop, OriginalInv, CurationTypes
<1>11. ASSUME NEW d \in Docs, Promote(d) PROVE OriginalInv'
  BY <1>0, <1>11 DEF Promote, OriginalInv, CurationTypes
<1>12. ASSUME NEW d \in Docs, Sweep(d) PROVE OriginalInv'
  BY <1>0, <1>12 DEF Sweep, OriginalInv, CurationTypes
<1>13. CASE UNCHANGED vars
  BY <1>0, <1>13 DEF vars, OriginalInv, CurationTypes
<1> QED
  BY <1>1, <1>2, <1>3, <1>4, <1>5, <1>6, <1>7, <1>8, <1>9, <1>10, <1>11, <1>12, <1>13 DEF Next, PassStep

\* Nothing is decided at the start.
LEMMA OriginalInit == Init => OriginalInv
<1> SUFFICES ASSUME Init PROVE OriginalInv
  OBVIOUS
<1>1. doc \in [Docs -> [url : Urls, text : Texts, origin : Origins]]
  BY DocsAssumption DEF Init
<1>2. decision \in [Docs -> DecisionType] /\ Ends(decision)
  BY NothingDecided DEF Init, DecisionType, Undecided
<1>3. Ends(NoPass.made)
  BY NoPassType, NothingDecided DEF PassType
<1> QED
  BY <1>1, <1>2, <1>3, NoPassType DEF Init, OriginalInv, CurationTypes, Undecided

(* For any documents, addresses and texts, in whatever order a batch comes and  *)
(* wherever a pass dies: the chain of duplicates of a deleted document ends at  *)
(* one that is kept or in main (reporter_curation.ReporterCurator, its url and  *)
(* text gates; idle_enrichment.py marks as rejected what is stored as decided). *)
THEOREM DuplicatesKeepOriginals == MCSpec => []DuplicateHasOriginal
<1>1. MCInit => OriginalInv
  BY OriginalInit DEF MCInit
<1>2. [MCNext]_allVars => [Next]_vars
  BY DEF MCNext, allVars
<1> QED
  BY <1>1, <1>2, OriginalStep, OriginalImplies, PTL DEF MCSpec
=============================================================================
