------------------------------ MODULE LandingSweep ------------------------------
(***************************************************************************)
(* The Landing sweep (ingestion/landing_sweep.py) beside the ingester, the *)
(* promotion worker and the human review.  A sweep reads the registry, the *)
(* stores and the reviews one after the other, classifies every artifact   *)
(* with what it read, and then moves and deletes files.                    *)
(***************************************************************************)
EXTENDS FastPath

VARIABLES
  review,   \* per artifact, whether its newest review rejects it
  sw,       \* the sweep: step, what it read, and what is left of the current phase
  astray    \* history: contents removed from Landing under the name of another artifact

sweepVars == <<review, sw, astray>>
vars == <<fastVars, sweepVars>>

Actions == {"archive", "delete", "transit", "skip"}

NoSweep == [pc |-> "rest", seen |-> {}, status |-> [a \in Contents |-> "none"],
            action |-> [a \in Contents |-> "skip"], drop |-> {}, arts |-> {}, paths |-> {}]

TypeOK ==
  /\ FastTypeOK
  /\ review \in [Contents -> BOOLEAN]
  /\ sw \in [pc : {"rest", "registry", "staging", "byPath", "byHash", "transit"},
             seen : SUBSET Contents, status : [Contents -> Statuses],
             action : [Contents -> Actions], drop : SUBSET Contents,
             arts : SUBSET Contents, paths : SUBSET Paths]
  /\ astray \subseteq Contents

Init ==
  /\ FastInit
  /\ review = [a \in Contents |-> FALSE] /\ sw = NoSweep
  /\ astray = {}

(***************************************************************************)
(* What the sweep reads, in the order it reads it.                         *)
(***************************************************************************)
ReadMain ==
  /\ sw.pc = "rest"
  /\ sw' = [NoSweep EXCEPT !.pc = "registry", !.seen = {a \in Contents : "main" \in live[a]}]
  /\ UNCHANGED <<fastVars, review, astray>>

ReadRegistry ==
  /\ sw.pc = "registry"
  /\ sw' = [sw EXCEPT !.pc = "staging", !.status = status]
  /\ UNCHANGED <<fastVars, review, astray>>

\* Mutants of Classify.
ClassifyByStatus(a, staged, rejected) ==
  IF a \in sw.seen THEN "archive" ELSE IF a \in rejected THEN "delete"
  ELSE IF sw.status[a] = "indexed" THEN "transit"
  ELSE IF sw.status[a] \in {"failed", "no_text"} THEN "delete" ELSE "skip"
ClassifyKeepsBlank(a, staged, rejected) ==
  IF a \in sw.seen THEN "archive" ELSE IF a \in rejected THEN "delete"
  ELSE IF a \in staged \/ sw.status[a] = "indexed" THEN "transit"
  ELSE IF sw.status[a] = "failed" THEN "delete" ELSE "skip"

\* A review names a document, and counts only for one that some store holds live.  What waits for
\* its confirmation is in the staging store anyway.
Classify(a, staged, rejected) ==
  IF a \in sw.seen THEN "archive"
  ELSE IF a \in rejected THEN "delete"
  ELSE IF a \in staged \/ sw.status[a] = "indexed" THEN "transit"
  ELSE IF sw.status[a] \in {"failed", "no_text"} THEN "delete"
  ELSE "skip"

ReadStaging ==
  /\ sw.pc = "staging"
  /\ LET staged   == {a \in Contents : "staging" \in live[a]}
         rejected == {a \in sw.seen \cup staged : review[a]} IN
       sw' = [NoSweep EXCEPT
         !.pc = "byPath",
         !.seen = sw.seen \cup staged,
         !.action = [a \in Contents |-> Classify(a, staged, rejected)],
         !.drop = (rejected \cup {a \in Contents : sw.status[a] = "no_text"}) \ sw.seen,
         !.arts = {a \in Contents : sw.status[a] # "none"},
         !.paths = {uri[a] : a \in {c \in Contents : sw.status[c] # "none"}}]
  /\ UNCHANGED <<fastVars, review, astray>>

(***************************************************************************)
(* What it does to a Landing file: copy by content, then delete.           *)
(***************************************************************************)
\* An artifact whose document the sweep did not see, and that is being or has been retried.
Retried(c) == c \notin sw.seen /\ (ing.art = c \/ live[c] # {})

Act(p, action) ==
  LET c == landing[p] IN
  /\ landing' = IF action = "skip" THEN landing ELSE [landing EXCEPT ![p] = "none"]
  /\ archive' = IF action = "archive" THEN archive \cup {c} ELSE archive
  /\ transit' = IF action = "transit" THEN transit \cup {c} ELSE transit
  /\ lost' = IF action = "delete" /\ Retried(c) THEN lost \cup {c} ELSE lost

\* First pass: the file at the registered path, whatever it holds now.
SweepByPath(a) ==
  /\ sw.pc = "byPath" /\ a \in sw.arts
  /\ LET p == uri[a] IN
       IF landing[p] = "none" THEN UNCHANGED <<files, lost, astray>>
       ELSE /\ Act(p, sw.action[a])
            /\ astray' = IF landing[p] # a /\ sw.action[a] # "skip" THEN astray \cup {landing[p]} ELSE astray
  /\ sw' = [sw EXCEPT !.arts = @ \ {a}]
  /\ UNCHANGED <<registry, stores, ing, world, writes, review>>

\* Second pass: the files at paths no artifact is registered at, by content.
ListLeftovers ==
  /\ sw.pc = "byPath" /\ sw.arts = {}
  /\ sw' = [sw EXCEPT !.pc = "byHash", !.paths = {p \in Paths : landing[p] # "none"} \ sw.paths]
  /\ UNCHANGED <<fastVars, review, astray>>

SweepByHash(p) ==
  /\ sw.pc = "byHash" /\ p \in sw.paths
  /\ IF landing[p] = "none" THEN UNCHANGED <<files, lost>> ELSE Act(p, sw.action[landing[p]])
  /\ sw' = [sw EXCEPT !.paths = @ \ {p}]
  /\ UNCHANGED <<registry, stores, ing, world, writes, review, astray>>

\* Third pass: what is already in Transit.
ListTransit ==
  /\ sw.pc = "byHash" /\ sw.paths = {}
  /\ sw' = [sw EXCEPT !.pc = "transit", !.arts = transit]
  /\ UNCHANGED <<fastVars, review, astray>>

SweepTransit(a) ==
  /\ sw.pc = "transit" /\ a \in sw.arts
  /\ archive' = IF sw.action[a] = "archive" THEN archive \cup {a} ELSE archive
  /\ transit' = IF sw.action[a] = "archive" \/ a \in sw.drop THEN transit \ {a} ELSE transit
  /\ lost' = IF a \in sw.drop /\ (Retried(a) \/ ~review[a]) THEN lost \cup {a} ELSE lost
  /\ sw' = [sw EXCEPT !.arts = @ \ {a}]
  /\ UNCHANGED <<landing, registry, stores, ing, world, writes, review, astray>>

EndSweep ==
  /\ sw.pc = "transit" /\ sw.arts = {}
  /\ sw' = NoSweep
  /\ UNCHANGED <<fastVars, review, astray>>

(***************************************************************************)
(* The rest of the system, as far as the sweep sees it.                    *)
(***************************************************************************)
\* Promotion makes the main document live and tombstones the staging one (Promotion.tla has the
\* steps; what the sweep sees between its own two reads is the same).
Promote(a) ==
  /\ live[a] = {"staging"} /\ ~review[a]
  /\ live' = [live EXCEPT ![a] = {"main"}]
  /\ UNCHANGED <<files, registry, fts, ing, counters, sweepVars>>

\* A human rejects a document.
Rejected(a) ==
  /\ live[a] = {"staging"} /\ ~review[a]
  /\ review' = [review EXCEPT ![a] = TRUE]
  /\ UNCHANGED <<fastVars, sw, astray>>

SweepStep ==
  \/ ReadMain \/ ReadRegistry \/ ReadStaging
  \/ (\E a \in Contents : SweepByPath(a) \/ SweepTransit(a))
  \/ ListLeftovers \/ (\E p \in Paths : SweepByHash(p)) \/ ListTransit \/ EndSweep

Next ==
  \/ (FastNext /\ UNCHANGED sweepVars)
  \/ SweepStep
  \/ \E a \in Contents : Promote(a) \/ Rejected(a)

\* The watch loop ingests every few seconds, and every pipeline and idle cycle ends in a sweep.
Spec == Init /\ [][Next]_vars /\ WF_vars(IngestStep /\ UNCHANGED sweepVars) /\ WF_vars(SweepStep)

Kept == {landing[p] : p \in Paths} \cup transit \cup archive

\* The source of every document that is live and not rejected is still on disk, wherever promotion, the
\* review and the sweep overlapped.  The exceptions are the ways the code can lose it: the sweep took it
\* for what had been at its path (astray), or the scraper wrote over it, or it was deleted on a status
\* that a retry has overtaken, or for a retry that found no text where an earlier one had (lost).
SourceKept == \A a \in Contents :
  live[a] # {} /\ ~review[a] => a \in Kept \cup astray \cup lost

\* Nothing processed stays in Landing: once the scraper stops writing, every file leaves.
LandingDrains == <>[](\A p \in Paths : landing[p] = "none")
================================================================================
