----------------------------- MODULE MCFindings -----------------------------
(* What the agents find: runs of research, of which the second may start while *)
(* the first is still alive, with the review of what they found; the files of  *)
(* Landing, from the scraper to the sweep; and the curation of what was        *)
(* ingested.  They share no variable, so a behaviour shows one of the three    *)
(* and the others stay as they were.                                          *)
EXTENDS Curation

CONSTANTS
  \* Research and the review: the runs, the reviewers, and a bound of faults.
  Runs, Reviewers, MaxFaults,
  \* Landing: paths, contents, a bound of writes and the worlds to explore.
  Paths, Contents, MaxWrites, FileWorlds,
  p1, p2, c1, c2

ASSUME ContentsAssumption == "none" \notin Contents

\* Curation: two versions of one page and a copy of either at another address.
Page(u, t, o) == [url |-> u, text |-> t, origin |-> o]
MCWorlds ==
  {[d \in Docs |-> CASE d = "d1" -> Page("u", "x", o) [] d = "d2" -> Page("u", "y", "site")
                     [] d = "d3" -> Page("v", t, "site")] : o \in Origins, t \in Texts}

\* A page that changes at its path, and an unchanging one that also appears at another path while the
\* ingester crashes or raises.
WorldSet == {[writable |-> {<<p1, c1>>, <<p1, c2>>}, crashes |-> 0],
             [writable |-> {<<p1, c1>>, <<p2, c1>>}, crashes |-> 1]}

VARIABLES part,
  item, files, indexed, sourced, rv, batch, cur, mine, taken, prog, run, heavy, held,
    waiters, gaps, drain, watch, copy, told, left, mixed, faults,   \* research
  landing, transit, archive, status, uri, live, fts, ing, lost, world, writes,
    rejects, sw, astray                                             \* landing

rvars == <<item, files, indexed, sourced, rv, batch, cur, mine, taken, prog, run, heavy, held,
           waiters, gaps, drain, watch, copy, told, left, mixed, faults>>
lvars == <<landing, transit, archive, status, uri, live, fts, ing, lost, world, writes,
           rejects, sw, astray>>
allVars == <<part, vars, rvars, lvars>>

R == INSTANCE Research WITH Items <- Runs
L == INSTANCE LandingSweep WITH Worlds <- FileWorlds, review <- rejects

\* A part that does not run has one initial state.
MCInit ==
  /\ part \in {"research", "landing", "curation"}
  /\ left \in IF part = "research" THEN SUBSET Runs ELSE {{}}
  /\ doc \in IF part = "curation" THEN Worlds ELSE {CHOOSE w \in Worlds : TRUE}
  /\ world \in IF part = "landing" THEN FileWorlds ELSE {CHOOSE w \in FileWorlds : TRUE}
  /\ Init /\ R!Init /\ L!Init

MCNext ==
  \/ part = "curation" /\ Next /\ UNCHANGED <<part, rvars, lvars>>
  \/ part = "research" /\ R!Next /\ UNCHANGED <<part, vars, lvars>>
  \/ part = "landing" /\ L!Next /\ UNCHANGED <<part, vars, rvars>>

\* The fairness of each part, while it runs.
MCFairness ==
  /\ WF_vars(part = "curation" /\ PassStep)
  /\ \A d \in Docs : WF_vars(part = "curation" /\ Promote(d)) /\ WF_vars(part = "curation" /\ Sweep(d))
  /\ \A r \in Runs : WF_rvars(part = "research" /\ R!RunStep(r))
  /\ WF_rvars(part = "research" /\ R!Watcher) /\ SF_rvars(part = "research" /\ R!WatchTell)

MCSpec == MCInit /\ [][MCNext]_allVars /\ MCFairness

(* What is promoted has a source (Review).                                    *)
PromotedHasSource == R!PromotedHasSource
(* Every run that ends is answered (Research).                                *)
EveryRunIsTold == R!EveryRunIsTold
(* The source of what is live is on disk (LandingSweep).                      *)
SourceKept == part = "landing" => L!SourceKept
(* What is indexed can be found (FastPath).                                   *)
IndexedIsQueryable == part = "landing" => L!IndexedIsQueryable
=============================================================================
