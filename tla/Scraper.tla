-------------------------------- MODULE Scraper --------------------------------
(***************************************************************************)
(* The web scraper (acquisition/web_scraper.py, acquisition/scrape_cli.py):*)
(* one worker thread per site, each with its own WebScraper, over one      *)
(* scrape_history.db that survives the process.                            *)
(*                                                                         *)
(* A worker discovers the links of its site, decides link by link, and     *)
(* records each decision in the history; the files are written only after  *)
(* the whole site has been decided.  The process can be killed at any step *)
(* (the dashboard kills orphans) and is run again and again.               *)
(***************************************************************************)
EXTENDS Naturals, FiniteSets, Sequences, TLAPS

CONSTANTS
  Sites,      \* configured sites, one worker each
  Urls,       \* normalised article URLs
  Methods,    \* per site, the discovery methods it configures besides the HTML crawl
  Links,      \* per site, the articles it lists
  Dated,      \* articles whose date is older than every window (when the site's dates are trusted)
  MaxKills    \* bound: kills and fatal errors in a behaviour

Discoveries == {"json", "rss", "sitemap", "html"}

ASSUME ScraperAssumption ==
  /\ Methods \in [Sites -> SUBSET {"json", "rss", "sitemap"}]
  /\ Links \in [Sites -> SUBSET Urls]
  /\ Dated \subseteq Urls
  /\ MaxKills \in Nat

VARIABLES
  history,   \* scraped_urls.status per URL, "none" when there is no row
  job,       \* scrape_jobs.status; "stale" is a running claim older than an hour
  landing,   \* what is on disk per URL: nothing, the article, or a file without its text
  worker,    \* per site: step, method, links left, current link, results in memory
  up,        \* the scraper process runs
  kills,     \* kills and fatal errors so far
  dropped    \* history: URLs decided "ok" whose results died with the memory that held them

vars == <<history, job, landing, worker, up, kills, dropped>>

Idle == [pc |-> "done", via |-> "html", left |-> {}, url |-> "none", out |-> "none", results |-> {}]

TypeOK ==
  /\ history \in [Urls -> {"none", "ok", "error", "filtered"}]
  /\ job \in [Urls -> {"none", "running", "stale", "failed", "complete"}]
  /\ landing \in [Urls -> {"none", "article", "empty"}]
  /\ worker \in [Sites -> [pc : {"discover", "check", "claim", "fetch", "error", "decide", "save", "done"},
                           via : Discoveries, left : SUBSET Urls, url : Urls \cup {"none"},
                           out : {"none", "good", "bad"}, results : SUBSET (Urls \X {"article", "empty"})]]
  /\ up \in BOOLEAN
  /\ kills \in 0..MaxKills
  /\ dropped \subseteq Urls

Init ==
  /\ history = [u \in Urls |-> "none"] /\ job = [u \in Urls |-> "none"]
  /\ landing = [u \in Urls |-> "none"]
  /\ worker = [s \in Sites |-> Idle]
  /\ up = FALSE /\ kills = 0 /\ dropped = {}

Becomes(s, w) == worker' = [worker EXCEPT ![s] = w]

(***************************************************************************)
(* The history database.                                                   *)
(***************************************************************************)
IsScraped(u) == history[u] = "ok"

\* Windows are one per site and fixed, so a filtered row is always wide enough.
IsFiltered(u) == history[u] = "filtered"

CanClaimFresh(u) == job[u] \notin {"running", "stale"}  \* mutant: stale claims are never taken over
CanClaim(u) == job[u] # "running"

\* INSERT OR REPLACE of the row, and an UPDATE that touches a job only if there is one.
Record(u, status) ==
  /\ history' = [history EXCEPT ![u] = status]
  /\ job' = [job EXCEPT ![u] = IF @ = "none" THEN @
                               ELSE IF status = "error" THEN "failed" ELSE "complete"]

(***************************************************************************)
(* A run of the command line: every site gets a worker.                    *)
(***************************************************************************)
StartRun ==
  /\ ~up
  /\ up' = TRUE
  /\ worker' = [s \in Sites |-> [Idle EXCEPT !.pc = "discover"]]
  /\ UNCHANGED <<history, job, landing, kills, dropped>>

EndRun ==
  /\ up /\ \A s \in Sites : worker[s].pc = "done"
  /\ up' = FALSE
  /\ UNCHANGED <<history, job, landing, worker, kills, dropped>>

(***************************************************************************)
(* Discovery: JSON API, then RSS, then sitemap, each falling through when  *)
(* it lists nothing, and the HTML crawl with its pages last.               *)
(***************************************************************************)
Discover(s) ==
  /\ up /\ worker[s].pc = "discover"
  /\ \E via \in Methods[s] \cup {"html"} :
       Becomes(s, [worker[s] EXCEPT !.pc = "check", !.via = via, !.left = Links[s]])
  /\ UNCHANGED <<history, job, landing, up, kills, dropped>>

\* No method listed anything and the listing page did not load: a summary with an error.
DiscoverNothing(s) ==
  /\ up /\ worker[s].pc = "discover"
  /\ Becomes(s, Idle)
  /\ UNCHANGED <<history, job, landing, up, kills, dropped>>

(***************************************************************************)
(* One link.  Which checks a method makes before it fetches:               *)
(***************************************************************************)
Skips(via, u) == IsScraped(u) \/ (via \in {"json", "html"} /\ IsFiltered(u))
Claims(via)   == via # "html"

NextLink(w) == [w EXCEPT !.pc = "check", !.url = "none", !.out = "none"]

Check(s) ==
  /\ up /\ worker[s].pc = "check"
  /\ \E u \in worker[s].left :
       LET rest == [worker[s] EXCEPT !.left = @ \ {u}] IN
       Becomes(s, IF Skips(rest.via, u) THEN rest
                  ELSE [rest EXCEPT !.pc = IF Claims(rest.via) THEN "claim" ELSE "fetch", !.url = u])
  /\ UNCHANGED <<history, job, landing, up, kills, dropped>>

Claim(s) ==
  /\ up /\ worker[s].pc = "claim"
  /\ LET u == worker[s].url IN
       IF CanClaim(u)
       THEN /\ job' = [job EXCEPT ![u] = "running"]
            /\ Becomes(s, [worker[s] EXCEPT !.pc = "fetch"])
       ELSE /\ Becomes(s, NextLink(worker[s]))
            /\ UNCHANGED job
  /\ UNCHANGED <<history, landing, up, kills, dropped>>

\* extract_article: an article, or a result that carries an error and no text.
Fetch(s) ==
  /\ up /\ worker[s].pc = "fetch"
  /\ \E out \in {"good", "bad"} :
       Becomes(s, [worker[s] EXCEPT !.pc = IF out = "good" THEN "decide" ELSE "error", !.out = out])
  /\ UNCHANGED <<history, job, landing, up, kills, dropped>>

\* What each method does after it has recorded an error, and with an article too old.
FallsThrough(via) == via \in {"sitemap", "html"}
Filters(via, u) == via # "rss" /\ u \in Dated

RecordError(s) ==
  /\ up /\ worker[s].pc = "error"
  /\ Record(worker[s].url, "error")
  /\ Becomes(s, IF FallsThrough(worker[s].via) THEN [worker[s] EXCEPT !.pc = "decide"] ELSE NextLink(worker[s]))
  /\ UNCHANGED <<landing, up, kills, dropped>>

\* Filtered out by date, or into the results and "ok".
Decide(s) ==
  /\ up /\ worker[s].pc = "decide"
  /\ LET w == worker[s]
         u == w.url
         content == IF w.out = "good" THEN "article" ELSE "empty" IN
       IF w.out = "good" /\ Filters(w.via, u)
       THEN /\ Record(u, "filtered")
            /\ Becomes(s, NextLink(w))
       ELSE /\ Record(u, "ok")
            /\ Becomes(s, [NextLink(w) EXCEPT !.results = @ \cup {<<u, content>>}])
  /\ UNCHANGED <<landing, up, kills, dropped>>

EndSite(s) ==
  /\ up /\ worker[s].pc = "check" /\ worker[s].left = {}
  /\ Becomes(s, [worker[s] EXCEPT !.pc = "save", !.via = "html"])
  /\ UNCHANGED <<history, job, landing, up, kills, dropped>>

\* Mutant: a worker that stops after its first file.
SaveFirstOnly(s) ==
  /\ up /\ worker[s].pc = "save"
  /\ \E r \in worker[s].results :
       /\ landing' = [landing EXCEPT ![r[1]] = r[2]]
       /\ Becomes(s, Idle)
  /\ UNCHANGED <<history, job, up, kills, dropped>>

\* scrape_one_site: the files, one result at a time; the path depends on the URL alone.
SaveArticle(s) ==
  /\ up /\ worker[s].pc = "save"
  /\ \E r \in worker[s].results :
       /\ landing' = [landing EXCEPT ![r[1]] = r[2]]
       /\ Becomes(s, [worker[s] EXCEPT !.results = @ \ {r}])
  /\ UNCHANGED <<history, job, up, kills, dropped>>

SaveDone(s) ==
  /\ up /\ worker[s].pc = "save" /\ worker[s].results = {}
  /\ Becomes(s, Idle)
  /\ UNCHANGED <<history, job, landing, up, kills, dropped>>

\* An exception in a worker: "FATAL", the other sites go on.
Fatal(s) ==
  /\ up /\ worker[s].pc # "done" /\ kills < MaxKills
  /\ kills' = kills + 1
  /\ dropped' = dropped \cup {r[1] : r \in worker[s].results}
  /\ Becomes(s, Idle)
  /\ UNCHANGED <<history, job, landing, up>>

Kill ==
  /\ up /\ kills < MaxKills
  /\ kills' = kills + 1
  /\ up' = FALSE
  /\ worker' = [s \in Sites |-> Idle]
  /\ dropped' = dropped \cup UNION {{r[1] : r \in worker[s].results} : s \in Sites}
  /\ UNCHANGED <<history, job, landing>>

\* An hour passes over a claim, whether or not its worker is alive.
Expire(u) ==
  /\ job[u] = "running"
  /\ job' = [job EXCEPT ![u] = "stale"]
  /\ UNCHANGED <<history, landing, worker, up, kills, dropped>>

Site(s) ==
  \/ Discover(s) \/ DiscoverNothing(s) \/ Check(s) \/ Claim(s) \/ Fetch(s) \/ RecordError(s)
  \/ Decide(s) \/ EndSite(s) \/ SaveArticle(s) \/ SaveDone(s)

Next ==
  \/ StartRun \/ EndRun \/ Kill
  \/ \E s \in Sites : Site(s) \/ Fatal(s)
  \/ \E u \in Urls : Expire(u)

\* The operator runs the scraper again, workers go on, and a site answers sooner or later.
Fairness ==
  /\ WF_vars(StartRun) /\ WF_vars(EndRun)
  /\ \A s \in Sites : WF_vars(Site(s)) /\ SF_vars(Discover(s))
  /\ \A s \in Sites : \A u \in Links[s] :
       SF_vars(Fetch(s) /\ worker[s].url = u /\ worker'[s].out = "good")
  /\ \A u \in Urls : WF_vars(Expire(u))

Spec == Init /\ [][Next]_vars /\ Fairness

Held == UNION {{r[1] : r \in worker[s].results} : s \in Sites}

\* No article is forgotten: a URL that later runs will skip as "ok" has its file, or is still
\* in a worker's memory on its way to one.  The exception is exact: the history is committed
\* before the file is written, so a worker that dies in between drops its results for good.
OkHasFile == \A u \in Urls : history[u] = "ok" => landing[u] # "none" \/ u \in Held \cup dropped

\* Every URL a site lists is decided in the end, however often a worker dies with its claim: a
\* claim left "running" expires and a later run takes it over.  It need not stay so, a second site
\* that fails on the same article writes its error over the "ok", but it becomes so again.
Settles == []<>(\A s \in Sites : \A u \in Links[s] : history[u] \in {"ok", "filtered"})

-----------------------------------------------------------------------------
WorkerFields == {"pc", "via", "left", "url", "out", "results"}
\* A worker: what it still has to look at, the link it works on, and its results.
WorkerOK(w) ==
  /\ DOMAIN w = WorkerFields /\ w.left \subseteq Urls /\ w.results \subseteq Urls \X {"article", "empty"}
  /\ w.pc \in {"claim", "fetch", "error", "decide"} => w.url \in Urls
  /\ w.pc \in {"done", "discover"} => w.results = {}

\* The inductive form of OkHasFile: a worker that has not begun or has ended holds
\* nothing, so a run that starts over it loses nothing.
HistoryInv ==
  /\ DOMAIN history = Urls /\ DOMAIN landing = Urls /\ DOMAIN worker = Sites
  /\ \A s \in Sites : WorkerOK(worker[s])
  /\ ~ up => \A s \in Sites : worker[s].pc = "done"
  /\ OkHasFile

\* What an idle worker is.
LEMMA IdleIsOK ==
  /\ WorkerOK(Idle) /\ Idle.results = {} /\ Idle.pc = "done"
  /\ WorkerOK([Idle EXCEPT !.pc = "discover"])
  BY DEF Idle, WorkerOK, WorkerFields

\* A worker that works on and keeps its results.
LEMMA WorksOn ==
  ASSUME HistoryInv, NEW s \in Sites, NEW w, WorkerOK(w), w.results = worker[s].results, up,
         Becomes(s, w), UNCHANGED <<history, landing, dropped, up>>
  PROVE  HistoryInv'
<1>1. /\ worker'[s] = w /\ DOMAIN worker' = Sites
      /\ \A t \in Sites \ {s} : worker'[t] = worker[t]
  BY DEF HistoryInv, Becomes
<1>2. \A t \in Sites : worker'[t].results = worker[t].results
  BY <1>1
<1>3. Held' = Held
  BY <1>2 DEF Held
<1> QED
  BY <1>1, <1>3 DEF HistoryInv, OkHasFile, WorkerOK

\* A recorded link: the row of the link alone changes, and what the worker held it holds on.
LEMMA RecordsOne ==
  ASSUME HistoryInv, NEW s \in Sites, NEW w, WorkerOK(w), NEW u \in Urls, NEW st,
         worker[s].results \subseteq w.results, st = "ok" => \E r \in w.results : r[1] = u, up,
         Becomes(s, w), Record(u, st), UNCHANGED <<landing, dropped, up>>
  PROVE  HistoryInv'
<1>1. /\ worker'[s] = w /\ DOMAIN worker' = Sites
      /\ \A t \in Sites \ {s} : worker'[t] = worker[t]
  BY DEF HistoryInv, Becomes
<1>2. \A t \in Sites : worker[t].results \subseteq worker'[t].results
  BY <1>1
<1>3. Held \subseteq Held' /\ (st = "ok" => u \in Held')
  BY <1>1, <1>2 DEF Held
<1>4. /\ DOMAIN history' = Urls /\ history'[u] = st
      /\ \A v \in Urls \ {u} : history'[v] = history[v]
  BY DEF HistoryInv, Record
<1>5. OkHasFile'
  BY <1>3, <1>4 DEF HistoryInv, OkHasFile
<1> QED
  BY <1>1, <1>4, <1>5 DEF HistoryInv, WorkerOK

\* Every step keeps it: a decision puts a result in memory, saving moves it to its file.
LEMMA HistoryStep == HistoryInv /\ [Next]_vars => HistoryInv'
<1> SUFFICES ASSUME HistoryInv, [Next]_vars PROVE HistoryInv'
  OBVIOUS
<1>0. \A s \in Sites : Links[s] \subseteq Urls /\ WorkerOK(worker[s])
  BY ScraperAssumption DEF HistoryInv
<1>1. CASE EndRun
  BY <1>1 DEF EndRun, HistoryInv, OkHasFile, Held
<1>2. CASE StartRun
  <2>1. \A s \in Sites : worker'[s] = [Idle EXCEPT !.pc = "discover"] /\ worker[s].results = {}
    BY <1>2 DEF StartRun, HistoryInv, WorkerOK
  <2>2. Held = {}
    BY <2>1 DEF Held
  <2> QED
    BY <1>2, <2>1, <2>2, IdleIsOK DEF StartRun, HistoryInv, OkHasFile, WorkerOK
<1>3. CASE Kill
  <2>1. /\ UNCHANGED <<history, landing>> /\ Held \subseteq dropped' /\ dropped \subseteq dropped'
        /\ worker' = [s \in Sites |-> Idle]
    BY <1>3 DEF Kill, Held
  <2> QED
    BY <2>1, IdleIsOK DEF HistoryInv, OkHasFile, WorkerOK
<1>4. ASSUME NEW s \in Sites, Discover(s) PROVE HistoryInv'
  <2>1. PICK via \in Methods[s] \cup {"html"} :
          Becomes(s, [worker[s] EXCEPT !.pc = "check", !.via = via, !.left = Links[s]])
    BY <1>4 DEF Discover
  <2> DEFINE w == [worker[s] EXCEPT !.pc = "check", !.via = via, !.left = Links[s]]
  <2>2. WorkerOK(w) /\ w.results = worker[s].results
    BY <1>0 DEF WorkerOK, WorkerFields
  <2> HIDE DEF w
  <2>3. Becomes(s, w)
    BY <2>1 DEF w
  <2> QED
    BY <1>4, <2>2, <2>3, WorksOn DEF Discover
<1>5. ASSUME NEW s \in Sites, DiscoverNothing(s) \/ SaveDone(s) PROVE HistoryInv'
  <2>1. worker[s].results = {}
    BY <1>0, <1>5 DEF DiscoverNothing, SaveDone, WorkerOK
  <2> QED
    BY <1>5, <2>1, IdleIsOK, WorksOn DEF DiscoverNothing, SaveDone
<1>6. ASSUME NEW s \in Sites, Check(s) PROVE HistoryInv'
  <2>1. PICK u \in worker[s].left :
          LET rest == [worker[s] EXCEPT !.left = @ \ {u}] IN
          Becomes(s, IF Skips(rest.via, u) THEN rest
                     ELSE [rest EXCEPT !.pc = IF Claims(rest.via) THEN "claim" ELSE "fetch", !.url = u])
    BY <1>6 DEF Check
  <2> DEFINE rest == [worker[s] EXCEPT !.left = @ \ {u}]
             then == [rest EXCEPT !.pc = IF Claims(rest.via) THEN "claim" ELSE "fetch", !.url = u]
  <2>2. WorkerOK(rest) /\ rest.results = worker[s].results /\ u \in Urls /\ rest.pc = "check"
    BY <1>0, <1>6 DEF Check, WorkerOK, WorkerFields
  <2>3. Becomes(s, rest) \/ Becomes(s, then)
    BY <2>1
  <2> HIDE DEF rest
  <2>4. WorkerOK(then) /\ then.results = rest.results
    BY <2>2 DEF WorkerOK, WorkerFields
  <2> HIDE DEF then
  <2> QED
    BY <1>6, <2>2, <2>3, <2>4, WorksOn DEF Check
<1>7. ASSUME NEW s \in Sites, Claim(s) \/ Fetch(s) \/ EndSite(s) PROVE HistoryInv'
  <2>1. PICK w : Becomes(s, w) /\ WorkerOK(w) /\ w.results = worker[s].results
    <3>1. CASE Claim(s)
      <4>1. /\ WorkerOK([worker[s] EXCEPT !.pc = "fetch"]) /\ WorkerOK(NextLink(worker[s]))
            /\ [worker[s] EXCEPT !.pc = "fetch"].results = worker[s].results
            /\ NextLink(worker[s]).results = worker[s].results
        BY <1>0, <3>1 DEF Claim, NextLink, WorkerOK, WorkerFields
      <4> QED
        BY <3>1, <4>1 DEF Claim
    <3>2. CASE Fetch(s)
      <4>1. PICK out \in {"good", "bad"} :
               Becomes(s, [worker[s] EXCEPT !.pc = IF out = "good" THEN "decide" ELSE "error", !.out = out])
        BY <3>2 DEF Fetch
      <4>2. /\ WorkerOK([worker[s] EXCEPT !.pc = IF out = "good" THEN "decide" ELSE "error", !.out = out])
            /\ [worker[s] EXCEPT !.pc = IF out = "good" THEN "decide" ELSE "error", !.out = out].results
                 = worker[s].results
        BY <1>0, <3>2 DEF Fetch, WorkerOK, WorkerFields
      <4> QED
        BY <4>1, <4>2
    <3>3. CASE EndSite(s)
      <4>1. /\ WorkerOK([worker[s] EXCEPT !.pc = "save", !.via = "html"])
            /\ [worker[s] EXCEPT !.pc = "save", !.via = "html"].results = worker[s].results
        BY <1>0 DEF WorkerOK, WorkerFields
      <4> QED
        BY <3>3, <4>1 DEF EndSite
    <3> QED
      BY <1>7, <3>1, <3>2, <3>3
  <2> QED
    BY <1>7, <2>1, WorksOn DEF Claim, Fetch, EndSite
<1>8. ASSUME NEW s \in Sites, RecordError(s) PROVE HistoryInv'
  <2>1. /\ WorkerOK([worker[s] EXCEPT !.pc = "decide"]) /\ WorkerOK(NextLink(worker[s]))
        /\ [worker[s] EXCEPT !.pc = "decide"].results = worker[s].results
        /\ NextLink(worker[s]).results = worker[s].results /\ worker[s].url \in Urls
    BY <1>0, <1>8 DEF RecordError, NextLink, WorkerOK, WorkerFields
  <2>2. PICK w : Becomes(s, w) /\ WorkerOK(w) /\ w.results = worker[s].results
    BY <1>8, <2>1 DEF RecordError
  <2> QED
    BY <1>8, <2>1, <2>2, RecordsOne DEF RecordError
<1>9. ASSUME NEW s \in Sites, Decide(s) PROVE HistoryInv'
  <2> DEFINE w == worker[s]
             kept == IF w.out = "good" THEN "article" ELSE "empty"
             held == [NextLink(w) EXCEPT !.results = @ \cup {<<w.url, kept>>}]
  <2>1. WorkerOK(w) /\ w.url \in Urls
    BY <1>0, <1>9 DEF Decide, WorkerOK
  <2>2. WorkerOK(NextLink(w)) /\ NextLink(w).results = w.results /\ NextLink(w).pc = "check"
    BY <2>1 DEF NextLink, WorkerOK, WorkerFields
  <2>3. kept \in {"article", "empty"}
    OBVIOUS
  <2>4. WorkerOK(held) /\ held.results = w.results \cup {<<w.url, kept>>}
    <3> HIDE DEF kept
    <3> QED
      BY <2>1, <2>2, <2>3 DEF WorkerOK, WorkerFields
  <2>5. \/ Record(w.url, "filtered") /\ Becomes(s, NextLink(w))
        \/ Record(w.url, "ok") /\ Becomes(s, held)
    BY <1>9 DEF Decide
  <2>6. \E r \in held.results : r[1] = w.url
    <3>1. <<w.url, kept>> \in held.results /\ <<w.url, kept>>[1] = w.url
      BY <2>4
    <3> QED
      BY <3>1
  <2> HIDE DEF w, held
  <2>7. w.results \subseteq NextLink(w).results /\ w.results \subseteq held.results
    BY <2>2, <2>4
  <2> QED
    BY <1>9, <2>1, <2>2, <2>4, <2>5, <2>6, <2>7, RecordsOne DEF Decide, w
<1>10. ASSUME NEW s \in Sites, SaveArticle(s) PROVE HistoryInv'
  <2>1. PICK r \in worker[s].results :
          /\ landing' = [landing EXCEPT ![r[1]] = r[2]]
          /\ Becomes(s, [worker[s] EXCEPT !.results = @ \ {r}])
    BY <1>10 DEF SaveArticle
  <2> DEFINE w == [worker[s] EXCEPT !.results = @ \ {r}]
  <2>2. r[1] \in Urls /\ r[2] \in {"article", "empty"}
    BY <1>0 DEF WorkerOK
  <2>3. WorkerOK(w) /\ w.results = worker[s].results \ {r} /\ w.pc = "save"
    BY <1>0, <1>10 DEF SaveArticle, WorkerOK, WorkerFields
  <2>4. Becomes(s, w)
    BY <2>1
  <2> HIDE DEF w
  <2>5. /\ worker'[s] = w /\ DOMAIN worker' = Sites
        /\ \A t \in Sites \ {s} : worker'[t] = worker[t]
    BY <2>4 DEF HistoryInv, Becomes
  <2>6. Held \subseteq Held' \cup {r[1]}
    BY <2>3, <2>5 DEF Held
  <2>7. /\ DOMAIN landing' = Urls /\ landing'[r[1]] # "none"
        /\ \A v \in Urls \ {r[1]} : landing'[v] = landing[v]
    BY <2>1, <2>2 DEF HistoryInv
  <2>8. UNCHANGED <<history, up, dropped>> /\ up
    BY <1>10 DEF SaveArticle
  <2>9. OkHasFile'
    BY <2>2, <2>6, <2>7, <2>8 DEF HistoryInv, OkHasFile
  <2> QED
    BY <2>3, <2>5, <2>7, <2>8, <2>9 DEF HistoryInv, WorkerOK
<1>11. ASSUME NEW s \in Sites, Fatal(s) PROVE HistoryInv'
  <2>1. /\ UNCHANGED <<history, landing, up>> /\ up /\ dropped \subseteq dropped'
        /\ {r[1] : r \in worker[s].results} \subseteq dropped'
        /\ worker'[s] = Idle /\ DOMAIN worker' = Sites /\ \A t \in Sites \ {s} : worker'[t] = worker[t]
    BY <1>11 DEF Fatal, Becomes, HistoryInv
  <2>2. Held \subseteq Held' \cup dropped'
    BY <2>1 DEF Held
  <2> QED
    BY <2>1, <2>2, IdleIsOK DEF HistoryInv, OkHasFile, WorkerOK
<1>12. ASSUME NEW u \in Urls, Expire(u) PROVE HistoryInv'
  BY <1>12 DEF Expire, HistoryInv, OkHasFile, Held
<1>13. CASE UNCHANGED vars
  BY <1>13 DEF vars, HistoryInv, OkHasFile, Held
<1> QED
  BY <1>1, <1>2, <1>3, <1>4, <1>5, <1>6, <1>7, <1>8, <1>9, <1>10, <1>11, <1>12, <1>13 DEF Next, Site

(* For any sites, links, methods and number of kills: no article is forgotten.  *)
(* A URL that later runs skip as "ok" has its file, or a worker still holds it, *)
(* but for those a worker took with it when it died (web_scraper.py: the       *)
(* history is committed before the file is written).                           *)
THEOREM OkKeepsFile == Spec => []OkHasFile
<1>1. Init => HistoryInv
  BY IdleIsOK DEF Init, HistoryInv, OkHasFile
<1>2. HistoryInv => OkHasFile
  BY DEF HistoryInv
<1> QED
  BY <1>1, <1>2, HistoryStep, PTL DEF Spec
================================================================================
