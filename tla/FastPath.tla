-------------------------------- MODULE FastPath --------------------------------
(***************************************************************************)
(* Fast-path ingestion of the Landing tree into the staging corpus         *)
(* (ingestion/fast_path.py, landing_zone.py, the watch loop of             *)
(* fast_path_cli.py).  A file is a content at a path; an artifact is the   *)
(* content, whatever path it was first seen at.                            *)
(*                                                                         *)
(* Three stores commit separately: the registry (landing.db), the document *)
(* store and the BM25 index.  Between the registration of an artifact and  *)
(* its last status the registry keeps what it had: the updates wait in the *)
(* transaction of a connection that every pass opens and closes.           *)
(***************************************************************************)
EXTENDS Naturals, FiniteSets

CONSTANTS
  Paths,       \* paths under Landing
  Contents,    \* file contents, which are the artifact ids; "none" is not one
  MaxWrites,   \* bound: files the scraper writes
  Worlds       \* what to explore: contents the scraper may write at each path, and a bound on crashes

Statuses == {"none", "received", "failed", "no_text", "indexed"}

VARIABLES
  landing,    \* the content at each path, or "none"
  transit,    \* contents held under Transit
  archive,    \* contents held under Archive
  status,     \* committed status per artifact; "received" stands for accepted, parsing and chunked
  uri,        \* registered path per artifact: the first one it was seen at
  live,       \* per artifact, the corpora where its document is not tombstoned
  fts,        \* artifacts whose chunks the staging BM25 index holds
  ing,        \* the ingester: step, paths left of its pass, current path and artifact
  lost,       \* history: contents written over, or deleted while they were being retried
  world,      \* the world explored, with the crashes it has left
  writes

files == <<landing, transit, archive>>
registry == <<status, uri>>
stores == <<live, fts>>
counters == <<lost, world, writes>>
fastVars == <<files, registry, stores, ing, counters>>

Resting == [pc |-> "rest", left |-> {}, path |-> "none", art |-> "none"]

FastTypeOK ==
  /\ landing \in [Paths -> Contents \cup {"none"}]
  /\ transit \subseteq Contents /\ archive \subseteq Contents
  /\ status \in [Contents -> Statuses]
  /\ uri \in [Contents -> Paths \cup {"none"}]
  /\ live \in [Contents -> SUBSET {"main", "staging"}]
  /\ fts \subseteq Contents
  /\ ing \in [pc : {"rest", "file", "register", "parse", "store", "index", "commit"},
              left : SUBSET Paths, path : Paths \cup {"none"}, art : Contents \cup {"none"}]
  /\ lost \subseteq Contents
  /\ writes \in 0..MaxWrites /\ world \in [writable : SUBSET (Paths \X Contents), crashes : Nat]

FastInit ==
  /\ landing = [p \in Paths |-> "none"] /\ transit = {} /\ archive = {}
  /\ status = [a \in Contents |-> "none"]
  /\ uri = [a \in Contents |-> "none"]
  /\ live = [a \in Contents |-> {}] /\ fts = {}
  /\ ing = Resting /\ lost = {} /\ world \in Worlds /\ writes = 0

\* The scraper writes a file; the path of an article depends on its URL alone.
ScraperWrites(p, a) ==
  /\ <<p, a>> \in world.writable /\ writes < MaxWrites
  /\ writes' = writes + 1
  /\ landing' = [landing EXCEPT ![p] = a]
  /\ lost' = lost \cup ({landing[p]} \ {"none", a})
  /\ UNCHANGED <<transit, archive, registry, stores, ing, world>>

(***************************************************************************)
(* ingest_directory: one pass over the files present when it starts.       *)
(***************************************************************************)
StartPass ==
  /\ ing.pc = "rest"
  /\ \E p \in Paths : landing[p] # "none"
  /\ ing' = [Resting EXCEPT !.pc = "file", !.left = {p \in Paths : landing[p] # "none"}]
  /\ UNCHANGED <<files, registry, stores, counters>>

EndPass ==
  /\ ing.pc = "file" /\ ing.left = {}
  /\ ing' = Resting
  /\ UNCHANGED <<files, registry, stores, counters>>

\* Hash the next file, and skip it when its artifact is done.  A file that has gone since the
\* listing raises, and the exception ends the pass.
NextFile(p) ==
  /\ ing.pc = "file" /\ p \in ing.left
  /\ ing' = IF landing[p] = "none" THEN Resting
            ELSE [ing EXCEPT !.left = @ \ {p},
                             !.path = IF status[landing[p]] \in {"indexed", "no_text"} THEN "none" ELSE p,
                             !.pc = IF status[landing[p]] \in {"indexed", "no_text"} THEN "file" ELSE "register"]
  /\ UNCHANGED <<files, registry, stores, counters>>

(***************************************************************************)
(* ingest(path).                                                           *)
(***************************************************************************)
\* LandingZone.register hashes again and commits; the first path of an artifact stays.
Register ==
  /\ ing.pc = "register"
  /\ LET a == landing[ing.path] IN
       IF a = "none" THEN ing' = Resting /\ UNCHANGED registry
       ELSE /\ status' = [status EXCEPT ![a] = IF @ = "none" THEN "received" ELSE @]
            /\ uri' = [uri EXCEPT ![a] = IF @ = "none" THEN ing.path ELSE @]
            /\ ing' = [ing EXCEPT !.pc = "parse", !.art = a]
  /\ UNCHANGED <<files, stores, counters>>

\* set_status and set_stage, and the commit.
CommitWith(a, st) == status' = [status EXCEPT ![a] = st]

NextStep == [ing EXCEPT !.pc = "file", !.path = "none", !.art = "none"]

\* Quarantine, parser and chunker: chunks, no text, or a failure; a missing file is a failure.
ParseFails ==
  /\ ing.pc = "parse"
  /\ CommitWith(ing.art, "failed")
  /\ ing' = NextStep
  /\ UNCHANGED <<files, uri, stores, counters>>

ParseFindsNoText ==
  /\ ing.pc = "parse" /\ landing[ing.path] # "none"
  /\ CommitWith(ing.art, "no_text")
  /\ ing' = NextStep
  /\ UNCHANGED <<files, uri, stores, counters>>

ParseChunks ==
  /\ ing.pc = "parse" /\ landing[ing.path] # "none"
  /\ ing' = [ing EXCEPT !.pc = "store"]
  /\ UNCHANGED <<files, registry, stores, counters>>

\* Mutants: the status goes out with the document, before the index has it.
StoreCommitsStatus ==
  /\ ing.pc = "store"
  /\ live' = [live EXCEPT ![ing.art] = @ \cup {"staging"}]
  /\ CommitWith(ing.art, "indexed")
  /\ ing' = [ing EXCEPT !.pc = "index"]
  /\ UNCHANGED <<files, uri, fts, counters>>

\* INSERT OR REPLACE with tombstoned = 0, and the store's own commit.
Store ==
  /\ ing.pc = "store"
  /\ live' = [live EXCEPT ![ing.art] = @ \cup {"staging"}]
  /\ ing' = [ing EXCEPT !.pc = "index"]
  /\ UNCHANGED <<files, registry, fts, counters>>

Index ==
  /\ ing.pc = "index"
  /\ fts' = fts \cup {ing.art}
  /\ ing' = [ing EXCEPT !.pc = "commit"]
  /\ UNCHANGED <<files, registry, live, counters>>

CommitIndexed ==
  /\ ing.pc = "commit"
  /\ CommitWith(ing.art, "indexed")
  /\ ing' = NextStep
  /\ UNCHANGED <<files, uri, stores, counters>>

\* The process dies, or an exception ends the pass and closes its connections.
PassDies ==
  /\ ing # Resting /\ world.crashes > 0
  /\ world' = [world EXCEPT !.crashes = @ - 1]
  /\ ing' = Resting
  /\ UNCHANGED <<files, registry, stores, lost, writes>>

IngestStep ==
  \/ StartPass \/ EndPass \/ (\E p \in Paths : NextFile(p))
  \/ Register \/ ParseFails \/ ParseFindsNoText \/ ParseChunks \/ Store \/ Index \/ CommitIndexed

FastNext ==
  \/ \E p \in Paths, a \in Contents : ScraperWrites(p, a)
  \/ IngestStep \/ PassDies

\* An artifact is skipped by later passes only when it is queryable: "indexed" is committed after the
\* document and its BM25 rows, whatever crashed, raised or was retried in between.
IndexedIsQueryable == \A a \in Contents : status[a] = "indexed" => a \in fts /\ live[a] # {}
================================================================================
