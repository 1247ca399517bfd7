----------------------------- MODULE Continuous -----------------------------
(* The stand-alone continuous pipeline: it polls Landing, ingests each new   *)
(* file with the fast path, moves it to Archive, and builds the vectors      *)
(* either as it goes (incremental) or from nothing when Landing stays empty. *)
(* Files arrive and are rewritten by other programs while it works.          *)
EXTENDS Naturals, FiniteSets, SequencesExt

CONSTANTS Paths,      \* paths under Landing
          MaxWrites,  \* bound: contents written to one path
          MaxFaults   \* bound: crashes, locked files, failed ingests

VARIABLES
  mode,      \* "incremental" or "rebuild": a flag of the command line
  enrich,    \* another flag: chunks are summarised at the end
  landing,   \* content at each path, 0 for none
  written,   \* contents ever written to each path
  pending,   \* paths renamed to .pending_delete
  archive,   \* documents <<path, content>> copied to Archive
  pc, queue,
  processed, \* processed_files: paths, in memory
  fresh,     \* documents this run committed
  lastDoc,   \* the document of result when the batch ends: {} or a singleton
  store,     \* documents committed to the store
  seen,      \* source_uri column of the registry: paths
  lance,     \* documents with vectors
  embedErr,  \* history: an embedding failed in this run and was only printed
  faults

fileVars == <<landing, written, pending, archive>>
runVars == <<pc, queue, processed, fresh, lastDoc, embedErr>>
corpusVars == <<store, seen, lance>>
flags == <<mode, enrich>>
vars == <<flags, fileVars, runVars, corpusVars, faults>>

Docs == Paths \X (1 .. MaxWrites)
At(p) == <<p, landing[p]>>
Present == {p \in Paths : landing[p] # 0}

TypeOK ==
  /\ mode \in {"incremental", "rebuild"} /\ enrich \in BOOLEAN
  /\ landing \in [Paths -> 0 .. MaxWrites] /\ written \in [Paths -> 0 .. MaxWrites]
  /\ pending \subseteq Paths /\ archive \subseteq Docs
  /\ pc \in {"off", "poll", "file", "move", "unlink", "batch", "build", "enrich", "rebuild", "ended"}
  /\ queue \in Seq(Paths) /\ processed \subseteq Paths
  /\ {fresh, lastDoc, store, lance} \subseteq SUBSET Docs
  /\ seen \subseteq Paths /\ embedErr \in BOOLEAN /\ faults \in 0 .. MaxFaults

Init ==
  /\ mode \in {"incremental", "rebuild"} /\ enrich \in BOOLEAN
  /\ landing = [p \in Paths |-> 0] /\ written = [p \in Paths |-> 0]
  /\ pending = {} /\ archive = {}
  /\ pc = "off" /\ queue = <<>> /\ processed = {} /\ fresh = {} /\ lastDoc = {}
  /\ store = {} /\ seen = {} /\ lance = {} /\ embedErr = FALSE /\ faults = 0

Fault == faults < MaxFaults /\ faults' = faults + 1

(* Another program writes a file: at a new path, or over an old one.         *)
Publish(p) ==
  /\ written[p] < MaxWrites
  /\ written' = [written EXCEPT ![p] = @ + 1]
  /\ landing' = [landing EXCEPT ![p] = written'[p]]
  /\ UNCHANGED <<flags, pending, archive, runVars, corpusVars, faults>>

(* An embedding that fails is printed and the run goes on.                   *)
EmbedUnlessFailed(wanted, docs, failed) ==
  \/ /\ lance' = IF wanted THEN lance \cup docs ELSE lance
     /\ embedErr' = failed /\ UNCHANGED faults
  \/ wanted /\ Fault /\ embedErr' = TRUE /\ UNCHANGED lance

(* A start removes what is pending delete, takes the registered paths that   *)
(* are no longer on disk for processed, and embeds the backlog if it embeds   *)
(* as it goes.                                                               *)
Start ==
  /\ pc \in {"off", "ended"}
  /\ pending' = {}
  /\ processed' = seen \ Present
  /\ fresh' = {} /\ lastDoc' = {} /\ queue' = <<>>
  /\ pc' = "poll"
  /\ EmbedUnlessFailed(mode = "incremental", store, FALSE)
  /\ UNCHANGED <<flags, landing, written, archive, store, seen>>

(* One poll lists the paths it has not processed; the order is by extension  *)
(* and name.                                                                 *)
Poll ==
  /\ pc = "poll" /\ Present \ processed # {}
  /\ \E q \in SetToSeqs(Present \ processed) : queue' = q
  /\ pc' = "file" /\ lastDoc' = {}
  /\ UNCHANGED <<flags, fileVars, processed, fresh, embedErr, corpusVars, faults>>

(* The fast path commits the file; a file it has already is no error.  When   *)
(* it took a retry the result is dropped once handled.                       *)
Ingest ==
  /\ pc = "file" /\ queue # <<>>
  /\ store' = store \cup {At(Head(queue))}
  /\ fresh' = fresh \cup ({At(Head(queue))} \ store)
  /\ seen' = seen \cup {Head(queue)}
  /\ \/ lastDoc' = {At(Head(queue))} /\ UNCHANGED faults
     \/ Fault /\ lastDoc' = {}
  /\ processed' = processed \cup {Head(queue)}
  /\ pc' = "move"
  /\ UNCHANGED <<flags, fileVars, queue, embedErr, lance>>

(* A lock error outlives its three retries, or another error: the file stays *)
(* in Landing for the next poll.                                             *)
IngestFails ==
  /\ pc = "file" /\ queue # <<>> /\ Fault
  /\ queue' = Tail(queue) /\ lastDoc' = {}
  /\ seen' \in {seen, seen \cup {Head(queue)}}
  /\ UNCHANGED <<flags, fileVars, pc, processed, fresh, embedErr, store, lance>>

(* Mutant: a name that is taken in Archive counts as archived.               *)
CopyOnce ==
  /\ pc = "move"
  /\ archive' = IF \E d \in archive : d[1] = Head(queue) THEN archive
                ELSE archive \cup {At(Head(queue))}
  /\ pc' = "unlink"
  /\ UNCHANGED <<flags, landing, written, pending, queue, processed, fresh, lastDoc,
                 embedErr, corpusVars, faults>>

CopyToArchive ==
  /\ pc = "move"
  /\ archive' = archive \cup {At(Head(queue))}
  /\ pc' = "unlink"
  /\ UNCHANGED <<flags, landing, written, pending, queue, processed, fresh, lastDoc,
                 embedErr, corpusVars, faults>>

(* Five attempts to delete; a file that stays locked is renamed, and one     *)
(* that cannot be renamed stays, in the memory of this run processed.        *)
Unlink ==
  /\ pc = "unlink"
  /\ \/ landing' = [landing EXCEPT ![Head(queue)] = 0] /\ UNCHANGED <<pending, faults>>
     \/ /\ Fault
        /\ landing' = [landing EXCEPT ![Head(queue)] = 0]
        /\ pending' = pending \cup {Head(queue)}
     \/ Fault /\ UNCHANGED <<landing, pending>>
  /\ queue' = Tail(queue) /\ pc' = "file"
  /\ UNCHANGED <<flags, written, archive, processed, fresh, lastDoc, embedErr, corpusVars>>

(* Mutant: the document of a result without an error is skipped as well.      *)
EndBatchNothing ==
  /\ pc = "file" /\ queue = <<>>
  /\ pc' = "poll"
  /\ UNCHANGED <<flags, fileVars, queue, processed, fresh, lastDoc, embedErr, corpusVars, faults>>

(* After the batch, not after each file, the incremental mode embeds the      *)
(* document of the last result, if that had no error.                        *)
EndBatch ==
  /\ pc = "file" /\ queue = <<>>
  /\ EmbedUnlessFailed(mode = "incremental", lastDoc, embedErr)
  /\ pc' = "poll"
  /\ UNCHANGED <<flags, fileVars, queue, processed, fresh, lastDoc, store, seen>>

(* No new file within the idle time.  A run that made chunks builds the       *)
(* vectors unless it embedded as it went, and then, if it enriches, drops and *)
(* builds them again from the new texts.                                     *)
IdleTimeout ==
  /\ pc = "poll" /\ Present \subseteq processed
  /\ pc' = IF fresh = {} THEN "ended" ELSE IF mode = "rebuild" THEN "build" ELSE "enrich"
  /\ lance' = IF pc' = "build" THEN {} ELSE lance
  /\ UNCHANGED <<flags, fileVars, queue, processed, fresh, lastDoc, embedErr, store, seen, faults>>

Build ==
  /\ pc \in {"build", "rebuild"}
  /\ lance' = store
  /\ pc' = IF pc = "build" THEN "enrich" ELSE "ended"
  /\ UNCHANGED <<flags, fileVars, queue, processed, fresh, lastDoc, embedErr, store, seen, faults>>

Enrich ==
  /\ pc = "enrich"
  /\ IF enrich THEN pc' = "rebuild" /\ lance' = {} ELSE pc' = "ended" /\ UNCHANGED lance
  /\ UNCHANGED <<flags, fileVars, queue, processed, fresh, lastDoc, embedErr, store, seen, faults>>

(* Ctrl-C closes the stores and exits without the final build; a crash just   *)
(* stops, between any two steps.                                             *)
Stop ==
  /\ pc \notin {"off", "ended"} /\ Fault
  /\ pc' = "off"
  /\ UNCHANGED <<flags, fileVars, queue, processed, fresh, lastDoc, embedErr, corpusVars>>

Next ==
  \/ \E p \in Paths : Publish(p)
  \/ Start \/ Poll \/ Ingest \/ IngestFails \/ CopyToArchive \/ Unlink \/ EndBatch
  \/ IdleTimeout \/ Build \/ Enrich \/ Stop

Spec == Init /\ [][Next]_vars

----------------------------------------------------------------------------
(* What a complete run leaves without a vector.  Embedding as it goes, and     *)
(* not enriching, it misses only what it committed itself, and of that never  *)
(* the document of its last result.  In every other mode a run that made      *)
(* chunks leaves none; one that made none may leave what an earlier run       *)
(* committed before it was stopped.  Embedding errors are the exception.     *)
EndedIsVectorized ==
  pc = "ended" /\ ~embedErr =>
    IF mode = "incremental" /\ ~enrich
      THEN store \ lance \subseteq fresh \ lastDoc
      ELSE store \subseteq lance \/ (fresh = {} /\ mode = "rebuild")

(* Every committed document keeps its source: in Archive, or still at its     *)
(* path, until another program writes over it.                               *)
CommittedIsKept ==
  \A d \in store : d \in archive \/ landing[d[1]] = d[2] \/ written[d[1]] > d[2]
=============================================================================
