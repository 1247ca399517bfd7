----------------------------- MODULE Summaries -----------------------------
(* The summaries of the chunks of the main corpus: the idle task              *)
(* `enrich_chunks` (dashboard/server.py) runs the pass of                     *)
(* agentic/chunk_enrichment.py over agentic/batch_llm.py and the shared       *)
(* Generator of providers/exl3_provider.py.  A text is abstracted to the set  *)
(* of chunks it was generated from.  The generator is one queue of jobs that  *)
(* outlives a batch: a batch that raises leaves its jobs, and its watchdog,   *)
(* behind.                                                                    *)
EXTENDS Naturals, Sequences, FiniteSets, SequencesExt

CONSTANTS Chunks,     \* chunk numbers, in the order of the table
          BatchSize,  \* prompts of one batch
          Limit,      \* chunks of one pass (IPA_T2_ENRICH_LIMIT)
          Threshold,  \* pending chunks that start a re-embedding (REEMBED_BATCH)
          MaxFaults   \* bound: errors, hangs, refused answers, aborts and crashes

VARIABLES
  row,     \* the enrichment in the store: "raw", "pending", "complete", and its text
  vec,     \* the chunk in LanceDB: whether it is there, and the text it was embedded from
  gen,     \* jobs of the Generator: the identifier and the chunk of the prompt
  stale,   \* watchdogs of batches that have raised
  work,    \* the pass
  faults

svars == <<row, vec, gen, stale, work, faults>>

NoWork == [pc |-> "off", todo |-> <<>>, batch |-> <<>>, sent |-> 0, got |-> <<>>,
           guarded |-> FALSE, stuck |-> FALSE, pend |-> {}, last |-> FALSE]

Init ==
  /\ row = [c \in Chunks |-> [st |-> "raw", of |-> {}]]
  /\ vec = [c \in Chunks |-> [has |-> TRUE, of |-> {}]]
  /\ gen = {} /\ stale = 0 /\ work = NoWork /\ faults = 0

InState(s) == {c \in Chunks : row[c].st = s}
Fault == faults < MaxFaults /\ faults' = faults + 1

(* Chunks to generate in the order of the table, and those to embed again.    *)
ToProcess ==
  LET all == SetToSortSeq(InState("raw"), <)
  IN SubSeq(all, 1, IF Len(all) < Limit THEN Len(all) ELSE Limit)
PendingReembedNone == {}

PendingReembed == InState("pending")

(* The engine loads: a new Generator, nothing queued.                         *)
Loaded == gen' = {}

Begin ==
  /\ work.pc = "off" /\ InState("raw") \cup InState("pending") # {}
  /\ Loaded
  /\ work' = [NoWork EXCEPT !.pc = IF PendingReembed # {} THEN "flush" ELSE "take",
                            !.todo = ToProcess, !.pend = PendingReembed]
  /\ UNCHANGED <<row, vec, stale, faults>>

(* Between two batches: the next one, or the last flush when there is none    *)
(* or the scheduler wants the machine back.                                   *)
Take ==
  /\ work.pc = "take" /\ work.todo # <<>>
  /\ LET n == IF Len(work.todo) < BatchSize THEN Len(work.todo) ELSE BatchSize
     IN work' = [work EXCEPT !.pc = "send", !.batch = SubSeq(work.todo, 1, n),
                             !.todo = SubSeq(work.todo, n + 1, Len(work.todo)),
                             !.sent = 0, !.got = [i \in 1..n |-> {}]]
  /\ UNCHANGED <<row, vec, gen, stale, faults>>

Finish ==
  /\ work.pc = "take"
  /\ \/ work.todo = <<>> /\ UNCHANGED faults
     \/ work.todo # <<>> /\ Fault                      \* should_abort
  /\ IF work.pend = {}
     THEN work' = NoWork /\ gen' = {}                  \* the pass unloads the engine
     ELSE work' = [work EXCEPT !.pc = "flush", !.last = TRUE] /\ UNCHANGED gen
  /\ UNCHANGED <<row, vec, stale>>

(* The prompts of the batch are enqueued one by one; the watchdog starts      *)
(* after the last one.  A single prompt runs without one.                     *)
Send ==
  /\ work.pc = "send" /\ work.sent < Len(work.batch)
  /\ gen' = gen \cup {[id |-> work.sent + 1, of |-> work.batch[work.sent + 1]]}
  /\ work' = [work EXCEPT !.sent = @ + 1]
  /\ UNCHANGED <<row, vec, stale, faults>>

Arm ==
  /\ work.pc = "send" /\ work.sent = Len(work.batch)
  /\ work' = [work EXCEPT !.pc = "iterate", !.guarded = Len(work.batch) > 1]
  /\ UNCHANGED <<row, vec, gen, stale, faults>>

(* The slot of the batch that receives the text of job j: generate_batch goes *)
(* by the identifier, generate appends whatever comes.                        *)
Slot(j) == IF Len(work.batch) = 1 THEN 1 ELSE j.id

(* One job generates and ends.  A job whose identifier the batch does not     *)
(* have raises an IndexError, which is Raise.                                 *)
Iterate(j) ==
  /\ work.pc = "iterate" /\ ~work.stuck /\ j \in gen /\ Slot(j) \in DOMAIN work.got
  /\ work' = [work EXCEPT !.got[Slot(j)] = @ \cup {j.of}]
  /\ gen' = gen \ {j}
  /\ UNCHANGED <<row, vec, stale, faults>>

(* iterate() does not come back: the model is stuck in a prefill.             *)
Hang ==
  /\ work.pc = "iterate" /\ work.guarded /\ ~work.stuck /\ gen # {} /\ Fault
  /\ work' = [work EXCEPT !.stuck = TRUE]
  /\ UNCHANGED <<row, vec, gen, stale>>

(* The watchdog of the batch, or one left by an earlier batch, clears the     *)
(* queue of the Generator there is.                                           *)
Watchdog ==
  /\ work.pc = "iterate" /\ work.guarded /\ work.stuck
  /\ gen' = {} /\ work' = [work EXCEPT !.guarded = FALSE, !.stuck = FALSE]
  /\ UNCHANGED <<row, vec, stale, faults>>

StaleWatchdog ==
  /\ stale > 0 /\ stale' = stale - 1 /\ gen' = {}
  /\ work' = [work EXCEPT !.stuck = FALSE]
  /\ UNCHANGED <<row, vec, faults>>

(* enqueue, iterate or the deadline raises: every item of the batch is an     *)
(* error.  Nothing takes the jobs that are left out of the Generator, and     *)
(* nobody tells the watchdog.                                                 *)
Raise ==
  /\ work.pc \in {"send", "iterate"} /\ ~work.stuck
  /\ \/ Fault
     \/ /\ work.pc = "iterate" /\ \E j \in gen : Slot(j) \notin DOMAIN work.got
        /\ UNCHANGED faults
  /\ work' = [work EXCEPT !.pc = "take", !.guarded = FALSE, !.got = <<>>, !.batch = <<>>, !.sent = 0]
  /\ stale' = IF work.guarded THEN stale + 1 ELSE stale
  /\ UNCHANGED <<row, vec, gen>>

(* The batch is over: the answers that parse are written in one transaction,  *)
(* as pending.  The others are errors and stay as they were.                  *)
Answered == {i \in DOMAIN work.got : work.got[i] # {}}
Written(ok) == {work.batch[i] : i \in ok}

WriteEnrichment(ok) ==
  row' = [c \in Chunks |->
            IF c \in Written(ok)
            THEN [st |-> "pending",
                  of |-> UNION {work.got[i] : i \in {k \in ok : work.batch[k] = c}}]
            ELSE row[c]]

Store ==
  /\ work.pc = "iterate" /\ gen = {} /\ ~work.stuck
  /\ \E ok \in SUBSET Answered :
        /\ IF ok = Answered THEN UNCHANGED faults ELSE Fault
        /\ WriteEnrichment(ok)
        /\ LET pend == work.pend \cup Written(ok)
           IN work' = [work EXCEPT !.pc = IF Cardinality(pend) >= Threshold THEN "flush" ELSE "take",
                                   !.pend = pend, !.guarded = FALSE, !.got = <<>>,
                                   !.batch = <<>>, !.sent = 0]
  /\ UNCHANGED <<vec, gen, stale>>

(* The re-embedding: LanceDB deletes the rows, LanceDB adds them, the store   *)
(* marks them, in this order.                                                 *)
DeleteMarks ==
  /\ work.pc = "flush"
  /\ vec' = [c \in Chunks |-> IF c \in work.pend THEN [has |-> FALSE, of |-> {}] ELSE vec[c]]
  /\ row' = [c \in Chunks |-> IF c \in work.pend THEN [row[c] EXCEPT !.st = "complete"] ELSE row[c]]
  /\ work' = [work EXCEPT !.pc = "add"]
  /\ UNCHANGED <<gen, stale, faults>>

Delete ==
  /\ work.pc = "flush"
  /\ vec' = [c \in Chunks |-> IF c \in work.pend THEN [has |-> FALSE, of |-> {}] ELSE vec[c]]
  /\ work' = [work EXCEPT !.pc = "add"]
  /\ UNCHANGED <<row, gen, stale, faults>>

Add ==
  /\ work.pc = "add"
  /\ vec' = [c \in Chunks |-> IF c \in work.pend THEN [has |-> TRUE, of |-> row[c].of] ELSE vec[c]]
  /\ work' = [work EXCEPT !.pc = "mark"]
  /\ UNCHANGED <<row, gen, stale, faults>>

Mark ==
  /\ work.pc = "mark"
  /\ row' = [c \in Chunks |-> IF c \in work.pend THEN [row[c] EXCEPT !.st = "complete"] ELSE row[c]]
  /\ IF work.last THEN work' = NoWork /\ gen' = {}
     ELSE work' = [work EXCEPT !.pc = "take", !.pend = {}] /\ UNCHANGED gen
  /\ UNCHANGED <<vec, stale, faults>>

(* The embedding or LanceDB raises and the pass ends with its engine; or the  *)
(* dashboard dies, and the watchdogs with it.                                 *)
Break ==
  /\ work.pc # "off" /\ ~work.stuck /\ Fault
  /\ work' = NoWork /\ gen' = {}
  /\ \/ work.pc \in {"flush", "add", "mark"} /\ UNCHANGED stale
     \/ stale' = 0
  /\ UNCHANGED <<row, vec>>

Next ==
  \/ Begin \/ Take \/ Finish \/ Send \/ Arm
  \/ \E j \in gen : Iterate(j)
  \/ Hang \/ Watchdog \/ StaleWatchdog \/ Raise \/ Store
  \/ Delete \/ Add \/ Mark \/ Break

(* The idle worker starts a pass when there is work, its thread runs, the     *)
(* Generator works on the jobs it holds, a watchdog's timer ends.             *)
Fairness ==
  /\ WF_svars(Begin) /\ WF_svars(Take) /\ WF_svars(Finish) /\ WF_svars(Send) /\ WF_svars(Arm)
  /\ WF_svars(\E j \in gen : Iterate(j)) /\ WF_svars(Raise) /\ WF_svars(Store)
  /\ WF_svars(Watchdog) /\ WF_svars(StaleWatchdog)
  /\ WF_svars(Delete) /\ WF_svars(Add) /\ WF_svars(Mark)

Spec == Init /\ [][Next]_svars /\ Fairness

Rows == [st : {"raw", "pending", "complete"}, of : SUBSET Chunks]
TypeOK ==
  /\ row \in [Chunks -> Rows]
  /\ vec \in [Chunks -> [has : BOOLEAN, of : SUBSET Chunks]]
  /\ gen \subseteq [id : 1..BatchSize, of : Chunks]
  /\ stale \in Nat /\ faults \in 0..MaxFaults
  /\ work.pc \in {"off", "take", "send", "iterate", "flush", "add", "mark"}
  /\ work.pend \subseteq Chunks

(* A chunk marked complete is in the vector index, and its vector was made    *)
(* from the text the store holds: complete is written only after LanceDB      *)
(* accepted the rows, whatever breaks in between                              *)
(* (chunk_enrichment._flush_reembed, mark_reembedded).                        *)
CompleteIsIndexed ==
  \A c \in Chunks : row[c].st = "complete" => vec[c] = [has |-> TRUE, of |-> row[c].of]

(* Every chunk is summarised and indexed in the end: an error, a hang the     *)
(* watchdog has to break, an abort or a crash leaves it raw or pending, and a *)
(* later pass takes it again (chunk_enrichment.scan_chunks).                  *)
EveryChunkCompletes == <>[](\A c \in Chunks : row[c].st = "complete")

(* A summary is made from its own chunk: a batch that fails does not touch    *)
(* the others (batch_llm.generate_many).                                      *)
OwnText == \A c \in Chunks : row[c].of \subseteq {c}
=============================================================================
