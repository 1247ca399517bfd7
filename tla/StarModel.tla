------------------------------- MODULE StarModel -------------------------------
(***************************************************************************)
(* The one language model of the dashboard process and its users: chats,   *)
(* the review worker, the second tier of the idle worker and the pipeline  *)
(* (dashboard/server.py, dashboard/api.py), in the default configuration:  *)
(* chats talk to Ollama, the deep pass of tier 2 loads ExL3 (providers/).  *)
(*                                                                         *)
(* DEEP_DIVE_PROVIDER is a global that get_deep_dive_provider changes      *)
(* under DEEP_DIVE_LOCK and that the others read and replace without it.   *)
(* CHAT_BUSY is a flag, not a lock: every user sets and clears it alone.   *)
(***************************************************************************)
EXTENDS Naturals, FiniteSets

CONSTANTS
  Requests,    \* threads of the HTTP server that ask for the model
  Reviewers,   \* the worker threads that judge with the model already loaded
  Providers,   \* provider objects
  NoModel      \* Python's None

Threads == Requests \cup Reviewers \cup {"tier2", "pipeline"}

ASSUME ThreadsAssumption ==
  /\ {"none", "tier2", "pipeline"} \cap (Requests \cup Reviewers) = {}
  /\ Requests \cap Reviewers = {}
ASSUME NoModelAssumption == NoModel \notin Providers

VARIABLES
  star,     \* DEEP_DIVE_PROVIDER
  lock,     \* the holder of DEEP_DIVE_LOCK, or "none"
  busy,     \* CHAT_BUSY["flag"]
  raised,   \* threads between their set and their clear of the flag
  vram,     \* the owner this process wrote in the VRAM lock, or "none"
  engine,   \* per provider, "ollama" or "exl3"
  ready,    \* providers whose is_loaded() is true
  owned,    \* providers with _t2_owned
  bare,     \* history: ExL3 engines whose second load failed and freed the VRAM lock
  mine,     \* per thread, its local reference to a provider
  pc

objVars == <<engine, ready, owned, bare>>
vars == <<star, lock, busy, raised, vram, objVars, mine, pc>>

Steps == {"rest", "look", "create", "load", "return", "got", "answer", "prepare", "turn",
          "generating", "clear", "peek", "item", "set",
          "tier1", "evict", "forget", "fetch", "loading", "fallback", "install", "pass", "finally",
          "guard", "rewarm", "drop"}

\* Type invariant of the shared model.
TypeOK ==
  /\ star \in Providers \cup {NoModel}
  /\ lock \in Threads \cup {"none"}
  /\ busy \in BOOLEAN
  /\ raised \subseteq Threads
  /\ vram \in {"none", "ollama", "exl3"}
  /\ engine \in [Providers -> {"ollama", "exl3"}]
  /\ ready \subseteq Providers
  /\ owned \subseteq Providers
  /\ bare \subseteq Providers
  /\ mine \in [Threads -> Providers \cup {NoModel}]
  /\ pc \in [Threads -> Steps]

Init ==
  /\ star = NoModel /\ lock = "none" /\ busy = FALSE /\ raised = {} /\ vram = "none"
  /\ engine = [o \in Providers |-> "ollama"] /\ ready = {} /\ owned = {} /\ bare = {}
  /\ mine = [t \in Threads |-> NoModel]
  /\ pc = [t \in Threads |-> "rest"]

Goto(t, step) == pc' = [pc EXCEPT ![t] = step]
Keep(t, o) == mine' = [mine EXCEPT ![t] = o]

\* A new provider object: one that nothing refers to any more.
Fresh == {o \in Providers : o # star /\ \A t \in Threads : mine[t] # o}
Engine(e) == {o \in Providers : engine[o] = e}
Generating(e) == {t \in Threads : pc[t] = "generating" /\ engine[mine[t]] = e}

\* Seeded fault: unload() frees the VRAM lock whichever engine of the process holds it.
UnloadAnyEngine(o) ==
  /\ ready' = ready \ {o}
  /\ vram' = "none"

\* unload(): ExL3 gives the VRAM lock back, Ollama only forgets that it is loaded.
Unload(o) ==
  /\ ready' = ready \ {o}
  /\ vram' = IF engine[o] = "exl3" /\ vram = "exl3" THEN "none" ELSE vram

-----------------------------------------------------------------------------
(* get_deep_dive_provider, for a chat or for tier 2 after its pass.        *)

Acquire(t) ==
  /\ \/ t \in Requests /\ pc[t] = "rest"
     \/ t = "tier2" /\ pc[t] = "rewarm" /\ mine[t] \in owned /\ ~busy
  /\ lock = "none" /\ lock' = t
  /\ Goto(t, "look")
  /\ UNCHANGED <<star, busy, raised, vram, objVars, mine>>

\* A model of tier 2 is unloaded for the chat; a loaded one of its own is reused.
Look(t) ==
  /\ pc[t] = "look"
  /\ \/ /\ star \in ready \ owned
        /\ Keep(t, star) /\ lock' = "none" /\ Goto(t, "got")
        /\ UNCHANGED <<star, vram, ready>>
     \/ /\ star \in ready \cap owned
        /\ Unload(star) /\ star' = NoModel /\ Goto(t, "create")
        /\ UNCHANGED <<lock, mine>>
     \/ /\ star \notin ready
        /\ Goto(t, "create")
        /\ UNCHANGED <<star, vram, ready, lock, mine>>
  /\ UNCHANGED <<busy, raised, engine, owned, bare>>

\* None while a reporter job runs; else the global gets an unloaded provider.
Create(t) ==
  /\ pc[t] = "create"
  /\ \/ /\ Keep(t, NoModel) /\ lock' = "none" /\ Goto(t, "got")
        /\ UNCHANGED <<star, objVars>>
     \/ \E o \in Fresh :
          /\ star' = o
          /\ engine' = [engine EXCEPT ![o] = "ollama"]
          /\ ready' = ready \ {o} /\ owned' = owned \ {o} /\ bare' = bare \ {o}
          /\ Goto(t, "load")
          /\ UNCHANGED <<lock, mine>>
  /\ UNCHANGED <<busy, raised, vram>>

\* DEEP_DIVE_PROVIDER.load() reads the global again.  Ollama refuses to load while
\* ExL3 owns the VRAM, or its server does not answer; the global keeps the unloaded
\* provider.  An ExL3 that tier 2 put there is loaded once more, and gives the VRAM
\* lock back when that fails.
Load(t) ==
  /\ pc[t] = "load"
  /\ \/ /\ star \in {NoModel} \cup Engine("ollama") \cup IF vram = "ollama" THEN {} ELSE Engine("exl3")
        /\ vram' = IF star \in Engine("exl3") THEN "none" ELSE vram
        /\ bare' = IF star \in Engine("exl3") THEN bare \cup {star} ELSE bare
        /\ lock' = "none" /\ Keep(t, NoModel) /\ Goto(t, "got")
        /\ UNCHANGED ready
     \/ /\ star \in Engine("ollama") /\ vram # "exl3"
        /\ ready' = ready \cup {star}
        /\ Goto(t, "return")
        /\ UNCHANGED <<lock, mine, vram, bare>>
     \/ /\ star \in Engine("exl3") /\ vram # "ollama"
        /\ ready' = ready \cup {star} /\ vram' = "exl3" /\ bare' = bare \ {star}
        /\ Goto(t, "return")
        /\ UNCHANGED <<lock, mine>>
  /\ UNCHANGED <<star, busy, raised, engine, owned>>

Return(t) ==
  /\ pc[t] = "return"
  /\ Keep(t, star) /\ lock' = "none" /\ Goto(t, "got")
  /\ UNCHANGED <<star, busy, raised, vram, objVars>>

-----------------------------------------------------------------------------
(* A turn with the model: a chat, an item of the review worker, a task of tier 2. *)

\* "model not loaded", or on to the answer: the streaming chat raises the flag, the
\* other routes use the model without it.  Tier 2 only wanted the model warm.
Got(t) ==
  /\ pc[t] = "got"
  /\ IF t \in Requests /\ mine[t] \in ready
     THEN UNCHANGED mine /\ \E s \in {"answer", "turn"} : Goto(t, s)
     ELSE Keep(t, NoModel) /\ Goto(t, "rest")
  /\ UNCHANGED <<star, lock, busy, raised, vram, objVars>>

\* A bad context ends the chat before it raised the flag, and lowers it.
ContextError(t) ==
  /\ t \in Requests /\ pc[t] = "answer"
  /\ busy' = FALSE
  /\ Keep(t, NoModel) /\ Goto(t, "rest")
  /\ UNCHANGED <<star, lock, raised, vram, objVars>>

Raise(t) ==
  /\ \/ t \in Requests /\ pc[t] = "answer" /\ Goto(t, "prepare")
     \/ t \notin Requests /\ pc[t] = "set" /\ Goto(t, "turn")
  /\ busy' = TRUE /\ raised' = raised \cup {t}
  /\ UNCHANGED <<star, lock, vram, objVars, mine>>

\* A chat gathers its evidence before the try whose finally lowers the flag: an
\* exception in there leaves it up.  A cached reply needs no turn.
Prepare(t) ==
  /\ pc[t] = "prepare"
  /\ \/ UNCHANGED <<raised, mine>> /\ \E s \in {"turn", "clear"} : Goto(t, s)
     \/ Goto(t, "rest") /\ raised' = raised \ {t} /\ Keep(t, NoModel)
  /\ UNCHANGED <<star, lock, busy, vram, objVars>>

\* Seeded fault: a turn of Ollama that already has its model does not ask for the VRAM.
BeginUnlocked(t) ==
  /\ pc[t] = "turn" /\ mine[t] \in ready
  /\ \/ engine[mine[t]] = "ollama" /\ Generating("ollama") = {} /\ vram' = "ollama"
     \/ engine[mine[t]] = "exl3" /\ UNCHANGED vram
  /\ Goto(t, "generating")
  /\ UNCHANGED <<star, lock, busy, raised, objVars, mine>>

\* Ollama takes one request at a time and holds the VRAM lock for it; an unloaded
\* provider and a VRAM lock of ExL3 are errors of the turn.
Begin(t) ==
  /\ pc[t] = "turn" /\ mine[t] \in ready
  /\ \/ engine[mine[t]] = "ollama" /\ Generating("ollama") = {} /\ vram = "none" /\ vram' = "ollama"
     \/ engine[mine[t]] = "exl3" /\ UNCHANGED vram
  /\ Goto(t, "generating")
  /\ UNCHANGED <<star, lock, busy, raised, objVars, mine>>

Refused(t) ==
  /\ pc[t] = "turn"
  /\ mine[t] \notin ready \/ (engine[mine[t]] = "ollama" /\ vram = "exl3")
  /\ Goto(t, "clear")
  /\ UNCHANGED <<star, lock, busy, raised, vram, objVars, mine>>

\* Seeded fault: an interrupted turn leaves for a step that does not exist.
EndAborted(t) ==
  /\ pc[t] = "generating"
  /\ vram' = IF engine[mine[t]] = "ollama" /\ vram = "ollama" THEN "none" ELSE vram
  /\ \E s \in {"turn", "clear", "aborted"} : Goto(t, s)
  /\ UNCHANGED <<star, lock, busy, raised, objVars, mine>>

\* A turn may call the model again.
End(t) ==
  /\ pc[t] = "generating"
  /\ vram' = IF engine[mine[t]] = "ollama" /\ vram = "ollama" THEN "none" ELSE vram
  /\ \E s \in {"turn", "clear"} : Goto(t, s)
  /\ UNCHANGED <<star, lock, busy, raised, objVars, mine>>

\* finally: the flag goes down, whoever else has it up.
Clear(t) ==
  /\ pc[t] = "clear"
  /\ busy' = IF t \in raised THEN FALSE ELSE busy
  /\ raised' = raised \ {t}
  /\ \/ t \in Requests /\ Goto(t, "rest") /\ Keep(t, NoModel)
     \/ t \in Reviewers /\ Goto(t, "item") /\ UNCHANGED mine
     \/ t = "tier2" /\ Goto(t, "pass") /\ UNCHANGED mine
  /\ UNCHANGED <<star, lock, vram, objVars>>

-----------------------------------------------------------------------------
(* The review worker uses a loaded model, never loads one.                 *)

Poll(t) ==
  /\ t \in Reviewers /\ pc[t] = "rest" /\ ~busy
  /\ Goto(t, "peek")
  /\ UNCHANGED <<star, lock, busy, raised, vram, objVars, mine>>

Peek(t) ==
  /\ pc[t] = "peek"
  /\ IF star \in ready THEN Keep(t, star) /\ Goto(t, "item")
                       ELSE Goto(t, "rest") /\ UNCHANGED mine
  /\ UNCHANGED <<star, lock, busy, raised, vram, objVars>>

\* Between two items it gives way to the flag.
Item(t) ==
  /\ pc[t] = "item"
  /\ \/ ~busy /\ Goto(t, "set") /\ UNCHANGED mine
     \/ Goto(t, "rest") /\ Keep(t, NoModel)
  /\ UNCHANGED <<star, lock, busy, raised, vram, objVars>>

-----------------------------------------------------------------------------
(* Tier 2 of the idle worker, after the tier 1 of the same cycle.          *)

Tier2(step) == pc["tier2"] = step

StartCycle ==
  /\ Tier2("rest") /\ ~busy
  /\ Goto("tier2", "tier1")
  /\ UNCHANGED <<star, lock, busy, raised, vram, objVars, mine>>

\* Not due; a deep pass with an engine of its own; or a pass on the chat's model.
\* The idle test is not repeated after tier 1.
Decide ==
  /\ Tier2("tier1")
  /\ \/ Goto("tier2", "rest") /\ UNCHANGED mine
     \/ /\ star \notin ready \cap owned
        /\ Goto("tier2", IF star \in ready THEN "evict" ELSE "fetch")
        /\ UNCHANGED mine
     \/ star \in ready \ owned /\ Goto("tier2", "pass") /\ Keep("tier2", star)
  /\ UNCHANGED <<star, lock, busy, raised, vram, objVars>>

\* The deep pass unloads whatever the global holds, without DEEP_DIVE_LOCK; a chat
\* may replace it before it is forgotten.
Evict ==
  /\ Tier2("evict")
  /\ IF star = NoModel THEN UNCHANGED <<ready, vram>> ELSE Unload(star)
  /\ Goto("tier2", "forget")
  /\ UNCHANGED <<star, lock, busy, raised, engine, owned, bare, mine>>

Forget ==
  /\ Tier2("forget")
  /\ star' = NoModel
  /\ Goto("tier2", "fetch")
  /\ UNCHANGED <<lock, busy, raised, vram, objVars, mine>>

\* ExL3Provider.load waits for a running Ollama request, then takes the VRAM lock;
\* the lock is reentrant for this process.
Fetch ==
  /\ Tier2("fetch") /\ vram # "ollama"
  /\ \E o \in Fresh :
       /\ engine' = [engine EXCEPT ![o] = "exl3"]
       /\ ready' = ready \ {o} /\ owned' = owned \ {o} /\ bare' = bare \ {o}
       /\ Keep("tier2", o)
  /\ vram' = "exl3"
  /\ Goto("tier2", "loading")
  /\ UNCHANGED <<star, lock, busy, raised>>

\* Ollama got the VRAM first, or kept it for five minutes.
NoVram ==
  /\ Tier2("fetch") /\ vram = "ollama"
  /\ Goto("tier2", "fallback")
  /\ UNCHANGED <<star, lock, busy, raised, vram, objVars, mine>>

\* Loaded and marked; or the load failed and the VRAM lock is given back.
Loaded ==
  /\ Tier2("loading")
  /\ \/ ready' = ready \cup {mine["tier2"]} /\ owned' = owned \cup {mine["tier2"]}
        /\ Goto("tier2", "install") /\ UNCHANGED <<vram, mine>>
     \/ vram' = "none" /\ Keep("tier2", NoModel)
        /\ Goto("tier2", "fallback") /\ UNCHANGED <<ready, owned>>
  /\ UNCHANGED <<star, lock, busy, raised, engine, bare>>

\* Ollama takes the place of ExL3 with the same mark, or the pass is off.
Fallback ==
  /\ Tier2("fallback")
  /\ \/ /\ vram # "exl3"
        /\ \E o \in Fresh :
             /\ engine' = [engine EXCEPT ![o] = "ollama"]
             /\ ready' = ready \cup {o} /\ owned' = owned \cup {o} /\ bare' = bare \ {o}
             /\ Keep("tier2", o)
        /\ Goto("tier2", "install")
     \/ Goto("tier2", "rest") /\ UNCHANGED <<objVars, mine>>
  /\ UNCHANGED <<star, lock, busy, raised, vram>>

Install ==
  /\ Tier2("install")
  /\ star' = mine["tier2"]
  /\ Goto("tier2", "pass")
  /\ UNCHANGED <<lock, busy, raised, vram, objVars, mine>>

\* The next task, with the flag up (review_batch) or without, or the end of the
\* pass; should_abort looks at the flag.
NextTask ==
  /\ Tier2("pass")
  /\ \/ ~busy /\ \E s \in {"turn", "set"} : Goto("tier2", s)
     \/ Goto("tier2", "finally")
  /\ UNCHANGED <<star, lock, busy, raised, vram, objVars, mine>>

\* Seeded fault: the finally gives way to a chat and leaves its engine loaded.
FinallyYields ==
  /\ Tier2("finally")
  /\ \/ /\ star = mine["tier2"] /\ star \in owned /\ lock = "none" /\ ~busy
        /\ Unload(star) /\ star' = NoModel
     \/ /\ ~(star = mine["tier2"] /\ star \in owned /\ ~busy)
        /\ UNCHANGED <<ready, vram, star>>
  /\ Goto("tier2", "rewarm")
  /\ UNCHANGED <<lock, busy, raised, engine, owned, bare, mine>>

\* Seeded fault: the finally does not ask whose instance it is.
FinallyUnguarded ==
  /\ Tier2("finally")
  /\ IF lock = "none" /\ star # NoModel THEN Unload(star) /\ star' = NoModel
                                        ELSE UNCHANGED <<ready, vram, star>>
  /\ Goto("tier2", "rewarm")
  /\ UNCHANGED <<lock, busy, raised, engine, owned, bare, mine>>

\* Only the instance this pass loaded is unloaded, under DEEP_DIVE_LOCK.
Finally ==
  /\ Tier2("finally")
  /\ \/ /\ star = mine["tier2"] /\ star \in owned /\ lock = "none"
        /\ Unload(star) /\ star' = NoModel
     \/ /\ ~(star = mine["tier2"] /\ star \in owned)
        /\ UNCHANGED <<ready, vram, star>>
  /\ Goto("tier2", "rewarm")
  /\ UNCHANGED <<lock, busy, raised, engine, owned, bare, mine>>

EndCycle ==
  /\ Tier2("rewarm")
  /\ Goto("tier2", "rest") /\ Keep("tier2", NoModel)
  /\ UNCHANGED <<star, lock, busy, raised, vram, objVars>>

-----------------------------------------------------------------------------
(* A pipeline frees the VRAM for its reporter, without DEEP_DIVE_LOCK.     *)

PipelineUnload ==
  /\ pc["pipeline"] = "rest" /\ star \in ready
  /\ Unload(star)
  /\ Goto("pipeline", "drop")
  /\ UNCHANGED <<star, lock, busy, raised, engine, owned, bare, mine>>

PipelineDrop ==
  /\ pc["pipeline"] = "drop"
  /\ star' = NoModel
  /\ Goto("pipeline", "rest")
  /\ UNCHANGED <<lock, busy, raised, vram, objVars, mine>>

Next ==
  \/ \E t \in Threads :
       \/ Acquire(t) \/ Look(t) \/ Create(t) \/ Load(t) \/ Return(t) \/ Got(t)
       \/ ContextError(t) \/ Raise(t) \/ Prepare(t)
       \/ Begin(t) \/ Refused(t) \/ End(t) \/ Clear(t)
       \/ Poll(t) \/ Peek(t) \/ Item(t)
  \/ StartCycle \/ Decide \/ Evict \/ Forget \/ Fetch \/ NoVram \/ Loaded \/ Fallback \/ Install \/ NextTask
  \/ Finally \/ EndCycle
  \/ PipelineUnload \/ PipelineDrop

Spec == Init /\ [][Next]_vars

-----------------------------------------------------------------------------
(* Properties.                                                             *)

\* vram_lock.py: the engines do not fit together.  While Ollama answers, tier 2 is not
\* loading ExL3, and the shared provider is a loaded ExL3 only if a chat, loading it a
\* second time, gave its VRAM lock away.
OneEngine ==
  Generating("ollama") # {} =>
    pc["tier2"] # "loading" /\ star \notin (ready \cap Engine("exl3")) \ bare

\* The VRAM lock says "ollama" exactly while an answer of Ollama is running; no
\* unload and no failed load of ExL3 takes it away from that answer.
OllamaLease == vram = "ollama" <=> Generating("ollama") # {}

\* A finished pass of tier 2 leaves none of its own engines behind as the shared
\* provider, whoever replaced, unloaded or reloaded what in the meantime.
PassCleansUp == pc["tier2"] = "rest" => star \notin ready \cap owned

\* The end of a pass never unloads the model of a chat.
FinallyIsGuarded ==
  [][pc["tier2"] = "finally" /\ pc'["tier2"] = "rewarm" => ready \ ready' \subseteq owned]_vars

\* Why: tier 2 loads an ExL3 of its own, ...
Tier2Loads == Tier2("loading") => mine["tier2"] \in Engine("exl3")

\* ... an engine of tier 2 is the shared provider only while the pass that loaded it
\* runs, ...
InPass == {"pass", "set", "turn", "generating", "clear", "finally"}

Tier2Owns ==
  /\ star \in owned \cup Engine("exl3") =>
       star \in owned /\ star = mine["tier2"] /\ pc["tier2"] \in InPass
  /\ Tier2("install") => mine["tier2"] \in owned

\* ... the VRAM lock is with ExL3 from the start of a load until its unload, ...
ExL3Lease ==
  /\ Tier2("loading") => vram = "exl3"
  /\ Tier2("install") /\ mine["tier2"] \in Engine("exl3") \ bare => vram = "exl3"
  /\ star \in (ready \cap Engine("exl3")) \ bare => vram = "exl3"

\* ... and at most one thread has an answer of Ollama running.
OneAnswer ==
  /\ \A t \in Threads : pc[t] = "generating" => mine[t] \in Providers
  /\ \A t, u \in Generating("ollama") : t = u
=============================================================================
