------------------------------ MODULE StarProofs ------------------------------
(***************************************************************************)
(* What StarModel promises for any number of chats, reviewers and provider *)
(* objects.                                                                *)
(***************************************************************************)
EXTENDS StarModel, TLAPS

\* The type invariant needs to know what tier 2 is loading to be inductive.
LEMMA TypesInductive == Spec => [](TypeOK /\ Tier2Loads)
<1>1. Init => TypeOK /\ Tier2Loads
  BY DEF Init, TypeOK, Steps, Tier2Loads, Tier2, Threads
<1>2. TypeOK /\ Tier2Loads /\ [Next]_vars => (TypeOK /\ Tier2Loads)'
  <2> SUFFICES ASSUME TypeOK, Tier2Loads, [Next]_vars
               PROVE  (TypeOK /\ Tier2Loads)'
    OBVIOUS
  <2> USE ThreadsAssumption
          DEF TypeOK, Tier2Loads, Steps, Goto, Keep, Unload, Fresh, Engine, objVars,
              Tier2, Threads
  <2>1. ASSUME NEW t \in Threads, Acquire(t) \/ Return(t) \/ Got(t)
        PROVE  (TypeOK /\ Tier2Loads)'
    BY <2>1 DEF Acquire, Return, Got
  <2>2. ASSUME NEW t \in Threads, Look(t)
        PROVE  (TypeOK /\ Tier2Loads)'
    BY <2>2 DEF Look
  <2>3. ASSUME NEW t \in Threads, Create(t)
        PROVE  (TypeOK /\ Tier2Loads)'
    BY <2>3 DEF Create
  <2>4. ASSUME NEW t \in Threads, Load(t)
        PROVE  (TypeOK /\ Tier2Loads)'
    BY <2>4 DEF Load
  <2>5. ASSUME NEW t \in Threads, ContextError(t)
        PROVE  (TypeOK /\ Tier2Loads)'
    BY <2>5 DEF ContextError
  <2>6. ASSUME NEW t \in Threads, Prepare(t)
        PROVE  (TypeOK /\ Tier2Loads)'
    BY <2>6 DEF Prepare
  <2>7. ASSUME NEW t \in Threads, Raise(t)
        PROVE  (TypeOK /\ Tier2Loads)'
    BY <2>7 DEF Raise
  <2>8. ASSUME NEW t \in Threads, Begin(t)
        PROVE  (TypeOK /\ Tier2Loads)'
    BY <2>8 DEF Begin
  <2>9. ASSUME NEW t \in Threads, Refused(t)
        PROVE  (TypeOK /\ Tier2Loads)'
    BY <2>9 DEF Refused
  <2>10. ASSUME NEW t \in Threads, End(t)
        PROVE  (TypeOK /\ Tier2Loads)'
    BY <2>10 DEF End
  <2>11. ASSUME NEW t \in Threads, Clear(t)
        PROVE  (TypeOK /\ Tier2Loads)'
    BY <2>11 DEF Clear
  <2>12. ASSUME NEW t \in Threads, Poll(t) \/ Peek(t) \/ Item(t)
        PROVE  (TypeOK /\ Tier2Loads)'
    BY <2>12 DEF Poll, Peek, Item
  <2>13. CASE StartCycle \/ Decide
    BY <2>13 DEF StartCycle, Decide
  <2>14. CASE Evict
    BY <2>14 DEF Evict
  <2>15. CASE Forget
    BY <2>15 DEF Forget
  <2>16. CASE Fetch
    BY <2>16 DEF Fetch
  <2>17. CASE NoVram
    BY <2>17 DEF NoVram
  <2>18. CASE Loaded
    BY <2>18 DEF Loaded
  <2>19. CASE Fallback
    BY <2>19 DEF Fallback
  <2>20. CASE Install
    BY <2>20 DEF Install
  <2>21. CASE NextTask
    BY <2>21 DEF NextTask
  <2>22. CASE Finally
    BY <2>22 DEF Finally
  <2>23. CASE EndCycle
    BY <2>23 DEF EndCycle
  <2>24. CASE PipelineUnload
    BY <2>24 DEF PipelineUnload
  <2>25. CASE PipelineDrop
    BY <2>25 DEF PipelineDrop
  <2>26. CASE UNCHANGED vars
    BY <2>26 DEF vars
  <2> QED
    BY <2>1, <2>2, <2>3, <2>4, <2>5, <2>6, <2>7, <2>8, <2>9, <2>10, <2>11,
       <2>12, <2>13, <2>14, <2>15, <2>16, <2>17, <2>18, <2>19, <2>20, <2>21,
       <2>22, <2>23, <2>24, <2>25, <2>26 DEF Next
<1> QED
  BY <1>1, <1>2, PTL DEF Spec

\* Every reachable state of the shared model is well typed.
THEOREM StarTypes == Spec => []TypeOK
<1> QED
  BY TypesInductive, PTL

\* An engine of tier 2 is the shared provider only while its pass runs.
LEMMA EngineOfThePass == Spec => []Tier2Owns
<1>1. Init => Tier2Owns
  BY NoModelAssumption DEF Init, Tier2Owns, Engine, Tier2, Threads
<1>2. TypeOK /\ Tier2Loads /\ Tier2Owns /\ [Next]_vars => Tier2Owns'
  <2> SUFFICES ASSUME TypeOK, Tier2Loads, Tier2Owns, [Next]_vars
               PROVE  Tier2Owns'
    OBVIOUS
  <2> USE NoModelAssumption, ThreadsAssumption
          DEF TypeOK, Tier2Loads, Tier2Owns, InPass, Goto, Keep, Unload, Fresh, Engine, objVars,
              Tier2, Threads
  <2>1. ASSUME NEW t \in Threads, Acquire(t) \/ Return(t) \/ Got(t)
        PROVE  Tier2Owns'
    BY <2>1 DEF Acquire, Return, Got
  <2>2. ASSUME NEW t \in Threads, Look(t)
        PROVE  Tier2Owns'
    BY <2>2 DEF Look
  <2>3. ASSUME NEW t \in Threads, Create(t)
        PROVE  Tier2Owns'
    BY <2>3 DEF Create
  <2>4. ASSUME NEW t \in Threads, Load(t)
        PROVE  Tier2Owns'
    BY <2>4 DEF Load
  <2>5. ASSUME NEW t \in Threads, ContextError(t) \/ Raise(t) \/ Prepare(t)
        PROVE  Tier2Owns'
    BY <2>5 DEF ContextError, Raise, Prepare
  <2>6. ASSUME NEW t \in Threads, Begin(t)
        PROVE  Tier2Owns'
    BY <2>6 DEF Begin
  <2>7. ASSUME NEW t \in Threads, Refused(t)
        PROVE  Tier2Owns'
    BY <2>7 DEF Refused
  <2>8. ASSUME NEW t \in Threads, Clear(t)
        PROVE  Tier2Owns'
    BY <2>8 DEF Clear
  <2>9. ASSUME NEW t \in Threads, End(t)
        PROVE  Tier2Owns'
    BY <2>9 DEF End
  <2>10. ASSUME NEW t \in Threads, Poll(t) \/ Peek(t) \/ Item(t)
        PROVE  Tier2Owns'
    BY <2>10 DEF Poll, Peek, Item
  <2>11. CASE StartCycle \/ Decide \/ NextTask \/ EndCycle
    BY <2>11 DEF StartCycle, Decide, NextTask, EndCycle
  <2>12. CASE Evict \/ Forget
    BY <2>12 DEF Evict, Forget
  <2>13. CASE Fetch \/ NoVram
    BY <2>13 DEF Fetch, NoVram
  <2>14. CASE Loaded
    BY <2>14 DEF Loaded
  <2>15. CASE Fallback
    BY <2>15 DEF Fallback
  <2>16. CASE Install
    BY <2>16 DEF Install
  <2>17. CASE Finally
    BY <2>17 DEF Finally
  <2>18. CASE PipelineUnload \/ PipelineDrop
    BY <2>18 DEF PipelineUnload, PipelineDrop
  <2>19. CASE UNCHANGED vars
    BY <2>19 DEF vars
  <2> QED
    BY <2>1, <2>2, <2>3, <2>4, <2>5, <2>6, <2>7, <2>8, <2>9, <2>10, <2>11,
       <2>12, <2>13, <2>14, <2>15, <2>16, <2>17, <2>18, <2>19 DEF Next
<1> QED
  BY <1>1, <1>2, TypesInductive, PTL DEF Spec

\* The VRAM lock is with ExL3 from the start of a load until its unload.
LEMMA VramOfTheEngine == Spec => []ExL3Lease
<1>1. Init => ExL3Lease
  BY DEF Init, ExL3Lease, Engine, Tier2, Threads
<1>2. TypeOK /\ Tier2Loads /\ Tier2Owns /\ ExL3Lease /\ [Next]_vars => ExL3Lease'
  <2> SUFFICES ASSUME TypeOK, Tier2Loads, Tier2Owns, ExL3Lease, [Next]_vars
               PROVE  ExL3Lease'
    OBVIOUS
  <2> USE NoModelAssumption, ThreadsAssumption
          DEF TypeOK, Tier2Loads, ExL3Lease, Tier2Owns, InPass, Goto, Keep, Unload,
              Fresh, Engine, objVars, Tier2, Threads
  <2>1. ASSUME NEW t \in Threads, Acquire(t) \/ Return(t) \/ Got(t)
        PROVE  ExL3Lease'
    BY <2>1 DEF Acquire, Return, Got
  <2>2. ASSUME NEW t \in Threads, Look(t)
        PROVE  ExL3Lease'
    BY <2>2 DEF Look
  <2>3. ASSUME NEW t \in Threads, Create(t)
        PROVE  ExL3Lease'
    BY <2>3 DEF Create
  <2>4. ASSUME NEW t \in Threads, Load(t)
        PROVE  ExL3Lease'
    BY <2>4 DEF Load
  <2>5. ASSUME NEW t \in Threads, ContextError(t) \/ Raise(t) \/ Prepare(t)
        PROVE  ExL3Lease'
    BY <2>5 DEF ContextError, Raise, Prepare
  <2>6. ASSUME NEW t \in Threads, Begin(t)
        PROVE  ExL3Lease'
    BY <2>6 DEF Begin
  <2>7. ASSUME NEW t \in Threads, Refused(t)
        PROVE  ExL3Lease'
    BY <2>7 DEF Refused
  <2>8. ASSUME NEW t \in Threads, Clear(t)
        PROVE  ExL3Lease'
    BY <2>8 DEF Clear
  <2>9. ASSUME NEW t \in Threads, End(t)
        PROVE  ExL3Lease'
    BY <2>9 DEF End
  <2>10. ASSUME NEW t \in Threads, Poll(t) \/ Peek(t) \/ Item(t)
        PROVE  ExL3Lease'
    BY <2>10 DEF Poll, Peek, Item
  <2>11. CASE StartCycle \/ Decide \/ NextTask \/ EndCycle
    BY <2>11 DEF StartCycle, Decide, NextTask, EndCycle
  <2>12. CASE Evict \/ Forget
    BY <2>12 DEF Evict, Forget
  <2>13. CASE Fetch \/ NoVram
    BY <2>13 DEF Fetch, NoVram
  <2>14. CASE Loaded
    BY <2>14 DEF Loaded
  <2>15. CASE Fallback
    BY <2>15 DEF Fallback
  <2>16. CASE Install
    BY <2>16 DEF Install
  <2>17. CASE Finally
    BY <2>17 DEF Finally
  <2>18. CASE PipelineUnload \/ PipelineDrop
    BY <2>18 DEF PipelineUnload, PipelineDrop
  <2>19. CASE UNCHANGED vars
    BY <2>19 DEF vars
  <2> QED
    BY <2>1, <2>2, <2>3, <2>4, <2>5, <2>6, <2>7, <2>8, <2>9, <2>10, <2>11,
       <2>12, <2>13, <2>14, <2>15, <2>16, <2>17, <2>18, <2>19 DEF Next
<1> QED
  BY <1>1, <1>2, TypesInductive, EngineOfThePass, PTL DEF Spec

\* Ollama answers one request of this process at a time.
LEMMA OneRequest == Spec => []OneAnswer
<1>1. Init => OneAnswer
  BY DEF Init, OneAnswer, Generating
<1>2. TypeOK /\ OneAnswer /\ [Next]_vars => OneAnswer'
  <2> SUFFICES ASSUME TypeOK, OneAnswer, [Next]_vars
               PROVE  OneAnswer'
    OBVIOUS
  <2> USE NoModelAssumption, ThreadsAssumption
          DEF TypeOK, OneAnswer, Goto, Keep, Unload, Fresh, Engine, Generating, objVars,
              Tier2, Threads
  <2>1. ASSUME NEW t \in Threads, Acquire(t) \/ Return(t) \/ Got(t)
        PROVE  OneAnswer'
    BY <2>1 DEF Acquire, Return, Got
  <2>2. ASSUME NEW t \in Threads, Look(t)
        PROVE  OneAnswer'
    BY <2>2 DEF Look
  <2>3. ASSUME NEW t \in Threads, Create(t)
        PROVE  OneAnswer'
    BY <2>3 DEF Create
  <2>4. ASSUME NEW t \in Threads, Load(t)
        PROVE  OneAnswer'
    BY <2>4 DEF Load
  <2>5. ASSUME NEW t \in Threads, ContextError(t) \/ Raise(t) \/ Prepare(t)
        PROVE  OneAnswer'
    BY <2>5 DEF ContextError, Raise, Prepare
  <2>6. ASSUME NEW t \in Threads, Begin(t)
        PROVE  OneAnswer'
    BY <2>6 DEF Begin
  <2>7. ASSUME NEW t \in Threads, Refused(t)
        PROVE  OneAnswer'
    BY <2>7 DEF Refused
  <2>8. ASSUME NEW t \in Threads, Clear(t)
        PROVE  OneAnswer'
    BY <2>8 DEF Clear
  <2>9. ASSUME NEW t \in Threads, End(t)
        PROVE  OneAnswer'
    BY <2>9 DEF End
  <2>10. ASSUME NEW t \in Threads, Poll(t) \/ Peek(t) \/ Item(t)
        PROVE  OneAnswer'
    BY <2>10 DEF Poll, Peek, Item
  <2>11. CASE StartCycle \/ Decide \/ NextTask \/ EndCycle
    BY <2>11 DEF StartCycle, Decide, NextTask, EndCycle
  <2>12. CASE Evict \/ Forget
    BY <2>12 DEF Evict, Forget
  <2>13. CASE Fetch \/ NoVram
    BY <2>13 DEF Fetch, NoVram
  <2>14. CASE Loaded
    BY <2>14 DEF Loaded
  <2>15. CASE Fallback
    BY <2>15 DEF Fallback
  <2>16. CASE Install
    BY <2>16 DEF Install
  <2>17. CASE Finally
    BY <2>17 DEF Finally
  <2>18. CASE PipelineUnload \/ PipelineDrop
    BY <2>18 DEF PipelineUnload, PipelineDrop
  <2>19. CASE UNCHANGED vars
    BY <2>19 DEF vars
  <2> QED
    BY <2>1, <2>2, <2>3, <2>4, <2>5, <2>6, <2>7, <2>8, <2>9, <2>10, <2>11,
       <2>12, <2>13, <2>14, <2>15, <2>16, <2>17, <2>18, <2>19 DEF Next
<1> QED
  BY <1>1, <1>2, StarTypes, PTL DEF Spec

\* The VRAM lock is Ollama's exactly while Ollama answers: no unload, failed load or
\* refused turn of another thread takes it away, and no turn leaves it behind.
THEOREM VramWhileAnswering == Spec => []OllamaLease
<1>1. Init => OllamaLease
  BY DEF Init, OllamaLease, Generating
<1>2. TypeOK /\ Tier2Owns /\ ExL3Lease /\ OneAnswer /\ OllamaLease /\ [Next]_vars => OllamaLease'
  <2> SUFFICES ASSUME TypeOK, Tier2Owns, ExL3Lease, OneAnswer, OllamaLease, [Next]_vars
               PROVE  OllamaLease'
    OBVIOUS
  <2> USE NoModelAssumption, ThreadsAssumption
          DEF TypeOK, Tier2Owns, InPass, ExL3Lease, OneAnswer, OllamaLease, Goto,
              Keep, Unload, Fresh, Engine, Generating, objVars, Tier2, Threads
  <2>1. ASSUME NEW t \in Threads, Acquire(t) \/ Return(t) \/ Got(t)
        PROVE  OllamaLease'
    BY <2>1 DEF Acquire, Return, Got
  <2>2. ASSUME NEW t \in Threads, Look(t)
        PROVE  OllamaLease'
    BY <2>2 DEF Look
  <2>3. ASSUME NEW t \in Threads, Create(t)
        PROVE  OllamaLease'
    BY <2>3 DEF Create
  <2>4. ASSUME NEW t \in Threads, Load(t)
        PROVE  OllamaLease'
    BY <2>4 DEF Load
  <2>5. ASSUME NEW t \in Threads, ContextError(t) \/ Raise(t) \/ Prepare(t)
        PROVE  OllamaLease'
    BY <2>5 DEF ContextError, Raise, Prepare
  <2>6. ASSUME NEW t \in Threads, Begin(t)
        PROVE  OllamaLease'
    BY <2>6 DEF Begin
  <2>7. ASSUME NEW t \in Threads, Refused(t)
        PROVE  OllamaLease'
    BY <2>7 DEF Refused
  <2>8. ASSUME NEW t \in Threads, Clear(t)
        PROVE  OllamaLease'
    BY <2>8 DEF Clear
  <2>9. ASSUME NEW t \in Threads, End(t)
        PROVE  OllamaLease'
    BY <2>9 DEF End
  <2>10. ASSUME NEW t \in Threads, Poll(t) \/ Peek(t) \/ Item(t)
        PROVE  OllamaLease'
    BY <2>10 DEF Poll, Peek, Item
  <2>11. CASE StartCycle \/ Decide \/ NextTask \/ EndCycle
    BY <2>11 DEF StartCycle, Decide, NextTask, EndCycle
  <2>12. CASE Evict \/ Forget
    BY <2>12 DEF Evict, Forget
  <2>13. CASE Fetch \/ NoVram
    BY <2>13 DEF Fetch, NoVram
  <2>14. CASE Loaded
    BY <2>14 DEF Loaded
  <2>15. CASE Fallback
    BY <2>15 DEF Fallback
  <2>16. CASE Install
    BY <2>16 DEF Install
  <2>17. CASE Finally
    BY <2>17 DEF Finally
  <2>18. CASE PipelineUnload \/ PipelineDrop
    BY <2>18 DEF PipelineUnload, PipelineDrop
  <2>19. CASE UNCHANGED vars
    BY <2>19 DEF vars
  <2> QED
    BY <2>1, <2>2, <2>3, <2>4, <2>5, <2>6, <2>7, <2>8, <2>9, <2>10, <2>11,
       <2>12, <2>13, <2>14, <2>15, <2>16, <2>17, <2>18, <2>19 DEF Next
<1> QED
  BY <1>1, <1>2, StarTypes, EngineOfThePass, VramOfTheEngine, OneRequest, PTL DEF Spec

\* No ExL3 is loaded or being loaded while Ollama answers, but for the one whose VRAM
\* lock a failed second load gave away.
THEOREM EnginesApart == Spec => []OneEngine
<1>1. ExL3Lease /\ OllamaLease => OneEngine
  BY DEF ExL3Lease, OllamaLease, OneEngine, Tier2
<1> QED
  BY <1>1, VramOfTheEngine, VramWhileAnswering, PTL

\* A pass of tier 2 leaves none of its engines behind as the shared provider.
THEOREM NoEngineLeft == Spec => []PassCleansUp
<1>1. Tier2Owns => PassCleansUp
  BY DEF Tier2Owns, PassCleansUp, InPass
<1> QED
  BY <1>1, EngineOfThePass, PTL

\* The end of a pass unloads nothing but an engine of tier 2.
THEOREM ChatModelSpared == Spec => FinallyIsGuarded
<1>1. TypeOK /\ [Next]_vars
        => [pc["tier2"] = "finally" /\ pc'["tier2"] = "rewarm"
              => ready \ ready' \subseteq owned]_vars
  <2> SUFFICES ASSUME TypeOK, [Next]_vars, pc["tier2"] = "finally", pc'["tier2"] = "rewarm"
               PROVE  ready \ ready' \subseteq owned
    OBVIOUS
  <2> USE ThreadsAssumption
          DEF TypeOK, Goto, Keep, Unload, Fresh, Engine, objVars,
              Tier2, Threads
  <2>1. ASSUME NEW t \in Threads, Acquire(t) \/ Return(t) \/ Got(t)
        PROVE  ready \ ready' \subseteq owned
    BY <2>1 DEF Acquire, Return, Got
  <2>2. ASSUME NEW t \in Threads, Look(t)
        PROVE  ready \ ready' \subseteq owned
    BY <2>2 DEF Look
  <2>3. ASSUME NEW t \in Threads, Create(t)
        PROVE  ready \ ready' \subseteq owned
    BY <2>3 DEF Create
  <2>4. ASSUME NEW t \in Threads, Load(t)
        PROVE  ready \ ready' \subseteq owned
    BY <2>4 DEF Load
  <2>5. ASSUME NEW t \in Threads, ContextError(t) \/ Raise(t) \/ Prepare(t)
        PROVE  ready \ ready' \subseteq owned
    BY <2>5 DEF ContextError, Raise, Prepare
  <2>6. ASSUME NEW t \in Threads, Begin(t)
        PROVE  ready \ ready' \subseteq owned
    BY <2>6 DEF Begin
  <2>7. ASSUME NEW t \in Threads, Refused(t)
        PROVE  ready \ ready' \subseteq owned
    BY <2>7 DEF Refused
  <2>8. ASSUME NEW t \in Threads, Clear(t)
        PROVE  ready \ ready' \subseteq owned
    BY <2>8 DEF Clear
  <2>9. ASSUME NEW t \in Threads, End(t)
        PROVE  ready \ ready' \subseteq owned
    BY <2>9 DEF End
  <2>10. ASSUME NEW t \in Threads, Poll(t) \/ Peek(t) \/ Item(t)
        PROVE  ready \ ready' \subseteq owned
    BY <2>10 DEF Poll, Peek, Item
  <2>11. CASE StartCycle \/ Decide \/ NextTask \/ EndCycle
    BY <2>11 DEF StartCycle, Decide, NextTask, EndCycle
  <2>12. CASE Evict \/ Forget
    BY <2>12 DEF Evict, Forget
  <2>13. CASE Fetch \/ NoVram
    BY <2>13 DEF Fetch, NoVram
  <2>14. CASE Loaded
    BY <2>14 DEF Loaded
  <2>15. CASE Fallback
    BY <2>15 DEF Fallback
  <2>16. CASE Install
    BY <2>16 DEF Install
  <2>17. CASE Finally
    BY <2>17 DEF Finally
  <2>18. CASE PipelineUnload \/ PipelineDrop
    BY <2>18 DEF PipelineUnload, PipelineDrop
  <2>19. CASE UNCHANGED vars
    BY <2>19 DEF vars
  <2> QED
    BY <2>1, <2>2, <2>3, <2>4, <2>5, <2>6, <2>7, <2>8, <2>9, <2>10, <2>11,
       <2>12, <2>13, <2>14, <2>15, <2>16, <2>17, <2>18, <2>19 DEF Next
<1> QED
  BY <1>1, StarTypes, PTL DEF Spec, FinallyIsGuarded
=============================================================================
