------------------------ MODULE ExperimentRunProofs ------------------------
(***************************************************************************)
(* Proofs about ExperimentRun, for any set of runs, any datasets, any      *)
(* number of sockets, threads and restarts.                                *)
(***************************************************************************)
EXTENDS ExperimentRun, TLAPS

\* The inductive invariant: what the sets, the pool and the sockets may be while the
\* coroutine of a run stands at each of its stages.
IInv == TypeOK /\ RunInv /\ SocketInv

\* A gateway that has just started, with an empty store.
LEMMA InitIInv == Init => IInv
<1> SUFFICES ASSUME Init PROVE IInv
  OBVIOUS
<1> USE NoRunAssumption, QuestionsAssumption, RestartsAssumption
        DEF NoRunAssumption, QuestionsAssumption, RestartsAssumption
<1>1. TypeOK
  BY DEF Init, TypeOK, TaskStages, WorkerStages, Copies, ClosedPhases
<1>2. RunInv
  BY DEF Init, RunInv, Consistent, SetsFollowTheTask, WorkerFollowsTheTask, ResultIsAccountedFor,
         StopWaitsForOne, HasResult, Asking, Stored, LoopStages
<1>3. SocketInv
  BY DEF Init, SocketInv, SocketConsistent
<1> QED
  BY <1>1, <1>2, <1>3 DEF IInv

\* Every handler, coroutine step and worker step keeps the types, and a question is only
\* answered while the loop of runner.run has one left.
LEMMA TypeStep == IInv /\ [Next]_vars => TypeOK'
<1> SUFFICES ASSUME IInv, [Next]_vars PROVE TypeOK'
  OBVIOUS
<1> USE NoRunAssumption, QuestionsAssumption, RestartsAssumption
        DEF NoRunAssumption, QuestionsAssumption, RestartsAssumption
<1> USE DEF IInv, TypeOK, memory, work, store, asides
<1> USE DEF TaskStages, LiveStages, PoolStages, FinalStages, WorkerStages, BusyStages,
            LoopStages, Copies, OpenPhases, ClosedPhases
<1>1. ASSUME NEW r \in Runs, CreateExperiment(r) PROVE TypeOK'
  <2>1. PICK stage \in TaskStages : task' = [task EXCEPT ![r] = stage]
    <3>1. "refused" \in TaskStages /\ "scheduled" \in TaskStages
      OBVIOUS
    <3>2. QED
      BY <1>1, <3>1, Zenon DEF CreateExperiment
  <2>2. progress' \in [Runs -> Seq(Nat)]
    BY <1>1 DEF CreateExperiment
  <2>3. running' \subseteq Runs
    <3>1. running' = running \/ running' = running \cup {r}
      BY <1>1, Zenon DEF CreateExperiment
    <3>2. QED
      BY <3>1
  <2>4. UNCHANGED <<errors, stopRequested, worker, answered, stopped, store, asides,
                    stopAt, restarts>>
    BY <1>1, Zenon DEF CreateExperiment
  <2>5. QED
    BY <2>1, <2>2, <2>3, <2>4
<1>2. ASSUME NEW r \in Runs, PoolStep(r) PROVE TypeOK'
  <2>1. \E stage \in WorkerStages : worker' = [worker EXCEPT ![r] = stage]
    BY <1>2, Zenon DEF PoolStep, TakeWorker, OfflineWork
  <2>2. UNCHANGED <<memory, task, answered, stopped, store, asides, stopAt, restarts>>
    BY <1>2, Zenon DEF PoolStep, TakeWorker, OfflineWork
  <2>3. QED
    BY <2>1, <2>2
<1>3. ASSUME NEW r \in Runs, RunnerStep(r) PROVE TypeOK'
  <2>1. CASE BuildPipeline(r)
    BY <2>1 DEF BuildPipeline
  <2>2. CASE CheckStop(r)
    <3>1. PICK stage \in WorkerStages : worker' = [worker EXCEPT ![r] = stage]
      <4>1. "returned" \in WorkerStages /\ "answer" \in WorkerStages
        OBVIOUS
      <4>2. QED
        BY <2>2, <4>1, Zenon DEF CheckStop
    <3>2. stopped' = stopped \/ stopped' = [stopped EXCEPT ![r] = TRUE]
      BY <2>2, Zenon DEF CheckStop
    <3>3. UNCHANGED <<memory, task, answered, store, asides, stopAt, restarts>>
      BY <2>2, Zenon DEF CheckStop
    <3>4. QED
      BY <3>1, <3>2, <3>3
  <2>3. CASE AnswerQuestion(r)
    <3>1. answered[r] < Questions[r]
      BY <2>3 DEF AnswerQuestion, RunInv, Consistent, WorkerFollowsTheTask
    <3>2. QED
      BY <2>3, <3>1 DEF AnswerQuestion
  <2>4. CASE EvaluatorRaises(r)
    BY <2>4 DEF EvaluatorRaises
  <2>5. QED
    BY <1>3, <2>1, <2>2, <2>3, <2>4 DEF RunnerStep
<1>4. ASSUME NEW r \in Runs, CoroutineStep(r) PROVE TypeOK'
  <2>1. CASE StartTask(r)
    BY <2>1 DEF StartTask, Submit
  <2>2. CASE QuestionsReturned(r)
    BY <2>2 DEF QuestionsReturned
  <2>3. CASE ReadManifest(r)
    BY <2>3 DEF ReadManifest, Submit
  <2>4. CASE Judged(r)
    <3>1. PICK stage \in TaskStages : task' = [task EXCEPT ![r] = stage]
      <4>1. "save" \in TaskStages /\ "rebuild" \in TaskStages
        OBVIOUS
      <4>2. QED
        BY <2>4, <4>1, Zenon DEF Judged, Submit
    <3>2. PICK job \in WorkerStages : worker' = [worker EXCEPT ![r] = job]
      <4>1. "idle" \in WorkerStages /\ "queued" \in WorkerStages
        OBVIOUS
      <4>2. QED
        BY <2>4, <4>1, Zenon DEF Judged, Submit
    <3>3. UNCHANGED <<memory, answered, stopped, store, asides, stopAt, restarts>>
      BY <2>4, Zenon DEF Judged
    <3>4. QED
      BY <3>1, <3>2, <3>3
  <2>5. CASE Rebuilt(r)
    BY <2>5 DEF Rebuilt, Submit
  <2>6. CASE Diagnosed(r)
    BY <2>6 DEF Diagnosed
  <2>7. CASE JobRaised(r)
    BY <2>7 DEF JobRaised, Finish
  <2>8. CASE SaveDocument(r)
    BY <2>8 DEF SaveDocument
  <2>9. CASE WriteFile(r)
    <3>1. \E copy \in Copies : file' = [file EXCEPT ![r] = copy]
      <4>1. file[r] \in Copies /\ "whole" \in Copies /\ "torn" \in Copies
        OBVIOUS
      <4>2. QED
        BY <2>9, <4>1, Zenon DEF WriteFile
    <3>2. file' \in [Runs -> Copies]
      BY <3>1
    <3>3. PICK how \in {"kept", "failed"} : Finish(r, how)
      BY <2>9, Zenon DEF WriteFile
    <3>4. inDb' = inDb
      BY <2>9 DEF WriteFile
    <3>5. how \in TaskStages
      BY <3>3
    <3>6. QED
      BY <3>2, <3>3, <3>4, <3>5 DEF Finish
  <2>10. QED
    BY <1>4, <2>1, <2>2, <2>3, <2>4, <2>5, <2>6, <2>7, <2>8, <2>9 DEF CoroutineStep
<1>5. ASSUME NEW r \in Runs, StopExperiment(r) PROVE TypeOK'
  BY <1>5 DEF StopExperiment
<1>6. ASSUME NEW r \in Runs, DeleteDocument(r) PROVE TypeOK'
  BY <1>6 DEF DeleteDocument
<1>7. CASE DeleteFile
  BY <1>7 DEF DeleteFile
<1>8. CASE ReadStore
  BY <1>8 DEF ReadStore
<1>9. CASE Reply
  BY <1>9 DEF Reply
<1>10. ASSUME NEW s \in Sockets, NEW r \in Runs, ConnectSocket(s, r) PROVE TypeOK'
  BY <1>10 DEF ConnectSocket, SetSocket
<1>11. ASSUME NEW s \in Sockets, SocketStep(s) PROVE TypeOK'
  <2>1. socket[s].run \in Runs
    BY <1>11 DEF SocketStep, DrainEvents, CheckMemory, CheckExists, SocketInv,
                SocketConsistent
  <2>2. Len(progress[socket[s].run]) \in Nat /\ socket[s].sent \in Nat
    BY <2>1
  <2>3. CASE DrainEvents(s)
    BY <2>1, <2>2, <2>3 DEF DrainEvents, SetSocket
  <2>4. CASE CheckMemory(s)
    BY <2>1, <2>2, <2>4 DEF CheckMemory, SetSocket
  <2>5. CASE CheckExists(s)
    BY <2>1, <2>2, <2>5 DEF CheckExists, SetSocket
  <2>6. QED
    BY <1>11, <2>3, <2>4, <2>5 DEF SocketStep
<1>12. ASSUME NEW s \in Sockets, Disconnect(s) PROVE TypeOK'
  BY <1>12 DEF Disconnect, SetSocket
<1>13. CASE Restart
  BY <1>13 DEF Restart, Active
<1>14. CASE UNCHANGED vars
  BY <1>14 DEF vars
<1>15. QED
  BY <1>1, <1>2, <1>3, <1>4, <1>5, <1>6, <1>7, <1>8, <1>9, <1>10, <1>11, <1>12, <1>13,
     <1>14 DEF Next

\* Every step leaves each run's sets, pool job, result and accepted stop consistent.
LEMMA RunStep == IInv /\ [Next]_vars => RunInv'
<1> SUFFICES ASSUME IInv, [Next]_vars PROVE RunInv'
  OBVIOUS
<1> USE NoRunAssumption, QuestionsAssumption, RestartsAssumption
        DEF NoRunAssumption, QuestionsAssumption, RestartsAssumption
<1> USE DEF IInv, TypeOK, memory, work, store, asides
<1> USE DEF TaskStages, LiveStages, PoolStages, FinalStages, WorkerStages, BusyStages,
            LoopStages, Copies, Active
<1> USE DEF RunInv, Consistent, SetsFollowTheTask, WorkerFollowsTheTask, ResultIsAccountedFor,
            StopWaitsForOne, HasResult, Asking, Stored
<1>1. ASSUME NEW r \in Runs, CreateExperiment(r) PROVE RunInv'
  <2>1. SUFFICES ASSUME NEW q \in Runs PROVE Consistent(q)'
    BY DEF RunInv
  <2>2. CASE q = r
    <3>1. /\ task[r] = "none" /\ stopAt'[r] = {} /\ ~stopped'[r] /\ worker'[r] = "idle"
          /\ r \notin stopRequested' \cup errors' \cup inDb' \cup reader'.rows
          /\ file'[r] = "absent"
      BY <1>1 DEF CreateExperiment
    <3>2. \/ task'[r] = "refused" /\ r \notin running'
          \/ task'[r] = "scheduled" /\ r \in running'
      <4>1. r \notin running
        BY <1>1 DEF CreateExperiment
      <4>2. QED
        <5>1. CASE task' = [task EXCEPT ![r] = "refused"] /\ running' = running
          BY <4>1, <5>1
        <5>2. CASE task' = [task EXCEPT ![r] = "scheduled"] /\ running' = running \cup {r}
          BY <5>2
        <5>3. QED
          BY <1>1, <5>1, <5>2 DEF CreateExperiment
    <3>3. QED
      BY <2>2, <3>1, <3>2
  <2>3. CASE q # r
    BY <1>1, <2>3 DEF CreateExperiment
  <2>4. QED
    BY <2>2, <2>3
<1>2. ASSUME NEW r \in Runs, PoolStep(r) PROVE RunInv'
  <2>1. PICK stage \in {"build", "offline", "returned", "raised"} :
          /\ worker' = [worker EXCEPT ![r] = stage]
          /\ stage = "build" => worker[r] = "queued" /\ task[r] = "questions"
          /\ stage # "build" => task[r] # "questions" /\ worker[r] \in {"queued", "offline"}
    BY <1>2 DEF PoolStep, TakeWorker, OfflineWork
  <2>2. UNCHANGED <<memory, task, answered, stopped, store, asides, stopAt, restarts>>
    BY <1>2, Zenon DEF PoolStep, TakeWorker, OfflineWork
  <2>3. QED
    BY <2>1, <2>2
<1>3. ASSUME NEW r \in Runs, RunnerStep(r) PROVE RunInv'
  <2>1. CASE BuildPipeline(r)
    BY <2>1 DEF BuildPipeline
  <2>2. CASE CheckStop(r)
    <3>1. SUFFICES ASSUME NEW q \in Runs PROVE Consistent(q)'
      BY DEF RunInv
    <3>2. CASE q = r
      BY <2>2, <3>2 DEF CheckStop
    <3>3. CASE q # r
      BY <2>2, <3>3 DEF CheckStop
    <3>4. QED
      BY <3>2, <3>3
  <2>3. CASE AnswerQuestion(r)
    BY <2>3 DEF AnswerQuestion
  <2>4. CASE EvaluatorRaises(r)
    BY <2>4 DEF EvaluatorRaises
  <2>5. QED
    BY <1>3, <2>1, <2>2, <2>3, <2>4 DEF RunnerStep
<1>4. ASSUME NEW r \in Runs, CoroutineStep(r) PROVE RunInv'
  <2>1. CASE StartTask(r)
    BY <2>1 DEF StartTask, Submit
  <2>2. CASE QuestionsReturned(r)
    BY <2>2 DEF QuestionsReturned
  <2>3. CASE ReadManifest(r)
    BY <2>3 DEF ReadManifest, Submit
  <2>4. CASE Judged(r)
    BY <2>4 DEF Judged, Submit
  <2>5. CASE Rebuilt(r)
    BY <2>5 DEF Rebuilt, Submit
  <2>6. CASE Diagnosed(r)
    BY <2>6 DEF Diagnosed
  <2>7. CASE JobRaised(r)
    BY <2>7 DEF JobRaised, Finish
  <2>8. CASE SaveDocument(r)
    BY <2>8 DEF SaveDocument
  <2>9. CASE WriteFile(r)
    <3>1. SUFFICES ASSUME NEW q \in Runs PROVE Consistent(q)'
      BY DEF RunInv
    <3>2. PICK how \in {"kept", "failed"} : Finish(r, how)
      BY <2>9, Zenon DEF WriteFile
    <3>3. q # r => file'[q] = file[q]
      BY <2>9 DEF WriteFile
    <3>4. inDb' = inDb
      BY <2>9 DEF WriteFile
    <3>5. CASE q = r
      BY <2>9, <3>2, <3>3, <3>4, <3>5 DEF WriteFile, Finish
    <3>6. CASE q # r
      BY <3>2, <3>3, <3>4, <3>6 DEF Finish
    <3>7. QED
      BY <3>5, <3>6
  <2>10. QED
    BY <1>4, <2>1, <2>2, <2>3, <2>4, <2>5, <2>6, <2>7, <2>8, <2>9 DEF CoroutineStep
<1>5. ASSUME NEW r \in Runs, StopExperiment(r) PROVE RunInv'
  <2>1. SUFFICES ASSUME NEW q \in Runs PROVE Consistent(q)'
    BY DEF RunInv
  <2>2. CASE q = r
    <3>1. stopAt'[r] = IF stopAt[r] = {} THEN {answered[r]} ELSE stopAt[r]
      BY <1>5 DEF StopExperiment
    <3>2. StopWaitsForOne(r)'
      BY <1>5, <3>1 DEF StopExperiment
    <3>3. stopAt'[r] # {}
      <4>1. CASE stopAt[r] = {}
        <5>1. answered[r] \in stopAt'[r]
          BY <3>1, <4>1
        <5>2. QED
          BY <5>1
      <4>2. CASE stopAt[r] # {}
        BY <3>1, <4>2
      <4>3. QED
        BY <4>1, <4>2
    <3>4. QED
      BY <1>5, <2>2, <3>2, <3>3 DEF StopExperiment
  <2>3. CASE q # r
    BY <1>5, <2>3 DEF StopExperiment
  <2>4. QED
    BY <2>2, <2>3
<1>6. ASSUME NEW r \in Runs, DeleteDocument(r) PROVE RunInv'
  BY <1>6 DEF DeleteDocument
<1>7. CASE DeleteFile
  BY <1>7 DEF DeleteFile
<1>8. CASE ReadStore
  BY <1>8 DEF ReadStore, Served
<1>9. CASE Reply
  BY <1>9 DEF Reply
<1>10. ASSUME NEW s \in Sockets,
              (\E r \in Runs : ConnectSocket(s, r)) \/ SocketStep(s) \/ Disconnect(s)
       PROVE  RunInv'
  <2>1. UNCHANGED <<memory, work, store, reader, deleter, stopAt, restarts>>
    BY <1>10, Zenon DEF ConnectSocket, SocketStep, DrainEvents, CheckMemory, CheckExists,
                        Disconnect
  <2>2. QED
    BY <2>1
<1>11. CASE Restart
  BY <1>11 DEF Restart
<1>12. CASE UNCHANGED vars
  BY <1>12 DEF vars
<1>13. QED
  BY <1>1, <1>2, <1>3, <1>4, <1>5, <1>6, <1>7, <1>8, <1>9, <1>10, <1>11, <1>12 DEF Next

\* What a run that was created never does again: be uncreated, come back into _running,
\* or publish while it is not in it.
Advances(q) ==
    task[q] \notin {"none", "refused"} =>
        /\ task'[q] \notin {"none", "refused"}
        /\ q \in running' => q \in running
        /\ \/ progress'[q] = progress[q]
           \/ q \in running /\ Len(progress'[q]) = Len(progress[q]) + 1

\* What a socket relies on: of a created run only more events are published, never fewer,
\* and only while the run is in _running.
LEMMA CreatedRunsAdvance ==
  ASSUME IInv, NEW r \in Runs, NEW q \in Runs,
         \/ CreateExperiment(r) \/ PoolStep(r) \/ RunnerStep(r) \/ CoroutineStep(r)
         \/ StopExperiment(r) \/ DeleteDocument(r)
  PROVE  Advances(q)
<1> USE DEF Advances, IInv, TypeOK, memory, work, store, asides, TaskStages, LiveStages,
            PoolStages, FinalStages
<1>1. CASE CreateExperiment(r)
  BY <1>1 DEF CreateExperiment
<1>2. CASE PoolStep(r)
  <2>1. UNCHANGED <<memory, task>>
    BY <1>2, Zenon DEF PoolStep, TakeWorker, OfflineWork
  <2>2. QED
    BY <2>1
<1>3. CASE RunnerStep(r)
  <2>1. CASE AnswerQuestion(r)
    <3>1. r \in running
      BY <2>1 DEF AnswerQuestion, RunInv, Consistent, WorkerFollowsTheTask,
                  SetsFollowTheTask, LoopStages, Asking
    <3>2. progress[r] \in Seq(Nat) /\ answered[r] + 1 \in Nat
      OBVIOUS
    <3>3. progress'[r] = Append(progress[r], answered[r] + 1)
      BY <2>1 DEF AnswerQuestion
    <3>4. Len(progress'[r]) = Len(progress[r]) + 1
      BY <3>2, <3>3
    <3>5. QED
      BY <2>1, <3>1, <3>4 DEF AnswerQuestion
  <2>2. CASE BuildPipeline(r) \/ CheckStop(r) \/ EvaluatorRaises(r)
    <3>1. UNCHANGED <<memory, task>>
      BY <2>2, Zenon DEF BuildPipeline, CheckStop, EvaluatorRaises
    <3>2. QED
      BY <3>1
  <2>3. QED
    BY <1>3, <2>1, <2>2 DEF RunnerStep
<1>4. CASE CoroutineStep(r)
  <2>1. /\ progress' = progress
        /\ running' \subseteq running
    BY <1>4 DEF CoroutineStep, StartTask, QuestionsReturned, ReadManifest, Judged, Rebuilt,
                Diagnosed, JobRaised, SaveDocument, WriteFile, Finish, Submit
  <2>2. \E stage \in LiveStages \cup {"kept", "failed"} :
           task' = [task EXCEPT ![r] = stage]
    BY <1>4 DEF CoroutineStep, StartTask, QuestionsReturned, ReadManifest, Judged, Rebuilt,
                Diagnosed, JobRaised, SaveDocument, WriteFile, Finish, Submit
  <2>3. QED
    BY <2>1, <2>2
<1>5. CASE StopExperiment(r) \/ DeleteDocument(r)
  BY <1>5 DEF StopExperiment, DeleteDocument
<1>6. QED
  BY <1>1, <1>2, <1>3, <1>4, <1>5

\* Every step leaves the sockets consistent, those that create, run, save or stop included.
LEMMA SocketStepInv == IInv /\ [Next]_vars => SocketInv'
<1> SUFFICES ASSUME IInv, [Next]_vars, NEW s \in Sockets PROVE SocketConsistent(s)'
  BY DEF SocketInv
<1> USE DEF memory, work, store, asides, SocketConsistent
<1>1. TypeOK /\ TypeOK' /\ SocketConsistent(s)
  BY TypeStep DEF IInv, SocketInv
<1>2. \A q \in Runs : Len(progress[q]) \in Nat
  BY <1>1 DEF TypeOK
<1>3. /\ socket[s] \in [phase : OpenPhases \cup ClosedPhases, run : Runs \cup {NoRun},
                        sent : Nat]
      /\ socket[s].sent \in Nat
  BY <1>1 DEF TypeOK
<1>4. ASSUME NEW r \in Runs,
             \/ CreateExperiment(r) \/ PoolStep(r) \/ RunnerStep(r) \/ CoroutineStep(r)
             \/ StopExperiment(r) \/ DeleteDocument(r)
      PROVE  SocketConsistent(s)'
  <2>1. socket' = socket
    BY <1>4 DEF CreateExperiment, PoolStep, TakeWorker, OfflineWork, RunnerStep,
                BuildPipeline, CheckStop, AnswerQuestion, EvaluatorRaises, CoroutineStep,
                StartTask, QuestionsReturned, ReadManifest, Judged, Rebuilt, Diagnosed,
                JobRaised, SaveDocument, WriteFile, Finish, StopExperiment, DeleteDocument
  <2>2. CASE socket[s].phase # "idle"
    <3>1. Advances(socket[s].run)
      BY <1>1, <1>4, <2>2, CreatedRunsAdvance
    <3>2. QED
      BY <1>1, <1>2, <1>3, <2>1, <2>2, <3>1 DEF Advances
  <2>3. QED
    BY <2>1, <2>2
<1>5. CASE DeleteFile \/ ReadStore \/ Reply \/ UNCHANGED vars
  <2>1. UNCHANGED <<running, progress, task, socket>>
    BY <1>5 DEF DeleteFile, ReadStore, Reply, vars
  <2>2. QED
    BY <1>1, <2>1
<1>6. ASSUME NEW t \in Sockets,
             (\E r \in Runs : ConnectSocket(t, r)) \/ SocketStep(t) \/ Disconnect(t)
      PROVE  SocketConsistent(s)'
  <2>1. UNCHANGED <<running, progress, task>>
    BY <1>6, Zenon DEF ConnectSocket, SocketStep, DrainEvents, CheckMemory, CheckExists,
                       Disconnect
  <2>2. CASE s # t
    <3>1. socket'[s] = socket[s]
      BY <1>1, <1>6, <2>2 DEF TypeOK, ConnectSocket, SocketStep, DrainEvents, CheckMemory,
                              CheckExists, Disconnect, SetSocket
    <3>2. QED
      BY <1>1, <2>1, <3>1
  <2>3. ASSUME s = t, NEW r \in Runs, ConnectSocket(s, r)
        PROVE  SocketConsistent(s)'
    <3>1. /\ socket'[s] = [phase |-> "drain", run |-> r, sent |-> 0]
          /\ task[r] \notin {"none", "refused"}
      BY <1>1, <2>3 DEF TypeOK, ConnectSocket, SetSocket
    <3>2. QED
      BY <1>2, <2>1, <3>1
  <2>4. CASE s = t /\ DrainEvents(s)
    BY <1>1, <1>2, <2>1, <2>4 DEF TypeOK, DrainEvents, SetSocket
  <2>5. CASE s = t /\ CheckMemory(s)
    BY <1>1, <1>2, <2>1, <2>5 DEF TypeOK, CheckMemory, SetSocket
  <2>6. CASE s = t /\ CheckExists(s)
    BY <1>1, <1>2, <1>3, <2>1, <2>6 DEF TypeOK, CheckExists, SetSocket
  <2>7. CASE s = t /\ Disconnect(s)
    BY <1>1, <2>7 DEF TypeOK, Disconnect, SetSocket
  <2>8. QED
    BY <1>6, <2>2, <2>3, <2>4, <2>5, <2>6, <2>7 DEF SocketStep
<1>7. CASE Restart
  BY <1>7 DEF Restart
<1>8. QED
  BY <1>4, <1>5, <1>6, <1>7 DEF Next

\* The invariant holds in every state of the gateway.
THEOREM InductiveInvariant == Spec => []IInv
<1>1. IInv /\ [Next]_vars => IInv'
  BY TypeStep, RunStep, SocketStepInv DEF IInv
<1>2. QED
  BY InitIInv, <1>1, PTL DEF Spec

---------------------------------------------------------------------------
(* What the invariant is for *)

\* Types, and no run ever has more results than its dataset has questions.
THEOREM TypeCorrect == Spec => []TypeOK
  BY InductiveInvariant, PTL DEF IInv

\* A run that was told it is stopping answers at most the question in flight.
THEOREM StopIsPrompt == Spec => []StopCostsAtMostOneQuestion
<1>1. IInv => StopCostsAtMostOneQuestion
  <2> SUFFICES ASSUME IInv, NEW r \in Runs, NEW k \in stopAt[r] PROVE answered[r] <= k + 1
    BY DEF StopCostsAtMostOneQuestion
  <2>1. k \in Nat /\ answered[r] \in Nat
    BY DEF IInv, TypeOK
  <2>2. QED
    BY <2>1 DEF IInv, RunInv, Consistent, StopWaitsForOne
<1>2. QED
  BY InductiveInvariant, <1>1, PTL

\* A list or status request never finds one run both stored and running.
THEOREM RunsAreSeenOnce == Spec => []NoRunIsSeenTwice
<1>1. IInv => NoRunIsSeenTwice
  BY DEF IInv, TypeOK, RunInv, Consistent, SetsFollowTheTask, NoRunIsSeenTwice, Asking, Stored
<1>2. QED
  BY InductiveInvariant, <1>1, PTL

\* A socket says "done" only after the last event of its run.
THEOREM DoneIsComplete == Spec => []DoneMeansEverythingSent
<1>1. IInv => DoneMeansEverythingSent
  BY DEF IInv, SocketInv, SocketConsistent, DoneMeansEverythingSent
<1>2. QED
  BY InductiveInvariant, <1>1, PTL

\* The gateway's sets name no run whose coroutine has ended.
THEOREM SetsAreCleared == Spec => []NothingOutlivesItsRun
<1>1. IInv => NothingOutlivesItsRun
  BY DEF IInv, TypeOK, RunInv, Consistent, SetsFollowTheTask, NothingOutlivesItsRun, Asking,
         Active, LiveStages, PoolStages
<1>2. QED
  BY InductiveInvariant, <1>1, PTL

\* The handlers, the coroutine and the runner together implement RunPromise: a kept
\* result is complete, or cut by a stop that somebody asked for.
THEOREM ImplementsThePromise == Spec => KeepsThePromise
<1> USE DEF IInv, TypeOK, memory, work, store, asides
<1> USE DEF lifeOf, Active, TaskStages, LiveStages, PoolStages, FinalStages
<1>1. Init => Promise!PromiseInit
  BY DEF Init, Promise!PromiseInit
<1>2. IInv /\ [Next]_vars => [Promise!PromiseNext]_(Promise!promiseVars)
  <2> SUFFICES ASSUME IInv, [Next]_vars
               PROVE  Promise!PromiseNext \/ UNCHANGED Promise!promiseVars
    OBVIOUS
  <2> USE DEF Promise!promiseVars
  <2>1. ASSUME NEW r \in Runs, CreateExperiment(r)
        PROVE  Promise!Begin(r) \/ UNCHANGED Promise!promiseVars
    <3>1. CASE task' = [task EXCEPT ![r] = "refused"]
      BY <2>1, <3>1 DEF CreateExperiment
    <3>2. CASE task' = [task EXCEPT ![r] = "scheduled"]
      BY <2>1, <3>2 DEF CreateExperiment, Promise!Begin
    <3>3. QED
      BY <2>1, <3>1, <3>2 DEF CreateExperiment
  <2>2. ASSUME NEW r \in Runs, PoolStep(r) PROVE UNCHANGED Promise!promiseVars
    <3>1. UNCHANGED <<task, answered, stopped, stopAt>>
      BY <2>2, Zenon DEF PoolStep, TakeWorker, OfflineWork
    <3>2. QED
      BY <3>1
  <2>3. ASSUME NEW r \in Runs, AnswerQuestion(r) PROVE Promise!Answer(r)
    BY <2>3 DEF AnswerQuestion, Promise!Answer, RunInv, Consistent, WorkerFollowsTheTask,
                LoopStages
  <2>4. ASSUME NEW r \in Runs, CheckStop(r) PROVE UNCHANGED Promise!promiseVars
    <3>1. task[r] = "questions"
      BY <2>4 DEF CheckStop, RunInv, Consistent, WorkerFollowsTheTask, LoopStages
    <3>2. UNCHANGED <<task, answered, stopAt>> /\ \A q \in Runs : q # r => stopped'[q] = stopped[q]
      BY <2>4 DEF CheckStop
    <3>3. lifeOf' = lifeOf
      BY <3>1, <3>2
    <3>4. QED
      BY <3>2, <3>3
  <2>5. ASSUME NEW r \in Runs, BuildPipeline(r) \/ EvaluatorRaises(r)
        PROVE  UNCHANGED Promise!promiseVars
    BY <2>5 DEF BuildPipeline, EvaluatorRaises
  <2>6. ASSUME NEW r \in Runs, StartTask(r) \/ QuestionsReturned(r) \/ ReadManifest(r)
                               \/ Judged(r) \/ Rebuilt(r) \/ Diagnosed(r) \/ SaveDocument(r)
        PROVE  UNCHANGED Promise!promiseVars
    BY <2>6 DEF StartTask, QuestionsReturned, ReadManifest, Judged, Rebuilt, Diagnosed,
                SaveDocument, Submit
  <2>7. ASSUME NEW r \in Runs, JobRaised(r) PROVE Promise!Fail(r)
    BY <2>7 DEF JobRaised, Finish, Promise!Fail
  <2>8. ASSUME NEW r \in Runs, WriteFile(r)
        PROVE  Promise!KeepComplete(r) \/ Promise!KeepCut(r) \/ Promise!Fail(r)
    <3>1. CASE Finish(r, "kept")
      <4>1. /\ task[r] = "file"
            /\ task' = [task EXCEPT ![r] = "kept"]
            /\ UNCHANGED <<answered, stopped, stopAt>>
        BY <2>8, <3>1 DEF WriteFile, Finish
      <4>2. lifeOf[r] = "active"
        BY <4>1
      <4>3. lifeOf' = [lifeOf EXCEPT ![r] = IF stopped[r] THEN "cut" ELSE "complete"]
        BY <4>1
      <4>4. IF stopped[r] THEN stopAt[r] # {} /\ answered[r] < Questions[r]
                          ELSE answered[r] = Questions[r]
        BY <4>1 DEF RunInv, Consistent, ResultIsAccountedFor, HasResult
      <4>5. QED
        BY <4>1, <4>2, <4>3, <4>4 DEF Promise!KeepComplete, Promise!KeepCut
    <3>2. CASE Finish(r, "failed")
      BY <2>8, <3>2 DEF WriteFile, Finish, Promise!Fail
    <3>3. QED
      BY <2>8, <3>1, <3>2 DEF WriteFile
  <2>9. ASSUME NEW r \in Runs, StopExperiment(r) PROVE Promise!AskToStop(r)
    <3>1. /\ r \in running
          /\ stopAt' = [stopAt EXCEPT ![r] = IF @ = {} THEN {answered[r]} ELSE @]
          /\ UNCHANGED <<task, answered, stopped>>
      BY <2>9 DEF StopExperiment, work
    <3>2. lifeOf[r] = "active"
      BY <3>1 DEF RunInv, Consistent, SetsFollowTheTask, Asking
    <3>3. {q \in Runs : stopAt'[q] # {}} = {q \in Runs : stopAt[q] # {}} \cup {r}
      BY <3>1
    <3>4. lifeOf' = lifeOf
      BY <3>1
    <3>5. QED
      BY <3>1, <3>2, <3>3, <3>4 DEF Promise!AskToStop
  <2>10. ASSUME NEW r \in Runs, DeleteDocument(r) PROVE UNCHANGED Promise!promiseVars
    BY <2>10 DEF DeleteDocument
  <2>11. ASSUME DeleteFile \/ ReadStore \/ Reply PROVE UNCHANGED Promise!promiseVars
    BY <2>11 DEF DeleteFile, ReadStore, Reply
  <2>12. ASSUME NEW s \in Sockets,
                (\E r \in Runs : ConnectSocket(s, r)) \/ SocketStep(s) \/ Disconnect(s)
         PROVE  UNCHANGED Promise!promiseVars
    <3>1. UNCHANGED <<task, answered, stopped, stopAt>>
      BY <2>12, Zenon DEF ConnectSocket, SocketStep, DrainEvents, CheckMemory, CheckExists,
                          Disconnect
    <3>2. QED
      BY <3>1
  <2>13. ASSUME Restart PROVE Promise!Lose
    BY <2>13 DEF Restart, Promise!Lose
  <2>14. CASE UNCHANGED vars
    BY <2>14 DEF vars
  <2>15. QED
    BY <2>1, <2>2, <2>3, <2>4, <2>5, <2>6, <2>7, <2>8, <2>9, <2>10, <2>11, <2>12, <2>13,
       <2>14 DEF Next, RunnerStep, CoroutineStep, Promise!PromiseNext
<1>3. QED
  BY InductiveInvariant, <1>1, <1>2, PTL DEF Spec, KeepsThePromise, Promise!PromiseSpec
============================================================================
