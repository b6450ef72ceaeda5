------------------------------ MODULE JobsProofs ------------------------------
(***************************************************************************)
(* Proofs about the background jobs of the gateway, for any uploads and     *)
(* restarts, any realms, requests and ports, and any runs to compare.       *)
(***************************************************************************)
EXTENDS MCJobs, ListFacts

----------------------------------------------------------------------------
(* Ingestion *)

Early == {"none", "uploaded", "refused", "created"}
Past == {"saving", "settled"}
Files(j) == Ingestion!Loadable(Ingestion!Written(upload[j]))

IngestionShape ==
    /\ task \in [Uploads -> Early \cup Past \cup {"following", "registering", "ending", "raised",
                                                   "lost"}]
    /\ upload \in [Uploads -> Seq(Names)]
    /\ DOMAIN tmp = Uploads
    /\ exit \in [Uploads -> {"none", "alive", "zero", "other"}]
    /\ DOMAIN left = Uploads /\ DOMAIN indexed = Uploads /\ DOMAIN lines = Uploads
    /\ progress \in [Uploads -> Seq({"start", "progress"} \cup Ingestion!Ending)]
    /\ doc \in [Uploads -> {"running", "done", "error"}]
    /\ history \in [Uploads -> {"none", "done", "error", "deleted"}]
    /\ socket \in [Uploads -> [open : BOOLEAN, sent : Nat]]
    /\ restarts \in Nat

\* The command line works on the files of the upload, which the directory holds until then; it
\* ends well only when it has been through all of them, and a task calls its job done after that.
FilesInv(j) ==
    /\ task[j] \in Early => exit[j] = "none"
    /\ task[j] \in {"uploaded", "created"} => tmp[j] = Ingestion!Written(upload[j])
    /\ task[j] \in Past => tmp[j] = Ingestion!Gone
    /\ left[j] \subseteq Files(j) /\ indexed[j] \subseteq Files(j)
    /\ task[j] = "none" => left[j] = {} /\ indexed[j] = {}
    /\ exit[j] = "zero" => left[j] = {} /\ Files(j) # {}
    /\ doc[j] = "done" => exit[j] = "zero"
    /\ task[j] \in {"registering", "ending", "raised", "saving"} => doc[j] # "running"
    /\ history[j] = "done" => doc[j] = "done"
    /\ history[j] # "none" => task[j] = "settled"

\* An event that ends a job is the last one, and only a task past its emit has sent it; a socket
\* is closed by such an event.
EventsInv(j) ==
    /\ \A i \in 1..Len(progress[j]) : progress[j][i] \in Ingestion!Ending =>
          i = Len(progress[j]) /\ task[j] \in Past
    /\ task[j] \in Past /\ restarts = 0 =>
          Len(progress[j]) > 0 /\ progress[j][Len(progress[j])] \in Ingestion!Ending
    /\ restarts = 0 \/ socket[j].open => socket[j].sent <= Len(progress[j])
    /\ ~socket[j].open /\ socket[j].sent > 0 /\ restarts = 0 =>
          socket[j].sent = Len(progress[j]) /\ task[j] \in Past

IngestionInv == IngestionShape /\ \A j \in Uploads : FilesInv(j) /\ EventsInv(j)

LEMMA IngestionStarts == Ingestion!Init => IngestionInv
BY DEF Ingestion!Init, IngestionInv, IngestionShape, FilesInv, EventsInv, Early, Past,
   Ingestion!Gone, Ingestion!Ending

LEMMA EventsStay ==
    ASSUME \A k \in Uploads : EventsInv(k), UNCHANGED <<progress, socket, restarts>>,
           \A k \in Uploads : task'[k] \in Past <=> task[k] \in Past
    PROVE  \A k \in Uploads : EventsInv(k)'
BY DEF EventsInv

\* A request writes the files and starts a task, or fails.
LEMMA RequestKeeps ==
    ASSUME IngestionInv, NEW j \in Uploads,
           (\E files \in Ingestion!FileLists : Ingestion!Upload(j, files)) \/ Ingestion!StartTask(j)
    PROVE  IngestionInv'
<1> USE DEF Early, Past, Ingestion!Gone, Ingestion!Ending
<1>1. CASE \E files \in Ingestion!FileLists : Ingestion!Upload(j, files)
  <2>1. PICK files \in Ingestion!FileLists : Ingestion!Upload(j, files)
    BY <1>1
  <2>2. files \in Seq(Names)
    BY DEF Ingestion!FileLists
  <2>3. IngestionShape'
    BY <2>1, <2>2 DEF IngestionInv, IngestionShape, Ingestion!Upload, Ingestion!Step, Ingestion!process
  <2>4. ASSUME NEW k \in Uploads PROVE FilesInv(k)'
    <3>1. /\ task[j] = "none" /\ task' = [task EXCEPT ![j] = "uploaded"]
          /\ upload' = [upload EXCEPT ![j] = files]
          /\ tmp' = [tmp EXCEPT ![j] = Ingestion!Written(files)]
          /\ UNCHANGED <<exit, left, indexed, doc, history>>
      BY <2>1 DEF Ingestion!Upload, Ingestion!Step, Ingestion!process
    <3>2. CASE k = j
      <4>1. /\ task'[j] = "uploaded" /\ upload'[j] = files /\ tmp'[j] = Ingestion!Written(files)
            /\ exit[j] = "none" /\ left[j] = {} /\ indexed[j] = {} /\ doc[j] # "done"
            /\ history[j] = "none"
        BY <3>1 DEF IngestionInv, IngestionShape, FilesInv
      <4>2. QED
        BY <3>1, <3>2, <4>1 DEF FilesInv, Files
    <3>3. CASE k # j
      <4>1. task'[k] = task[k] /\ upload'[k] = upload[k] /\ tmp'[k] = tmp[k]
        BY <3>1, <3>3 DEF IngestionInv, IngestionShape
      <4>2. QED
        BY <3>1, <4>1 DEF FilesInv, Files, IngestionInv
    <3>4. QED
      BY <3>2, <3>3
  <2>5. ASSUME NEW k \in Uploads PROVE EventsInv(k)'
    BY <2>1, EventsStay DEF IngestionInv, IngestionShape, Ingestion!Upload, Ingestion!Step
  <2>6. QED
    BY <2>3, <2>4, <2>5 DEF IngestionInv
<1>2. CASE Ingestion!StartTask(j)
  <2>3. IngestionShape'
    BY <1>2 DEF IngestionInv, IngestionShape, Ingestion!StartTask, Ingestion!Step, Ingestion!process
  <2>4. ASSUME NEW k \in Uploads PROVE FilesInv(k)'
    BY <1>2 DEF IngestionInv, IngestionShape, FilesInv, Files, Ingestion!StartTask,
       Ingestion!Step, Ingestion!process
  <2>5. ASSUME NEW k \in Uploads PROVE EventsInv(k)'
    BY <1>2, EventsStay DEF IngestionInv, IngestionShape, Ingestion!StartTask, Ingestion!Step
  <2>6. QED
    BY <2>3, <2>4, <2>5 DEF IngestionInv
<1>3. QED
  BY <1>1, <1>2

\* The task emits an event that ends nothing while it is not past its last.
LEMMA EmitKeeps ==
    ASSUME IngestionShape, \A k \in Uploads : EventsInv(k), NEW j \in Uploads, task[j] \notin Past,
           NEW type \in {"start", "progress"}, Ingestion!Emit(j, type),
           task'[j] \notin Past, \A k \in Uploads \ {j} : task'[k] = task[k],
           UNCHANGED <<socket, restarts>>
    PROVE  \A k \in Uploads : EventsInv(k)'
<1> USE DEF Past, Ingestion!Ending
<1>1. progress' = [progress EXCEPT ![j] = Append(progress[j], type)]
  BY DEF Ingestion!Emit
<1>2. progress[j] \in Seq({"start", "progress"} \cup Ingestion!Ending)
  BY DEF IngestionShape
<1>3. /\ Len(progress'[j]) = Len(progress[j]) + 1
      /\ \A i \in 1..Len(progress'[j]) :
            progress'[j][i] = IF i <= Len(progress[j]) THEN progress[j][i] ELSE type
  BY <1>1, <1>2 DEF IngestionShape
<1>4. ASSUME NEW k \in Uploads \ {j} PROVE EventsInv(k)'
  BY <1>1, <1>4 DEF EventsInv, IngestionShape
<1>5. EventsInv(j)'
  <2>1. EventsInv(j) /\ Len(progress[j]) \in Nat /\ socket[j].sent \in Nat
    BY <1>2 DEF IngestionShape
  <2>2. QED
    BY <1>3, <2>1, SMTT(40) DEF EventsInv
<1>6. QED
  BY <1>4, <1>5

\* The command line is started on the files in the directory, or cannot be.
LEMMA ProcessStarts ==
    ASSUME IngestionInv, NEW j \in Uploads, Ingestion!StartProcess(j) PROVE IngestionInv'
<1> USE DEF Early, Past, Ingestion!Gone, Ingestion!Ending
<1>1. IngestionShape'
  <2>1. \E to \in {"following", "raised"} : task' = [task EXCEPT ![j] = to]
    BY DEF Ingestion!StartProcess, Ingestion!Step
  <2>2. /\ doc' = doc \/ doc' = [doc EXCEPT ![j] = "error"]
        /\ exit' = exit \/ exit' = [exit EXCEPT ![j] = "alive"]
    BY DEF Ingestion!StartProcess
  <2>3. DOMAIN left' = Uploads
    BY DEF IngestionInv, IngestionShape, Ingestion!StartProcess
  <2>4. progress' \in [Uploads -> Seq({"start", "progress"} \cup Ingestion!Ending)]
    BY DEF IngestionInv, IngestionShape, Ingestion!StartProcess, Ingestion!Emit
  <2>5. QED
    <3>1. UNCHANGED <<upload, tmp, lines, indexed, history, socket, restarts>>
      BY DEF Ingestion!StartProcess
    <3>2. /\ task' \in [Uploads -> Early \cup Past \cup {"following", "registering", "ending",
                                                       "raised", "lost"}]
          /\ doc' \in [Uploads -> {"running", "done", "error"}]
          /\ exit' \in [Uploads -> {"none", "alive", "zero", "other"}]
      <4>1. task \in [Uploads -> Early \cup Past \cup {"following", "registering", "ending",
                                                       "raised", "lost"}]
        BY DEF IngestionInv, IngestionShape
      <4>2. doc \in [Uploads -> {"running", "done", "error"}]
            /\ exit \in [Uploads -> {"none", "alive", "zero", "other"}]
        BY DEF IngestionInv, IngestionShape
      <4>3. QED
        BY <2>1, <2>2, <4>1, <4>2
    <3>3. QED
      BY <2>3, <2>4, <3>1, <3>2 DEF IngestionInv, IngestionShape
<1>2. ASSUME NEW k \in Uploads PROVE FilesInv(k)'
  <2>1. CASE k = j
    <3>1. FilesInv(j) /\ task[j] = "created" /\ UNCHANGED <<upload, tmp, indexed, history>>
      BY DEF IngestionInv, Ingestion!StartProcess, Ingestion!Step
    <3>2. left'[j] = Ingestion!Loadable(tmp[j]) \/ left'[j] = left[j]
      BY DEF IngestionInv, IngestionShape, Ingestion!StartProcess
    <3>3. left'[j] \subseteq Files(j) /\ exit'[j] # "zero" /\ Files(j)' = Files(j)
      BY <3>1, <3>2 DEF IngestionInv, IngestionShape, FilesInv, Files, Ingestion!StartProcess
    <3>4. \/ task'[j] = "following" /\ doc'[j] # "done"
          \/ task'[j] = "raised" /\ doc'[j] = "error"
      BY <3>1 DEF IngestionInv, IngestionShape, FilesInv, Ingestion!StartProcess, Ingestion!Step
    <3>5. QED
      BY <2>1, <3>1, <3>3, <3>4 DEF FilesInv
  <2>2. CASE k # j
    BY <2>2 DEF IngestionInv, IngestionShape, FilesInv, Files, Ingestion!StartProcess,
       Ingestion!Step
  <2>3. QED
    BY <2>1, <2>2
<1>3. ASSUME NEW k \in Uploads PROVE EventsInv(k)'
  BY EmitKeeps DEF IngestionInv, IngestionShape, Ingestion!StartProcess, Ingestion!Step
<1>4. QED
  BY <1>1, <1>2, <1>3 DEF IngestionInv

\* A line becomes an event, and the command line's exit the status of the record.
LEMMA FollowingKeeps ==
    ASSUME IngestionInv, NEW j \in Uploads,
           Ingestion!ReadLine(j) \/ Ingestion!WaitForProcess(j) \/ Ingestion!Register(j)
    PROVE  IngestionInv'
<1> USE DEF Early, Past, Ingestion!Gone, Ingestion!Ending
<1>1. IngestionShape'
  <2>1. CASE Ingestion!ReadLine(j)
    BY <2>1 DEF IngestionInv, IngestionShape, Ingestion!ReadLine, Ingestion!Emit
  <2>2. CASE Ingestion!WaitForProcess(j)
    <3>1. \E to \in {"registering", "ending"}, outcome \in {"done", "error"} :
              task' = [task EXCEPT ![j] = to] /\ doc' = [doc EXCEPT ![j] = outcome]
      BY <2>2 DEF Ingestion!WaitForProcess, Ingestion!Exited, Ingestion!Step
    <3>2. UNCHANGED <<upload, tmp, left, exit, lines, indexed, progress, history, socket, restarts>>
      BY <2>2 DEF Ingestion!WaitForProcess, Ingestion!process
    <3>3. QED
      BY <3>1, <3>2 DEF IngestionInv, IngestionShape
  <2>3. CASE Ingestion!Register(j)
    <3>1. \E to \in {"ending", "raised"} : task' = [task EXCEPT ![j] = to]
      BY <2>3 DEF Ingestion!Register, Ingestion!Step
    <3>2. doc' = doc \/ doc' = [doc EXCEPT ![j] = "error"]
      BY <2>3 DEF Ingestion!Register
    <3>3. UNCHANGED <<upload, tmp, left, exit, lines, indexed, progress, history, socket, restarts>>
      BY <2>3 DEF Ingestion!Register, Ingestion!process
    <3>4. QED
      BY <3>1, <3>2, <3>3 DEF IngestionInv, IngestionShape
  <2>4. QED
    BY <2>1, <2>2, <2>3
<1>2. ASSUME NEW k \in Uploads PROVE FilesInv(k)'
  <2>1. FilesInv(k) /\ task[k] \in Early \cup Past \cup {"following", "registering", "ending",
                                                        "raised", "lost"}
    BY DEF IngestionInv, IngestionShape
  <2>2. CASE Ingestion!ReadLine(j)
    BY <2>1, <2>2 DEF FilesInv, Files, Ingestion!ReadLine
  <2>3. CASE Ingestion!WaitForProcess(j)
    <3>1. /\ UNCHANGED <<upload, tmp, left, exit, indexed, history>> /\ Files(k)' = Files(k)
          /\ k # j => UNCHANGED <<task[k], doc[k]>>
          /\ task[j] = "following"
          /\ \/ exit[j] = "zero" /\ task'[j] = "registering" /\ doc'[j] = "done"
             \/ task'[j] = "ending" /\ doc'[j] = "error"
      BY <2>3 DEF IngestionInv, IngestionShape, Files, Ingestion!WaitForProcess,
         Ingestion!Exited, Ingestion!Step, Ingestion!process
    <3>2. QED
      BY <2>1, <3>1 DEF FilesInv
  <2>4. CASE Ingestion!Register(j)
    <3>1. /\ UNCHANGED <<upload, tmp, left, exit, indexed, history>> /\ Files(k)' = Files(k)
          /\ k # j => UNCHANGED <<task[k], doc[k]>>
          /\ task[j] = "registering"
          /\ \/ task'[j] = "ending" /\ doc'[j] = doc[j]
             \/ task'[j] = "raised" /\ doc'[j] = "error"
      BY <2>4 DEF IngestionInv, IngestionShape, Files, Ingestion!Register, Ingestion!Step,
         Ingestion!process
    <3>2. QED
      BY <2>1, <3>1 DEF FilesInv
  <2>5. QED
    BY <2>2, <2>3, <2>4
<1>3. ASSUME NEW k \in Uploads PROVE EventsInv(k)'
  <2>1. CASE Ingestion!ReadLine(j)
    BY <2>1, EmitKeeps DEF IngestionInv, IngestionShape, Ingestion!ReadLine
  <2>2. CASE Ingestion!WaitForProcess(j) \/ Ingestion!Register(j)
    BY <2>2, EventsStay DEF IngestionInv, IngestionShape, Ingestion!WaitForProcess,
       Ingestion!Exited, Ingestion!Register, Ingestion!Step
  <2>3. QED
    BY <2>1, <2>2
<1>4. QED
  BY <1>1, <1>2, <1>3 DEF IngestionInv

\* The last event, and the directory is gone.
LEMMA EndKeeps ==
    ASSUME IngestionInv, NEW j \in Uploads, Ingestion!EmitEnd(j) PROVE IngestionInv'
<1> USE DEF Early, Past, Ingestion!Gone, Ingestion!Ending
<1>1. IngestionShape'
  <2>1. PICK type \in {"done", "error"} :
            progress' = [progress EXCEPT ![j] = Append(progress[j], type)]
    BY DEF Ingestion!EmitEnd, Ingestion!Emit
  <2>2. Append(progress[j], type) \in Seq({"start", "progress"} \cup Ingestion!Ending)
    BY DEF IngestionInv, IngestionShape
  <2>3. progress' \in [Uploads -> Seq({"start", "progress"} \cup Ingestion!Ending)]
    BY <2>1, <2>2 DEF IngestionInv, IngestionShape
  <2>4. task' = [task EXCEPT ![j] = "saving"]
    BY DEF Ingestion!EmitEnd, Ingestion!Step
  <2>5. QED
    BY <2>3, <2>4 DEF IngestionInv, IngestionShape, Ingestion!EmitEnd, Ingestion!process
<1>2. ASSUME NEW k \in Uploads PROVE FilesInv(k)'
  BY DEF IngestionInv, IngestionShape, FilesInv, Files, Ingestion!EmitEnd, Ingestion!Step,
     Ingestion!process
<1>3. PICK type \in {"done", "error"} : progress' = [progress EXCEPT ![j] = Append(progress[j], type)]
  BY DEF Ingestion!EmitEnd, Ingestion!Emit
<1>4. task[j] \in {"ending", "raised"} /\ task' = [task EXCEPT ![j] = "saving"]
      /\ UNCHANGED <<socket, restarts>>
  BY DEF Ingestion!EmitEnd, Ingestion!Step
<1>5. ASSUME NEW k \in Uploads \ {j} PROVE EventsInv(k)'
  BY <1>3, <1>4 DEF EventsInv, IngestionInv, IngestionShape
<1>6. EventsInv(j)'
  <2>1. progress[j] \in Seq({"start", "progress"} \cup Ingestion!Ending)
    BY DEF IngestionInv, IngestionShape
  <2>2. /\ Len(progress'[j]) = Len(progress[j]) + 1
        /\ \A i \in 1..Len(progress'[j]) :
              progress'[j][i] = IF i <= Len(progress[j]) THEN progress[j][i] ELSE type
    BY <1>3, <2>1 DEF IngestionInv, IngestionShape
  <2>3. EventsInv(j) /\ Len(progress[j]) \in Nat /\ socket[j].sent \in Nat /\ task'[j] = "saving"
    BY <1>4, <2>1 DEF IngestionInv, IngestionShape
  <2>4. QED
    BY <1>4, <2>2, <2>3, SMTT(40) DEF EventsInv
<1>7. QED
  BY <1>1, <1>2, <1>5, <1>6 DEF IngestionInv

\* The record is written once the job is over, and removed by a user.
LEMMA HistoryKeeps ==
    ASSUME IngestionInv, NEW j \in Uploads, Ingestion!SaveIngest(j) \/ Ingestion!DeleteIngest(j)
    PROVE  IngestionInv'
<1> USE DEF Early, Past, Ingestion!Gone, Ingestion!Ending
<1>1. IngestionShape'
  <2>1. CASE Ingestion!SaveIngest(j)
    <3>1. doc[j] \in {"running", "done", "error"}
      BY DEF IngestionInv, IngestionShape
    <3>2. doc[j] # "running"
      BY <2>1 DEF IngestionInv, FilesInv, Ingestion!SaveIngest, Ingestion!Step
    <3>3. QED
      BY <2>1, <3>1, <3>2 DEF IngestionInv, IngestionShape, Ingestion!SaveIngest, Ingestion!Step, Ingestion!process
  <2>2. CASE Ingestion!DeleteIngest(j)
    BY <2>2 DEF IngestionInv, IngestionShape, Ingestion!DeleteIngest, Ingestion!process
  <2>3. QED
    BY <2>1, <2>2
<1>2. ASSUME NEW k \in Uploads PROVE FilesInv(k)'
  <2>1. FilesInv(k) /\ Files(k)' = Files(k)
    BY DEF IngestionInv, Files, Ingestion!SaveIngest, Ingestion!DeleteIngest
  <2>2. CASE Ingestion!SaveIngest(j)
    BY <2>1, <2>2 DEF IngestionInv, IngestionShape, FilesInv, Ingestion!SaveIngest,
       Ingestion!Step, Ingestion!process
  <2>3. CASE Ingestion!DeleteIngest(j)
    BY <2>1, <2>3 DEF IngestionInv, IngestionShape, FilesInv, Ingestion!DeleteIngest,
       Ingestion!process
  <2>4. QED
    BY <2>2, <2>3
<1>3. ASSUME NEW k \in Uploads PROVE EventsInv(k)'
  BY EventsStay DEF IngestionInv, IngestionShape, Ingestion!SaveIngest, Ingestion!DeleteIngest,
     Ingestion!Step
<1>4. QED
  BY <1>1, <1>2, <1>3 DEF IngestionInv

\* The command line goes through its files, fails on one, or ends.
LEMMA CommandLineKeeps ==
    ASSUME IngestionInv, NEW j \in Uploads, Ingestion!ProcessStep(j) PROVE IngestionInv'
<1> USE DEF Early, Past, Ingestion!Gone, Ingestion!Ending
<1>1. PICK more : /\ more \subseteq left[j]
                  /\ indexed' = [indexed EXCEPT ![j] = indexed[j] \cup more] \/ UNCHANGED indexed
                  /\ left' = [left EXCEPT ![j] = left[j] \ more] \/ UNCHANGED left
  <2>1. CASE Ingestion!IndexFile(j)
    <3>1. PICK n \in left[j] : /\ left' = [left EXCEPT ![j] = left[j] \ {n}]
                               /\ \/ indexed' = [indexed EXCEPT ![j] = indexed[j] \cup {n}]
                                  \/ UNCHANGED indexed
      BY <2>1 DEF Ingestion!IndexFile
    <3>2. QED
      BY <3>1
  <2>2. CASE Ingestion!FailOnFile(j)
    <3>1. PICK n \in left[j] : \E more \in {{}, {n}} :
              indexed' = [indexed EXCEPT ![j] = indexed[j] \cup more]
      BY <2>2 DEF Ingestion!FailOnFile
    <3>2. PICK more \in {{}, {n}} : indexed' = [indexed EXCEPT ![j] = indexed[j] \cup more]
      BY <3>1
    <3>3. more \subseteq left[j] /\ UNCHANGED left
      BY <2>2, <3>2 DEF Ingestion!FailOnFile
    <3>4. QED
      BY <3>2, <3>3
  <2>3. CASE Ingestion!EndProcess(j)
    BY <2>3 DEF Ingestion!EndProcess
  <2>4. QED
    BY <2>1, <2>2, <2>3 DEF Ingestion!ProcessStep
<1>2. /\ exit[j] = "alive"
      /\ \/ exit' = exit
         \/ exit' = [exit EXCEPT ![j] = "other"]
         \/ exit' = [exit EXCEPT ![j] = "zero"] /\ left[j] = {} /\ Files(j) # {}
      /\ DOMAIN lines' = Uploads
      /\ UNCHANGED <<task, upload, tmp, progress, doc, history, socket, restarts>>
  <2>1. CASE Ingestion!IndexFile(j)
    BY <2>1 DEF IngestionInv, IngestionShape, Ingestion!IndexFile
  <2>2. CASE Ingestion!FailOnFile(j)
    BY <2>2 DEF IngestionInv, IngestionShape, Ingestion!FailOnFile
  <2>3. CASE Ingestion!EndProcess(j)
    BY <2>3 DEF IngestionInv, IngestionShape, Ingestion!EndProcess, Files
  <2>4. QED
    BY <2>1, <2>2, <2>3 DEF Ingestion!ProcessStep
<1>3. IngestionShape'
  BY <1>1, <1>2 DEF IngestionInv, IngestionShape
<1>4. ASSUME NEW k \in Uploads PROVE FilesInv(k)'
  <2>1. Files(k)' = Files(k) /\ FilesInv(k)
    BY <1>2 DEF IngestionInv, Files
  <2>2. CASE k = j
    BY <1>1, <1>2, <2>1, <2>2 DEF IngestionInv, IngestionShape, FilesInv
  <2>3. CASE k # j
    BY <1>1, <1>2, <2>1, <2>3 DEF IngestionInv, IngestionShape, FilesInv
  <2>4. QED
    BY <2>2, <2>3
<1>5. ASSUME NEW k \in Uploads PROVE EventsInv(k)'
  BY <1>2, EventsStay DEF IngestionInv
<1>6. QED
  BY <1>3, <1>4, <1>5 DEF IngestionInv

\* A page opens a socket, and is sent one event after the other.
LEMMA SocketKeeps ==
    ASSUME IngestionInv, NEW j \in Uploads, Ingestion!OpenSocket(j) \/ Ingestion!Poll(j)
    PROVE  IngestionInv'
<1> USE DEF Early, Past, Ingestion!Gone, Ingestion!Ending
<1>1. socket[j] \in [open : BOOLEAN, sent : Nat] /\ Len(progress[j]) \in Nat /\ EventsInv(j)
      /\ progress[j] \in Seq({"start", "progress"} \cup Ingestion!Ending)
  BY DEF IngestionInv, IngestionShape
<1>2. UNCHANGED <<task, upload, tmp, left, exit, lines, indexed, progress, doc, history, restarts>>
  BY DEF Ingestion!OpenSocket, Ingestion!Poll, Ingestion!process
<1>3. PICK s \in [open : BOOLEAN, sent : Nat] :
        /\ socket' = [socket EXCEPT ![j] = s]
        /\ \/ s.open /\ s.sent = 0
           \/ /\ s.sent = socket[j].sent + 1 /\ s.sent <= Len(progress[j])
              /\ s.open <=> progress[j][s.sent] \notin Ingestion!Ending
  <2>1. CASE Ingestion!OpenSocket(j)
    <3>1. PICK s : s = [socket[j] EXCEPT !.open = TRUE]
      OBVIOUS
    <3>2. socket' = [socket EXCEPT ![j] = s] /\ socket[j].sent = 0
      BY <2>1, <3>1 DEF Ingestion!OpenSocket
    <3>3. s \in [open : BOOLEAN, sent : Nat] /\ s.open /\ s.sent = 0
      BY <1>1, <3>1, <3>2
    <3>4. QED
      BY <3>2, <3>3
  <2>2. CASE Ingestion!Poll(j)
    <3>1. PICK s : s = [open |-> progress[j][socket[j].sent + 1] \notin Ingestion!Ending,
                        sent |-> socket[j].sent + 1]
      OBVIOUS
    <3>2. socket' = [socket EXCEPT ![j] = s] /\ socket[j].sent < Len(progress[j])
      BY <2>2, <3>1 DEF Ingestion!Poll, Ingestion!SendEvent
    <3>3. s \in [open : BOOLEAN, sent : Nat]
      BY <1>1, <3>1
    <3>4. s.sent = socket[j].sent + 1 /\ (s.open <=> progress[j][s.sent] \notin Ingestion!Ending)
      BY <3>1
    <3>5. s.sent <= Len(progress[j])
      BY <1>1, <3>2, <3>4
    <3>6. QED
      BY <3>2, <3>3, <3>4, <3>5
  <2>3. QED
    BY <2>1, <2>2
<1>4. IngestionShape'
  BY <1>2, <1>3 DEF IngestionInv, IngestionShape
<1>5. ASSUME NEW k \in Uploads PROVE FilesInv(k)'
  BY <1>2 DEF IngestionInv, FilesInv, Files
<1>6. ASSUME NEW k \in Uploads PROVE EventsInv(k)'
  <2>1. CASE k = j
    <3>1. socket'[j] = s
      BY <1>3 DEF IngestionInv, IngestionShape
    <3>2. QED
      BY <1>1, <1>2, <1>3, <2>1, <3>1 DEF EventsInv
  <2>2. CASE k # j
    BY <1>2, <1>3, <2>2 DEF IngestionInv, IngestionShape, EventsInv
  <2>3. QED
    BY <2>1, <2>2
<1>7. QED
  BY <1>4, <1>5, <1>6 DEF IngestionInv

\* The gateway restarts.
LEMMA RestartKeeps == ASSUME IngestionInv, Ingestion!Restart PROVE IngestionInv'
<1> USE DEF Early, Past, Ingestion!Gone, Ingestion!Ending
<1>1. /\ task' = [j \in Uploads |-> IF task[j] \in {"none", "settled", "refused"}
                                    THEN task[j] ELSE "lost"]
      /\ progress' = [j \in Uploads |-> << >>] /\ lines' = [j \in Uploads |-> << >>]
      /\ socket' = [j \in Uploads |-> [open |-> FALSE, sent |-> 1]]
      /\ UNCHANGED <<upload, tmp, left, indexed, doc, history>>
      /\ restarts' = restarts + 1
  BY DEF Ingestion!Restart
<1>2. exit' = exit \/ exit' = [j \in Uploads |-> IF exit[j] = "alive" THEN "other" ELSE exit[j]]
  BY DEF Ingestion!Restart
<1>3. IngestionShape'
  BY <1>1, <1>2 DEF IngestionInv, IngestionShape
<1>4. ASSUME NEW k \in Uploads PROVE FilesInv(k)'
  <2>1. FilesInv(k) /\ Files(k)' = Files(k) /\ UNCHANGED <<left[k], indexed[k], doc[k], history[k], tmp[k]>>
    BY <1>1 DEF IngestionInv, Files
  <2>2. /\ \/ exit'[k] = exit[k]
           \/ exit[k] = "alive" /\ exit'[k] = "other"
        /\ \/ task'[k] = task[k] /\ task[k] \in {"none", "settled", "refused"}
           \/ task'[k] = "lost" /\ task[k] \notin {"none", "settled", "refused"}
    BY <1>1, <1>2
  <2>3. QED
    BY <2>1, <2>2 DEF FilesInv
<1>5. ASSUME NEW k \in Uploads PROVE EventsInv(k)'
  BY <1>1 DEF EventsInv, IngestionInv, IngestionShape
<1>6. QED
  BY <1>3, <1>4, <1>5 DEF IngestionInv

\* What is said of an ingestion follows from the invariant.
LEMMA IngestionIsDone ==
    IngestionInv =>
        Ingestion!DoneMeansIndexed /\ Ingestion!EndsOnce /\ Ingestion!NoFilesAreLeft
<1> SUFFICES ASSUME IngestionInv
             PROVE  Ingestion!DoneMeansIndexed /\ Ingestion!EndsOnce /\ Ingestion!NoFilesAreLeft
  OBVIOUS
<1>1. Ingestion!DoneMeansIndexed
  BY DEF Ingestion!DoneMeansIndexed, IngestionInv, FilesInv, Files
<1>2. Ingestion!NoFilesAreLeft
  BY DEF Ingestion!NoFilesAreLeft, IngestionInv, FilesInv, Past
<1>3. ASSUME NEW j \in Uploads
      PROVE  /\ \A i \in DOMAIN progress[j] : progress[j][i] \in Ingestion!Ending => i = Len(progress[j])
             /\ task[j] \in Past /\ restarts = 0 => Ingestion!Emitted(j) \cap Ingestion!Ending # {}
             /\ ~socket[j].open /\ socket[j].sent > 0 /\ restarts = 0 =>
                   socket[j].sent = Len(progress[j])
  <2>1. EventsInv(j) /\ DOMAIN progress[j] = 1..Len(progress[j]) /\ Len(progress[j]) \in Nat
    BY DEF IngestionInv, IngestionShape
  <2>2. Ingestion!Emitted(j) = {progress[j][i] : i \in DOMAIN progress[j]}
    BY DEF Ingestion!Emitted, Ingestion!Range
  <2>3. Len(progress[j]) > 0 => Len(progress[j]) \in DOMAIN progress[j]
    BY <2>1
  <2>4. QED
    BY <2>1, <2>2, <2>3 DEF EventsInv
<1>4. QED
  BY <1>1, <1>2, <1>3 DEF Ingestion!EndsOnce, Past

LEMMA IngestionStays == ASSUME IngestionInv, UNCHANGED ingestionVars PROVE IngestionInv'
BY DEF ingestionVars, IngestionInv, IngestionShape, FilesInv, Files, EventsInv

\* One step of any task, process, page, user or restart.
LEMMA IngestionGoesOn == ASSUME IngestionInv, Ingestion!Next PROVE IngestionInv'
<1>1. CASE \E j \in Uploads : \E files \in Ingestion!FileLists : Ingestion!Upload(j, files)
  BY <1>1, RequestKeeps
<1>2. CASE \E j \in Uploads : Ingestion!TaskStep(j)
  BY <1>2, RequestKeeps, ProcessStarts, FollowingKeeps, EndKeeps, HistoryKeeps
     DEF Ingestion!TaskStep
<1>3. CASE \E j \in Uploads : Ingestion!ProcessStep(j)
  BY <1>3, CommandLineKeeps
<1>4. CASE \E j \in Uploads : Ingestion!OpenSocket(j) \/ Ingestion!Poll(j)
  BY <1>4, SocketKeeps
<1>5. CASE \E j \in Uploads : Ingestion!DeleteIngest(j)
  BY <1>5, HistoryKeeps
<1>6. CASE Ingestion!Restart
  BY <1>6, RestartKeeps
<1>7. QED
  BY <1>1, <1>2, <1>3, <1>4, <1>5, <1>6 DEF Ingestion!Next

\* Only a task that has not settled writes the history, and a deleted record is of one that has.
LEMMA DeletedIsLeft ==
    ASSUME IngestionInv, Ingestion!Next, NEW j \in Uploads, history[j] = "deleted"
    PROVE  history'[j] = "deleted"
<1>1. task[j] = "settled" /\ DOMAIN history = Uploads
  BY DEF IngestionInv, IngestionShape, FilesInv
<1>2. ASSUME NEW k \in Uploads, Ingestion!SaveIngest(k) PROVE history'[j] = "deleted"
  BY <1>1, <1>2 DEF Ingestion!SaveIngest, Ingestion!Step
<1>3. ASSUME NEW k \in Uploads, Ingestion!DeleteIngest(k) PROVE history'[j] = "deleted"
  BY <1>1, <1>3 DEF Ingestion!DeleteIngest
<1>4. ASSUME NEW k \in Uploads, Ingestion!TaskStep(k), ~Ingestion!SaveIngest(k)
      PROVE  UNCHANGED history
  BY <1>4 DEF Ingestion!TaskStep, Ingestion!StartTask, Ingestion!StartProcess, Ingestion!ReadLine,
     Ingestion!WaitForProcess, Ingestion!Register, Ingestion!EmitEnd
<1>5. ASSUME NEW k \in Uploads, Ingestion!ProcessStep(k) \/ Ingestion!OpenSocket(k) \/ Ingestion!Poll(k)
      PROVE  UNCHANGED history
  BY <1>5 DEF Ingestion!ProcessStep, Ingestion!IndexFile, Ingestion!FailOnFile,
     Ingestion!EndProcess, Ingestion!OpenSocket, Ingestion!Poll
<1>6. ASSUME NEW k \in Uploads, NEW files, Ingestion!Upload(k, files) PROVE UNCHANGED history
  BY <1>6 DEF Ingestion!Upload
<1>7. Ingestion!Restart => UNCHANGED history
  BY DEF Ingestion!Restart
<1>8. QED
  BY <1>2, <1>3, <1>4, <1>5, <1>6, <1>7 DEF Ingestion!Next

----------------------------------------------------------------------------
(* Provisioning *)

ProvisioningInv == DOMAIN status = Realms /\ \E S : jobs \in Seq(S)

LEMMA ProvisioningStarts == Provisioning!Init => ProvisioningInv
<1>1. <<>> \in Seq(Realms)
  OBVIOUS
<1>2. QED
  BY <1>1 DEF Provisioning!Init, ProvisioningInv

LEMMA ProvisioningStays ==
    ASSUME ProvisioningInv, UNCHANGED provisioningVars PROVE ProvisioningInv'
BY DEF provisioningVars, ProvisioningInv

\* What a step of a job or of a request makes of the status and the tasks: a job that ends says
\* "done" of a healthy container only, and only a job that ends leaves fewer of them.
JobStep ==
    \/ UNCHANGED <<status, jobs>>
    \/ jobs' = jobs /\ DOMAIN status' = Realms
    \/ \E job : jobs' = Append(jobs, job) /\ \E r : status' = [status EXCEPT ![r] = "running"]
    \/ \E i \in DOMAIN jobs : \E job : jobs' = [jobs EXCEPT ![i] = job] /\ UNCHANGED status
    \/ \E i \in DOMAIN jobs, how \in {"done", "error"} :
          /\ jobs' = Provisioning!Only(jobs, DOMAIN jobs \ {i})
          /\ status' = [status EXCEPT ![jobs[i].realm] = how]
          /\ how = "done" => container[jobs[i].realm].health = "healthy"

LEMMA StepsOfProvisioning ==
    ASSUME ProvisioningInv, Provisioning!Next PROVE JobStep
<1>1. CASE \E r \in Realms : \/ Provisioning!Register(r) \/ Provisioning!IngestGraph(r)
                             \/ Provisioning!ContainerChanges(r)
  BY <1>1 DEF JobStep, Provisioning!Register, Provisioning!IngestGraph,
     Provisioning!ContainerChanges
<1>2. CASE \E h \in Handlers, r \in Realms : Provisioning!Post(h, r)
  BY <1>2 DEF JobStep, Provisioning!Post
<1>3. ASSUME NEW h \in Handlers, Provisioning!HandlerStep(h) PROVE JobStep
  <2>1. CASE Provisioning!Scan(h)
    BY <2>1 DEF JobStep, Provisioning!Scan
  <2>2. CASE Provisioning!Assign(h)
    BY <2>2 DEF JobStep, Provisioning!Assign
  <2>3. CASE Provisioning!Decide(h)
    <3>1. jobs' = jobs /\ DOMAIN status' = DOMAIN status
      BY <2>3 DEF Provisioning!Decide
    <3>2. QED
      BY <3>1 DEF JobStep, ProvisioningInv
  <2>4. CASE Provisioning!AskHealth(h)
    <3>1. jobs' = jobs /\ DOMAIN status' = DOMAIN status
      BY <2>4 DEF Provisioning!AskHealth
    <3>2. QED
      BY <3>1 DEF JobStep, ProvisioningInv
  <2>5. CASE Provisioning!StartJob(h)
    <3>1. PICK job, r : jobs' = Append(jobs, job) /\ status' = [status EXCEPT ![r] = "running"]
      BY <2>5 DEF Provisioning!StartJob
    <3>2. QED
      BY <3>1 DEF JobStep
  <2>6. QED
    BY <1>3, <2>1, <2>2, <2>3, <2>4, <2>5 DEF Provisioning!HandlerStep
<1>4. ASSUME NEW i \in DOMAIN jobs, Provisioning!Up(i) PROVE JobStep
  <2>1. CASE Provisioning!Ends(i, "error")
    BY <2>1 DEF JobStep, Provisioning!Ends
  <2>2. CASE ~Provisioning!Ends(i, "error")
    <3>1. PICK job : jobs' = [jobs EXCEPT ![i] = job] /\ UNCHANGED status
      BY <1>4, <2>2 DEF Provisioning!Up
    <3>2. QED
      BY <3>1 DEF JobStep
  <2>3. QED
    BY <2>1, <2>2
<1>5. ASSUME NEW i \in DOMAIN jobs, Provisioning!Poll(i) PROVE JobStep
  <2>1. PICK how : how = Provisioning!Verdict(container[jobs[i].realm].health,
                                              Provisioning!LastPoll(i))
    OBVIOUS
  <2>2. how \in {"done", "error", "running"}
        /\ (how = "done" => container[jobs[i].realm].health = "healthy")
    BY <2>1 DEF Provisioning!Verdict
  <2>3. CASE how # "running"
    <3>1. Provisioning!Ends(i, how)
      BY <1>5, <2>1, <2>3 DEF Provisioning!Poll
    <3>2. QED
      BY <2>2, <2>3, <3>1 DEF JobStep, Provisioning!Ends
  <2>4. CASE how = "running"
    <3>1. PICK job : jobs' = [jobs EXCEPT ![i] = job] /\ UNCHANGED status
      BY <1>5, <2>1, <2>4 DEF Provisioning!Poll
    <3>2. QED
      BY <3>1 DEF JobStep
  <2>5. QED
    BY <2>2, <2>3, <2>4
<1>6. QED
  BY <1>1, <1>2, <1>3, <1>4, <1>5 DEF Provisioning!Next, Provisioning!RunJob

LEMMA ProvisioningGoesOn ==
    ASSUME ProvisioningInv, Provisioning!Next PROVE ProvisioningInv'
<1>1. DOMAIN status' = Realms
  BY StepsOfProvisioning DEF JobStep, ProvisioningInv
<1>2. PICK S : jobs \in Seq(S)
  BY DEF ProvisioningInv
<1>3. \E T : jobs' \in Seq(T)
  <2>1. CASE jobs' = jobs
    BY <1>2, <2>1
  <2>2. ASSUME NEW job, jobs' = Append(jobs, job) PROVE \E T : jobs' \in Seq(T)
    <3>1. jobs \in Seq(S \cup {job})
      BY <1>2
    <3>2. Append(jobs, job) \in Seq(S \cup {job})
      BY <3>1
    <3>3. QED
      BY <2>2, <3>2
  <2>3. ASSUME NEW i \in DOMAIN jobs, NEW job, jobs' = [jobs EXCEPT ![i] = job]
        PROVE  \E T : jobs' \in Seq(T)
    <3>1. jobs' \in Seq(S \cup {job})
      BY <1>2, <2>3
    <3>2. QED
      BY <3>1
  <2>4. ASSUME NEW i \in DOMAIN jobs, jobs' = Provisioning!Only(jobs, DOMAIN jobs \ {i})
        PROVE  \E T : jobs' \in Seq(T)
    <3>1. PICK places \in SUBSET DOMAIN jobs : places = DOMAIN jobs \ {i}
      OBVIOUS
    <3>2. Provisioning!Only(jobs, places) = Only(jobs, places)
      BY DEF Provisioning!Only, Provisioning!Nth, Provisioning!Cardinality, Only, Nth, Cardinality
    <3>3. Only(jobs, places) \in Seq(S)
      BY <1>2, OnlyTakesThePlaces
    <3>4. QED
      BY <2>4, <3>1, <3>2, <3>3
  <2>5. QED
    BY <2>1, <2>2, <2>3, <2>4, StepsOfProvisioning DEF JobStep
<1>4. QED
  BY <1>1, <1>3 DEF ProvisioningInv

\* A status that becomes "done" as a task ends is of a healthy container.
LEMMA DoneIsHealthy ==
    ASSUME ProvisioningInv, Provisioning!Next, NEW r \in Realms,
           Len(jobs') < Len(jobs), status'[r] = "done", status[r] # "done"
    PROVE  container[r].health = "healthy"
<1>1. Len(jobs) \in Nat /\ jobs' # jobs
  BY DEF ProvisioningInv
<1>2. ASSUME NEW i \in DOMAIN jobs, NEW how \in {"done", "error"},
             status' = [status EXCEPT ![jobs[i].realm] = how]
      PROVE  r = jobs[i].realm /\ how = "done"
  BY <1>2 DEF ProvisioningInv
<1>3. ASSUME NEW q, status' = [status EXCEPT ![q] = "running"] PROVE FALSE
  BY <1>3 DEF ProvisioningInv
<1>4. QED
  BY <1>1, <1>2, <1>3, StepsOfProvisioning DEF JobStep

----------------------------------------------------------------------------
(* The two jobs in the specification *)

LEMMA IngestionAlways == Spec => [](part = "ingestion" => IngestionInv)
<1>1. Init => (part = "ingestion" => IngestionInv)
  BY IngestionStarts DEF Init
<1>2. (part = "ingestion" => IngestionInv) /\ [Next]_vars => (part = "ingestion" => IngestionInv)'
  <2> SUFFICES ASSUME part = "ingestion" => IngestionInv, [Next]_vars, part' = "ingestion"
               PROVE  IngestionInv'
    OBVIOUS
  <2>1. CASE IngestionStep
    BY <2>1, IngestionGoesOn DEF IngestionStep
  <2>2. CASE UNCHANGED vars
    BY <2>2, IngestionStays DEF vars
  <2>3. QED
    BY <2>1, <2>2 DEF Next, GenerationStep, ProvisioningStep, ComparisonStep
<1>3. QED
  BY <1>1, <1>2, PTL DEF Spec

LEMMA ProvisioningAlways == Spec => [](part = "provisioning" => ProvisioningInv)
<1>1. Init => (part = "provisioning" => ProvisioningInv)
  BY ProvisioningStarts DEF Init
<1>2. (part = "provisioning" => ProvisioningInv) /\ [Next]_vars
      => (part = "provisioning" => ProvisioningInv)'
  <2> SUFFICES ASSUME part = "provisioning" => ProvisioningInv, [Next]_vars,
                      part' = "provisioning"
               PROVE  ProvisioningInv'
    OBVIOUS
  <2>1. CASE ProvisioningStep
    BY <2>1, ProvisioningGoesOn DEF ProvisioningStep
  <2>2. CASE UNCHANGED vars
    BY <2>2, ProvisioningStays DEF vars
  <2>3. QED
    BY <2>1, <2>2 DEF Next, GenerationStep, IngestionStep, ComparisonStep
<1>3. QED
  BY <1>1, <1>2, PTL DEF Spec

LEMMA UploadsAndRealmsAreDone ==
    Spec => /\ [](part = "ingestion" => Ingestion!DoneMeansIndexed /\ Ingestion!EndsOnce
                                        /\ Ingestion!NoFilesAreLeft)
            /\ Ingestion!DeletedIngestStaysGone /\ Provisioning!DoneWasHealthy
<1>1. (part = "ingestion" => IngestionInv) =>
        (part = "ingestion" =>
            Ingestion!DoneMeansIndexed /\ Ingestion!EndsOnce /\ Ingestion!NoFilesAreLeft)
  BY IngestionIsDone
<1>2. (part = "ingestion" => IngestionInv) /\ [Next]_vars =>
        [\A j \in Uploads : history[j] = "deleted" => history'[j] = "deleted"]_(Ingestion!vars)
  <2> SUFFICES ASSUME part = "ingestion" => IngestionInv, [Next]_vars, ~UNCHANGED Ingestion!vars
               PROVE  \A j \in Uploads : history[j] = "deleted" => history'[j] = "deleted"
    OBVIOUS
  <2>1. part = "ingestion" /\ Ingestion!Next
    BY DEF Next, IngestionStep, GenerationStep, ProvisioningStep, ComparisonStep, vars,
       ingestionVars, Ingestion!vars
  <2>2. QED
    BY <2>1, DeletedIsLeft
<1>3. (part = "provisioning" => ProvisioningInv) /\ [Next]_vars =>
        [\A r \in Realms : (Len(jobs') < Len(jobs) /\ status'[r] = "done" /\ status[r] # "done")
            => container[r].health = "healthy"]_(Provisioning!vars)
  <2> SUFFICES ASSUME part = "provisioning" => ProvisioningInv, [Next]_vars,
                      ~UNCHANGED Provisioning!vars
               PROVE  \A r \in Realms :
                         (Len(jobs') < Len(jobs) /\ status'[r] = "done" /\ status[r] # "done")
                            => container[r].health = "healthy"
    OBVIOUS
  <2>1. part = "provisioning" /\ Provisioning!Next
    BY DEF Next, IngestionStep, GenerationStep, ProvisioningStep, ComparisonStep, vars,
       provisioningVars, Provisioning!vars
  <2>2. QED
    BY <2>1, DoneIsHealthy
<1>4. Spec => Ingestion!DeletedIngestStaysGone
  BY <1>2, IngestionAlways, PTL DEF Spec, Ingestion!DeletedIngestStaysGone
<1>5. Spec => Provisioning!DoneWasHealthy
  BY <1>3, ProvisioningAlways, PTL DEF Spec, Provisioning!DoneWasHealthy
<1>6. QED
  BY <1>1, <1>4, <1>5, IngestionAlways, PTL

----------------------------------------------------------------------------
(* The comparison of two runs *)

Runs == Before \cup After
Paired == Comparison!PairedDiff(before, after)

\* What is asked again are flips the dataset still holds, what is taken for noise was answered
\* well each time, and the answer is the pairing with the noise moved out of the flips.
ComparisonInv ==
    /\ before \in Runs /\ after \in Runs
    /\ phase = "idle" => samples = <<>> /\ report = Nil
    /\ DOMAIN samples \subseteq Paired.flips \cap dataset
    /\ \A q \in DOMAIN samples : samples[q] \in Seq(BOOLEAN) /\ Len(samples[q]) <= Samples
    /\ report # Nil =>
          /\ phase = "done"
          /\ report.noise \subseteq DOMAIN samples
          /\ \A q \in report.noise : \A i \in DOMAIN samples[q] : samples[q][i]
          /\ report.paired.fixed = Paired.fixed
          /\ report.paired.flips = Paired.flips \ report.noise
          /\ report.paired.unchanged = Paired.unchanged \cup report.noise
    /\ verdict # Nil => \E ids \in SUBSET Questions :
                           verdict = Comparison!JudgeAcceptance(ids, before, after)

LEMMA PairedParts ==
    /\ Paired.fixed \cup Paired.flips \cup Paired.unchanged
         = Comparison!Ids(before) \cap Comparison!Ids(after)
    /\ Paired.fixed \cap Paired.flips = {} /\ Paired.flips \cap Paired.unchanged = {}
    /\ Paired.fixed \cap Paired.unchanged = {}
    /\ Paired.fixed = {q \in Comparison!Ids(before) \cap Comparison!Ids(after) :
                          ~Comparison!IsOk(before, q) /\ Comparison!IsOk(after, q)}
BY DEF Paired, Comparison!PairedDiff

\* The instance counts as the library does.
LEMMA ComparisonCounts == ASSUME NEW S PROVE Comparison!Cardinality(S) = Cardinality(S)
  BY DEF Comparison!Cardinality, Cardinality

LEMMA ComparisonStarts == Comparison!Init => ComparisonInv
BY DEF Comparison!Init, ComparisonInv, Runs

LEMMA ComparisonStays ==
    ASSUME ComparisonInv, UNCHANGED comparisonVars PROVE ComparisonInv'
<1>1. Paired' = Paired
  BY DEF comparisonVars, Paired
<1>2. UNCHANGED <<before, after, dataset, phase, samples, report, verdict>>
  BY DEF comparisonVars
<1>3. QED
  BY <1>1, <1>2 DEF ComparisonInv

\* The answer: the pairing with what was cleared moved out of the flips.
LEMMA AnswerIsPaired ==
    ASSUME NEW noise, NEW attempted, Comparison!Answer(Paired, noise, attempted),
           UNCHANGED <<before, after>>
    PROVE  /\ phase' = "done" /\ Paired' = Paired /\ report'.noise = noise
           /\ report'.paired.fixed = Paired.fixed
           /\ report'.paired.flips = Paired.flips \ noise
           /\ report'.paired.unchanged = Paired.unchanged \cup noise
<1>1. PICK p : p = [Paired EXCEPT !.flips = @ \ noise, !.unchanged = @ \cup noise]
  OBVIOUS
<1>2. report' = [paired |-> p, noise |-> noise, attempted |-> attempted] /\ phase' = "done"
  BY <1>1 DEF Comparison!Answer
<1>3. p.fixed = Paired.fixed /\ p.flips = Paired.flips \ noise
      /\ p.unchanged = Paired.unchanged \cup noise
  BY <1>1 DEF Paired, Comparison!PairedDiff
<1>4. QED
  BY <1>2, <1>3 DEF Paired

\* The flips are found, and asked again or not.
LEMMA CompareKeeps ==
    ASSUME ComparisonInv, NEW rebuilt \in BOOLEAN, Comparison!Compare(rebuilt)
    PROVE  ComparisonInv'
<1>1. UNCHANGED <<before, after, dataset, verdict>> /\ phase = "idle" /\ Paired' = Paired
      /\ samples = <<>> /\ report = Nil
  BY DEF Comparison!Compare, Comparison!world, ComparisonInv, Paired
<1>2. CASE Comparison!Answer(Paired, {}, FALSE) /\ samples' = samples
  <2>1. phase' = "done" /\ report'.noise = {} /\ report'.paired.fixed = Paired.fixed
        /\ report'.paired.flips = Paired.flips \ {}
        /\ report'.paired.unchanged = Paired.unchanged \cup {}
    BY <1>1, <1>2, AnswerIsPaired
  <2>2. QED
    BY <1>1, <1>2, <2>1 DEF ComparisonInv
<1>3. CASE /\ samples' = [q \in Comparison!Live |-> <<>>]
           /\ phase' = "sampling" /\ report' = report
  <2>1. Comparison!Live = Paired.flips \cap dataset
    BY DEF Comparison!Live, Comparison!Flips, Paired
  <2>2. \A q \in DOMAIN samples' : samples'[q] \in Seq(BOOLEAN) /\ Len(samples'[q]) <= Samples
    <3>1. <<>> \in Seq(BOOLEAN) /\ Len(<<>>) <= Samples
      BY ComparisonAssumption DEF Comparison!Assumptions
    <3>2. QED
      BY <1>3, <3>1
  <2>3. DOMAIN samples' \subseteq Paired.flips \cap dataset
    BY <1>3, <2>1
  <2>4. QED
    BY <1>1, <1>3, <2>2, <2>3 DEF ComparisonInv
<1>4. QED
  BY <1>2, <1>3 DEF Comparison!Compare, Paired

\* One question is asked once more.
LEMMA SampleKeeps ==
    ASSUME ComparisonInv, NEW q \in Questions, NEW ok \in BOOLEAN, Comparison!Sample(q, ok)
    PROVE  ComparisonInv'
<1>1. /\ UNCHANGED <<before, after, dataset, phase, report, verdict>> /\ phase = "sampling"
      /\ q \in DOMAIN samples /\ Len(samples[q]) < Samples /\ Paired' = Paired
      /\ samples' = [samples EXCEPT ![q] = Append(samples[q], ok)]
  BY DEF Comparison!Sample, Comparison!world, Paired
<1>2. samples[q] \in Seq(BOOLEAN)
  BY <1>1 DEF ComparisonInv
<1>3. Append(samples[q], ok) \in Seq(BOOLEAN) /\ Len(Append(samples[q], ok)) = Len(samples[q]) + 1
      /\ Samples \in Nat
  BY <1>2, ComparisonAssumption DEF Comparison!Assumptions
<1>4. Len(Append(samples[q], ok)) <= Samples
  BY <1>1, <1>2, <1>3
<1>5. \A k \in DOMAIN samples' : samples'[k] \in Seq(BOOLEAN) /\ Len(samples'[k]) <= Samples
  BY <1>1, <1>3, <1>4 DEF ComparisonInv
<1>6. report = Nil \/ phase = "done"
  BY DEF ComparisonInv
<1>7. QED
  BY <1>1, <1>5, <1>6 DEF ComparisonInv

\* A question is noise when both of its calls were well answered.
LEMMA NoiseIsAnswered ==
    ASSUME ComparisonInv, NEW q \in Comparison!Noise(samples), Len(samples[q]) = Samples
    PROVE  q \in DOMAIN samples /\ \A i \in DOMAIN samples[q] : samples[q][i]
<1>1. q \in DOMAIN samples /\ samples[q] \in Seq(BOOLEAN) /\ Len(samples[q]) = 2
  BY ComparisonAssumption DEF Comparison!Noise, Comparison!Assumptions, ComparisonInv
<1>2. DOMAIN samples[q] = 1..2
  BY <1>1
<1>3. PICK good : good = {i \in 1..2 : samples[q][i]}
  OBVIOUS
<1>4. 2 * Cardinality(good) >= 1 + Len(samples[q])
  BY <1>2, <1>3, ComparisonCounts DEF Comparison!Noise
<1>5. IsFiniteSet(1..2) /\ Cardinality(1..2) = 2
  <2>1. PICK m, n : m = 1 /\ n = 2
    OBVIOUS
  <2>2. m \in Int /\ n \in Int
    BY <2>1
  <2>3. IsFiniteSet(m..n) /\ Cardinality(m..n) = IF m > n THEN 0 ELSE n - m + 1
    BY <2>2, FS_Interval, Zenon
  <2>4. QED
    BY <2>1, <2>3
<1>6. Cardinality(good) <= 2 /\ Cardinality(good) \in Nat /\ (Cardinality(good) = 2 => good = 1..2)
  BY <1>3, <1>5, FS_Subset, FS_CardinalityType
<1>7. Cardinality(good) = 2
  BY <1>1, <1>4, <1>6
<1>8. QED
  BY <1>1, <1>2, <1>3, <1>6, <1>7

LEMMA FinishKeeps == ASSUME ComparisonInv, Comparison!Finish PROVE ComparisonInv'
<1>1. /\ UNCHANGED <<before, after, dataset, samples, verdict>>
      /\ Comparison!Answer(Paired, Comparison!Noise(samples), TRUE)
      /\ \A q \in DOMAIN samples : Len(samples[q]) = Samples
  BY DEF Comparison!Finish, Comparison!world, Paired
<1>2. PICK noise : noise = Comparison!Noise(samples)
  OBVIOUS
<1>3. noise \subseteq DOMAIN samples
  BY <1>2 DEF Comparison!Noise
<1>4. \A q \in noise : \A i \in DOMAIN samples[q] : samples[q][i]
  BY <1>1, <1>2, <1>3, NoiseIsAnswered
<1>5. /\ phase' = "done" /\ Paired' = Paired /\ report'.noise = noise
      /\ report'.paired.fixed = Paired.fixed
      /\ report'.paired.flips = Paired.flips \ noise
      /\ report'.paired.unchanged = Paired.unchanged \cup noise
  BY <1>1, <1>2, AnswerIsPaired
<1>6. QED
  BY <1>1, <1>3, <1>4, <1>5 DEF ComparisonInv

\* Around the comparison: an acceptance, a change of the conditions, a question that leaves.
LEMMA SurroundingsKeep ==
    ASSUME ComparisonInv,
           \/ \E fix \in Comparison!Prescription(before) : Comparison!Judge(fix.verification)
           \/ Comparison!Judge(Questions)
           \/ Comparison!Change
           \/ \E q \in Questions : Comparison!Forget(q)
    PROVE  ComparisonInv'
<1>1. ASSUME NEW ids \in SUBSET Questions, Comparison!Judge(ids) PROVE ComparisonInv'
  <2>1. /\ UNCHANGED <<before, after, dataset, phase, samples, report>> /\ Paired' = Paired
        /\ verdict' = Comparison!JudgeAcceptance(ids, before, after)
    BY <1>1 DEF Comparison!Judge, Comparison!world, Paired
  <2>2. verdict' = Comparison!JudgeAcceptance(ids, before, after)'
    BY <2>1
  <2>3. QED
    BY <2>1 DEF ComparisonInv
<1>2. ASSUME NEW fix \in Comparison!Prescription(before) PROVE fix.verification \in SUBSET Questions
  <2>1. Comparison!Ids(before) \subseteq Questions
    BY ComparisonAssumption DEF Comparison!Assumptions, ComparisonInv, Runs, Comparison!Ids
  <2>2. PICK t \in Comparison!Tasks(before) : fix = [entity |-> t.entity, verification |-> t.ids]
    BY DEF Comparison!Prescription
  <2>3. PICK e : t = [entity |-> e, ids |-> Comparison!FailedAt(before, e)]
    BY DEF Comparison!Tasks
  <2>4. QED
    BY <2>1, <2>2, <2>3 DEF Comparison!FailedAt
<1>3. CASE Comparison!Change
  BY <1>3, ComparisonStays DEF Comparison!Change, ComparisonInv, Paired
<1>4. ASSUME NEW q \in Questions, Comparison!Forget(q) PROVE ComparisonInv'
  <2>1. phase = "idle" /\ UNCHANGED <<before, after, phase, samples, report, verdict>>
        /\ Paired' = Paired
    BY <1>4 DEF Comparison!Forget, Paired
  <2>2. samples = <<>> /\ report = Nil
    BY <2>1 DEF ComparisonInv
  <2>3. QED
    BY <2>1, <2>2 DEF ComparisonInv
<1>5. QED
  BY <1>1, <1>2, <1>3, <1>4

LEMMA ComparisonGoesOn ==
    ASSUME ComparisonInv, Comparison!Next PROVE ComparisonInv'
BY CompareKeeps, SampleKeeps, FinishKeeps, SurroundingsKeep DEF Comparison!Next

\* Every retrieval failure is of a task, and a task with another question shares its document.
LEMMA TasksCoverFailures ==
    ASSUME before \in Runs PROVE Comparison!FailuresHaveTasks
<1>1. \A q \in Comparison!Ids(before) :
         Comparison!AbsentFrom(before.rows[q]) \subseteq Entities \cup {Nil}
         /\ Comparison!AbsentFrom(before.rows[q]) # {}
  BY ComparisonAssumption DEF Comparison!Assumptions, Runs, Comparison!Ids, Comparison!AbsentFrom
<1>2. ASSUME NEW q \in Comparison!Ids(before),
             Comparison!Layer(q, before.rows[q]) = "retrieval"
      PROVE  \E t \in Comparison!Tasks(before) : q \in t.ids
  <2>1. PICK e \in Comparison!AbsentFrom(before.rows[q]) : e \in Entities \cup {Nil}
    BY <1>1
  <2>2. q \in Comparison!FailedAt(before, e)
    BY <1>2, <2>1 DEF Comparison!FailedAt
  <2>3. PICK t : t = [entity |-> e, ids |-> Comparison!FailedAt(before, e)]
    OBVIOUS
  <2>4. t \in Comparison!Tasks(before)
    BY <2>1, <2>2, <2>3 DEF Comparison!Tasks
  <2>5. QED
    BY <2>2, <2>3, <2>4
<1>3. ASSUME NEW t \in Comparison!Tasks(before)
      PROVE  \E e : t.ids = Comparison!FailedAt(before, e)
  BY DEF Comparison!Tasks
<1>4. UNION {t.ids : t \in Comparison!Tasks(before)}
        = {q \in Comparison!Ids(before) : Comparison!Layer(q, before.rows[q]) = "retrieval"}
  BY <1>2, <1>3 DEF Comparison!FailedAt
<1>5. ASSUME NEW q \in Comparison!Clustered(before)
      PROVE  \E p \in Comparison!Ids(before) \ {q} :
                Comparison!AbsentFrom(before.rows[p]) \cap Comparison!AbsentFrom(before.rows[q]) # {}
  <2>1. PICK t \in Comparison!Tasks(before) : Comparison!Cardinality(t.ids) > 1 /\ q \in t.ids
    BY DEF Comparison!Clustered
  <2>2. t.ids # {q}
    <3>1. Cardinality({q}) = 1
      BY FS_Singleton
    <3>2. QED
      BY <2>1, <3>1, ComparisonCounts
  <2>3. PICK p \in t.ids : p # q
    BY <2>1, <2>2
  <2>4. PICK e : t.ids = Comparison!FailedAt(before, e)
    BY <1>3
  <2>5. QED
    BY <2>1, <2>3, <2>4 DEF Comparison!FailedAt
<1>6. QED
  BY <1>4, <1>5 DEF Comparison!FailuresHaveTasks

LEMMA ComparisonIsRight ==
    ASSUME ComparisonInv
    PROVE  /\ Comparison!EveryQuestionHasOneGroup /\ Comparison!ClearedOnlyByAnswers
           /\ Comparison!AcceptedFixIsDone /\ Comparison!FailuresHaveTasks
<1>1. Comparison!EveryQuestionHasOneGroup
  <2>1. SUFFICES ASSUME report # Nil
        PROVE  /\ report.paired.fixed \cup report.paired.flips \cup report.paired.unchanged
                    = Comparison!Ids(before) \cap Comparison!Ids(after)
               /\ report.paired.fixed \cap report.paired.flips = {}
               /\ report.paired.flips \cap report.paired.unchanged = {}
               /\ report.paired.fixed \cap report.paired.unchanged = {}
    BY DEF Comparison!EveryQuestionHasOneGroup
  <2>2. /\ report.paired.fixed = Paired.fixed
        /\ report.paired.flips = Paired.flips \ report.noise
        /\ report.paired.unchanged = Paired.unchanged \cup report.noise
        /\ report.noise \subseteq Paired.flips
    BY <2>1 DEF ComparisonInv
  <2>3. QED
    BY <2>2, PairedParts
<1>2. Comparison!ClearedOnlyByAnswers
  BY DEF Comparison!ClearedOnlyByAnswers, ComparisonInv
<1>3. Comparison!AcceptedFixIsDone
  <2>1. SUFFICES ASSUME verdict # Nil, Comparison!Accepted(verdict)
        PROVE  /\ verdict.ids \subseteq Comparison!Ids(before) \cap Comparison!Ids(after)
               /\ verdict.ids \subseteq Comparison!PairedDiff(before, after).fixed
                    \cup {q \in verdict.ids : Comparison!IsOk(before, q)}
    BY DEF Comparison!AcceptedFixIsDone
  <2>2. PICK ids \in SUBSET Questions :
            verdict = Comparison!JudgeAcceptance(ids, before, after)
    BY <2>1 DEF ComparisonInv
  <2>3. PICK seen : seen = ids \cap Comparison!Ids(before) \cap Comparison!Ids(after)
    OBVIOUS
  <2>4. /\ verdict.ids = ids /\ verdict.unchecked = ids \ seen
        /\ verdict.stillFailing = {q \in seen : ~Comparison!IsOk(before, q) /\ ~Comparison!IsOk(after, q)}
    BY <2>2, <2>3 DEF Comparison!JudgeAcceptance
  <2>5. verdict.stillFailing = {} /\ verdict.unchecked = {}
    BY <2>1 DEF Comparison!Accepted
  <2>6. QED
    BY <2>3, <2>4, <2>5, PairedParts DEF Paired
<1>4. Comparison!FailuresHaveTasks
  BY TasksCoverFailures DEF ComparisonInv
<1>5. QED
  BY <1>1, <1>2, <1>3, <1>4

LEMMA ComparisonAlways == Spec => [](part = "comparison" => ComparisonInv)
<1>1. Init => (part = "comparison" => ComparisonInv)
  BY ComparisonStarts DEF Init
<1>2. (part = "comparison" => ComparisonInv) /\ [Next]_vars
      => (part = "comparison" => ComparisonInv)'
  <2> SUFFICES ASSUME part = "comparison" => ComparisonInv, [Next]_vars, part' = "comparison"
               PROVE  ComparisonInv'
    OBVIOUS
  <2>1. CASE ComparisonStep
    BY <2>1, ComparisonGoesOn DEF ComparisonStep
  <2>2. CASE UNCHANGED vars
    BY <2>2, ComparisonStays DEF vars
  <2>3. QED
    BY <2>1, <2>2 DEF Next, GenerationStep, IngestionStep, ProvisioningStep
<1>3. QED
  BY <1>1, <1>2, PTL DEF Spec

----------------------------------------------------------------------------
(* The two runs the other way round *)

LEMMA SumsAreNumbers ==
    ASSUME NEW run \in Runs
    PROVE  /\ Comparison!Sum(run) \in Nat /\ Comparison!Squares(run) \in Nat
           /\ Comparison!Cardinality(Comparison!Values(run)) \in Nat
<1>1. Comparison!Values(run) \subseteq Questions
  BY ComparisonAssumption DEF Comparison!Assumptions, Runs, Comparison!Ids, Comparison!Values
<1>2. IsFiniteSet(Questions)
  BY ComparisonAssumption DEF Comparison!Assumptions, Comparison!IsFiniteSet, IsFiniteSet
<1>3. ASSUME NEW some \in SUBSET Comparison!Values(run)
      PROVE  Comparison!Cardinality(some) \in Nat
  <2>1. IsFiniteSet(some)
    BY <1>1, <1>2, FS_Subset
  <2>2. QED
    BY <2>1, FS_CardinalityType, ComparisonCounts
<1>4. \A n : Comparison!At(run, n) \in Nat
  BY <1>3 DEF Comparison!At
<1>5. PICK a, b, c, d : /\ a = Comparison!At(run, 1) /\ b = Comparison!At(run, 2)
                        /\ c = Comparison!At(run, 3) /\ d = Comparison!At(run, 4)
  OBVIOUS
<1>6. a \in Nat /\ b \in Nat /\ c \in Nat /\ d \in Nat
  BY <1>4, <1>5
<1>7. /\ Comparison!Sum(run) = a + 2 * b + 3 * c + 4 * d
      /\ Comparison!Squares(run) = a + 4 * b + 9 * c + 16 * d
  BY <1>5 DEF Comparison!Sum, Comparison!Squares
<1>8. Comparison!Sum(run) \in Nat /\ Comparison!Squares(run) \in Nat
  BY <1>6, <1>7
<1>9. QED
  BY <1>3, <1>8

LEMMA WithinOfOpposites ==
    ASSUME NEW run, NEW d \in Int, NEW e \in Int, e = -d, NEW scale \in Int
    PROVE  Comparison!Within(run, d, scale) <=> Comparison!Within(run, e, scale)
<1>1. d * d = e * e
  OBVIOUS
<1>2. QED
  BY <1>1 DEF Comparison!Within

\* Whether a difference of the means is one depends on no order.
LEMMA UnresolvedEitherWay ==
    ASSUME NEW b \in Runs, NEW a \in Runs
    PROVE  Comparison!Unresolved(b, a) <=> Comparison!Unresolved(a, b)
<1>1. PICK nb, na, sb, sa :
        /\ nb = Comparison!Cardinality(Comparison!Values(b)) /\ sb = Comparison!Sum(b)
        /\ na = Comparison!Cardinality(Comparison!Values(a)) /\ sa = Comparison!Sum(a)
  OBVIOUS
<1>2. nb \in Nat /\ na \in Nat /\ sb \in Nat /\ sa \in Nat
  BY <1>1, SumsAreNumbers
<1>3. PICK d, e, scale : d = sb * na - sa * nb /\ e = sa * nb - sb * na /\ scale = nb * na
  OBVIOUS
<1>4. d \in Int /\ e \in Int /\ scale \in Int /\ e = -d /\ scale = na * nb /\ (d = 0 <=> e = 0)
  <2>1. PICK x \in Int, y \in Int : x = sb * na /\ y = sa * nb
    BY <1>2
  <2>2. nb * na \in Int /\ nb * na = na * nb
    BY <1>2
  <2>3. QED
    BY <1>3, <2>1, <2>2
<1>5. Comparison!Unresolved(b, a) <=>
        /\ "recall" \in Comparison!Metrics(b) \cap Comparison!Metrics(a) /\ d # 0
        /\ \E run \in {b, a} : Comparison!Within(run, d, scale)
  BY <1>1, <1>3 DEF Comparison!Unresolved
<1>6. Comparison!Unresolved(a, b) <=>
        /\ "recall" \in Comparison!Metrics(a) \cap Comparison!Metrics(b) /\ e # 0
        /\ \E run \in {a, b} : Comparison!Within(run, e, scale)
  BY <1>1, <1>3, <1>4 DEF Comparison!Unresolved
<1>7. \A run : Comparison!Within(run, d, scale) <=> Comparison!Within(run, e, scale)
  BY <1>4, WithinOfOpposites
<1>8. QED
  BY <1>4, <1>5, <1>6, <1>7

LEMMA PairedEitherWay ==
    ASSUME NEW b, NEW a, NEW p, NEW r,
           p = Comparison!PairedDiff(b, a), r = Comparison!PairedDiff(a, b)
    PROVE  /\ p.fixed = r.flips /\ p.flips = r.fixed /\ p.unchanged = r.unchanged
           /\ p.onlyBefore = r.onlyAfter /\ p.onlyAfter = r.onlyBefore
BY DEF Comparison!PairedDiff

\* What is said of the comparability of two runs depends on no order.
LEMMA ComparableEitherWay ==
    ASSUME NEW b \in Runs, NEW a \in Runs
    PROVE  Comparison!Comparability(b, a) = Comparison!Comparability(a, b)
<1>1. PICK p, r : p = Comparison!PairedDiff(b, a) /\ r = Comparison!PairedDiff(a, b)
  OBVIOUS
<1>2. /\ p.fixed = r.flips /\ p.flips = r.fixed /\ p.unchanged = r.unchanged
      /\ p.onlyBefore = r.onlyAfter /\ p.onlyAfter = r.onlyBefore
  BY <1>1, PairedEitherWay
<1>3. /\ p.fixed \cup p.flips \cup p.unchanged = r.fixed \cup r.flips \cup r.unchanged
      /\ p.onlyBefore \cup p.onlyAfter = r.onlyBefore \cup r.onlyAfter
  BY <1>2
<1>4. Comparison!PairErrors(p) = Comparison!PairErrors(r)
  BY <1>3 DEF Comparison!PairErrors
<1>5. \A f : /\ Comparison!Differ(b, a, f) <=> Comparison!Differ(a, b, f)
             /\ Comparison!Recorded(b, a, f) <=> Comparison!Recorded(a, b, f)
  BY DEF Comparison!Differ, Comparison!Recorded
<1>6. Comparison!RunErrors(b, a) = Comparison!RunErrors(a, b)
  BY <1>5 DEF Comparison!RunErrors, Comparison!When
<1>7. Comparison!RecordWarnings(b, a) = Comparison!RecordWarnings(a, b)
  BY <1>5 DEF Comparison!RecordWarnings, Comparison!When
<1>8. Comparison!ErrorsOfBoth(b, a) = Comparison!ErrorsOfBoth(a, b)
  BY DEF Comparison!ErrorsOfBoth, Comparison!When
<1>9. Comparison!RunWarnings(b, a) = Comparison!RunWarnings(a, b)
  BY <1>5, <1>7, <1>8, UnresolvedEitherWay DEF Comparison!RunWarnings, Comparison!When
<1>10. Comparison!PairWarnings(b, a, p) = Comparison!PairWarnings(a, b, r)
  BY <1>3, <1>4, <1>5 DEF Comparison!PairWarnings, Comparison!When
<1>11. QED
  BY <1>1, <1>4, <1>6, <1>9, <1>10 DEF Comparison!Comparability, Comparison!Errors,
     Comparison!When

\* A run beside itself: no metric fell, and what is said of it is about the run.
LEMMA NothingFalls ==
    ASSUME NEW run \in Runs
    PROVE  Comparison!Regressed(run, run) = Comparison!BelowFloor(run)
<1>1. PICK n, s : n = Comparison!Cardinality(Comparison!Values(run)) /\ s = Comparison!Sum(run)
  OBVIOUS
<1>2. n \in Nat /\ s \in Nat
  BY <1>1, SumsAreNumbers
<1>3. ~(100 * s * n < 95 * s * n)
  <2>1. PICK x \in Nat : x = s * n
    BY <1>2
  <2>2. 100 * s * n = 100 * x /\ 95 * s * n = 95 * x
    BY <1>2, <2>1
  <2>3. QED
    BY <2>1, <2>2
<1>4. run.meta.accuracy # Nil => ~(100 * run.meta.accuracy < 95 * run.meta.accuracy)
  <2>1. run.meta.accuracy # Nil => run.meta.accuracy \in Nat
    BY ComparisonAssumption DEF Comparison!Assumptions, Runs
  <2>2. QED
    BY <2>1
<1>5. "accuracy_semantic" \in Comparison!Metrics(run) => run.meta.accuracy # Nil
  BY DEF Comparison!Metrics
<1>6. Comparison!Fallen(run, run) = {}
  BY <1>1, <1>3, <1>4, <1>5 DEF Comparison!Fallen, Comparison!Shared
<1>7. QED
  BY <1>6 DEF Comparison!Regressed, Comparison!Shared

LEMMA NothingDiffers ==
    ASSUME NEW run \in Runs
    PROVE  Comparison!Comparability(run, run) \subseteq
             {"same_run", "partial_run", "errored_questions", "coverage_unverified", "empty_run",
              "no_overlap"}
<1>1. \A f : ~Comparison!Differ(run, run, f)
  BY DEF Comparison!Differ
<1>2. PICK p : p = Comparison!PairedDiff(run, run)
  OBVIOUS
<1>3. p.onlyBefore = {} /\ p.onlyAfter = {}
  BY <1>2 DEF Comparison!PairedDiff
<1>4. ~Comparison!Unresolved(run, run)
  <2>1. PICK n, s : n = Comparison!Cardinality(Comparison!Values(run)) /\ s = Comparison!Sum(run)
    OBVIOUS
  <2>2. n \in Nat /\ s \in Nat
    BY <2>1, SumsAreNumbers
  <2>3. s * n - s * n = 0
    BY <2>2
  <2>4. QED
    BY <2>1, <2>3 DEF Comparison!Unresolved
<1>5. Comparison!RunErrors(run, run) \subseteq {"empty_run"}
  BY <1>1 DEF Comparison!RunErrors, Comparison!When
<1>6. Comparison!RecordWarnings(run, run) = {}
  BY <1>1 DEF Comparison!RecordWarnings, Comparison!When
<1>7. Comparison!RunWarnings(run, run) \subseteq
        {"partial_run", "errored_questions", "coverage_unverified"}
  BY <1>1, <1>4, <1>6 DEF Comparison!RunWarnings, Comparison!ErrorsOfBoth, Comparison!When
<1>8. Comparison!PairErrors(p) \subseteq {"no_overlap"}
      /\ Comparison!PairWarnings(run, run, p) = {}
  BY <1>3 DEF Comparison!PairErrors, Comparison!PairWarnings, Comparison!When
<1>9. QED
  BY <1>2, <1>5, <1>7, <1>8 DEF Comparison!Comparability, Comparison!Errors, Comparison!When

LEMMA RunsAreComparedAlike ==
    ASSUME before \in Runs, after \in Runs
    PROVE  Comparison!SwappedRunsMirror /\ Comparison!ItselfIsNoDifference
BY ComparableEitherWay, PairedEitherWay, NothingFalls, NothingDiffers
   DEF Comparison!SwappedRunsMirror, Comparison!ItselfIsNoDifference

\* A comparison puts every shared question in one group, takes a flip for noise only when every
\* call that asked it again came back well answered, accepts no fix that named a question that
\* is missing or still failing, and leaves no retrieval failure without a task.  The two runs may
\* come in either order, and a run compared with itself shows no difference: the gate refuses it
\* below an absolute floor only.  For any two runs of a finite set of questions, datasets and
\* orders of the calls (core/eval/regression.py,
\* paired_diff, compare and confirm_flips; core/experiment/compare.py, check_comparability;
\* core/eval/prescription.py, judge_acceptance).
THEOREM ComparisonsAreFair == Spec => []ComparisonIsFair
<1>1. (part = "comparison" => ComparisonInv) => ComparisonIsFair
  BY ComparisonIsRight, RunsAreComparedAlike DEF ComparisonIsFair, ComparisonInv
<1>2. QED
  BY <1>1, ComparisonAlways, PTL

----------------------------------------------------------------------------
(* Groups of fragments *)

\* A group whose fragments are of documents of their own, no two alike.
Apart == {g \in SUBSET Chunks : \A c, e \in g : c # e => DocOf[c] # DocOf[e] /\ {c, e} \notin Alike}

LEMMA JobsMax == \A s : Generation!Max(s) = Max(s)
BY DEF Generation!Max, Max

\* A group that grows from a seed stays one: what joins it is checked against all of it.
LEMMA GroupGrows ==
    ASSUME NEW seed \in Chunks, NEW order, order \in Generation!Arrangements
    PROVE  Generation!Grown(seed, order) \in Apart
<1>1. PICK n \in Nat : order \in [1..n -> Chunks]
  <2>1. Generation!Cardinality(Chunks) \in Nat
    BY GenerationAssumption, FS_CardinalityType DEF Generation!Assumptions, Generation!IsFiniteSet,
       Generation!Cardinality, IsFiniteSet, Cardinality
  <2>2. QED
    BY <2>1 DEF Generation!Arrangements
<1> DEFINE join(g, c) == IF Generation!Cardinality(g) < GlobalFragments /\ Generation!MayJoin(c, g)
                         THEN g \cup {c} ELSE g
<1>2. PICK A : A = Apart
  OBVIOUS
<1>3. \A g \in A, c \in Chunks : join(g, c) \in A
  <2> SUFFICES ASSUME NEW g \in A, NEW c \in Chunks PROVE join(g, c) \in A
    OBVIOUS
  <2>1. CASE Generation!Cardinality(g) < GlobalFragments /\ Generation!MayJoin(c, g)
    <3>1. \A m \in g : DocOf[c] # DocOf[m] /\ {c, m} \notin Alike
      BY <2>1 DEF Generation!MayJoin
    <3>2. g \cup {c} \in A
      BY <1>2, <3>1 DEF Apart
    <3>3. QED
      BY <2>1, <3>2
  <2>2. CASE ~(Generation!Cardinality(g) < GlobalFragments /\ Generation!MayJoin(c, g))
    BY <2>2
  <2>3. QED
    BY <2>1, <2>2
<1>4. {seed} \in A
  BY <1>2 DEF Apart
<1> HIDE DEF join
<1>5. PICK step : step = [x \in 1..n |-> [a \in A |-> join(a, order[x])]]
  OBVIOUS
<1>6. step \in [1..n -> [A -> A]]
  BY <1>1, <1>3, <1>5
<1>7. PICK f \in [SUBSET (1..n) -> A] : FoldsPlaces(f, n, {seed}, step)
  BY <1>4, <1>6, FoldsByPlaces
<1>8. \A s \in SUBSET (1..n) :
        f[s] = IF s = {} THEN {seed} ELSE join(f[s \ {Generation!Max(s)}], order[Generation!Max(s)])
  <2> SUFFICES ASSUME NEW s \in SUBSET (1..n)
               PROVE  f[s] = IF s = {} THEN {seed} ELSE join(f[s \ {Max(s)}], order[Max(s)])
    BY JobsMax
  <2>1. CASE s = {}
    BY <1>7, <2>1 DEF FoldsPlaces
  <2>2. CASE s # {}
    <3>1. f[s \ {Max(s)}] \in A /\ Max(s) \in 1..n
      BY <2>2, LastPlaces
    <3>2. f[s] = step[Max(s)][f[s \ {Max(s)}]]
      BY <1>7, <2>2 DEF FoldsPlaces
    <3>3. QED
      BY <1>5, <2>2, <3>1, <3>2
  <2>3. QED
    BY <2>1, <2>2
<1>9. DOMAIN order = 1..n
  BY <1>1
<1> DEFINE iter[s \in SUBSET DOMAIN order] ==
             IF s = {} THEN {seed} ELSE LET x == Generation!Max(s) IN join(iter[s \ {x}], order[x])
<1>10. Generation!Grown(seed, order) = iter[DOMAIN order]
  BY DEF Generation!Grown, Generation!FoldLeft, Generation!MapThenFoldSet, join
<1>11. f = [s \in SUBSET DOMAIN order |->
             IF s = {} THEN {seed} ELSE LET x == Generation!Max(s) IN join(f[s \ {x}], order[x])]
  BY <1>8, <1>9
<1>12. iter = [s \in SUBSET DOMAIN order |->
             IF s = {} THEN {seed} ELSE LET x == Generation!Max(s) IN join(iter[s \ {x}], order[x])]
  BY <1>11, Zenon
<1> HIDE DEF iter
<1>13. \A s \in SUBSET (1..n) : iter[s] = IF s = {} THEN {seed} ELSE join(iter[s \ {Max(s)}], order[Max(s)])
  BY <1>9, <1>12, JobsMax
<1>14. iter[1..n] \in A
  <2>1. iter[{}] \in A
    <3>1. {} \in SUBSET (1..n)
      OBVIOUS
    <3>2. iter[{}] = {seed}
      BY <1>13, <3>1
    <3>3. QED
      BY <1>4, <3>2
  <2>2. ASSUME NEW i \in 1..n, iter[1..(i - 1)] \in A PROVE iter[1..i] \in A
    <3>1. 1..i \in SUBSET (1..n) /\ 1..i # {} /\ Max(1..i) = i /\ (1..i) \ {i} = 1..(i - 1)
      BY PlacesUpTo
    <3>2. iter[1..i] = join(iter[1..(i - 1)], order[i])
      BY <1>13, <3>1
    <3>3. QED
      BY <1>1, <1>3, <2>2, <3>2
  <2>3. QED
    BY <2>1, <2>2, FoldStays
<1>15. QED
  BY <1>2, <1>9, <1>10, <1>14

\* Groups of the size a global question rests on, each of them once.
Whole == {g \in Apart : Generation!Cardinality(g) = GlobalFragments}
GroupLists == {gs \in Seq(Whole) : \A i, k \in DOMAIN gs : gs[i] = gs[k] => i = k}

LEMMA GroupsAreWhole ==
    ASSUME NEW n, NEW seeds, seeds \in Generation!Arrangements,
           NEW orders, orders \in [Chunks -> Generation!Arrangements]
    PROVE  Generation!GlobalGroups(n, seeds, orders) \in GroupLists
<1>1. PICK k \in Nat : seeds \in [1..k -> Chunks]
  <2>1. Generation!Cardinality(Chunks) \in Nat
    BY GenerationAssumption, FS_CardinalityType DEF Generation!Assumptions, Generation!IsFiniteSet,
       Generation!Cardinality, IsFiniteSet, Cardinality
  <2>2. QED
    BY <2>1 DEF Generation!Arrangements
<1> DEFINE add(gs, seed) ==
             IF Len(gs) < n /\ Generation!NewGroup(Generation!Grown(seed, orders[seed]), gs)
             THEN Append(gs, Generation!Grown(seed, orders[seed])) ELSE gs
<1>2. PICK A : A = GroupLists
  OBVIOUS
<1>3. \A gs \in A, c \in Chunks : add(gs, c) \in A
  <2> SUFFICES ASSUME NEW gs \in A, NEW c \in Chunks PROVE add(gs, c) \in A
    OBVIOUS
  <2>1. PICK g : g = Generation!Grown(c, orders[c])
    OBVIOUS
  <2>2. g \in Apart
    BY <2>1, GroupGrows
  <2>3. CASE Len(gs) < n /\ Generation!NewGroup(g, gs)
    <3>1. g \in Whole /\ g \notin Generation!Range(gs)
      BY <2>2, <2>3 DEF Generation!NewGroup, Whole
    <3>2. gs \in Seq(Whole) /\ \A i, j \in DOMAIN gs : gs[i] = gs[j] => i = j
      BY <1>2 DEF GroupLists
    <3>3. \A i \in DOMAIN gs : gs[i] # g
      BY <3>1 DEF Generation!Range
    <3>4. PICK more : more = Append(gs, g)
      OBVIOUS
    <3>5. /\ more \in Seq(Whole) /\ DOMAIN more = 1..(Len(gs) + 1) /\ Len(gs) \in Nat
          /\ DOMAIN gs = 1..Len(gs)
          /\ \A i \in 1..Len(gs) : more[i] = gs[i]
          /\ more[Len(gs) + 1] = g
      BY <3>1, <3>2, <3>4
    <3>6. \A i, j \in DOMAIN more : more[i] = more[j] => i = j
      BY <3>2, <3>3, <3>5
    <3>7. more \in A
      BY <1>2, <3>5, <3>6 DEF GroupLists
    <3>8. QED
      BY <2>1, <2>3, <3>4, <3>7
  <2>4. CASE ~(Len(gs) < n /\ Generation!NewGroup(g, gs))
    BY <2>1, <2>4
  <2>5. QED
    BY <2>3, <2>4
<1>4. <<>> \in A
  BY <1>2 DEF GroupLists
<1> HIDE DEF add
<1>5. PICK step : step = [x \in 1..k |-> [a \in A |-> add(a, seeds[x])]]
  OBVIOUS
<1>6. step \in [1..k -> [A -> A]]
  BY <1>1, <1>3, <1>5
<1>7. PICK f \in [SUBSET (1..k) -> A] : FoldsPlaces(f, k, <<>>, step)
  BY <1>4, <1>6, FoldsByPlaces
<1>8. \A s \in SUBSET (1..k) :
        f[s] = IF s = {} THEN <<>> ELSE add(f[s \ {Generation!Max(s)}], seeds[Generation!Max(s)])
  <2> SUFFICES ASSUME NEW s \in SUBSET (1..k)
               PROVE  f[s] = IF s = {} THEN <<>> ELSE add(f[s \ {Max(s)}], seeds[Max(s)])
    BY JobsMax
  <2>1. CASE s = {}
    BY <1>7, <2>1 DEF FoldsPlaces
  <2>2. CASE s # {}
    <3>1. f[s \ {Max(s)}] \in A /\ Max(s) \in 1..k
      BY <2>2, LastPlaces
    <3>2. f[s] = step[Max(s)][f[s \ {Max(s)}]]
      BY <1>7, <2>2 DEF FoldsPlaces
    <3>3. QED
      BY <1>5, <2>2, <3>1, <3>2
  <2>3. QED
    BY <2>1, <2>2
<1>9. DOMAIN seeds = 1..k
  BY <1>1
<1> DEFINE iter[s \in SUBSET DOMAIN seeds] ==
             IF s = {} THEN <<>> ELSE LET x == Generation!Max(s) IN add(iter[s \ {x}], seeds[x])
<1>10. Generation!GlobalGroups(n, seeds, orders) = iter[DOMAIN seeds]
  BY DEF Generation!GlobalGroups, Generation!FoldLeft, Generation!MapThenFoldSet, add
<1>11. f = [s \in SUBSET DOMAIN seeds |->
             IF s = {} THEN <<>> ELSE LET x == Generation!Max(s) IN add(f[s \ {x}], seeds[x])]
  BY <1>8, <1>9
<1>12. iter = [s \in SUBSET DOMAIN seeds |->
             IF s = {} THEN <<>> ELSE LET x == Generation!Max(s) IN add(iter[s \ {x}], seeds[x])]
  BY <1>11, Zenon
<1> HIDE DEF iter
<1>13. \A s \in SUBSET (1..k) : iter[s] = IF s = {} THEN <<>> ELSE add(iter[s \ {Max(s)}], seeds[Max(s)])
  BY <1>9, <1>12, JobsMax
<1>14. iter[1..k] \in A
  <2>1. iter[{}] \in A
    <3>1. {} \in SUBSET (1..k)
      OBVIOUS
    <3>2. iter[{}] = <<>>
      BY <1>13, <3>1
    <3>3. QED
      BY <1>4, <3>2
  <2>2. ASSUME NEW i \in 1..k, iter[1..(i - 1)] \in A PROVE iter[1..i] \in A
    <3>1. 1..i \in SUBSET (1..k) /\ 1..i # {} /\ Max(1..i) = i /\ (1..i) \ {i} = 1..(i - 1)
      BY PlacesUpTo
    <3>2. iter[1..i] = add(iter[1..(i - 1)], seeds[i])
      BY <1>13, <3>1
    <3>3. QED
      BY <1>1, <1>3, <2>2, <3>2
  <2>3. QED
    BY <2>1, <2>2, FoldStays
<1>15. QED
  BY <1>2, <1>9, <1>10, <1>14

\* The documents of a group are as many as its fragments, and no two of these are alike.
LEMMA WholeHasGrounds ==
    ASSUME NEW g \in Whole
    PROVE  /\ Generation!Cardinality({DocOf[c] : c \in g}) = GlobalFragments
           /\ Generation!kSubset(2, g) \cap Alike = {}
<1>1. g \in Apart /\ Cardinality(g) = GlobalFragments
  BY DEF Whole, Generation!Cardinality, Cardinality
<1>2. IsFiniteSet(g)
  <2>1. IsFiniteSet(Chunks)
    BY GenerationAssumption DEF Generation!Assumptions, Generation!IsFiniteSet, IsFiniteSet
  <2>2. QED
    BY <1>1, <2>1, FS_Subset DEF Apart
<1>3. PICK docs : docs = {DocOf[c] : c \in g}
  OBVIOUS
<1>4. Cardinality(docs) = Cardinality(g)
  <2>1. PICK named : named = [c \in g |-> DocOf[c]]
    OBVIOUS
  <2>2. named \in Surjection(g, docs)
    BY <1>3, <2>1 DEF Surjection
  <2>3. \A c, e \in g : named[c] = named[e] => c = e
    BY <1>1, <2>1 DEF Apart
  <2>4. named \in Bijection(g, docs)
    BY <2>2, <2>3 DEF Bijection, Surjection, Injection, IsInjective
  <2>5. QED
    BY <1>2, <2>4, FS_Bijection DEF ExistsBijection
<1>5. Generation!Cardinality(docs) = GlobalFragments
  BY <1>1, <1>4 DEF Generation!Cardinality, Cardinality
<1>6. ASSUME NEW p \in Generation!kSubset(2, g) PROVE p \notin Alike
  <2>1. p \in SUBSET g /\ Cardinality(p) = 2
    BY DEF Generation!kSubset, Generation!Cardinality, Cardinality
  <2>2. IsFiniteSet(p)
    BY <1>2, <2>1, FS_Subset
  <2>3. p # {} /\ \A c : p # {c}
    BY <2>1, <2>2, FS_EmptySet, FS_Singleton
  <2>4. PICK c \in p : TRUE
    BY <2>3
  <2>5. PICK e \in p : e # c
    BY <2>3
  <2>6. Cardinality(p \ {c}) = 1
    <3>1. Cardinality(p \ {c}) = Cardinality(p) - 1
      BY <2>2, <2>4, FS_RemoveElement
    <3>2. QED
      BY <2>1, <3>1
  <2>7. p \ {c} = {e}
    <3>1. IsFiniteSet(p \ {c})
      BY <2>2, FS_Subset
    <3>2. PICK x : p \ {c} = {x}
      BY <2>6, <3>1, FS_Singleton
    <3>3. QED
      BY <2>5, <3>2
  <2>8. p = {c, e}
    BY <2>4, <2>5, <2>7
  <2>9. QED
    BY <1>1, <2>1, <2>5, <2>8 DEF Apart
<1>7. QED
  BY <1>3, <1>5, <1>6

(* What is sampled *)

\* Groups a job may be given for a type of question.
Groups(type) ==
    IF type = "global" THEN GroupLists ELSE Seq((SUBSET Chunks) \ {{}})

LEMMA SampledGroups ==
    ASSUME NEW type, NEW n \in Nat, NEW groups \in Generation!Sampled(type, n)
    PROVE  groups \in Groups(type)
<1> USE DEF Groups
<1>1. CASE type = "global"
  <2>1. CASE groups = <<>>
    BY <1>1, <2>1 DEF GroupLists
  <2>2. CASE groups # <<>>
    <3>1. PICK s \in Seeds, o \in Orders : groups = Generation!GlobalGroups(n, s, o)
      BY <1>1, <2>2 DEF Generation!Sampled
    <3>2. s \in Generation!Arrangements /\ o \in [Chunks -> Generation!Arrangements]
      BY GenerationAssumption DEF Generation!Assumptions
    <3>3. QED
      BY <1>1, <3>1, <3>2, GroupsAreWhole
  <2>3. QED
    BY <2>1, <2>2
<1>2. CASE type # "global"
  <2>1. PICK own : own = CASE type = "comparative" -> Generation!Pairs
                           [] type = "navigational" -> Generation!Ranges
                           [] OTHER -> {}
    OBVIOUS
  <2>2. own \subseteq (SUBSET Chunks) \ {{}}
    <3>1. Generation!Pairs \subseteq (SUBSET Chunks) \ {{}}
      <4>1. ASSUME NEW g \in Generation!Pairs PROVE g \in SUBSET Chunks /\ g # {}
        <5>1. PICK d : g \in Generation!kSubset(2, Generation!OfDoc(d))
          BY DEF Generation!Pairs
        <5>2. g \in SUBSET Chunks /\ Cardinality(g) = 2
          BY <5>1 DEF Generation!kSubset, Generation!OfDoc, Generation!Cardinality, Cardinality
        <5>3. QED
          BY <5>2, FS_EmptySet
      <4>2. QED
        BY <4>1
    <3>2. Generation!Ranges \subseteq (SUBSET Chunks) \ {{}}
      <4>1. ASSUME NEW g \in Generation!Ranges PROVE g \in SUBSET Chunks /\ g # {}
        <5>1. Cardinality(g) \in RangeMin..RangeMax /\ \E d : g \in SUBSET Generation!OfDoc(d)
          BY DEF Generation!Ranges, Generation!Cardinality, Cardinality
        <5>2. RangeMin \in 3..RangeMax
          BY GenerationAssumption DEF Generation!Assumptions
        <5>3. Cardinality(g) # 0
          BY <5>1, <5>2
        <5>4. QED
          BY <5>1, <5>3, FS_EmptySet DEF Generation!OfDoc
      <4>2. QED
        BY <4>1
    <3>3. QED
      BY <2>1, <3>1, <3>2
  <2>3. \E k \in Nat : groups \in [1..k -> (SUBSET Chunks) \ {{}}]
    <3>1. CASE own # {}
      <4>1. groups \in [1..n -> own]
        BY <1>2, <2>1, <3>1 DEF Generation!Sampled, Generation!ChunkGroups
      <4>2. QED
        BY <2>2, <4>1
    <3>2. CASE own = {}
      <4>1. PICK k : /\ k = IF n > Generation!Cardinality(Chunks) THEN Generation!Cardinality(Chunks) ELSE n
                     /\ groups \in [1..k -> Generation!Singles]
        BY <1>2, <2>1, <3>2 DEF Generation!Sampled, Generation!ChunkGroups
      <4>2. Generation!Cardinality(Chunks) \in Nat
        BY GenerationAssumption, FS_CardinalityType DEF Generation!Assumptions,
           Generation!IsFiniteSet, Generation!Cardinality, IsFiniteSet, Cardinality
      <4>3. k \in Nat
        BY <4>1, <4>2
      <4>4. Generation!Singles \subseteq (SUBSET Chunks) \ {{}}
        BY DEF Generation!Singles
      <4>5. QED
        BY <4>1, <4>3, <4>4
    <3>3. QED
      BY <3>1, <3>2
  <2>4. PICK k \in Nat : groups \in [1..k -> (SUBSET Chunks) \ {{}}]
    BY <2>3
  <2>5. PICK S : S = (SUBSET Chunks) \ {{}}
    OBVIOUS
  <2>6. groups \in Seq(S)
    BY <2>4, <2>5, FunctionIsSequence
  <2>7. QED
    BY <1>2, <2>5, <2>6
<1>3. QED
  BY <1>1, <1>2

----------------------------------------------------------------------------
(* Drafting questions *)

Usable(d) == d.reply = "good" \/ (d.reply = "bare" /\ d.group.type # "global")

GroupRecord == [type : Generation!QuestionTypes, from : (SUBSET Chunks) \ {{}}, entry : Nat]

\* The groups of a global question have grounds, and no two of an entry are one.
Fair(gs) ==
    \A i \in DOMAIN gs : gs[i].type = "global" =>
        /\ gs[i].from \in Whole
        /\ \A k \in DOMAIN gs : gs[k].from = gs[i].from /\ gs[k].entry = gs[i].entry => k = i
JobRecord == [pc : {"none", "run", "done", "dead"}, groups : Seq(GroupRecord),
              drafts : Seq([group : GroupRecord, reply : Replies]),
              failed : Seq(Replies \cup {"not_enough_documents"}),
              preset : Presets \cup {Generation!NoPreset}]

\* A job's drafts were made from answers that can be used, each of its groups is tried once, and
\* the groups of global questions have grounds.
JobInv(t) ==
    /\ t \in JobRecord
    /\ \A i \in DOMAIN t.drafts : Usable(t.drafts[i])
    /\ Generation!Tried(t) \in 0..Len(t.groups)
    /\ t.pc = "done" => Generation!Tried(t) = Len(t.groups)
    /\ Fair(t.groups)

GenerationInv ==
    /\ presets \subseteq Presets /\ DOMAIN writer = Drafting
    /\ \A j \in Drafting : JobInv(writer[j])

\* The shortfall is the failures that are not of an item.
LEMMA ShortfallIsNumber ==
    ASSUME NEW t, t \in JobRecord
    PROVE  /\ Generation!Shortfall(t) \in 0..Len(t.failed)
           /\ Generation!Tried(t) \in Int
           /\ Cardinality({i \in DOMAIN t.failed : t.failed[i] # "not_enough_documents"})
                = Len(t.failed) - Generation!Shortfall(t)
<1>1. t.failed \in Seq(Replies \cup {"not_enough_documents"})
      /\ t.drafts \in Seq([group : GroupRecord, reply : Replies])
  BY DEF JobRecord
<1>2. PICK n \in Nat : n = Len(t.failed) /\ DOMAIN t.failed = 1..n
  BY <1>1
<1>3. IsFiniteSet(1..n) /\ Cardinality(1..n) = n
  BY <1>2, FS_Interval
<1>4. PICK S, T : /\ S = {i \in 1..n : t.failed[i] = "not_enough_documents"}
                  /\ T = {i \in 1..n : t.failed[i] # "not_enough_documents"}
  OBVIOUS
<1>5. S \subseteq 1..n /\ T = (1..n) \ S
  BY <1>4
<1>6. IsFiniteSet(S) /\ Cardinality(S) <= n /\ Cardinality(S) \in Nat
  BY <1>3, <1>5, FS_Subset, FS_CardinalityType
<1>7. Cardinality(T) = Cardinality(1..n) - Cardinality((1..n) \cap S)
  BY <1>3, <1>5, FS_Difference
<1>8. (1..n) \cap S = S
  BY <1>5
<1>9. Generation!Shortfall(t) = Cardinality(S)
  BY <1>2, <1>4 DEF Generation!Shortfall, Generation!Cardinality, Cardinality
<1>10. Generation!Tried(t) \in Int
  BY <1>1, <1>6, <1>9 DEF Generation!Tried
<1>11. Cardinality(T) = n - Cardinality(S)
  BY <1>3, <1>7, <1>8
<1>12. QED
  BY <1>2, <1>4, <1>6, <1>9, <1>10, <1>11

LEMMA GenerationStarts == Generation!Init => GenerationInv
<1> SUFFICES ASSUME Generation!Init PROVE GenerationInv
  OBVIOUS
<1>1. PICK t : t = Generation!NotStarted
  OBVIOUS
<1>2. t \in JobRecord /\ t.pc = "none" /\ t.groups = <<>> /\ t.failed = <<>> /\ t.drafts = <<>>
  BY <1>1 DEF Generation!NotStarted, JobRecord
<1>3. Generation!Tried(t) = 0
  <2>1. Generation!Shortfall(t) = 0 /\ Len(t.drafts) = 0 /\ Len(t.failed) = 0
    <3>1. Generation!Shortfall(t) \in 0..Len(t.failed)
      BY <1>2, ShortfallIsNumber
    <3>2. QED
      BY <1>2, <3>1
  <2>2. QED
    BY <2>1 DEF Generation!Tried
<1>4. JobInv(t)
  BY <1>2, <1>3 DEF JobInv, Fair
<1>5. QED
  BY <1>1, <1>4 DEF Generation!Init, GenerationInv

\* The groups of one entry, as they are lined up.
Piece(entries, sampled, k) ==
    [i \in DOMAIN sampled[k] |->
        [type |-> entries[k].question_type, from |-> sampled[k][i], entry |-> k]]

LEMMA PieceIsFair ==
    ASSUME NEW entries, NEW sampled, NEW k \in Nat,
           entries[k].question_type \in Generation!QuestionTypes,
           sampled[k] \in Groups(entries[k].question_type)
    PROVE  /\ Piece(entries, sampled, k) \in Seq(GroupRecord)
           /\ Fair(Piece(entries, sampled, k))
           /\ \A i \in DOMAIN Piece(entries, sampled, k) : Piece(entries, sampled, k)[i].entry = k
<1>1. PICK type, groups, g : /\ type = entries[k].question_type /\ groups = sampled[k]
                             /\ g = Piece(entries, sampled, k)
  OBVIOUS
<1>2. /\ groups \in Seq((SUBSET Chunks) \ {{}})
      /\ type = "global" => /\ \A i \in DOMAIN groups : groups[i] \in Whole
                            /\ \A i, m \in DOMAIN groups : groups[i] = groups[m] => i = m
  <2>1. CASE type = "global"
    <3>1. groups \in Seq(Whole) /\ \A i, m \in DOMAIN groups : groups[i] = groups[m] => i = m
      BY <1>1, <2>1 DEF Groups, GroupLists
    <3>2. Whole \subseteq (SUBSET Chunks) \ {{}}
      <4>1. {} \notin Whole
        <5>1. Generation!Cardinality({}) = 0
          BY FS_EmptySet DEF Generation!Cardinality, Cardinality
        <5>2. GlobalFragments # 0
          BY GenerationAssumption DEF Generation!Assumptions
        <5>3. QED
          BY <5>1, <5>2 DEF Whole
      <4>2. QED
        BY <4>1 DEF Whole, Apart
    <3>3. QED
      BY <3>1, <3>2
  <2>2. CASE type # "global"
    BY <1>1, <2>2 DEF Groups
  <2>3. QED
    BY <2>1, <2>2
<1>3. g = [i \in DOMAIN groups |-> [type |-> type, from |-> groups[i], entry |-> k]]
  BY <1>1 DEF Piece
<1>4. DOMAIN groups = 1..Len(groups) /\ Len(groups) \in Nat
      /\ \A i \in DOMAIN groups : groups[i] \in (SUBSET Chunks) \ {{}}
  BY <1>2
<1>5. \A i \in DOMAIN groups : [type |-> type, from |-> groups[i], entry |-> k] \in GroupRecord
  BY <1>1, <1>4 DEF GroupRecord
<1>6. g \in [1..Len(groups) -> GroupRecord]
  BY <1>3, <1>4, <1>5
<1>7. g \in Seq(GroupRecord) /\ DOMAIN g = DOMAIN groups
      /\ \A i \in DOMAIN g : g[i].type = type /\ g[i].from = groups[i] /\ g[i].entry = k
  BY <1>3, <1>4, <1>6, FunctionIsSequence
<1>8. Fair(g)
  BY <1>2, <1>7 DEF Fair
<1>9. QED
  BY <1>1, <1>7, <1>8

\* Lining up the groups of the next entry keeps what each entry has.
LEMMA LinedUpIsFair ==
    ASSUME NEW n \in Nat, NEW gs \in Seq(GroupRecord), Fair(gs),
           \A i \in DOMAIN gs : gs[i].entry \in 1..n,
           NEW g \in Seq(GroupRecord), Fair(g), \A i \in DOMAIN g : g[i].entry = n + 1
    PROVE  /\ gs \o g \in Seq(GroupRecord) /\ Fair(gs \o g)
           /\ \A i \in DOMAIN (gs \o g) : (gs \o g)[i].entry \in 1..(n + 1)
<1>1. PICK both : both = gs \o g
  OBVIOUS
<1>2. PICK m, l \in Nat : m = Len(gs) /\ l = Len(g) /\ DOMAIN gs = 1..m /\ DOMAIN g = 1..l
  OBVIOUS
<1>3. /\ both \in Seq(GroupRecord) /\ DOMAIN both = 1..(m + l)
      /\ \A i \in 1..m : both[i] = gs[i]
      /\ \A i \in (m + 1)..(m + l) : both[i] = g[i - m] /\ i - m \in 1..l
  BY <1>1, <1>2
<1>4. \A i \in DOMAIN both : \/ i \in 1..m /\ both[i] = gs[i] /\ both[i].entry \in 1..n
                            \/ /\ i \in (m + 1)..(m + l) /\ i - m \in DOMAIN g
                               /\ both[i] = g[i - m] /\ both[i].entry = n + 1
  BY <1>2, <1>3
<1>5. \A i \in DOMAIN both : both[i].entry \in 1..(n + 1)
  BY <1>4
<1>6. ASSUME NEW i \in DOMAIN both, both[i].type = "global"
      PROVE  /\ both[i].from \in Whole
             /\ \A k \in DOMAIN both :
                   both[k].from = both[i].from /\ both[k].entry = both[i].entry => k = i
  <2>1. CASE i \in 1..m
    <3>1. gs[i].type = "global" /\ both[i] = gs[i] /\ both[i].entry \in 1..n
      BY <1>2, <1>3, <1>6, <2>1
    <3>2. /\ gs[i].from \in Whole
          /\ \A k \in 1..m : gs[k].from = gs[i].from /\ gs[k].entry = gs[i].entry => k = i
      BY <1>2, <2>1, <3>1 DEF Fair
    <3>3. \A k \in DOMAIN both : both[k].entry = both[i].entry => k \in 1..m /\ both[k] = gs[k]
      BY <1>4, <3>1
    <3>4. QED
      BY <3>1, <3>2, <3>3
  <2>2. CASE i \notin 1..m
    <3>1. /\ i - m \in 1..l /\ g[i - m].type = "global" /\ both[i] = g[i - m]
          /\ both[i].entry = n + 1 /\ i \in (m + 1)..(m + l)
      BY <1>2, <1>4, <1>6, <2>2
    <3>2. /\ g[i - m].from \in Whole
          /\ \A k \in 1..l : g[k].from = g[i - m].from /\ g[k].entry = g[i - m].entry => k = i - m
      BY <1>2, <3>1 DEF Fair
    <3>3. \A k \in DOMAIN both : both[k].entry = both[i].entry =>
              k \in (m + 1)..(m + l) /\ k - m \in 1..l /\ both[k] = g[k - m]
      BY <1>2, <1>4, <3>1
    <3>4. ASSUME NEW k \in DOMAIN both, both[k].from = both[i].from, both[k].entry = both[i].entry
          PROVE  k = i
      <4>1. k \in (m + 1)..(m + l) /\ k - m \in 1..l /\ both[k] = g[k - m]
        BY <3>3, <3>4
      <4>2. k - m = i - m
        BY <3>1, <3>2, <3>4, <4>1
      <4>3. QED
        BY <3>1, <4>1, <4>2
    <3>5. QED
      BY <3>1, <3>2, <3>4
  <2>3. QED
    BY <2>1, <2>2
<1>7. Fair(both)
  BY <1>6 DEF Fair
<1>8. QED
  BY <1>1, <1>3, <1>5, <1>7

\* The groups of all entries, one entry after the other.
LEMMA GroupedIsFair ==
    ASSUME NEW n \in Nat, NEW entries, DOMAIN entries = 1..n, NEW sampled,
           \A k \in 1..n : /\ entries[k].question_type \in Generation!QuestionTypes
                           /\ sampled[k] \in Groups(entries[k].question_type)
    PROVE  /\ Generation!Grouped(entries, sampled) \in Seq(GroupRecord)
           /\ Fair(Generation!Grouped(entries, sampled))
<1> DEFINE join(gs, k) == gs \o Piece(entries, sampled, k)
           places == [k \in DOMAIN entries |-> k]
<1>1. PICK A : A = Seq(GroupRecord)
  OBVIOUS
<1>2. \A k \in 1..n : /\ Piece(entries, sampled, k) \in A
                      /\ Fair(Piece(entries, sampled, k))
                      /\ \A i \in DOMAIN Piece(entries, sampled, k) :
                            Piece(entries, sampled, k)[i].entry = k
  BY <1>1, PieceIsFair
<1>3. \A gs \in A, k \in 1..n : join(gs, k) \in A
  BY <1>1, <1>2
<1>4. <<>> \in A
  BY <1>1
<1>5. places = [k \in 1..n |-> k] /\ DOMAIN places = 1..n /\ \A k \in 1..n : places[k] = k
  OBVIOUS
<1>6. Generation!Grouped(entries, sampled) =
        Generation!MapThenFoldSet(LAMBDA x, acc : join(acc, x), <<>>, LAMBDA i : places[i],
                                  LAMBDA at : Generation!Max(at), DOMAIN places)
  BY DEF Generation!Grouped, Generation!FoldLeft, Piece
<1> HIDE DEF join
<1>7. PICK step : step = [x \in 1..n |-> [a \in A |-> join(a, places[x])]]
  OBVIOUS
<1>8. step \in [1..n -> [A -> A]]
  BY <1>3, <1>5, <1>7
<1>9. PICK f \in [SUBSET (1..n) -> A] : FoldsPlaces(f, n, <<>>, step)
  BY <1>4, <1>8, FoldsByPlaces
<1> HIDE DEF places
<1>10. \A s \in SUBSET (1..n) :
        f[s] = IF s = {} THEN <<>> ELSE join(f[s \ {Generation!Max(s)}], places[Generation!Max(s)])
  <2> SUFFICES ASSUME NEW s \in SUBSET (1..n)
               PROVE  f[s] = IF s = {} THEN <<>> ELSE join(f[s \ {Max(s)}], places[Max(s)])
    BY JobsMax
  <2>1. CASE s = {}
    BY <1>9, <2>1 DEF FoldsPlaces
  <2>2. CASE s # {}
    <3>1. f[s \ {Max(s)}] \in A /\ Max(s) \in 1..n
      BY <2>2, LastPlaces
    <3>2. f[s] = step[Max(s)][f[s \ {Max(s)}]]
      BY <1>9, <2>2 DEF FoldsPlaces
    <3>3. QED
      BY <1>7, <2>2, <3>1, <3>2
  <2>3. QED
    BY <2>1, <2>2
<1> DEFINE iter[s \in SUBSET DOMAIN places] ==
             IF s = {} THEN <<>> ELSE LET x == Generation!Max(s) IN join(iter[s \ {x}], places[x])
<1>11. Generation!Grouped(entries, sampled) = iter[DOMAIN places]
  BY <1>6 DEF Generation!MapThenFoldSet
<1>12. f = [s \in SUBSET DOMAIN places |->
             IF s = {} THEN <<>> ELSE LET x == Generation!Max(s) IN join(f[s \ {x}], places[x])]
  BY <1>5, <1>10
<1>13. iter = [s \in SUBSET DOMAIN places |->
             IF s = {} THEN <<>> ELSE LET x == Generation!Max(s) IN join(iter[s \ {x}], places[x])]
  BY <1>12, Zenon
<1> HIDE DEF iter
<1>14. \A s \in SUBSET (1..n) : iter[s] = IF s = {} THEN <<>> ELSE join(iter[s \ {Max(s)}], places[Max(s)])
  <2>1. DOMAIN places = 1..n
    BY <1>5
  <2>2. QED
    BY <1>13, <2>1, JobsMax
<1> DEFINE Good(i) == /\ iter[1..i] \in A /\ Fair(iter[1..i])
                      /\ \A x \in DOMAIN iter[1..i] : iter[1..i][x].entry \in 1..i
           T == {i \in 0..n : Good(i)}
<1>15. 0 \in T
  <2>1. 1..0 = {} /\ {} \in SUBSET (1..n)
    OBVIOUS
  <2>2. iter[1..0] = <<>>
    BY <1>14, <2>1
  <2>3. Good(0)
    BY <1>4, <2>2 DEF Fair
  <2>4. QED
    BY <2>3
<1>16. ASSUME NEW i \in 0..n, i \in T, i < n PROVE i + 1 \in T
  <2>1. PICK m \in 1..n : m = i + 1 /\ m - 1 = i
    BY <1>16
  <2>2. 1..m \in SUBSET (1..n) /\ 1..m # {} /\ Max(1..m) = m /\ (1..m) \ {m} = 1..(m - 1)
    BY PlacesUpTo
  <2>3. iter[1..m] = join(iter[1..i], places[m])
    BY <1>14, <2>1, <2>2
  <2>4. iter[1..m] = iter[1..i] \o Piece(entries, sampled, m)
    BY <1>5, <2>3 DEF join
  <2>5. Good(i)
    BY <1>16
  <2>6. PICK gs, g : gs = iter[1..i] /\ g = Piece(entries, sampled, m)
    OBVIOUS
  <2>7. /\ gs \in Seq(GroupRecord) /\ Fair(gs) /\ \A x \in DOMAIN gs : gs[x].entry \in 1..i
        /\ g \in Seq(GroupRecord) /\ Fair(g) /\ \A x \in DOMAIN g : g[x].entry = i + 1
        /\ i \in Nat
    BY <1>1, <1>2, <2>1, <2>5, <2>6
  <2> HIDE DEF Good
  <2>8. /\ gs \o g \in Seq(GroupRecord) /\ Fair(gs \o g)
        /\ \A x \in DOMAIN (gs \o g) : (gs \o g)[x].entry \in 1..(i + 1)
    BY <2>7, LinedUpIsFair
  <2>9. Good(m)
    BY <1>1, <2>1, <2>4, <2>6, <2>8 DEF Good
  <2>10. QED
    BY <2>1, <2>9
<1>17. n \in T
  <2> HIDE DEF T
  <2>1. 0..n \subseteq T
    BY <1>15, <1>16, NumbersUpTo
  <2>2. QED
    BY <2>1
<1>18. QED
  BY <1>1, <1>5, <1>11, <1>17

LEMMA JobStarts ==
    ASSUME GenerationInv, NEW j \in Drafting, Generation!Start(j) PROVE GenerationInv'
<1>1. PICK entries \in Requests, preset \in presets \cup {Generation!NoPreset} :
        \E sampled \in Generation!SampledFor(entries) :
            writer' = [writer EXCEPT ![j] = Generation!Started(entries, sampled, preset)]
  BY Zenon DEF Generation!Start
<1>2. PICK sampled \in Generation!SampledFor(entries) :
            writer' = [writer EXCEPT ![j] = Generation!Started(entries, sampled, preset)]
  BY <1>1, Zenon
<1>3. PICK g, m, f : /\ g = Generation!Grouped(entries, sampled)
                     /\ m = Generation!Cardinality(Generation!Short(entries, sampled))
                     /\ f = [i \in 1..m |-> "not_enough_documents"]
  OBVIOUS
<1>4. PICK t : t = [pc |-> "run", drafts |-> <<>>, preset |-> preset, groups |-> g, failed |-> f]
  OBVIOUS
<1>5. writer' = [writer EXCEPT ![j] = t] /\ UNCHANGED presets
  BY <1>2, <1>3, <1>4 DEF Generation!Start, Generation!Started
<1>6. PICK n \in Nat : DOMAIN entries = 1..n /\ \A k \in 1..n :
         entries[k] \in [question_type : Generation!QuestionTypes, n_questions : Nat \ {0}]
  <2>1. PICK E : E = [question_type : Generation!QuestionTypes, n_questions : Nat \ {0}]
    OBVIOUS
  <2>2. entries \in Seq(E)
    BY <2>1, GenerationAssumption DEF Generation!Assumptions
  <2>3. Len(entries) \in Nat /\ DOMAIN entries = 1..Len(entries)
        /\ \A k \in 1..Len(entries) : entries[k] \in E
    BY <2>2
  <2>4. QED
    BY <2>1, <2>3
<1>7. \A k \in 1..n : /\ entries[k].question_type \in Generation!QuestionTypes
                      /\ entries[k].n_questions \in Nat
                      /\ sampled[k] \in Generation!Sampled(entries[k].question_type,
                                                          entries[k].n_questions)
  <2>1. \A k \in DOMAIN entries :
           sampled[k] \in Generation!Sampled(entries[k].question_type, entries[k].n_questions)
    BY Zenon DEF Generation!SampledFor
  <2>2. QED
    BY <1>6, <2>1
<1>8. \A k \in 1..n : sampled[k] \in Groups(entries[k].question_type)
  BY <1>7, SampledGroups
<1>9. g \in Seq(GroupRecord) /\ Fair(g)
  BY <1>3, <1>6, <1>7, <1>8, GroupedIsFair
<1>10. m \in Nat
  <2>1. IsFiniteSet(1..n)
    BY FS_Interval
  <2>2. PICK S : S = Generation!Short(entries, sampled)
    OBVIOUS
  <2>3. S \in SUBSET (1..n)
    BY <1>6, <2>2 DEF Generation!Short
  <2>4. Cardinality(S) \in Nat
    BY <2>1, <2>3, FS_Subset, FS_CardinalityType
  <2>5. QED
    BY <1>3, <2>2, <2>4 DEF Generation!Cardinality, Cardinality
<1>11. /\ f \in Seq(Replies \cup {"not_enough_documents"}) /\ Len(f) = m /\ DOMAIN f = 1..m
       /\ \A i \in 1..m : f[i] = "not_enough_documents"
  <2>1. PICK S : S = Replies \cup {"not_enough_documents"}
    OBVIOUS
  <2>2. f \in [1..m -> S]
    BY <1>3, <2>1
  <2>3. QED
    BY <1>3, <1>10, <2>1, <2>2, FunctionIsSequence
<1>12. /\ t.pc = "run" /\ t.drafts = <<>> /\ t.preset = preset /\ t.groups = g /\ t.failed = f
       /\ t \in JobRecord
  BY <1>4, <1>9, <1>11 DEF JobRecord, GenerationInv
<1>13. Generation!Tried(t) = 0
  <2>1. {i \in DOMAIN t.failed : t.failed[i] = "not_enough_documents"} = 1..m
    BY <1>11, <1>12
  <2>2. Generation!Shortfall(t) = m
    <3>1. Cardinality(1..m) = m
      BY <1>10, FS_Interval
    <3>2. QED
      BY <2>1, <3>1 DEF Generation!Shortfall, Generation!Cardinality, Cardinality
  <2>3. Len(t.drafts) = 0
    BY <1>12
  <2>4. QED
    BY <1>10, <1>11, <1>12, <2>2, <2>3 DEF Generation!Tried
<1>14. Len(g) \in Nat
  BY <1>9
<1>15. JobInv(t)
  BY <1>9, <1>12, <1>13, <1>14 DEF JobInv
<1>16. QED
  BY <1>5, <1>15 DEF GenerationInv

\* The group an item is drafted from, and what the answer leaves: a draft of that group, a
\* failure, or a task that is dead.
LEMMA ItemKeeps ==
    ASSUME GenerationInv, NEW j \in Drafting, Generation!Item(j) PROVE GenerationInv'
<1>1. PICK t : t = writer[j]
  OBVIOUS
<1>2. PICK tried : tried = Generation!Tried(t)
  OBVIOUS
<1>3. PICK group : group = t.groups[tried + 1]
  OBVIOUS
<1>4. PICK reply \in Replies :
        \/ reply = "structure" /\ writer' = [writer EXCEPT ![j].pc = "dead"]
        \/ /\ reply # "structure" /\ Generation!Fails(reply, group.type)
           /\ writer' = [writer EXCEPT ![j] = [t EXCEPT !.failed = Append(t.failed, reply)]]
        \/ /\ reply # "structure" /\ ~Generation!Fails(reply, group.type)
           /\ writer' = [writer EXCEPT ![j] =
                 [t EXCEPT !.drafts = Append(t.drafts, [group |-> group, reply |-> reply])]]
  BY <1>1, <1>2, <1>3 DEF Generation!Item
<1>5. t.pc = "run" /\ tried < Len(t.groups) /\ UNCHANGED presets
  BY <1>1, <1>2 DEF Generation!Item
<1>6. JobInv(t)
  BY <1>1 DEF GenerationInv
<1>7. /\ t \in JobRecord /\ t.groups \in Seq(GroupRecord) /\ Len(t.groups) \in Nat
      /\ t.failed \in Seq(Replies \cup {"not_enough_documents"})
      /\ t.drafts \in Seq([group : GroupRecord, reply : Replies])
      /\ tried \in 0..Len(t.groups)
  <2>1. t \in JobRecord /\ tried \in 0..Len(t.groups)
    BY <1>2, <1>6 DEF JobInv
  <2>2. QED
    BY <2>1 DEF JobRecord
<1>8. group \in GroupRecord
  BY <1>3, <1>5, <1>7
<1>9. reply \in {"raises", "cut", "unparseable", "bare", "good", "structure"}
  BY GenerationAssumption DEF Generation!Assumptions
<1>10. tried = Len(t.drafts) + Len(t.failed) - Generation!Shortfall(t)
  BY <1>2 DEF Generation!Tried
<1>11. Generation!Shortfall(t) \in Int
  <2>1. Len(t.failed) \in Nat
    BY <1>7
  <2>2. t \in JobRecord
    BY <1>7
  <2>3. Generation!Shortfall(t) \in 0..Len(t.failed)
    BY <2>2, ShortfallIsNumber
  <2>4. QED
    BY <2>1, <2>3
<1>12. PICK n : writer' = [writer EXCEPT ![j] = n] /\ JobInv(n)
  <2>1. CASE reply = "structure"
    <3>1. PICK n : n = [t EXCEPT !.pc = "dead"]
      OBVIOUS
    <3>2. writer' = [writer EXCEPT ![j] = n]
      BY <1>1, <1>4, <2>1, <3>1
    <3>3. /\ n \in JobRecord /\ n.drafts = t.drafts /\ n.groups = t.groups /\ n.failed = t.failed
          /\ n.pc = "dead"
      BY <1>7, <3>1 DEF JobRecord
    <3>4. Generation!Tried(n) = tried
      BY <1>2, <3>3 DEF Generation!Tried, Generation!Shortfall
    <3>5. JobInv(n)
      BY <1>6, <1>7, <3>3, <3>4 DEF JobInv
    <3>6. QED
      BY <3>2, <3>5
  <2>2. CASE reply # "structure" /\ Generation!Fails(reply, group.type)
    <3>1. PICK failed : failed = Append(t.failed, reply)
      OBVIOUS
    <3>2. PICK n : n = [t EXCEPT !.failed = failed]
      OBVIOUS
    <3>3. writer' = [writer EXCEPT ![j] = n]
      BY <1>4, <2>2, <3>1, <3>2
    <3>4. /\ failed \in Seq(Replies \cup {"not_enough_documents"})
          /\ Len(failed) = Len(t.failed) + 1 /\ DOMAIN failed = 1..(Len(t.failed) + 1)
          /\ DOMAIN t.failed = 1..Len(t.failed) /\ Len(t.failed) \in Nat
          /\ \A i \in DOMAIN t.failed : failed[i] = t.failed[i]
          /\ failed[Len(t.failed) + 1] = reply
      <4>1. PICK S : S = Replies \cup {"not_enough_documents"}
        OBVIOUS
      <4>2. t.failed \in Seq(S) /\ reply \in S
        BY <1>7, <4>1
      <4>3. QED
        BY <3>1, <4>1, <4>2
    <3>5. /\ n \in JobRecord /\ n.drafts = t.drafts /\ n.groups = t.groups /\ n.failed = failed
          /\ n.pc = "run"
      BY <1>5, <1>7, <3>2, <3>4 DEF JobRecord
    <3>6. Generation!Shortfall(n) = Generation!Shortfall(t)
      <4>1. reply # "not_enough_documents"
        BY <1>9
      <4>2. {i \in DOMAIN failed : failed[i] = "not_enough_documents"}
              = {i \in DOMAIN t.failed : t.failed[i] = "not_enough_documents"}
        BY <3>4, <4>1
      <4>3. QED
        BY <3>5, <4>2 DEF Generation!Shortfall
    <3>7. Generation!Tried(n) = tried + 1
      <4>1. Generation!Tried(n) = Len(t.drafts) + Len(failed) - Generation!Shortfall(t)
        BY <3>5, <3>6 DEF Generation!Tried
      <4>2. Len(t.drafts) \in Nat
        BY <1>7
      <4>3. QED
        BY <1>10, <1>11, <3>4, <4>1, <4>2
    <3>8. Generation!Tried(n) \in 0..Len(n.groups)
      BY <1>5, <1>7, <3>5, <3>7
    <3>9. JobInv(n)
      BY <1>6, <3>5, <3>8 DEF JobInv
    <3>10. QED
      BY <3>3, <3>9
  <2>3. CASE reply # "structure" /\ ~Generation!Fails(reply, group.type)
    <3>1. PICK d : d = [group |-> group, reply |-> reply]
      OBVIOUS
    <3>2. Usable(d) /\ d \in [group : GroupRecord, reply : Replies]
      BY <1>8, <1>9, <2>3, <3>1 DEF Usable, Generation!Fails
    <3>3. PICK drafts : drafts = Append(t.drafts, d)
      OBVIOUS
    <3>4. PICK n : n = [t EXCEPT !.drafts = drafts]
      OBVIOUS
    <3>5. writer' = [writer EXCEPT ![j] = n]
      BY <1>4, <2>3, <3>1, <3>3, <3>4
    <3>6. /\ drafts \in Seq([group : GroupRecord, reply : Replies])
          /\ Len(drafts) = Len(t.drafts) + 1 /\ DOMAIN drafts = 1..(Len(t.drafts) + 1)
          /\ DOMAIN t.drafts = 1..Len(t.drafts) /\ Len(t.drafts) \in Nat
          /\ \A i \in DOMAIN t.drafts : drafts[i] = t.drafts[i]
          /\ drafts[Len(t.drafts) + 1] = d
      <4>1. PICK S : S = [group : GroupRecord, reply : Replies]
        OBVIOUS
      <4>2. t.drafts \in Seq(S) /\ d \in S
        BY <1>7, <3>2, <4>1
      <4>3. QED
        BY <3>3, <4>1, <4>2
    <3>7. /\ n \in JobRecord /\ n.drafts = drafts /\ n.groups = t.groups /\ n.failed = t.failed
          /\ n.pc = "run"
      BY <1>5, <1>7, <3>4, <3>6 DEF JobRecord
    <3>8. \A i \in DOMAIN n.drafts : Usable(n.drafts[i])
      <4>1. \A i \in DOMAIN t.drafts : Usable(t.drafts[i])
        BY <1>6 DEF JobInv
      <4>2. QED
        BY <3>2, <3>6, <3>7, <4>1
    <3>9. Generation!Tried(n) = tried + 1
      <4>1. Generation!Tried(n) = Len(drafts) + Len(t.failed) - Generation!Shortfall(t)
        BY <3>7 DEF Generation!Tried, Generation!Shortfall
      <4>2. Len(t.failed) \in Nat
        BY <1>7
      <4>3. QED
        BY <1>10, <1>11, <3>6, <4>1, <4>2
    <3>10. Generation!Tried(n) \in 0..Len(n.groups)
      BY <1>5, <1>7, <3>7, <3>9
    <3>11. JobInv(n)
      BY <1>6, <3>7, <3>8, <3>10 DEF JobInv
    <3>12. QED
      BY <3>5, <3>11
  <2>4. QED
    BY <2>1, <2>2, <2>3
<1>13. QED
  BY <1>5, <1>12 DEF GenerationInv

LEMMA EndOfJobKeeps ==
    ASSUME GenerationInv, NEW j \in Drafting, Generation!End(j) PROVE GenerationInv'
<1>1. PICK t : t = writer[j]
  OBVIOUS
<1>2. PICK n : n = [t EXCEPT !.pc = "done"]
  OBVIOUS
<1>3. /\ writer' = [writer EXCEPT ![j] = n] /\ UNCHANGED presets
      /\ Generation!Tried(t) = Len(t.groups)
  BY <1>1, <1>2 DEF Generation!End
<1>4. JobInv(t) /\ t \in JobRecord
  BY <1>1 DEF GenerationInv, JobInv
<1>5. /\ n \in JobRecord /\ n.drafts = t.drafts /\ n.groups = t.groups /\ n.failed = t.failed
      /\ n.pc = "done"
  BY <1>2, <1>4 DEF JobRecord
<1>6. Generation!Tried(n) = Generation!Tried(t)
  BY <1>5 DEF Generation!Tried, Generation!Shortfall
<1>7. JobInv(n)
  BY <1>3, <1>4, <1>5, <1>6 DEF JobInv
<1>8. QED
  BY <1>3, <1>7 DEF GenerationInv

LEMMA GenerationGoesOn == ASSUME GenerationInv, Generation!Next PROVE GenerationInv'
<1>1. CASE \E j \in Drafting : Generation!Start(j) \/ Generation!Item(j) \/ Generation!End(j)
  BY <1>1, JobStarts, ItemKeeps, EndOfJobKeeps
<1>2. CASE ~\E j \in Drafting : Generation!Start(j) \/ Generation!Item(j) \/ Generation!End(j)
  <2>1. UNCHANGED writer /\ presets' \in (SUBSET Presets) \cup {presets}
    BY <1>2 DEF Generation!Next, Generation!EditPresets, Generation!Connect, Generation!Send
  <2>2. QED
    BY <2>1 DEF GenerationInv
<1>3. QED
  BY <1>1, <1>2

LEMMA GenerationAlways == Spec => [](part = "generation" => GenerationInv)
<1>1. Init => (part = "generation" => GenerationInv)
  BY GenerationStarts DEF Init
<1>2. (part = "generation" => GenerationInv) /\ [Next]_vars
      => (part = "generation" => GenerationInv)'
  <2> SUFFICES ASSUME part = "generation" => GenerationInv, [Next]_vars, part' = "generation"
               PROVE  GenerationInv'
    OBVIOUS
  <2>1. CASE GenerationStep
    BY <2>1, GenerationGoesOn DEF GenerationStep
  <2>2. CASE UNCHANGED vars
    BY <2>2 DEF vars, generationVars, GenerationInv
  <2>3. QED
    BY <2>1, <2>2 DEF Next, ComparisonStep, IngestionStep, ProvisioningStep
<1>3. QED
  BY <1>1, <1>2, PTL DEF Spec

\* A global question rests on fragments of as many documents, no two of them alike, and no two
\* questions of one entry of the request are written from one group: for any requests, fragments,
\* near duplicates, order of the seeds and of nearness (routers/generation.py, _sample_global).
THEOREM DraftsHaveTheirGrounds == Spec => []DraftsHaveGrounds
<1>1. GenerationInv => Generation!GlobalGroupsSpanDocuments
  <2> SUFFICES ASSUME GenerationInv, NEW j \in Drafting, NEW i \in DOMAIN writer[j].groups,
                      writer[j].groups[i].type = "global"
               PROVE  /\ Generation!Cardinality({DocOf[c] : c \in writer[j].groups[i].from})
                           = GlobalFragments
                      /\ Generation!kSubset(2, writer[j].groups[i].from) \cap Alike = {}
                      /\ \A k \in DOMAIN writer[j].groups :
                            writer[j].groups[k].from = writer[j].groups[i].from
                              /\ writer[j].groups[k].entry = writer[j].groups[i].entry => k = i
    BY DEF Generation!GlobalGroupsSpanDocuments
  <2>1. /\ writer[j].groups[i].from \in Whole
        /\ \A k \in DOMAIN writer[j].groups :
              writer[j].groups[k].from = writer[j].groups[i].from
                /\ writer[j].groups[k].entry = writer[j].groups[i].entry => k = i
    BY DEF GenerationInv, JobInv, Fair
  <2>2. QED
    BY <2>1, WholeHasGrounds
<1>2. QED
  BY <1>1, GenerationAlways, PTL DEF DraftsHaveGrounds

LEMMA GenerationKeepsItsShape == ASSUME GenerationInv PROVE Generation!TypeOK
<1> SUFFICES ASSUME NEW j \in Drafting
             PROVE  /\ writer[j].pc = "done" =>
                         Len(writer[j].drafts)
                           + Generation!Cardinality({i \in DOMAIN writer[j].failed :
                                writer[j].failed[i] # "not_enough_documents"})
                           = Len(writer[j].groups)
                    /\ writer[j].preset \in Presets \cup {Generation!NoPreset}
                    /\ Generation!Tried(writer[j]) \in 0..Len(writer[j].groups)
                    /\ \A i \in DOMAIN writer[j].groups :
                          writer[j].groups[i].from \in (SUBSET Chunks) \ {{}}
  BY DEF Generation!TypeOK
<1>1. PICK t : t = writer[j]
  OBVIOUS
<1>2. JobInv(t) /\ t \in JobRecord
  BY <1>1 DEF GenerationInv, JobInv
<1>3. t.pc = "done" =>
        Len(t.drafts) + Generation!Cardinality({i \in DOMAIN t.failed :
                                t.failed[i] # "not_enough_documents"}) = Len(t.groups)
  <2>1. SUFFICES ASSUME t.pc = "done"
                 PROVE  Len(t.drafts) + Generation!Cardinality({i \in DOMAIN t.failed :
                                t.failed[i] # "not_enough_documents"}) = Len(t.groups)
    OBVIOUS
  <2>2. Generation!Tried(t) = Len(t.groups)
    BY <1>2, <2>1 DEF JobInv
  <2>3. PICK rest : rest = {i \in DOMAIN t.failed : t.failed[i] # "not_enough_documents"}
    OBVIOUS
  <2>4. Cardinality(rest) = Len(t.failed) - Generation!Shortfall(t)
        /\ Generation!Shortfall(t) \in 0..Len(t.failed)
    BY <1>2, <2>3, ShortfallIsNumber
  <2>5. Generation!Cardinality(rest) = Cardinality(rest)
    BY DEF Generation!Cardinality, Cardinality
  <2>6. Len(t.drafts) \in Nat /\ Len(t.failed) \in Nat
    BY <1>2 DEF JobRecord
  <2>7. Len(t.drafts) + Generation!Cardinality(rest) = Len(t.groups)
    BY <2>2, <2>4, <2>5, <2>6 DEF Generation!Tried
  <2>8. QED
    BY <2>3, <2>7
<1>4. \A i \in DOMAIN t.groups : t.groups[i].from \in (SUBSET Chunks) \ {{}}
  <2>1. t.groups \in Seq(GroupRecord)
    BY <1>2 DEF JobRecord
  <2>2. \A i \in DOMAIN t.groups : t.groups[i] \in GroupRecord
    BY <2>1
  <2>3. QED
    BY <2>2 DEF GroupRecord
<1>5. t.preset \in Presets \cup {Generation!NoPreset} /\ Generation!Tried(t) \in 0..Len(t.groups)
  BY <1>2 DEF JobRecord, JobInv
<1>6. QED
  BY <1>1, <1>3, <1>4, <1>5

\* What a template asks for is what the rendering fills in: both look at the type and the size
\* of the group.
LEMMA TemplatesAreFilled ==
    ASSUME NEW type, NEW group
    PROVE  Generation!Placeholders[Generation!Template(type, group)]
             \subseteq Generation!Substitutions(type, group)
<1>1. PICK n : n = Generation!Cardinality(group)
  OBVIOUS
<1>2. CASE type = "global"
  BY <1>2 DEF Generation!Placeholders, Generation!Template, Generation!Substitutions
<1>3. CASE type # "global" /\ n = 1
  BY <1>1, <1>3 DEF Generation!Placeholders, Generation!Template, Generation!Substitutions
<1>4. CASE type # "global" /\ n = 2
  BY <1>1, <1>4 DEF Generation!Placeholders, Generation!Template, Generation!Substitutions
<1>5. CASE type # "global" /\ n \notin {1, 2}
  BY <1>1, <1>5 DEF Generation!Placeholders, Generation!Template, Generation!Substitutions
<1>6. QED
  BY <1>2, <1>3, <1>4, <1>5

\* No placeholder is sent unfilled, and a call that raised, a cut prompt, an answer that cannot
\* be parsed and a global answer without assertions are never among the drafts: for any
\* sampling, presets and answers (routers/generation.py,
\* _run_generation_background, _render_prompt).
THEOREM FailuresStayOut ==
    Spec => [](part = "generation" =>
                  Generation!BuiltinTemplatesAreFilled /\ Generation!DraftsAreUsable)
<1>1. GenerationInv => Generation!BuiltinTemplatesAreFilled /\ Generation!DraftsAreUsable
  BY TemplatesAreFilled DEF GenerationInv, JobInv, Usable,
     Generation!BuiltinTemplatesAreFilled, Generation!DraftsAreUsable
<1>2. QED
  BY <1>1, GenerationAlways, PTL

\* An ingestion that the history calls done put every loadable file of its upload through the
\* index, its events end once and its directory is gone, and the record stays deleted once a
\* user deleted it; a realm becomes provisioned only when its container is healthy.  For any
\* uploads, interleaving of task, process and page, and restarts (routers/corpus.py,
\* _run_ingestion; routers/realms.py, _run_neo4j_provision).
THEOREM DoneIsDone == Spec => DoneMeansDone
  BY UploadsAndRealmsAreDone, FailuresStayOut, PTL DEF DoneMeansDone

----------------------------------------------------------------------------
(* The shapes *)

\* The events of a comparison: the last of them is the only one that says it is done, and by then
\* there is a report.
ToldInv ==
    /\ \E S : told \in Seq(S)
    /\ phase = "idle" => told = <<>>
    /\ phase # "done" => \A i \in DOMAIN told : told[i].type # "done"
    /\ \A i \in DOMAIN told : told[i].type = "done" => i = Len(told)

ComparisonShape ==
    /\ before \in Before /\ after \in After
    /\ flaky \subseteq Questions /\ dataset \subseteq Questions
    /\ phase \in {"idle", "sampling", "done"}
    /\ ToldInv
    /\ report \in Comparison!Reports \cup {Nil}
    /\ phase = "done" => report \in Comparison!Reports

LEMMA PairingIsTyped ==
    ASSUME ComparisonShape PROVE Paired \in Comparison!Pairings
<1>1. Comparison!Ids(before) \subseteq Questions /\ Comparison!Ids(after) \subseteq Questions
  BY ComparisonAssumption DEF Comparison!Assumptions, ComparisonShape, Comparison!Ids
<1>2. QED
  BY <1>1 DEF Paired, Comparison!PairedDiff, Comparison!Pairings

LEMMA AnswerIsReport ==
    ASSUME ComparisonShape, NEW noise \in SUBSET Questions, NEW attempted \in BOOLEAN,
           Comparison!Answer(Paired, noise, attempted)
    PROVE  report' \in Comparison!Reports /\ phase' = "done"
<1>1. PICK p : p = [Paired EXCEPT !.flips = @ \ noise, !.unchanged = @ \cup noise]
  OBVIOUS
<1>2. p \in Comparison!Pairings
  BY <1>1, PairingIsTyped DEF Comparison!Pairings
<1>3. report' = [paired |-> p, noise |-> noise, attempted |-> attempted] /\ phase' = "done"
  BY <1>1 DEF Comparison!Answer
<1>4. QED
  BY <1>2, <1>3 DEF Comparison!Reports

\* What is told next: one more event, which is the last when it says that it is done.
LEMMA ToldOn ==
    ASSUME ToldInv, phase = "sampling", NEW event, told' = Append(told, event),
           phase' \in {"sampling", "done"}, event.type = "done" => phase' = "done"
    PROVE  ToldInv'
<1>1. PICK S : told \in Seq(S)
  BY DEF ToldInv
<1>2. PICK T : T = S \cup {event}
  OBVIOUS
<1>3. told \in Seq(T) /\ event \in T
  BY <1>1, <1>2
<1>4. /\ told' \in Seq(T) /\ Len(told') = Len(told) + 1 /\ DOMAIN told' = 1..(Len(told) + 1)
      /\ Len(told) \in Nat /\ DOMAIN told = 1..Len(told) /\ told'[Len(told) + 1] = event
      /\ \A i \in 1..Len(told) : told'[i] = told[i]
  BY <1>3
<1>5. \A i \in 1..Len(told) : told'[i].type # "done"
  BY <1>4 DEF ToldInv
<1>6. \A i \in DOMAIN told' : told'[i].type = "done" => i = Len(told') /\ phase' = "done"
  BY <1>4, <1>5
<1>7. \E X : told' \in Seq(X)
  BY <1>4
<1>8. phase' # "done" => \A i \in DOMAIN told' : told'[i].type # "done"
  BY <1>6
<1>9. phase' # "idle"
  OBVIOUS
<1>10. QED
  BY <1>6, <1>7, <1>8, <1>9 DEF ToldInv

LEMMA ToldFirst ==
    ASSUME NEW event, told' = <<event>>, phase' \in {"sampling", "done"},
           event.type = "done" => phase' = "done"
    PROVE  ToldInv'
<1>1. told' \in Seq({event}) /\ Len(told') = 1 /\ DOMAIN told' = {1} /\ told'[1] = event
  OBVIOUS
<1>2. \A i \in DOMAIN told' : told'[i].type = "done" => i = Len(told') /\ phase' = "done"
  BY <1>1
<1>3. \E X : told' \in Seq(X)
  BY <1>1
<1>4. QED
  BY <1>2, <1>3 DEF ToldInv

LEMMA ShapeStarts == Comparison!Init => ComparisonShape
<1> SUFFICES ASSUME Comparison!Init PROVE ComparisonShape
  OBVIOUS
<1>1. told = <<>> /\ phase = "idle" /\ report = Nil /\ dataset = Questions
      /\ before \in Before /\ after \in After /\ flaky \subseteq Questions
  BY DEF Comparison!Init
<1>2. told \in Seq({}) /\ DOMAIN told = {}
  BY <1>1
<1>3. QED
  BY <1>1, <1>2 DEF ComparisonShape, ToldInv

LEMMA ShapeStays == ASSUME ComparisonShape, UNCHANGED comparisonVars PROVE ComparisonShape'
<1>1. UNCHANGED <<before, after, flaky, dataset, phase, told, report>>
  BY DEF comparisonVars
<1>2. QED
  BY <1>1 DEF ComparisonShape, ToldInv

LEMMA CompareKeepsShape ==
    ASSUME ComparisonShape, NEW rebuilt \in BOOLEAN, Comparison!Compare(rebuilt)
    PROVE  ComparisonShape'
<1>1. UNCHANGED <<before, after, flaky, dataset>> /\ phase = "idle"
  BY DEF Comparison!Compare, Comparison!world
<1>2. CASE /\ Comparison!Answer(Paired, {}, FALSE)
           /\ told' = <<Comparison!Event("done", 0)>>
  <2>1. report' \in Comparison!Reports /\ phase' = "done"
    BY <1>2, AnswerIsReport
  <2>2. ToldInv'
    BY <1>2, <2>1, ToldFirst
  <2>3. QED
    BY <1>1, <2>1, <2>2 DEF ComparisonShape
<1>3. CASE /\ told' = <<Comparison!Event("progress", 0)>>
           /\ phase' = "sampling" /\ report' = report
  <2>1. Comparison!Event("progress", 0).type # "done"
    BY DEF Comparison!Event
  <2>2. ToldInv'
    BY <1>3, <2>1, ToldFirst
  <2>3. QED
    BY <1>1, <1>3, <2>2 DEF ComparisonShape
<1>4. QED
  BY <1>2, <1>3 DEF Comparison!Compare, Paired

LEMMA SampleKeepsShape ==
    ASSUME ComparisonShape, NEW q \in Questions, NEW ok \in BOOLEAN, Comparison!Sample(q, ok)
    PROVE  ComparisonShape'
<1>1. /\ UNCHANGED <<before, after, flaky, dataset, phase, report>> /\ phase = "sampling"
      /\ \/ told' = told
         \/ \E n : told' = Append(told, Comparison!Event("progress", n))
  BY DEF Comparison!Sample, Comparison!world
<1>2. ToldInv'
  <2>1. CASE told' = told
    BY <1>1, <2>1 DEF ComparisonShape, ToldInv
  <2>2. ASSUME NEW n, told' = Append(told, Comparison!Event("progress", n)) PROVE ToldInv'
    <3>1. Comparison!Event("progress", n).type # "done"
      BY DEF Comparison!Event
    <3>2. QED
      BY <1>1, <2>2, <3>1, ToldOn DEF ComparisonShape
  <2>3. QED
    BY <1>1, <2>1, <2>2
<1>3. QED
  BY <1>1, <1>2 DEF ComparisonShape

LEMMA FinishKeepsShape ==
    ASSUME ComparisonShape, ComparisonInv, Comparison!Finish PROVE ComparisonShape'
<1>1. /\ UNCHANGED <<before, after, flaky, dataset>> /\ phase = "sampling"
      /\ Comparison!Answer(Paired, Comparison!Noise(samples), TRUE)
      /\ told' = Append(told, Comparison!Event("done", 0))
  BY DEF Comparison!Finish, Comparison!world, Paired
<1>2. Comparison!Noise(samples) \in SUBSET Questions
  BY DEF Comparison!Noise, ComparisonInv, ComparisonShape
<1>3. report' \in Comparison!Reports /\ phase' = "done"
  BY <1>1, <1>2, AnswerIsReport
<1>4. ToldInv'
  BY <1>1, <1>3, ToldOn DEF ComparisonShape
<1>5. QED
  BY <1>1, <1>3, <1>4 DEF ComparisonShape

LEMMA ShapeGoesOn ==
    ASSUME ComparisonShape, ComparisonInv, Comparison!Next PROVE ComparisonShape'
<1>1. ASSUME NEW ids, Comparison!Judge(ids) PROVE ComparisonShape'
  <2>1. UNCHANGED <<before, after, flaky, dataset, phase, told, report>>
    BY <1>1 DEF Comparison!Judge, Comparison!world
  <2>2. QED
    BY <2>1 DEF ComparisonShape, ToldInv
<1>2. CASE Comparison!Change
  <2>1. UNCHANGED <<before, after, flaky, dataset, phase, told, report>>
    BY <1>2 DEF Comparison!Change
  <2>2. QED
    BY <2>1 DEF ComparisonShape, ToldInv
<1>3. ASSUME NEW q \in Questions, Comparison!Forget(q) PROVE ComparisonShape'
  <2>1. UNCHANGED <<before, after, flaky, phase, told, report>> /\ dataset' \subseteq dataset
    BY <1>3 DEF Comparison!Forget
  <2>2. QED
    BY <2>1 DEF ComparisonShape, ToldInv
<1>4. QED
  BY <1>1, <1>2, <1>3, CompareKeepsShape, SampleKeepsShape, FinishKeepsShape DEF Comparison!Next

LEMMA ShapeAlways == Spec => [](part = "comparison" => ComparisonShape)
<1>1. Init => (part = "comparison" => ComparisonShape)
  BY ShapeStarts DEF Init
<1>2. (part = "comparison" => ComparisonShape) /\ (part = "comparison" => ComparisonInv)
      /\ [Next]_vars => (part = "comparison" => ComparisonShape)'
  <2> SUFFICES ASSUME part = "comparison" => ComparisonShape, part = "comparison" => ComparisonInv,
                      [Next]_vars, part' = "comparison"
               PROVE  ComparisonShape'
    OBVIOUS
  <2>1. CASE ComparisonStep
    BY <2>1, ShapeGoesOn DEF ComparisonStep
  <2>2. CASE UNCHANGED vars
    BY <2>2, ShapeStays DEF vars
  <2>3. QED
    BY <2>1, <2>2 DEF Next, GenerationStep, IngestionStep, ProvisioningStep
<1>3. QED
  BY <1>1, <1>2, ComparisonAlways, PTL DEF Spec

LEMMA ComparisonKeepsItsShape ==
    ASSUME ComparisonShape, ComparisonInv PROVE Comparison!TypeOK
<1>1. (phase = "done") = (report # Nil)
  <2>1. Nil \notin Comparison!Reports
    BY ComparisonAssumption DEF Comparison!Assumptions
  <2>2. phase = "done" => report # Nil
    BY <2>1 DEF ComparisonShape
  <2>3. report # Nil => phase = "done"
    BY DEF ComparisonInv
  <2>4. QED
    BY <2>2, <2>3
<1>2. DOMAIN samples \subseteq Questions /\ \A q \in DOMAIN samples : Len(samples[q]) <= Samples
  BY DEF ComparisonInv, ComparisonShape
<1>3. QED
  BY <1>1, <1>2 DEF ComparisonShape, ToldInv, Comparison!TypeOK

LEMMA IngestionKeepsItsShape == ASSUME IngestionInv PROVE Ingestion!TypeOK
<1>1. ASSUME NEW j \in Uploads
      PROVE  /\ indexed[j] \subseteq Ingestion!Loadable(Ingestion!Written(upload[j]))
             /\ socket[j].open => socket[j].sent <= Len(progress[j])
  BY DEF IngestionInv, FilesInv, EventsInv, Files
<1>2. ASSUME NEW j \in Uploads
      PROVE  Ingestion!Emitted(j) \subseteq {"start", "progress"} \cup Ingestion!Ending
  <2>1. PICK kinds : kinds = {"start", "progress"} \cup Ingestion!Ending
    OBVIOUS
  <2>2. progress[j] \in Seq(kinds)
    BY <2>1 DEF IngestionInv, IngestionShape
  <2>3. \A i \in DOMAIN progress[j] : progress[j][i] \in kinds
    BY <2>2
  <2>4. QED
    BY <2>1, <2>3 DEF Ingestion!Emitted, Ingestion!Range
<1>3. QED
  BY <1>1, <1>2 DEF IngestionInv, IngestionShape, Early, Past, Ingestion!TypeOK

\* Realms are registered once, a run goes through the realms it read, what it writes are services
\* of realms at ports that exist, and a job polls less often than it may.
Services == [realm : Realms, port : Ports]
JobShape == [realm : Realms, pc : {"up", "poll"}, polls : 0..(MaxPolls - 1)]
HandlerFields == {"pc", "realm", "seen", "withGraph", "uris", "todo", "claimed", "from",
                  "services", "info"}

HandlerShape(l) ==
    /\ DOMAIN l = HandlerFields
    /\ l.todo \in Seq(Realms) /\ l.services \subseteq Services
    /\ l.pc # "idle" => l.realm \in Realms
    /\ l.pc = "scan" => registry # <<>>

ProvisioningShape ==
    /\ registry \in Seq(Realms)
    /\ \A i, k \in DOMAIN registry : registry[i] = registry[k] => i = k
    /\ uri \in [Realms -> Provisioning!Uris]
    /\ overlay \subseteq Services
    /\ container \in [Realms -> [health : Provisioning!Healths, port : Ports \cup {Provisioning!None}]]
    /\ jobs \in Seq(JobShape)
    /\ DOMAIN handler = Handlers /\ \A h \in Handlers : HandlerShape(handler[h])

LEMMA IdleShape == HandlerShape(Provisioning!Idle)
BY DEF HandlerShape, HandlerFields, Provisioning!Idle

LEMMA RealmsStart == Provisioning!Init => ProvisioningShape
<1> SUFFICES ASSUME Provisioning!Init PROVE ProvisioningShape
  OBVIOUS
<1>1. /\ registry = <<>> /\ uri = [r \in Realms |-> Provisioning!Default] /\ overlay = {}
      /\ container = [r \in Realms |-> [health |-> "none", port |-> Provisioning!None]]
      /\ jobs = <<>> /\ handler = [h \in Handlers |-> Provisioning!Idle]
  BY DEF Provisioning!Init
<1>2. uri \in [Realms -> Provisioning!Uris]
  BY <1>1 DEF Provisioning!Uris
<1>3. container \in [Realms -> [health : Provisioning!Healths, port : Ports \cup {Provisioning!None}]]
  BY <1>1 DEF Provisioning!Healths
<1>4. registry \in Seq(Realms) /\ DOMAIN registry = {} /\ jobs \in Seq(JobShape)
  BY <1>1
<1>5. \A h \in Handlers : HandlerShape(handler[h])
  BY <1>1, IdleShape
<1>6. QED
  BY <1>1, <1>2, <1>3, <1>4, <1>5 DEF ProvisioningShape

LEMMA RealmsStay ==
    ASSUME ProvisioningShape, UNCHANGED provisioningVars PROVE ProvisioningShape'
BY DEF provisioningVars, ProvisioningShape, HandlerShape

\* A handler goes on, and the rest keeps its shape.
LEMMA HandlerOn ==
    ASSUME ProvisioningShape, UNCHANGED <<registry, container>>, NEW h \in Handlers, NEW l,
           handler' = [handler EXCEPT ![h] = l], HandlerShape(l),
           uri' \in [Realms -> Provisioning!Uris], overlay' \subseteq Services,
           jobs' \in Seq(JobShape)
    PROVE  ProvisioningShape'
<1>1. \A x : HandlerShape(x)' <=> HandlerShape(x)
  BY DEF HandlerShape
<1>2. \A k \in Handlers : HandlerShape(handler'[k])
  BY DEF ProvisioningShape
<1>3. QED
  BY <1>1, <1>2 DEF ProvisioningShape, HandlerShape

\* The next port is one of those ahead.
LEMMA NextPortIsAPort ==
    ASSUME NEW l, Provisioning!Ahead(l) # {} PROVE Provisioning!NextPort(l) \in Ports
<1>1. PICK S : S = Provisioning!Ahead(l)
  OBVIOUS
<1>2. IsFiniteSet(Ports) /\ Ports \subseteq Int
  <2>1. Provisioning!IsFiniteSet(Ports) /\ Ports = 1..Provisioning!Cardinality(Ports)
    BY ProvisioningAssumption DEF Provisioning!Assumptions
  <2>2. IsFiniteSet(Ports)
    BY <2>1 DEF Provisioning!IsFiniteSet, IsFiniteSet
  <2>3. Provisioning!Cardinality(Ports) = Cardinality(Ports)
    BY DEF Provisioning!Cardinality, Cardinality
  <2>4. Ports \subseteq Int
    BY <2>1, <2>2, <2>3, FS_CardinalityType
  <2>5. QED
    BY <2>2, <2>4
<1>3. S \subseteq Ports
  BY <1>1 DEF Provisioning!Ahead
<1>4. IsFiniteSet(S) /\ S \in SUBSET Int
  BY <1>2, <1>3, FS_Subset
<1>5. Min(S) \in S
  BY <1>1, <1>4, MaxIsThere
<1>6. Provisioning!NextPort(l) = Min(S)
  BY <1>1 DEF Provisioning!NextPort, Provisioning!Min, Min
<1>7. QED
  BY <1>3, <1>5, <1>6

\* A request is taken, and the realms and the corpora are read.
LEMMA PostAndScanKeep ==
    ASSUME ProvisioningShape, NEW h \in Handlers,
           Provisioning!Scan(h) \/ \E r \in Realms : Provisioning!Post(h, r)
    PROVE  ProvisioningShape'
<1>1. UNCHANGED <<registry, container, uri, overlay, jobs>>
  BY DEF Provisioning!Scan, Provisioning!Post
<1>2. PICK l : handler' = [handler EXCEPT ![h] = l] /\ HandlerShape(l)
  <2>1. ASSUME NEW r \in Realms, Provisioning!Post(h, r)
        PROVE  \E l : handler' = [handler EXCEPT ![h] = l] /\ HandlerShape(l)
    <3>1. PICK l : l = [Provisioning!Idle EXCEPT !.pc = "scan", !.realm = r]
      OBVIOUS
    <3>2. handler' = [handler EXCEPT ![h] = l] /\ r \in Provisioning!Range(registry)
      BY <2>1, <3>1 DEF Provisioning!Post
    <3>3. registry # <<>>
      BY <3>2 DEF Provisioning!Range
    <3>4. HandlerShape(l)
      BY <3>1, <3>3 DEF HandlerShape, HandlerFields, Provisioning!Idle
    <3>5. QED
      BY <3>2, <3>4
  <2>2. CASE Provisioning!Scan(h)
    <3>1. PICK now : now = handler[h]
      OBVIOUS
    <3>2. HandlerShape(now) /\ now.pc = "scan"
      BY <2>2, <3>1 DEF Provisioning!Scan, ProvisioningShape
    <3>3. PICK others, graphs, claimed :
            /\ others = Provisioning!Others(registry)
            /\ graphs = {r \in Realms : graph[r] # Provisioning!None}
            /\ claimed = Provisioning!Claimed(Provisioning!Range(Provisioning!Others(registry)), uri)
      OBVIOUS
    <3>4. PICK l : l = [now EXCEPT !.pc = "assign", !.seen = registry, !.todo = others,
                                   !.uris = uri, !.withGraph = graphs, !.claimed = claimed]
      OBVIOUS
    <3>5. handler' = [handler EXCEPT ![h] = l]
      BY <2>2, <3>1, <3>3, <3>4 DEF Provisioning!Scan
    <3>6. others \in Seq(Realms)
      <4>1. registry \in Seq(Realms) /\ registry # <<>>
        BY <3>2 DEF HandlerShape, ProvisioningShape
      <4>2. QED
        BY <3>3, <4>1 DEF Provisioning!Others
    <3>7. /\ DOMAIN l = DOMAIN now /\ l.pc = "assign" /\ l.todo = others
          /\ l.services = now.services /\ l.realm = now.realm
      BY <3>2, <3>4 DEF HandlerShape, HandlerFields
    <3>8. HandlerShape(l)
      BY <3>2, <3>6, <3>7 DEF HandlerShape
    <3>9. QED
      BY <3>5, <3>8
  <2>3. QED
    BY <2>1, <2>2
<1>3. QED
  BY <1>1, <1>2, HandlerOn DEF ProvisioningShape

\* A realm of the run is left as it is, or given a port.
LEMMA AssignKeeps ==
    ASSUME ProvisioningShape, NEW h \in Handlers, Provisioning!Assign(h)
    PROVE  ProvisioningShape'
<1>1. PICK now, r : now = handler[h] /\ r = Head(now.todo)
  OBVIOUS
<1>2. /\ UNCHANGED <<registry, overlay, container, jobs>>
      /\ now.pc = "assign" /\ now.todo # <<>> /\ HandlerShape(now)
  BY <1>1 DEF Provisioning!Assign, ProvisioningShape
<1>3. r \in Realms /\ Tail(now.todo) \in Seq(Realms) /\ now.realm \in Realms
      /\ now.services \subseteq Services /\ DOMAIN now = HandlerFields
  BY <1>1, <1>2 DEF HandlerShape
<1>4. PICK todo : todo = Tail(now.todo)
  OBVIOUS
<1>5. CASE Provisioning!Kept(now, r) # "none"
  <2>1. PICK info : info = Provisioning!Says(now, r, Provisioning!Kept(now, r))
    OBVIOUS
  <2>2. PICK l : l = [now EXCEPT !.todo = todo, !.info = info]
    OBVIOUS
  <2>3. handler' = [handler EXCEPT ![h] = l] /\ UNCHANGED uri
    BY <1>1, <1>4, <1>5, <2>1, <2>2 DEF Provisioning!Assign
  <2>4. HandlerShape(l)
    BY <1>2, <1>3, <1>4, <2>2 DEF HandlerShape, HandlerFields
  <2>5. QED
    BY <1>2, <2>3, <2>4, HandlerOn DEF ProvisioningShape
<1>6. CASE Provisioning!Kept(now, r) = "none"
  <2>1. PICK port : port = Provisioning!NextPort(now)
    OBVIOUS
  <2>2. port \in Ports
    <3>1. Provisioning!Ahead(now) # {}
      BY <1>1, <1>6 DEF Provisioning!Assign
    <3>2. QED
      BY <2>1, <3>1, NextPortIsAPort
  <2>3. PICK info, claimed, services :
          /\ info = Provisioning!Says(now, r, "provisioned") /\ claimed = now.claimed \cup {port}
          /\ services = now.services \cup {[realm |-> r, port |-> port]}
    OBVIOUS
  <2>4. PICK l : l = [now EXCEPT !.todo = todo, !.info = info, !.claimed = claimed,
                                 !.from = port + 1, !.services = services]
    OBVIOUS
  <2>5. handler' = [handler EXCEPT ![h] = l] /\ uri' = [uri EXCEPT ![r] = port]
    BY <1>1, <1>4, <1>6, <2>1, <2>3, <2>4 DEF Provisioning!Assign
  <2>6. services \subseteq Services
    BY <1>3, <2>2, <2>3 DEF Services
  <2>7. HandlerShape(l)
    BY <1>2, <1>3, <1>4, <2>4, <2>6 DEF HandlerShape, HandlerFields
  <2>8. uri' \in [Realms -> Provisioning!Uris]
    BY <1>3, <2>2, <2>5 DEF ProvisioningShape, Provisioning!Uris
  <2>9. QED
    BY <1>2, <2>5, <2>7, <2>8, HandlerOn DEF ProvisioningShape
<1>7. QED
  BY <1>5, <1>6

\* The overlay is written, the health looked at, a job started.
LEMMA DecideKeeps ==
    ASSUME ProvisioningShape, NEW h \in Handlers,
           Provisioning!Decide(h) \/ Provisioning!AskHealth(h) \/ Provisioning!StartJob(h)
    PROVE  ProvisioningShape'
<1>1. PICK now : now = handler[h]
  OBVIOUS
<1>2. HandlerShape(now) /\ UNCHANGED <<registry, container, uri>>
  BY <1>1 DEF Provisioning!Decide, Provisioning!AskHealth, Provisioning!StartJob, ProvisioningShape
<1>3. ASSUME NEW pc, pc \in {"start", "health"}, now.pc # "idle",
             NEW l, l = [now EXCEPT !.pc = pc]
      PROVE  HandlerShape(l)
  BY <1>2, <1>3 DEF HandlerShape, HandlerFields
<1>4. CASE Provisioning!Decide(h)
  <2>1. now.pc = "assign" /\ overlay' = Provisioning!WriteOverlay(now.services) /\ UNCHANGED jobs
    BY <1>1, <1>4 DEF Provisioning!Decide
  <2>2. overlay' \subseteq Services
    BY <1>2, <2>1 DEF Provisioning!WriteOverlay, HandlerShape, ProvisioningShape
  <2>3. \/ handler' = [handler EXCEPT ![h] = Provisioning!Idle]
        \/ \E pc \in {"start", "health"} : \E l :
              l = [now EXCEPT !.pc = pc] /\ handler' = [handler EXCEPT ![h] = l]
    BY <1>1, <1>4 DEF Provisioning!Decide
  <2>4. PICK l : handler' = [handler EXCEPT ![h] = l] /\ HandlerShape(l)
    BY <1>3, <2>1, <2>3, IdleShape
  <2>5. QED
    BY <1>2, <2>1, <2>2, <2>4, HandlerOn DEF ProvisioningShape
<1>5. CASE Provisioning!AskHealth(h)
  <2>1. now.pc = "health" /\ UNCHANGED <<overlay, jobs>>
    BY <1>1, <1>5 DEF Provisioning!AskHealth
  <2>2. \/ handler' = [handler EXCEPT ![h] = Provisioning!Idle]
        \/ \E l : l = [now EXCEPT !.pc = "start"] /\ handler' = [handler EXCEPT ![h] = l]
    BY <1>1, <1>5 DEF Provisioning!AskHealth
  <2>3. PICK l : handler' = [handler EXCEPT ![h] = l] /\ HandlerShape(l)
    BY <1>3, <2>1, <2>2, IdleShape
  <2>4. QED
    BY <1>2, <2>1, <2>3, HandlerOn DEF ProvisioningShape
<1>6. CASE Provisioning!StartJob(h)
  <2>1. PICK job : job = [realm |-> now.realm, pc |-> "up", polls |-> 0]
    OBVIOUS
  <2>2. /\ now.pc = "start" /\ jobs' = Append(jobs, job) /\ UNCHANGED overlay
        /\ handler' = [handler EXCEPT ![h] = Provisioning!Idle]
    BY <1>1, <1>6, <2>1 DEF Provisioning!StartJob
  <2>3. job \in JobShape
    <3>1. now.realm \in Realms
      BY <1>2, <2>2 DEF HandlerShape
    <3>2. 0 \in 0..(MaxPolls - 1)
      BY ProvisioningAssumption DEF Provisioning!Assumptions
    <3>3. QED
      BY <2>1, <3>1, <3>2 DEF JobShape
  <2>4. jobs' \in Seq(JobShape)
    BY <2>2, <2>3 DEF ProvisioningShape
  <2>5. QED
    BY <1>2, <2>2, <2>4, IdleShape, HandlerOn DEF ProvisioningShape
<1>7. QED
  BY <1>4, <1>5, <1>6

\* The rest keeps its shape while jobs and containers go on.
LEMMA JobsOn ==
    ASSUME ProvisioningShape, UNCHANGED <<registry, uri, overlay, handler>>,
           container' \in [Realms -> [health : Provisioning!Healths,
                                      port : Ports \cup {Provisioning!None}]],
           jobs' \in Seq(JobShape)
    PROVE  ProvisioningShape'
BY DEF ProvisioningShape, HandlerShape

\* What is left of the jobs when one of them ends.
LEMMA RestOfJobs ==
    ASSUME ProvisioningShape, NEW i \in DOMAIN jobs, NEW how, Provisioning!Ends(i, how)
    PROVE  jobs' \in Seq(JobShape)
<1>1. PICK places \in SUBSET DOMAIN jobs : places = DOMAIN jobs \ {i}
  OBVIOUS
<1>2. Provisioning!Only(jobs, places) = Only(jobs, places)
  BY DEF Provisioning!Only, Provisioning!Nth, Provisioning!Cardinality, Only, Nth, Cardinality
<1>3. jobs \in Seq(JobShape)
  BY DEF ProvisioningShape
<1>4. Only(jobs, places) \in Seq(JobShape)
  BY <1>3, OnlyTakesThePlaces
<1>5. QED
  BY <1>1, <1>2, <1>4 DEF Provisioning!Ends

LEMMA RunJobKeeps ==
    ASSUME ProvisioningShape, NEW i \in DOMAIN jobs, Provisioning!RunJob(i)
    PROVE  ProvisioningShape'
<1>1. UNCHANGED <<registry, uri, overlay, handler>>
  BY DEF Provisioning!RunJob, Provisioning!Up, Provisioning!Poll
<1>2. PICK now : now = jobs[i]
  OBVIOUS
<1>3. jobs \in Seq(JobShape) /\ now \in JobShape
  BY <1>2 DEF ProvisioningShape
<1>4. CASE \E how : Provisioning!Ends(i, how) /\ UNCHANGED container
  BY <1>1, <1>4, RestOfJobs, JobsOn DEF ProvisioningShape
<1>5. CASE /\ jobs' = [jobs EXCEPT ![i].pc = "poll"]
           /\ \E s \in overlay : container' = [container EXCEPT ![now.realm] =
                 IF @.port = s.port /\ @.health \in {"healthy", "unhealthy"} THEN @
                 ELSE [health |-> "starting", port |-> s.port]]
  <2>1. PICK s \in overlay : container' = [container EXCEPT ![now.realm] =
                 IF @.port = s.port /\ @.health \in {"healthy", "unhealthy"} THEN @
                 ELSE [health |-> "starting", port |-> s.port]]
    BY <1>5
  <2>2. PICK box : box = [health |-> "starting", port |-> s.port]
    OBVIOUS
  <2>3. \/ UNCHANGED container
        \/ container' = [container EXCEPT ![now.realm] = box]
    BY <2>1, <2>2 DEF ProvisioningShape
  <2>4. box \in [health : Provisioning!Healths, port : Ports \cup {Provisioning!None}]
    BY <2>2 DEF ProvisioningShape, Services, Provisioning!Healths
  <2>5. container' \in [Realms -> [health : Provisioning!Healths,
                                   port : Ports \cup {Provisioning!None}]]
    BY <2>3, <2>4 DEF ProvisioningShape
  <2>6. PICK job : job = [now EXCEPT !.pc = "poll"]
    OBVIOUS
  <2>7. job \in JobShape
    BY <1>3, <2>6 DEF JobShape
  <2>8. jobs' = [jobs EXCEPT ![i] = job]
    BY <1>2, <1>5, <2>6
  <2>9. jobs' \in Seq(JobShape)
    BY <1>3, <2>7, <2>8
  <2>10. QED
    BY <1>1, <2>5, <2>9, JobsOn
<1>6. CASE /\ jobs' = [jobs EXCEPT ![i].polls = @ + 1] /\ UNCHANGED container
           /\ ~Provisioning!LastPoll(i)
  <2>1. PICK job : job = [now EXCEPT !.polls = now.polls + 1]
    OBVIOUS
  <2>2. now.polls \in 0..(MaxPolls - 1) /\ now.polls + 1 # MaxPolls /\ MaxPolls \in Nat
    BY <1>2, <1>3, <1>6, ProvisioningAssumption DEF JobShape, Provisioning!LastPoll,
       Provisioning!Assumptions
  <2>3. now.polls + 1 \in 0..(MaxPolls - 1)
    BY <2>2
  <2>4. job \in JobShape
    BY <1>3, <2>1, <2>3 DEF JobShape
  <2>5. jobs' = [jobs EXCEPT ![i] = job]
    BY <1>2, <1>6, <2>1
  <2>6. jobs' \in Seq(JobShape)
    BY <1>3, <2>4, <2>5
  <2>7. QED
    BY <1>1, <1>6, <2>6, JobsOn DEF ProvisioningShape
<1>7. Provisioning!Up(i) =>
        \/ \E how : Provisioning!Ends(i, how) /\ UNCHANGED container
        \/ /\ jobs' = [jobs EXCEPT ![i].pc = "poll"]
           /\ \E s \in overlay : container' = [container EXCEPT ![now.realm] =
                 IF @.port = s.port /\ @.health \in {"healthy", "unhealthy"} THEN @
                 ELSE [health |-> "starting", port |-> s.port]]
  BY <1>2 DEF Provisioning!Up
<1>8. Provisioning!Poll(i) =>
        \/ \E how : Provisioning!Ends(i, how) /\ UNCHANGED container
        \/ /\ jobs' = [jobs EXCEPT ![i].polls = @ + 1] /\ UNCHANGED container
           /\ ~Provisioning!LastPoll(i)
  <2>1. SUFFICES ASSUME Provisioning!Poll(i)
        PROVE  \/ \E how : Provisioning!Ends(i, how) /\ UNCHANGED container
               \/ /\ jobs' = [jobs EXCEPT ![i].polls = @ + 1] /\ UNCHANGED container
                  /\ ~Provisioning!LastPoll(i)
    OBVIOUS
  <2>2. PICK how : how = Provisioning!Verdict(container[jobs[i].realm].health,
                                              Provisioning!LastPoll(i))
    OBVIOUS
  <2>3. CASE how # "running"
    BY <2>1, <2>2, <2>3 DEF Provisioning!Poll
  <2>4. CASE how = "running"
    <3>1. jobs' = [jobs EXCEPT ![i].polls = @ + 1] /\ UNCHANGED container
      BY <2>1, <2>2, <2>4 DEF Provisioning!Poll
    <3>2. ~Provisioning!LastPoll(i)
      BY <2>2, <2>4 DEF Provisioning!Verdict
    <3>3. QED
      BY <3>1, <3>2
  <2>5. QED
    BY <2>3, <2>4
<1>9. QED
  BY <1>4, <1>5, <1>6, <1>7, <1>8 DEF Provisioning!RunJob

\* Around the handlers: a realm is registered, a corpus ingested, a container changes.
LEMMA RealmChangesKeep ==
    ASSUME ProvisioningShape, NEW r \in Realms,
           \/ Provisioning!Register(r) \/ Provisioning!IngestGraph(r)
           \/ Provisioning!ContainerChanges(r)
    PROVE  ProvisioningShape'
<1>1. CASE Provisioning!Register(r)
  <2>1. /\ registry' = Append(registry, r) /\ r \notin Provisioning!Range(registry)
        /\ UNCHANGED <<uri, overlay, container, jobs, handler>>
    BY <1>1 DEF Provisioning!Register
  <2>2. registry \in Seq(Realms)
    BY DEF ProvisioningShape
  <2>3. /\ registry' \in Seq(Realms) /\ DOMAIN registry' = 1..(Len(registry) + 1)
        /\ Len(registry) \in Nat /\ DOMAIN registry = 1..Len(registry)
        /\ \A i \in 1..Len(registry) : registry'[i] = registry[i]
        /\ registry'[Len(registry) + 1] = r
    BY <2>1, <2>2
  <2>4. \A i \in DOMAIN registry : registry[i] # r
    BY <2>1 DEF Provisioning!Range
  <2>5. \A i, k \in DOMAIN registry : registry[i] = registry[k] => i = k
    BY DEF ProvisioningShape
  <2>6. \A i, k \in DOMAIN registry' : registry'[i] = registry'[k] => i = k
    BY <2>3, <2>4, <2>5
  <2>7. registry' # <<>>
    BY <2>1, <2>2
  <2>8. \A h \in Handlers : HandlerShape(handler[h])'
    BY <2>1, <2>7 DEF ProvisioningShape, HandlerShape
  <2>9. QED
    BY <2>1, <2>3, <2>6, <2>8 DEF ProvisioningShape
<1>2. CASE Provisioning!IngestGraph(r)
  BY <1>2, JobsOn DEF ProvisioningShape, Provisioning!IngestGraph
<1>3. CASE Provisioning!ContainerChanges(r)
  <2>1. UNCHANGED <<registry, uri, overlay, handler, jobs>>
    BY <1>3 DEF Provisioning!ContainerChanges
  <2>2. PICK now \in Provisioning!Healths : container' = [container EXCEPT ![r].health = now]
    BY <1>3 DEF Provisioning!ContainerChanges
  <2>3. PICK box : box = [container[r] EXCEPT !.health = now]
    OBVIOUS
  <2>4. container' = [container EXCEPT ![r] = box]
    BY <2>2, <2>3
  <2>5. box \in [health : Provisioning!Healths, port : Ports \cup {Provisioning!None}]
    BY <2>3 DEF ProvisioningShape
  <2>6. container' \in [Realms -> [health : Provisioning!Healths,
                                   port : Ports \cup {Provisioning!None}]]
    BY <2>4, <2>5 DEF ProvisioningShape
  <2>7. QED
    BY <2>1, <2>6, JobsOn DEF ProvisioningShape
<1>4. QED
  BY <1>1, <1>2, <1>3

LEMMA RealmsGoOn == ASSUME ProvisioningShape, Provisioning!Next PROVE ProvisioningShape'
BY RealmChangesKeep, PostAndScanKeep, AssignKeeps, DecideKeeps, RunJobKeeps
   DEF Provisioning!Next, Provisioning!HandlerStep

LEMMA RealmsAlways == Spec => [](part = "provisioning" => ProvisioningShape)
<1>1. Init => (part = "provisioning" => ProvisioningShape)
  BY RealmsStart DEF Init
<1>2. (part = "provisioning" => ProvisioningShape) /\ [Next]_vars
      => (part = "provisioning" => ProvisioningShape)'
  <2> SUFFICES ASSUME part = "provisioning" => ProvisioningShape, [Next]_vars,
                      part' = "provisioning"
               PROVE  ProvisioningShape'
    OBVIOUS
  <2>1. CASE ProvisioningStep
    BY <2>1, RealmsGoOn DEF ProvisioningStep
  <2>2. CASE UNCHANGED vars
    BY <2>2, RealmsStay DEF vars
  <2>3. QED
    BY <2>1, <2>2 DEF Next, GenerationStep, IngestionStep, ComparisonStep
<1>3. QED
  BY <1>1, <1>2, PTL DEF Spec

LEMMA ProvisioningKeepsItsShape == ASSUME ProvisioningShape PROVE Provisioning!TypeOK
<1>1. Provisioning!Range(registry) \subseteq Realms /\ Provisioning!IsInjective(registry)
  BY DEF ProvisioningShape, Provisioning!Range, Provisioning!IsInjective
<1>2. \A s \in overlay : s.realm \in Realms /\ s.port \in Ports
  BY DEF ProvisioningShape, Services
<1>3. \A r \in Realms : container[r].health \in Provisioning!Healths
  BY DEF ProvisioningShape
<1>4. \A i \in DOMAIN jobs : jobs[i].polls < MaxPolls
  <2>1. \A i \in DOMAIN jobs : jobs[i] \in JobShape
    BY DEF ProvisioningShape
  <2>2. MaxPolls \in Nat
    BY ProvisioningAssumption DEF Provisioning!Assumptions
  <2>3. QED
    BY <2>1, <2>2 DEF JobShape
<1>5. QED
  BY <1>1, <1>2, <1>3, <1>4 DEF ProvisioningShape, Provisioning!TypeOK

\* An ingestion, a drafting of questions, a provisioning and a comparison keep to their shapes: a
\* job that is done accounts for every group, the files that went through the index are of its
\* upload, no realm is registered twice and every service is at a port that exists, and a
\* comparison is done when, and only when, it has a report.  For any instance of the jobs.
THEOREM JobsKeepTheirShape == Spec => []TypeOK
<1>1. (part = "ingestion" => IngestionInv) => (part = "ingestion" => Ingestion!TypeOK)
  BY IngestionKeepsItsShape
<1>2. (part = "generation" => GenerationInv) => (part = "generation" => Generation!TypeOK)
  BY GenerationKeepsItsShape
<1>3. (part = "provisioning" => ProvisioningShape) => (part = "provisioning" => Provisioning!TypeOK)
  BY ProvisioningKeepsItsShape
<1>4. (part = "comparison" => ComparisonInv) /\ (part = "comparison" => ComparisonShape)
        => (part = "comparison" => Comparison!TypeOK)
  BY ComparisonKeepsItsShape
<1>5. QED
  BY <1>1, <1>2, <1>3, <1>4, IngestionAlways, GenerationAlways, RealmsAlways, ComparisonAlways,
     ShapeAlways, PTL DEF TypeOK
=============================================================================
