-------------------------- MODULE ColumnApplyProofs --------------------------
(***************************************************************************)
(* That the executor of a data frame runs every task of a call once, that  *)
(* its function is called during the call only, and that a call returns    *)
(* when its tasks are done and raises when one threw; that the frame it    *)
(* runs over is a table of records, whoever edits, and that lookups find   *)
(* their keys: for any number of workers, tasks, calls, rows and keys, and *)
(* however the threads interleave.                                         *)
(***************************************************************************)
EXTENDS ColumnApply, SequenceTheorems, FiniteSetTheorems, TLAPS

InCall == caller \in {"notifies", "awaits"}
Stopping == caller \in {"notifies stop", "joins", "destroyed"}

(* Where the variables of the executor can be. *)
ExecutorTyped ==
    /\ stop \in BOOLEAN /\ current_task \in BOOLEAN /\ task_exception \in BOOLEAN
    /\ generation \in Nat /\ completed_generation \in Nat /\ calls \in Nat
    /\ next_task \in Nat /\ task_count \in Nat /\ asked \in Nat
    /\ pc \in [Workers -> {"waits", "fetches", "runs", "catches", "reports", "gone"}]
    /\ seen_generation \in [Workers -> Nat]
    /\ task_index \in [Threads -> Nat]
    /\ asleep \subseteq {w \in Workers : pc[w] = "waits"}
    /\ caller \in {"outside", "serial", "notifies", "awaits", "notifies stop", "joins",
                   "destroyed"}
    /\ done \subseteq Tasks /\ threw \subseteq Tasks

(* A generation begins when the one before is complete, and a worker has   *)
(* seen one of the two.                                                    *)
Generations ==
    /\ generation = completed_generation \/ generation = completed_generation + 1
    /\ generation <= calls /\ calls <= MaxCalls
    /\ \A w \in Workers : seen_generation[w] \in {completed_generation, generation}
    /\ ~InCall => generation = completed_generation

(* What the flags say. *)
Phases ==
    /\ \A w \in Workers : pc[w] = "gone" => Stopping
    /\ stop <=> Stopping
    /\ current_task <=> InCall
    /\ InCall => task_count = asked

(* The workers that found no task left in this generation: each has taken  *)
(* next_task beyond task_count once at most, and none is there before.     *)
Finished ==
    {w \in Workers : pc[w] \notin {"fetches", "runs", "catches"}
                     /\ seen_generation[w] = generation}

Claims ==
    /\ next_task <= task_count + Cardinality(Finished)
    /\ InCall /\ Finished # {} => next_task >= task_count
    /\ InCall /\ completed_generation = generation => next_task >= task_count
    /\ InCall /\ task_exception => next_task >= task_count

(* Tasks are claimed once each. *)
TasksApart ==
    /\ \A v, w \in Workers : InTask(v) /\ InTask(w) /\ v # w => task_index[v] # task_index[w]
    /\ \A w \in Workers : InTask(w) => task_index[w] < next_task /\ task_index[w] < task_count
    /\ \A w \in Workers : pc[w] = "runs" => task_index[w] \notin done \cup threw
    /\ \A w \in Workers : pc[w] = "catches" => task_index[w] \in threw
    /\ InCall => \A i \in done \cup threw : i < next_task

(* No claimed task is forgotten, and no exception. *)
TasksKept ==
    /\ InCall /\ task_exception => threw # {}
    /\ InCall /\ threw # {} => task_exception \/ \E w \in Workers : pc[w] = "catches"
    /\ InCall /\ threw = {} =>
           \A i \in Tasks : i < next_task =>
               i \in done \/ \E w \in Workers : pc[w] = "runs" /\ task_index[w] = i

(* What run_serial has done, and how a call ended. *)
CallsEnd ==
    /\ caller = "serial" => /\ task_index[Main] < asked /\ threw = {}
                            /\ done = 0..(task_index[Main] - 1)
    /\ InCall \/ caller = "serial" => outcome = "none"
    /\ outcome = "returned" => done = Tasks /\ threw = {}
    /\ outcome = "raised" => threw # {}

ExecutorInv ==
    /\ ExecutorTyped /\ Generations /\ Phases /\ WorkersInCall /\ ActiveCounted
    /\ Claims /\ TasksApart /\ TasksKept /\ CallsEnd

-----------------------------------------------------------------------------
(* The sets of workers that are counted are finite. *)
LEMMA Counting ==
    /\ Cardinality(Workers) \in Nat /\ Main \notin Workers
    /\ \A S \in SUBSET Workers :
           /\ Cardinality(S) \in Nat /\ Cardinality(S) <= Cardinality(Workers)
           /\ Cardinality(S) = 0 <=> S = {}
           /\ \A w \in S : Cardinality(S \ {w}) = Cardinality(S) - 1
           /\ \A w \in Workers \ S : Cardinality(S \cup {w}) = Cardinality(S) + 1
<1>1. IsFiniteSet(Workers) /\ Main \notin Workers
  BY ExecutorAssumption
<1>2. Cardinality(Workers) \in Nat
  BY <1>1, FS_CardinalityType
<1>3. ASSUME NEW S \in SUBSET Workers
      PROVE  IsFiniteSet(S) /\ Cardinality(S) \in Nat /\ Cardinality(S) <= Cardinality(Workers)
  <2>1. IsFiniteSet(S) /\ Cardinality(S) <= Cardinality(Workers)
    BY <1>1, FS_Subset
  <2> QED
    BY <2>1, FS_CardinalityType
<1>4. ASSUME NEW S \in SUBSET Workers PROVE Cardinality(S) = 0 <=> S = {}
  BY <1>3, FS_EmptySet
<1>5. ASSUME NEW S \in SUBSET Workers, NEW w \in S
      PROVE  Cardinality(S \ {w}) = Cardinality(S) - 1
  BY <1>3, FS_RemoveElement
<1>6. ASSUME NEW S \in SUBSET Workers, NEW w \in Workers \ S
      PROVE  Cardinality(S \cup {w}) = Cardinality(S) + 1
  BY <1>3, FS_AddElement
<1> QED
  BY <1>1, <1>2, <1>3, <1>4, <1>5, <1>6

(* The workers that the call in progress still counts. *)
Pending == {w \in Workers : pc[w] # "waits" \/ seen_generation[w] # generation}

(* What kind of value every variable of the executor holds.                *)
LEMMA Kinds ==
    ASSUME ExecutorInv
    PROVE  /\ generation \in Nat /\ completed_generation \in Nat /\ calls \in Nat
           /\ next_task \in Nat /\ task_count \in Nat /\ asked \in Nat
           /\ pc \in [Workers -> {"waits", "fetches", "runs", "catches", "reports", "gone"}]
           /\ seen_generation \in [Workers -> Nat] /\ task_index \in [Threads -> Nat]
BY DEF ExecutorInv, ExecutorTyped

(* A task that ended was claimed.                                          *)
LEMMA DoneTasks ==
    ASSUME ExecutorInv
    PROVE  \A i \in done \cup threw :
               i \in Nat /\ i < asked /\ (InCall => i < next_task /\ i < task_count)
<1>1. \A i \in Tasks : i \in Nat /\ i < asked
  BY Kinds DEF Tasks
<1>2. done \subseteq Tasks /\ threw \subseteq Tasks
  BY DEF ExecutorInv, ExecutorTyped
<1>3. InCall => task_count = asked /\ \A i \in done \cup threw : i < next_task
  BY DEF ExecutorInv, Phases, TasksApart
<1> QED
  BY ONLY <1>1, <1>2, <1>3

(* Waiting, waking and notifying change nothing that is counted. *)
LEMMA Unmoved ==
    ASSUME ExecutorInv, UNCHANGED <<sharedVars, pc, seen_generation, calls, asked, outcome, taskVars>>,
           asleep' \subseteq {w \in Workers : pc[w] = "waits"},
           \/ caller' = caller
           \/ caller \in {"notifies", "awaits"} /\ caller' \in {"notifies", "awaits"}
           \/ caller \in {"notifies stop", "joins"} /\ caller' \in {"joins", "destroyed"}
    PROVE  ExecutorInv'
<1>1. ExecutorTyped /\ Generations /\ Phases /\ WorkersInCall /\ ActiveCounted
      /\ Claims /\ TasksApart /\ TasksKept /\ CallsEnd
  BY DEF ExecutorInv
<1>2. /\ (InCall' <=> InCall) /\ (Stopping' <=> Stopping) /\ (caller' = "serial" <=> caller = "serial")
      /\ caller' \in {"outside", "serial", "notifies", "awaits", "notifies stop", "joins",
                      "destroyed"}
  <2>1. caller \in {"outside", "serial", "notifies", "awaits", "notifies stop", "joins",
                   "destroyed"}
    BY <1>1 DEF ExecutorTyped
  <2>2. CASE caller' = caller
    BY ONLY <2>1, <2>2 DEF InCall, Stopping
  <2>3. CASE caller \in {"notifies", "awaits"} /\ caller' \in {"notifies", "awaits"}
    BY ONLY <2>3 DEF InCall, Stopping
  <2>4. CASE caller \in {"notifies stop", "joins"} /\ caller' \in {"joins", "destroyed"}
    BY ONLY <2>4 DEF InCall, Stopping
  <2> QED
    BY <2>2, <2>3, <2>4
<1>3. /\ asleep' \subseteq {w \in Workers : pc[w] = "waits"}
      /\ UNCHANGED <<stop, generation, completed_generation,
                     active_workers, next_task, task_count, current_task,
                     task_exception, pc, seen_generation, calls, asked,
                     outcome, task_index, done, threw>>
  BY DEF sharedVars, taskVars
<1>10. ExecutorTyped'
  BY Kinds, <1>1, <1>2, <1>3 DEF ExecutorTyped, Tasks, Threads
<1>11. Generations'
  BY Kinds, <1>1, <1>2, <1>3 DEF Generations, InCall
<1>12. Phases'
  BY Kinds, <1>1, <1>2, <1>3 DEF Phases, InCall, Stopping
<1>13. WorkersInCall'
  BY Kinds, <1>1, <1>2, <1>3 DEF WorkersInCall
<1>14. ActiveCounted'
  BY Kinds, <1>1, <1>2, <1>3 DEF ActiveCounted
<1>15. Claims'
  BY Kinds, <1>1, <1>2, <1>3 DEF Claims, InCall, Finished
<1>16. TasksApart'
  BY Kinds, <1>1, <1>2, <1>3 DEF TasksApart, InTask, InCall
<1>17. TasksKept'
  BY Kinds, <1>1, <1>2, <1>3 DEF TasksKept, InCall, Tasks
<1>18. CallsEnd'
  BY Kinds, <1>1, <1>2, <1>3 DEF CallsEnd, InCall, Tasks
<1> QED
  BY <1>10, <1>11, <1>12, <1>13, <1>14, <1>15, <1>16, <1>17, <1>18 DEF ExecutorInv

(* A worker leaves when the executor stops, between two calls. *)
LEMMA LeaveKeeps ==
    ASSUME ExecutorInv, NEW w \in Workers, Leave(w)
    PROVE  ExecutorInv'
<1>1. ExecutorTyped /\ Generations /\ Phases /\ WorkersInCall /\ ActiveCounted
      /\ Claims /\ TasksApart /\ TasksKept /\ CallsEnd
  BY DEF ExecutorInv
<1>2. /\ pc[w] = "waits" /\ w \notin asleep /\ stop
      /\ pc' = [pc EXCEPT ![w] = "gone"]
      /\ UNCHANGED <<stop, generation, completed_generation,
                     active_workers, next_task, task_count, current_task,
                     task_exception, asleep, seen_generation, caller,
                     calls, asked, outcome, task_index, done, threw>>
  BY DEF Leave, Go, sharedVars, callerVars, taskVars
<1>3. generation = completed_generation /\ Finished' = Finished /\ ~InCall /\ Stopping
  BY Kinds, <1>1, <1>2 DEF Generations, Phases, Finished, ExecutorTyped, InCall, Stopping
<1>10. ExecutorTyped'
  BY Kinds, <1>1, <1>2, <1>3 DEF ExecutorTyped, Tasks, Threads
<1>11. Generations'
  BY Kinds, <1>1, <1>2, <1>3 DEF Generations, InCall
<1>12. Phases'
  BY Kinds, <1>1, <1>2, <1>3 DEF Phases, InCall, Stopping
<1>13. WorkersInCall'
  BY Kinds, <1>1, <1>2, <1>3 DEF WorkersInCall
<1>14. ActiveCounted'
  BY Kinds, <1>1, <1>2, <1>3 DEF ActiveCounted
<1>15. Claims'
  BY Kinds, <1>1, <1>2, <1>3 DEF Claims, InCall, Finished
<1>16. TasksApart'
  BY Kinds, <1>1, <1>2, <1>3 DEF TasksApart, InTask, InCall
<1>17. TasksKept'
  BY Kinds, <1>1, <1>2, <1>3 DEF TasksKept, InCall, Tasks
<1>18. CallsEnd'
  BY Kinds, <1>1, <1>2, <1>3 DEF CallsEnd, InCall, Tasks
<1> QED
  BY <1>10, <1>11, <1>12, <1>13, <1>14, <1>15, <1>16, <1>17, <1>18 DEF ExecutorInv

(* A worker that has not seen the generation joins the call. *)
LEMMA JoinKeeps ==
    ASSUME ExecutorInv, NEW w \in Workers, Join(w)
    PROVE  ExecutorInv'
<1>1. ExecutorTyped /\ Generations /\ Phases /\ WorkersInCall /\ ActiveCounted
      /\ Claims /\ TasksApart /\ TasksKept /\ CallsEnd
  BY DEF ExecutorInv
<1>2. /\ pc[w] = "waits" /\ w \notin asleep /\ ~stop /\ generation # seen_generation[w]
      /\ seen_generation' = [seen_generation EXCEPT ![w] = generation]
      /\ pc' = [pc EXCEPT ![w] = "fetches"]
      /\ UNCHANGED <<stop, generation, completed_generation,
                     active_workers, next_task, task_count, current_task,
                     task_exception, asleep, caller, calls, asked,
                     outcome, task_index, done, threw>>
  BY DEF Join, Go, sharedVars, callerVars, taskVars
<1>3. /\ generation # completed_generation /\ InCall /\ current_task
      /\ Finished' = Finished /\ Pending' = Pending
  BY Kinds, <1>1, <1>2 DEF Generations, Phases, Finished, Pending, ExecutorTyped, InCall
<1>10. ExecutorTyped'
  BY Kinds, <1>1, <1>2, <1>3 DEF ExecutorTyped, Tasks, Threads
<1>11. Generations'
  BY Kinds, <1>1, <1>2, <1>3 DEF Generations, InCall
<1>12. Phases'
  BY Kinds, <1>1, <1>2, <1>3 DEF Phases, InCall, Stopping
<1>13. WorkersInCall'
  BY Kinds, <1>1, <1>2, <1>3 DEF WorkersInCall, InCall
<1>14. ActiveCounted'
  BY Kinds, <1>1, <1>2, <1>3 DEF ActiveCounted, Pending
<1>15. Claims'
  BY Kinds, <1>1, <1>2, <1>3 DEF Claims, InCall, Finished
<1>16. TasksApart'
  BY Kinds, <1>1, <1>2, <1>3 DEF TasksApart, InTask, InCall
<1>17. TasksKept'
  BY Kinds, <1>1, <1>2, <1>3 DEF TasksKept, InCall, Tasks
<1>18. CallsEnd'
  BY Kinds, <1>1, <1>2, <1>3 DEF CallsEnd, InCall, Tasks
<1> QED
  BY <1>10, <1>11, <1>12, <1>13, <1>14, <1>15, <1>16, <1>17, <1>18 DEF ExecutorInv

(* A worker claims the next task, or finds that none is left. *)
LEMMA FetchKeeps ==
    ASSUME ExecutorInv, NEW w \in Workers, Fetch(w)
    PROVE  ExecutorInv'
<1>1. ExecutorTyped /\ Generations /\ Phases /\ WorkersInCall /\ ActiveCounted
      /\ Claims /\ TasksApart /\ TasksKept /\ CallsEnd
  BY DEF ExecutorInv
<1>2. /\ pc[w] = "fetches"
      /\ next_task' = next_task + 1
      /\ task_index' = [task_index EXCEPT ![w] = next_task]
      /\ pc' = [pc EXCEPT ![w] = IF next_task >= task_count THEN "reports" ELSE "runs"]
      /\ UNCHANGED <<stop, generation, completed_generation,
                     active_workers, task_count, current_task,
                     task_exception, asleep, seen_generation, caller,
                     calls, asked, outcome, done, threw>>
  BY DEF Fetch, Go, sharedVars, callerVars, taskVars
<1>3. /\ InCall /\ generation # completed_generation /\ seen_generation[w] = generation
      /\ Pending' = Pending /\ w \notin Finished
      /\ Finished' = IF next_task >= task_count THEN Finished \cup {w} ELSE Finished
      /\ w \in Threads /\ next_task \in Nat /\ task_count \in Nat
  BY Kinds, <1>1, <1>2 DEF WorkersInCall, Finished, Pending, ExecutorTyped, InCall, Threads
<1>10. ExecutorTyped'
  <2>1. task_index' \in [Threads -> Nat] /\ next_task' \in Nat
    BY ONLY Kinds, <1>2, <1>3, ExecutorInv
  <2>2. /\ pc' \in [Workers -> {"waits", "fetches", "runs", "catches", "reports", "gone"}]
        /\ \A v \in Workers : v # w => pc'[v] = pc[v]
    BY ONLY Kinds, <1>2, ExecutorInv
  <2>3. asleep' \subseteq {v \in Workers : pc'[v] = "waits"}
    BY <1>1, <1>2, <2>2 DEF ExecutorTyped
  <2> QED
    BY <1>1, <1>2, <2>1, <2>2, <2>3 DEF ExecutorTyped, Tasks
<1>11. Generations'
  BY Kinds, <1>1, <1>2, <1>3 DEF Generations, InCall
<1>12. Phases'
  BY Kinds, <1>1, <1>2, <1>3 DEF Phases, InCall, Stopping
<1>13. WorkersInCall'
  BY Kinds, <1>1, <1>2, <1>3 DEF WorkersInCall, InCall
<1>14. ActiveCounted'
  BY Kinds, <1>1, <1>2, <1>3 DEF ActiveCounted, Pending
<1>15. Claims'
  <2>1. Finished \in SUBSET Workers
    BY DEF Finished
  <2>2. /\ Cardinality(Finished) \in Nat
        /\ Cardinality(Finished \cup {w}) = Cardinality(Finished) + 1
    BY <1>3, <2>1, Counting
  <2>3. next_task <= task_count + Cardinality(Finished) /\ (Finished # {} => next_task >= task_count)
    BY <1>1, <1>3 DEF Claims
  <2>4. next_task' <= (task_count + Cardinality(Finished))'
    <3>1. CASE next_task >= task_count
      BY ONLY <1>2, <1>3, <2>2, <2>3, <3>1
    <3>2. CASE ~(next_task >= task_count)
      BY ONLY <1>2, <1>3, <2>2, <3>2
    <3> QED
      BY <3>1, <3>2
  <2>5. (Finished # {})' => next_task' >= task_count'
    BY ONLY <1>2, <1>3, <2>3
  <2>6. task_exception' => next_task' >= task_count'
    <3>1. task_exception => next_task >= task_count
      BY <1>1, <1>3 DEF Claims
    <3> QED
      BY ONLY <1>2, <1>3, <3>1
  <2>7. generation' # completed_generation'
    BY ONLY <1>2, <1>3
  <2> QED
    BY ONLY <2>4, <2>5, <2>6, <2>7 DEF Claims
<1>16. TasksApart'
  <2>1. /\ \A v \in Workers : v # w => pc'[v] = pc[v] /\ task_index'[v] = task_index[v]
        /\ task_index'[w] = next_task
        /\ pc'[w] = IF next_task >= task_count THEN "reports" ELSE "runs"
        /\ \A v \in Workers : task_index[v] \in Nat
    BY ONLY Kinds, <1>2, ExecutorInv DEF Threads
  <2>2. \A i \in done \cup threw : i < next_task /\ i \in Nat
    BY ONLY <1>3, DoneTasks, ExecutorInv
  <2> QED
    BY <1>1, <1>2, <1>3, <2>1, <2>2 DEF TasksApart, InTask
<1>17. TasksKept'
  <2>1. /\ \A v \in Workers : v # w => pc'[v] = pc[v] /\ task_index'[v] = task_index[v]
        /\ task_index'[w] = next_task /\ pc[w] = "fetches"
        /\ pc'[w] = IF next_task >= task_count THEN "reports" ELSE "runs"
        /\ next_task' = next_task + 1
    BY ONLY Kinds, <1>2, ExecutorInv DEF Threads
  <2>2. \A v \in Workers : pc[v] = "catches" => pc'[v] = "catches"
    BY ONLY <2>1
  <2>3. ASSUME threw = {}, NEW i \in Tasks, i < next_task + 1
        PROVE  i \in done \/ \E v \in Workers : pc'[v] = "runs" /\ task_index'[v] = i
    <3>1. i \in Nat /\ i < task_count
      BY <1>1, <1>3, Kinds DEF Tasks, Phases
    <3>2. CASE i = next_task
      BY ONLY <1>3, <2>1, <3>1, <3>2
    <3>3. CASE i # next_task
      <4>1. i < next_task
        BY ONLY <1>3, <2>3, <3>1, <3>3
      <4>2. i \in done \/ \E v \in Workers : pc[v] = "runs" /\ task_index[v] = i
        BY <1>1, <1>3, <2>3, <4>1 DEF TasksKept
      <4> QED
        BY ONLY <2>1, <4>2
    <3> QED
      BY <3>2, <3>3
  <2> QED
    BY <1>1, <1>2, <1>3, <2>2, <2>3 DEF TasksKept, InCall, Tasks
<1>18. CallsEnd'
  BY Kinds, <1>1, <1>2, <1>3 DEF CallsEnd, InCall, Tasks
<1> QED
  BY <1>10, <1>11, <1>12, <1>13, <1>14, <1>15, <1>16, <1>17, <1>18 DEF ExecutorInv

(* A worker whose task threw keeps the first exception and stops the claims. *)
LEMMA CatchKeeps ==
    ASSUME ExecutorInv, NEW w \in Workers, Catch(w)
    PROVE  ExecutorInv'
<1>1. ExecutorTyped /\ Generations /\ Phases /\ WorkersInCall /\ ActiveCounted
      /\ Claims /\ TasksApart /\ TasksKept /\ CallsEnd
  BY DEF ExecutorInv
<1>2. /\ pc[w] = "catches"
      /\ task_exception' = TRUE
      /\ next_task' = IF task_exception THEN next_task ELSE task_count
      /\ pc' = [pc EXCEPT ![w] = "reports"]
      /\ UNCHANGED <<stop, generation, completed_generation,
                     active_workers, task_count, current_task, asleep,
                     seen_generation, caller, calls, asked, outcome,
                     task_index, done, threw>>
  BY DEF Catch, Go, sharedVars, callerVars, taskVars
<1>3. /\ InCall /\ generation # completed_generation /\ seen_generation[w] = generation
      /\ Pending' = Pending /\ w \notin Finished /\ Finished' = Finished \cup {w}
      /\ task_index[w] \in threw /\ next_task \in Nat /\ task_count \in Nat
  BY Kinds, <1>1, <1>2 DEF WorkersInCall, Finished, Pending, ExecutorTyped, InCall, TasksApart
<1>10. ExecutorTyped'
  BY Kinds, <1>1, <1>2, <1>3 DEF ExecutorTyped, Tasks, Threads
<1>11. Generations'
  BY Kinds, <1>1, <1>2, <1>3 DEF Generations, InCall
<1>12. Phases'
  BY Kinds, <1>1, <1>2, <1>3 DEF Phases, InCall, Stopping
<1>13. WorkersInCall'
  BY Kinds, <1>1, <1>2, <1>3 DEF WorkersInCall, InCall
<1>14. ActiveCounted'
  BY Kinds, <1>1, <1>2, <1>3 DEF ActiveCounted, Pending
<1>15. Claims'
  <2>1. Finished \in SUBSET Workers
    BY DEF Finished
  <2>2. /\ Cardinality(Finished) \in Nat
        /\ Cardinality(Finished \cup {w}) = Cardinality(Finished) + 1
    BY <1>3, <2>1, Counting
  <2>3. next_task <= task_count + Cardinality(Finished)
    BY <1>1, <1>3 DEF Claims
  <2>4. /\ next_task' <= (task_count + Cardinality(Finished))'
    BY ONLY <1>2, <1>3, <2>2, <2>3
  <2>5. next_task' >= task_count'
    BY <1>1, <1>2, <1>3 DEF Claims
  <2> QED
    BY <1>2, <1>3, <2>4, <2>5 DEF Claims
<1>16. TasksApart'
  <2>1. \A v \in Workers : pc'[v] = IF v = w THEN "reports" ELSE pc[v]
    BY ONLY Kinds, <1>2, ExecutorInv
  <2>2. \A i \in done \cup threw : i < next_task /\ i < task_count
    BY ONLY <1>3, DoneTasks, ExecutorInv
  <2>3. next_task' = next_task \/ next_task' = task_count
    BY <1>2
  <2>4. \A v \in Workers : InTask(v)' => InTask(v) /\ v # w
    BY ONLY <2>1 DEF InTask
  <2> QED
    BY <1>1, <1>2, <1>3, <2>1, <2>2, <2>3, <2>4 DEF TasksApart
<1>17. TasksKept'
  BY Kinds, <1>1, <1>2, <1>3 DEF TasksKept, InCall, Tasks
<1>18. CallsEnd'
  BY Kinds, <1>1, <1>2, <1>3 DEF CallsEnd, InCall, Tasks
<1> QED
  BY <1>10, <1>11, <1>12, <1>13, <1>14, <1>15, <1>16, <1>17, <1>18 DEF ExecutorInv

(* A worker reports, the last one completes the generation. *)
LEMMA ReportKeeps ==
    ASSUME ExecutorInv, NEW w \in Workers, Report(w)
    PROVE  ExecutorInv'
<1>1. ExecutorTyped /\ Generations /\ Phases /\ WorkersInCall /\ ActiveCounted
      /\ Claims /\ TasksApart /\ TasksKept /\ CallsEnd
  BY DEF ExecutorInv
<1>2. /\ pc[w] = "reports"
      /\ active_workers' = active_workers - 1
      /\ completed_generation' = IF active_workers' = 0 THEN seen_generation[w] ELSE completed_generation
      /\ pc' = [pc EXCEPT ![w] = "waits"]
      /\ UNCHANGED <<stop, generation, next_task, task_count,
                     current_task, task_exception, asleep,
                     seen_generation, caller, calls, asked, outcome,
                     task_index, done, threw>>
  BY DEF Report, Go, sharedVars, callerVars, taskVars
<1>3. /\ InCall /\ generation # completed_generation /\ seen_generation[w] = generation
      /\ w \in Pending /\ Pending' = Pending \ {w} /\ Finished' = Finished /\ w \in Finished
      /\ active_workers = Cardinality(Pending)
  BY Kinds, <1>1, <1>2 DEF WorkersInCall, Finished, Pending, ExecutorTyped, InCall, ActiveCounted
<1>4. /\ active_workers' = Cardinality(Pending') /\ Pending' \subseteq Workers
      /\ active_workers' = 0 => \A v \in Workers : pc'[v] = "waits" /\ seen_generation[v] = generation
  BY <1>2, <1>3, Counting DEF Pending
<1>10. ExecutorTyped'
  BY Kinds, <1>1, <1>2, <1>3, <1>4 DEF ExecutorTyped, Tasks, Threads
<1>11. Generations'
  BY Kinds, <1>1, <1>2, <1>3, <1>4 DEF Generations, InCall
<1>12. Phases'
  BY Kinds, <1>1, <1>2, <1>3, <1>4 DEF Phases, InCall, Stopping
<1>13. WorkersInCall'
  BY Kinds, <1>1, <1>2, <1>3, <1>4 DEF WorkersInCall, InCall
<1>14. ActiveCounted'
  BY Kinds, <1>1, <1>2, <1>3, <1>4 DEF ActiveCounted, Pending
<1>15. Claims'
  BY Kinds, <1>1, <1>2, <1>3, <1>4 DEF Claims, InCall, Finished
<1>16. TasksApart'
  BY Kinds, <1>1, <1>2, <1>3, <1>4 DEF TasksApart, InTask, InCall
<1>17. TasksKept'
  BY Kinds, <1>1, <1>2, <1>3, <1>4 DEF TasksKept, InCall, Tasks
<1>18. CallsEnd'
  BY Kinds, <1>1, <1>2, <1>3, <1>4 DEF CallsEnd, InCall, Tasks
<1> QED
  BY <1>10, <1>11, <1>12, <1>13, <1>14, <1>15, <1>16, <1>17, <1>18 DEF ExecutorInv

(* A task of a worker returns. *)
LEMMA WorkerReturnsKeeps ==
    ASSUME ExecutorInv, NEW w \in Workers, TaskReturns(w)
    PROVE  ExecutorInv'
<1>1. ExecutorTyped /\ Generations /\ Phases /\ WorkersInCall /\ ActiveCounted
      /\ Claims /\ TasksApart /\ TasksKept /\ CallsEnd
  BY DEF ExecutorInv
<1>2. /\ pc[w] = "runs"
      /\ done' = done \cup {task_index[w]}
      /\ pc' = [pc EXCEPT ![w] = "fetches"]
      /\ UNCHANGED <<stop, generation, completed_generation,
                     active_workers, next_task, task_count, current_task,
                     task_exception, asleep, seen_generation, caller,
                     calls, asked, outcome, task_index, threw>>
  BY Counting DEF TaskReturns, Runs, Go, sharedVars, workerVars, callerVars, taskVars
<1>3. /\ InCall /\ seen_generation[w] = generation /\ generation # completed_generation
      /\ task_index[w] \in Tasks /\ Finished' = Finished /\ Pending' = Pending
  <2>1. InCall /\ seen_generation[w] = generation /\ generation # completed_generation
    BY <1>1, <1>2 DEF WorkersInCall, InCall
  <2>2. task_index[w] \in Tasks
    BY <1>1, <1>2, <2>1, Kinds DEF TasksApart, InTask, Tasks, Threads, Phases
  <2>3. \A v \in Workers : pc'[v] = IF v = w THEN "fetches" ELSE pc[v]
    BY ONLY Kinds, <1>2, ExecutorInv
  <2> QED
    BY <1>2, <2>1, <2>2, <2>3 DEF Finished, Pending
<1>10. ExecutorTyped'
  BY Kinds, <1>1, <1>2, <1>3 DEF ExecutorTyped, Tasks, Threads
<1>11. Generations'
  BY Kinds, <1>1, <1>2, <1>3 DEF Generations, InCall
<1>12. Phases'
  BY Kinds, <1>1, <1>2, <1>3 DEF Phases, InCall, Stopping
<1>13. WorkersInCall'
  BY Kinds, <1>1, <1>2, <1>3 DEF WorkersInCall, InCall
<1>14. ActiveCounted'
  BY Kinds, <1>1, <1>2, <1>3 DEF ActiveCounted, Pending
<1>15. Claims'
  BY Kinds, <1>1, <1>2, <1>3 DEF Claims, InCall, Finished
<1>16. TasksApart'
  BY Kinds, <1>1, <1>2, <1>3 DEF TasksApart, InTask, InCall
<1>17. TasksKept'
  BY Kinds, <1>1, <1>2, <1>3 DEF TasksKept, InCall, Tasks
<1>18. CallsEnd'
  BY Kinds, <1>1, <1>2, <1>3 DEF CallsEnd, InCall, Tasks
<1> QED
  BY <1>10, <1>11, <1>12, <1>13, <1>14, <1>15, <1>16, <1>17, <1>18 DEF ExecutorInv

(* A task of a worker throws. *)
LEMMA WorkerThrowsKeeps ==
    ASSUME ExecutorInv, NEW w \in Workers, TaskThrows(w)
    PROVE  ExecutorInv'
<1>1. ExecutorTyped /\ Generations /\ Phases /\ WorkersInCall /\ ActiveCounted
      /\ Claims /\ TasksApart /\ TasksKept /\ CallsEnd
  BY DEF ExecutorInv
<1>2. /\ pc[w] = "runs"
      /\ threw' = threw \cup {task_index[w]}
      /\ pc' = [pc EXCEPT ![w] = "catches"]
      /\ UNCHANGED <<stop, generation, completed_generation,
                     active_workers, next_task, task_count, current_task,
                     task_exception, asleep, seen_generation, caller,
                     calls, asked, outcome, task_index, done>>
  BY Counting DEF TaskThrows, Runs, Go, sharedVars, workerVars, callerVars, taskVars
<1>3. /\ InCall /\ seen_generation[w] = generation /\ generation # completed_generation
      /\ task_index[w] \in Tasks /\ Finished' = Finished /\ Pending' = Pending
  <2>1. InCall /\ seen_generation[w] = generation /\ generation # completed_generation
    BY <1>1, <1>2 DEF WorkersInCall, InCall
  <2>2. task_index[w] \in Tasks
    BY <1>1, <1>2, <2>1, Kinds DEF TasksApart, InTask, Tasks, Threads, Phases
  <2>3. \A v \in Workers : pc'[v] = IF v = w THEN "catches" ELSE pc[v]
    BY ONLY Kinds, <1>2, ExecutorInv
  <2> QED
    BY <1>2, <2>1, <2>2, <2>3 DEF Finished, Pending
<1>10. ExecutorTyped'
  BY Kinds, <1>1, <1>2, <1>3 DEF ExecutorTyped, Tasks, Threads
<1>11. Generations'
  BY Kinds, <1>1, <1>2, <1>3 DEF Generations, InCall
<1>12. Phases'
  BY Kinds, <1>1, <1>2, <1>3 DEF Phases, InCall, Stopping
<1>13. WorkersInCall'
  BY Kinds, <1>1, <1>2, <1>3 DEF WorkersInCall, InCall
<1>14. ActiveCounted'
  BY Kinds, <1>1, <1>2, <1>3 DEF ActiveCounted, Pending
<1>15. Claims'
  BY Kinds, <1>1, <1>2, <1>3 DEF Claims, InCall, Finished
<1>16. TasksApart'
  BY Kinds, <1>1, <1>2, <1>3 DEF TasksApart, InTask, InCall
<1>17. TasksKept'
  BY Kinds, <1>1, <1>2, <1>3 DEF TasksKept, InCall, Tasks
<1>18. CallsEnd'
  BY Kinds, <1>1, <1>2, <1>3 DEF CallsEnd, InCall, Tasks
<1> QED
  BY <1>10, <1>11, <1>12, <1>13, <1>14, <1>15, <1>16, <1>17, <1>18 DEF ExecutorInv

(* run_serial runs the next task, or returns. *)
LEMMA SerialReturnsKeeps ==
    ASSUME ExecutorInv, TaskReturns(Main)
    PROVE  ExecutorInv'
<1>1. ExecutorTyped /\ Generations /\ Phases /\ WorkersInCall /\ ActiveCounted
      /\ Claims /\ TasksApart /\ TasksKept /\ CallsEnd
  BY DEF ExecutorInv
<1>2. /\ caller = "serial"
      /\ done' = done \cup {task_index[Main]}
      /\ task_index' = [task_index EXCEPT ![Main] = @ + 1]
      /\ task_index[Main] + 1 = asked => caller' = "outside" /\ outcome' = "returned"
      /\ task_index[Main] + 1 # asked => caller' = caller /\ outcome' = outcome
      /\ UNCHANGED <<stop, generation, completed_generation,
                     active_workers, next_task, task_count, current_task,
                     task_exception, asleep, pc, seen_generation, calls,
                     asked, threw>>
  BY DEF TaskReturns, Runs, sharedVars, workerVars, callerVars, taskVars
<1>3. /\ ~InCall /\ generation = completed_generation /\ Finished' = Finished
      /\ \A w \in Workers : pc[w] \in {"waits", "gone"}
      /\ ~InCall' /\ ~Stopping' /\ ~Stopping /\ Main \notin Workers
      /\ task_index[Main] \in Nat /\ asked \in Nat /\ task_index[Main] < asked /\ Main \in Threads
  <2>1. Main \notin Workers /\ Main \in Threads
    BY Counting DEF Threads
  <2>2. /\ ~InCall /\ ~Stopping /\ generation = completed_generation
        /\ \A w \in Workers : pc[w] \in {"waits", "gone"}
    BY <1>1, <1>2, Kinds DEF WorkersInCall, Generations, InCall, Stopping
  <2>3. caller' \in {"outside", "serial"}
    BY ONLY <1>2
  <2>4. task_index[Main] \in Nat /\ asked \in Nat /\ task_index[Main] < asked
    BY <1>1, <1>2, <2>1, Kinds DEF CallsEnd
  <2> QED
    BY <1>2, <2>1, <2>2, <2>3, <2>4 DEF Finished, InCall, Stopping
<1>10. ExecutorTyped'
  <2>1. done' \subseteq Tasks' /\ threw' \subseteq Tasks'
    <3>1. task_index[Main] \in Tasks /\ Tasks' = Tasks
      BY ONLY <1>2, <1>3 DEF Tasks
    <3> QED
      BY <1>1, <1>2, <3>1 DEF ExecutorTyped
  <2>2. task_index' \in [Threads -> Nat]
    BY ONLY Kinds, <1>2, <1>3, ExecutorInv
  <2>3. caller' \in {"outside", "serial"}
    BY ONLY <1>2
  <2> QED
    BY <1>1, <1>2, <2>1, <2>2, <2>3 DEF ExecutorTyped
<1>11. Generations'
  BY Kinds, <1>1, <1>2, <1>3 DEF Generations, InCall
<1>12. Phases'
  BY Kinds, <1>1, <1>2, <1>3 DEF Phases, InCall, Stopping
<1>13. WorkersInCall'
  BY Kinds, <1>1, <1>2, <1>3 DEF WorkersInCall
<1>14. ActiveCounted'
  BY Kinds, <1>1, <1>2, <1>3 DEF ActiveCounted
<1>15. Claims'
  BY Kinds, <1>1, <1>2, <1>3 DEF Claims, InCall, Finished
<1>16. TasksApart'
  BY Kinds, <1>1, <1>2, <1>3 DEF TasksApart, InTask, InCall
<1>17. TasksKept'
  BY Kinds, <1>1, <1>2, <1>3 DEF TasksKept, InCall, Tasks
<1>18. CallsEnd'
  BY Kinds, <1>1, <1>2, <1>3 DEF CallsEnd, InCall, Tasks
<1> QED
  BY <1>10, <1>11, <1>12, <1>13, <1>14, <1>15, <1>16, <1>17, <1>18 DEF ExecutorInv

(* run_serial leaves at the first task that throws. *)
LEMMA SerialThrowsKeeps ==
    ASSUME ExecutorInv, TaskThrows(Main)
    PROVE  ExecutorInv'
<1>1. ExecutorTyped /\ Generations /\ Phases /\ WorkersInCall /\ ActiveCounted
      /\ Claims /\ TasksApart /\ TasksKept /\ CallsEnd
  BY DEF ExecutorInv
<1>2. /\ caller = "serial"
      /\ threw' = threw \cup {task_index[Main]}
      /\ caller' = "outside" /\ outcome' = "raised"
      /\ UNCHANGED <<stop, generation, completed_generation,
                     active_workers, next_task, task_count, current_task,
                     task_exception, asleep, pc, seen_generation, calls,
                     asked, task_index, done>>
  BY DEF TaskThrows, Runs, sharedVars, workerVars, callerVars, taskVars
<1>3. /\ ~InCall /\ generation = completed_generation /\ Finished' = Finished
      /\ \A w \in Workers : pc[w] \in {"waits", "gone"}
      /\ ~InCall' /\ ~Stopping' /\ ~Stopping /\ Main \notin Workers
      /\ task_index[Main] \in Nat /\ asked \in Nat /\ task_index[Main] < asked /\ Main \in Threads
  BY Kinds, <1>1, <1>2, Counting DEF WorkersInCall, Generations, Phases, Finished, ExecutorTyped, InCall, Stopping, CallsEnd, Threads
<1>10. ExecutorTyped'
  <2>1. done' \subseteq Tasks' /\ threw' \subseteq Tasks'
    <3>1. task_index[Main] \in Tasks /\ Tasks' = Tasks
      BY ONLY <1>2, <1>3 DEF Tasks
    <3> QED
      BY <1>1, <1>2, <3>1 DEF ExecutorTyped
  <2>2. task_index' \in [Threads -> Nat]
    BY ONLY Kinds, <1>2, <1>3, ExecutorInv
  <2>3. caller' \in {"outside", "serial"}
    BY ONLY <1>2
  <2> QED
    BY <1>1, <1>2, <2>1, <2>2, <2>3 DEF ExecutorTyped
<1>11. Generations'
  BY Kinds, <1>1, <1>2, <1>3 DEF Generations, InCall
<1>12. Phases'
  BY Kinds, <1>1, <1>2, <1>3 DEF Phases, InCall, Stopping
<1>13. WorkersInCall'
  BY Kinds, <1>1, <1>2, <1>3 DEF WorkersInCall
<1>14. ActiveCounted'
  BY Kinds, <1>1, <1>2, <1>3 DEF ActiveCounted
<1>15. Claims'
  BY Kinds, <1>1, <1>2, <1>3 DEF Claims, InCall, Finished
<1>16. TasksApart'
  BY Kinds, <1>1, <1>2, <1>3 DEF TasksApart, InTask, InCall
<1>17. TasksKept'
  BY Kinds, <1>1, <1>2, <1>3 DEF TasksKept, InCall, Tasks
<1>18. CallsEnd'
  BY Kinds, <1>1, <1>2, <1>3 DEF CallsEnd, InCall, Tasks
<1> QED
  BY <1>10, <1>11, <1>12, <1>13, <1>14, <1>15, <1>16, <1>17, <1>18 DEF ExecutorInv

(* A call with no more tasks than workers. *)
LEMMA CallSerialKeeps ==
    ASSUME ExecutorInv, NEW n \in TaskCounts, CallSerial(n)
    PROVE  ExecutorInv'
<1>1. ExecutorTyped /\ Generations /\ Phases /\ WorkersInCall /\ ActiveCounted
      /\ Claims /\ TasksApart /\ TasksKept /\ CallsEnd
  BY DEF ExecutorInv
<1>2. /\ caller = "outside" /\ calls < MaxCalls /\ n > 0
      /\ calls' = calls + 1 /\ asked' = n /\ outcome' = "none"
      /\ done' = {} /\ threw' = {}
      /\ caller' = "serial" /\ task_index' = [task_index EXCEPT ![Main] = 0]
      /\ UNCHANGED <<stop, generation, completed_generation,
                     active_workers, next_task, task_count, current_task,
                     task_exception, asleep, pc, seen_generation>>
  BY DEF CallSerial, Begun, sharedVars, workerVars
<1>3. /\ ~InCall /\ generation = completed_generation /\ Finished' = Finished
      /\ \A w \in Workers : pc[w] \in {"waits", "gone"}
      /\ ~InCall' /\ ~Stopping' /\ ~Stopping /\ Main \notin Workers
      /\ n \in Nat /\ MaxCalls \in Nat /\ Main \in Threads
  BY Kinds, <1>1, <1>2, Counting, ExecutorAssumption DEF WorkersInCall, Generations, Phases, Finished, ExecutorTyped, InCall, Stopping, Threads
<1>10. ExecutorTyped'
  BY Kinds, <1>1, <1>2, <1>3 DEF ExecutorTyped, Tasks, Threads
<1>11. Generations'
  BY Kinds, <1>1, <1>2, <1>3 DEF Generations, InCall
<1>12. Phases'
  BY Kinds, <1>1, <1>2, <1>3 DEF Phases, InCall, Stopping
<1>13. WorkersInCall'
  BY Kinds, <1>1, <1>2, <1>3 DEF WorkersInCall
<1>14. ActiveCounted'
  BY Kinds, <1>1, <1>2, <1>3 DEF ActiveCounted
<1>15. Claims'
  BY Kinds, <1>1, <1>2, <1>3 DEF Claims, InCall, Finished
<1>16. TasksApart'
  BY Kinds, <1>1, <1>2, <1>3 DEF TasksApart, InTask, InCall
<1>17. TasksKept'
  BY Kinds, <1>1, <1>2, <1>3 DEF TasksKept, InCall, Tasks
<1>18. CallsEnd'
  BY Kinds, <1>1, <1>2, <1>3 DEF CallsEnd, InCall, Tasks
<1> QED
  BY <1>10, <1>11, <1>12, <1>13, <1>14, <1>15, <1>16, <1>17, <1>18 DEF ExecutorInv

(* A call that the workers run. *)
LEMMA PublishKeeps ==
    ASSUME ExecutorInv, NEW n \in TaskCounts, Publish(n)
    PROVE  ExecutorInv'
<1>1. ExecutorTyped /\ Generations /\ Phases /\ WorkersInCall /\ ActiveCounted
      /\ Claims /\ TasksApart /\ TasksKept /\ CallsEnd
  BY DEF ExecutorInv
<1>2. /\ caller = "outside" /\ calls < MaxCalls /\ n > Cardinality(Workers)
      /\ calls' = calls + 1 /\ asked' = n /\ outcome' = "none"
      /\ done' = {} /\ threw' = {}
      /\ current_task' = TRUE /\ task_exception' = FALSE
      /\ next_task' = 0 /\ task_count' = n
      /\ active_workers' = Cardinality(Workers)
      /\ generation' = generation + 1
      /\ caller' = "notifies"
      /\ UNCHANGED <<stop, completed_generation, asleep, pc,
                     seen_generation, task_index>>
  BY DEF Publish, Begun, sharedVars, workerVars
<1>3. /\ ~InCall /\ ~Stopping /\ generation = completed_generation /\ generation \in Nat
      /\ \A w \in Workers : pc[w] = "waits" /\ seen_generation[w] = generation
      /\ InCall' /\ ~Stopping' /\ n \in Nat /\ MaxCalls \in Nat /\ Cardinality(Workers) \in Nat
  BY Kinds, <1>1, <1>2, Counting, ExecutorAssumption DEF WorkersInCall, Generations, Phases, ExecutorTyped, InCall, Stopping
<1>4. Pending' = Workers /\ Finished' = {} /\ Cardinality(Finished') \in Nat
  BY <1>2, <1>3, Counting DEF Pending, Finished
<1>10. ExecutorTyped'
  <2>1. /\ generation' \in Nat /\ calls' \in Nat /\ next_task' \in Nat /\ task_count' \in Nat
        /\ asked' \in Nat
    BY ONLY Kinds, <1>2, <1>3, ExecutorInv
  <2> QED
    BY <1>1, <1>2, <2>1 DEF ExecutorTyped
<1>11. Generations'
  BY Kinds, <1>1, <1>2, <1>3, <1>4 DEF Generations, InCall
<1>12. Phases'
  BY Kinds, <1>1, <1>2, <1>3, <1>4 DEF Phases, InCall, Stopping
<1>13. WorkersInCall'
  BY Kinds, <1>1, <1>2, <1>3, <1>4 DEF WorkersInCall
<1>14. ActiveCounted'
  BY Kinds, <1>1, <1>2, <1>3, <1>4 DEF ActiveCounted, Pending
<1>15. Claims'
  BY Kinds, <1>1, <1>2, <1>3, <1>4 DEF Claims, InCall, Finished
<1>16. TasksApart'
  BY Kinds, <1>1, <1>2, <1>3, <1>4 DEF TasksApart, InTask, InCall
<1>17. TasksKept'
  BY Kinds, <1>1, <1>2, <1>3, <1>4 DEF TasksKept, InCall, Tasks
<1>18. CallsEnd'
  BY Kinds, <1>1, <1>2, <1>3, <1>4 DEF CallsEnd, InCall, Tasks
<1> QED
  BY <1>10, <1>11, <1>12, <1>13, <1>14, <1>15, <1>16, <1>17, <1>18 DEF ExecutorInv

(* The call is complete. *)
LEMMA ReturnKeeps ==
    ASSUME ExecutorInv, Return
    PROVE  ExecutorInv'
<1>1. ExecutorTyped /\ Generations /\ Phases /\ WorkersInCall /\ ActiveCounted
      /\ Claims /\ TasksApart /\ TasksKept /\ CallsEnd
  BY DEF ExecutorInv
<1>2. /\ caller = "awaits" /\ completed_generation = generation
      /\ outcome' = IF task_exception THEN "raised" ELSE "returned"
      /\ current_task' = FALSE /\ task_exception' = FALSE
      /\ caller' = "outside"
      /\ UNCHANGED <<stop, generation, completed_generation,
                     active_workers, next_task, task_count, asleep, pc,
                     seen_generation, calls, asked, task_index, done,
                     threw>>
  BY DEF Return, sharedVars, workerVars, taskVars
<1>3. /\ InCall /\ ~InCall' /\ ~Stopping' /\ ~Stopping /\ Finished' = Finished
      /\ \A w \in Workers : pc[w] \in {"waits", "gone"}
      /\ task_count = asked /\ next_task >= task_count
  BY Kinds, <1>1, <1>2 DEF WorkersInCall, Generations, Phases, Finished, ExecutorTyped, InCall, Stopping, Claims
<1>10. ExecutorTyped'
  BY Kinds, <1>1, <1>2, <1>3 DEF ExecutorTyped, Tasks, Threads
<1>11. Generations'
  BY Kinds, <1>1, <1>2, <1>3 DEF Generations, InCall
<1>12. Phases'
  BY Kinds, <1>1, <1>2, <1>3 DEF Phases, InCall, Stopping
<1>13. WorkersInCall'
  BY Kinds, <1>1, <1>2, <1>3 DEF WorkersInCall
<1>14. ActiveCounted'
  BY Kinds, <1>1, <1>2, <1>3 DEF ActiveCounted
<1>15. Claims'
  BY Kinds, <1>1, <1>2, <1>3 DEF Claims, InCall, Finished
<1>16. TasksApart'
  BY Kinds, <1>1, <1>2, <1>3 DEF TasksApart, InTask, InCall
<1>17. TasksKept'
  BY Kinds, <1>1, <1>2, <1>3 DEF TasksKept, InCall, Tasks
<1>18. CallsEnd'
  <2>1. threw = {} => done = Tasks
    <3>1. SUFFICES ASSUME threw = {}, NEW i \in Tasks PROVE i \in done
      BY <1>1 DEF ExecutorTyped
    <3>2. i < next_task
      BY ONLY <1>3, <3>1, Kinds, ExecutorInv DEF Tasks
    <3> QED
      BY <1>1, <1>3, <3>1, <3>2 DEF TasksKept
  <2>2. task_exception <=> threw # {}
    BY <1>1, <1>3 DEF TasksKept
  <2>3. caller' # "serial" /\ Tasks' = Tasks
    BY ONLY <1>2 DEF Tasks
  <2> QED
    BY ONLY <1>2, <1>3, <2>1, <2>2, <2>3 DEF CallsEnd
<1> QED
  BY <1>10, <1>11, <1>12, <1>13, <1>14, <1>15, <1>16, <1>17, <1>18 DEF ExecutorInv

(* The destructor tells the workers to leave. *)
LEMMA StopKeeps ==
    ASSUME ExecutorInv, Stop
    PROVE  ExecutorInv'
<1>1. ExecutorTyped /\ Generations /\ Phases /\ WorkersInCall /\ ActiveCounted
      /\ Claims /\ TasksApart /\ TasksKept /\ CallsEnd
  BY DEF ExecutorInv
<1>2. /\ caller = "outside" /\ caller' = "notifies stop"
      /\ stop' = TRUE
      /\ UNCHANGED <<generation, completed_generation, active_workers,
                     next_task, task_count, current_task, task_exception,
                     asleep, pc, seen_generation, calls, asked, outcome,
                     task_index, done, threw>>
  BY DEF Stop, sharedVars, workerVars, taskVars
<1>3. /\ ~InCall /\ generation = completed_generation /\ Finished' = Finished
      /\ \A w \in Workers : pc[w] \in {"waits", "gone"}
      /\ ~InCall' /\ Stopping'
  BY Kinds, <1>1, <1>2 DEF WorkersInCall, Generations, Phases, Finished, ExecutorTyped, InCall, Stopping
<1>10. ExecutorTyped'
  BY Kinds, <1>1, <1>2, <1>3 DEF ExecutorTyped, Tasks, Threads
<1>11. Generations'
  BY Kinds, <1>1, <1>2, <1>3 DEF Generations, InCall
<1>12. Phases'
  BY Kinds, <1>1, <1>2, <1>3 DEF Phases, InCall, Stopping
<1>13. WorkersInCall'
  BY Kinds, <1>1, <1>2, <1>3 DEF WorkersInCall
<1>14. ActiveCounted'
  BY Kinds, <1>1, <1>2, <1>3 DEF ActiveCounted
<1>15. Claims'
  BY Kinds, <1>1, <1>2, <1>3 DEF Claims, InCall, Finished
<1>16. TasksApart'
  BY Kinds, <1>1, <1>2, <1>3 DEF TasksApart, InTask, InCall
<1>17. TasksKept'
  BY Kinds, <1>1, <1>2, <1>3 DEF TasksKept, InCall, Tasks
<1>18. CallsEnd'
  BY Kinds, <1>1, <1>2, <1>3 DEF CallsEnd, InCall, Tasks
<1> QED
  BY <1>10, <1>11, <1>12, <1>13, <1>14, <1>15, <1>16, <1>17, <1>18 DEF ExecutorInv

-----------------------------------------------------------------------------
(* A new executor has no call, and its workers wait. *)
LEMMA ExecutorBegins ==
    ASSUME ExecutorInit
    PROVE  ExecutorInv
<1>1. /\ stop = FALSE /\ generation = 0 /\ completed_generation = 0
      /\ active_workers = 0 /\ next_task = 0 /\ task_count = 0
      /\ current_task = FALSE /\ task_exception = FALSE
      /\ asleep = {} /\ pc = [w \in Workers |-> "waits"]
      /\ seen_generation = [w \in Workers |-> 0]
      /\ task_index = [t \in Threads |-> 0]
      /\ caller = "outside" /\ calls = 0 /\ asked = 0 /\ outcome = "none"
      /\ done = {} /\ threw = {}
  BY DEF ExecutorInit
<1>2. ~InCall /\ ~Stopping /\ MaxCalls \in Nat
  BY <1>1, ExecutorAssumption DEF InCall, Stopping
<1>3. Cardinality(Finished) \in Nat
  BY Counting DEF Finished
<1>4. ExecutorTyped
  BY <1>1 DEF ExecutorTyped
<1>5. Generations /\ Phases
  BY <1>1, <1>2 DEF Generations, Phases
<1>6. WorkersInCall /\ ActiveCounted /\ CallsEnd
  BY <1>1, <1>2 DEF WorkersInCall, ActiveCounted, CallsEnd
<1>7. Claims /\ TasksApart /\ TasksKept
  BY <1>1, <1>2, <1>3 DEF Claims, TasksApart, TasksKept, InTask
<1> QED
  BY <1>4, <1>5, <1>6, <1>7 DEF ExecutorInv

(* A step of the frame leaves the executor alone. *)
LEMMA FrameSteps ==
    ASSUME ExecutorInv, UNCHANGED executorVars
    PROVE  ExecutorInv'
<1>1. asleep \subseteq {w \in Workers : pc[w] = "waits"}
  BY DEF ExecutorInv, ExecutorTyped
<1> QED
  BY <1>1, Unmoved DEF executorVars, workerVars, callerVars

(* A step of a worker between two tasks. *)
LEMMA WorkerStepsKeep ==
    ASSUME ExecutorInv, NEW w \in Workers, WorkerSteps(w)
    PROVE  ExecutorInv'
<1>1. CASE Sleep(w)
  <2>1. asleep' \subseteq {v \in Workers : pc[v] = "waits"}
    BY <1>1 DEF Sleep, ExecutorInv, ExecutorTyped
  <2> QED
    BY <1>1, <2>1, Unmoved DEF Sleep, callerVars
<1> QED
  BY <1>1, LeaveKeeps, JoinKeeps, FetchKeeps, CatchKeeps, ReportKeeps DEF WorkerSteps

(* A step of the thread that owns the executor, or a spurious wake. *)
LEMMA CallerStepsKeep ==
    ASSUME ExecutorInv, CallerSteps \/ Wakes
    PROVE  ExecutorInv'
<1>1. asleep \subseteq {w \in Workers : pc[w] = "waits"}
  BY DEF ExecutorInv, ExecutorTyped
<1>2. CASE Notify
  BY <1>2, Unmoved DEF Notify
<1>3. CASE NotifyStop
  BY <1>3, Unmoved DEF NotifyStop
<1>4. CASE AwaitDone
  BY <1>1, <1>4, Unmoved DEF AwaitDone, workerVars
<1>5. CASE JoinAll
  BY <1>1, <1>5, Unmoved DEF JoinAll, workerVars
<1>6. CASE WakeCaller
  BY <1>1, <1>6, Unmoved DEF WakeCaller, workerVars
<1>7. ASSUME NEW w \in Workers, WakeWorker(w) PROVE ExecutorInv'
  BY <1>1, <1>7, Unmoved DEF WakeWorker, callerVars
<1> QED
  BY <1>2, <1>3, <1>4, <1>5, <1>6, <1>7, ReturnKeeps, StopKeeps DEF CallerSteps, Wakes

(* Every step, of whatever thread, keeps the invariant of the executor.    *)
LEMMA ExecutorNext ==
    ASSUME ExecutorInv, [Next]_vars
    PROVE  ExecutorInv'
<1>1. CASE Build \/ OwnerBegins \/ OwnerGoesOn \/ Ended \/ UNCHANGED vars
  <2>1. UNCHANGED executorVars
    BY <1>1 DEF Build, OwnerBegins, OwnerGoesOn, Ended, vars
  <2> QED
    BY <2>1, FrameSteps
<1>2. CASE column_parallel_apply
  <2>1. PICK n \in TaskCounts : CallSerial(n) \/ Publish(n)
    BY <1>2 DEF column_parallel_apply, parallel_for
  <2> QED
    BY <2>1, CallSerialKeeps, PublishKeeps
<1>3. CASE Executor
  BY <1>3, WorkerStepsKeep, CallerStepsKeep DEF Executor
<1>4. ASSUME NEW t \in Threads, Callback(t) PROVE ExecutorInv'
  <2>1. CASE CallbackEdits(t) \/ CallbackLooksUp(t)
    <3>1. UNCHANGED executorVars
      BY <2>1 DEF CallbackEdits, CallbackLooksUp
    <3> QED
      BY <3>1, FrameSteps
  <2>2. CASE TaskReturns(t)
    BY <2>2, WorkerReturnsKeeps, SerialReturnsKeeps DEF Threads
  <2>3. CASE TaskThrows(t)
    BY <2>3, WorkerThrowsKeeps, SerialThrowsKeeps DEF Threads
  <2> QED
    BY <1>4, <2>1, <2>2, <2>3 DEF Callback, CallbackReturns, CallbackThrows
<1> QED
  BY <1>1, <1>2, <1>3, <1>4 DEF Next

(* The invariant holds of every state of an executor with its frame. *)
THEOREM ExecutorInvariance == Spec => []ExecutorInv
<1>1. Init => ExecutorInv
  BY ExecutorBegins DEF Init
<1>2. ExecutorInv /\ [Next]_vars => ExecutorInv'
  BY ExecutorNext
<1> QED
  BY <1>1, <1>2, PTL DEF Spec

(* Two workers never have the same task, none runs one again, a call       *)
(* returns only when all its tasks returned, and raises when one threw.    *)
THEOREM TasksRunOnceHolds == Spec => []TasksRunOnce
<1>1. ExecutorInv => TasksRunOnce
  BY DEF ExecutorInv, TasksApart, CallsEnd, TasksRunOnce
<1> QED
  BY <1>1, ExecutorInvariance, PTL

(* The counters of the executor stay within bounds, and no worker calls    *)
(* the function of a call outside that call.                               *)
LEMMA CountersHold ==
    ASSUME ExecutorInv
    PROVE  ExecutorConsistent
<1>1. ExecutorTyped /\ Generations /\ WorkersInCall /\ ActiveCounted /\ Claims
  BY DEF ExecutorInv
<1>2. completed_generation <= generation /\ generation <= MaxCalls
  BY <1>1, Kinds, ExecutorAssumption DEF Generations
<1>3. next_task \in 0..(task_count + Cardinality(Workers))
  <2>1. Finished \in SUBSET Workers
    BY DEF Finished
  <2>2. /\ Cardinality(Finished) \in Nat /\ Cardinality(Workers) \in Nat
        /\ Cardinality(Finished) <= Cardinality(Workers)
    BY <2>1, Counting
  <2> QED
    BY <1>1, <2>2, Kinds DEF Claims
<1>4. done \cup threw \subseteq Tasks
  BY <1>1 DEF ExecutorTyped
<1> QED
  BY <1>1, <1>2, <1>3, <1>4 DEF ExecutorConsistent, ExecutorTypeOK, ExecutorTyped

-----------------------------------------------------------------------------
(* The frame.  What a thread can be doing or have found.                   *)
Doings ==
    {Nothing, Acted}
        \cup [doing : {"setting"}, row : Nat, copy : SUBSET Nat]
        \cup [doing : {"indexing"}, key : Keys, row : Nat]
        \cup [doing : {"finding"}, key : Keys]
        \cup [doing : {"found"}, key : Keys, position : Nat]

Entry == [busy : BOOLEAN, values : SUBSET Nat]
Column == Seq(Keys \cup {Missing})

FrameTyped ==
    /\ coming \in Column /\ source \in Column
    /\ rows \in Seq(Int) /\ keys_ \in Seq(Keys)
    /\ edits \in Seq(Entry)
    /\ op \in [Threads -> Doings]
    /\ \A x \in DOMAIN key_index : key_index[x] \in Nat

(* A callback is the only thing a worker does with the frame, and an edit  *)
(* in progress is of a row that is there.                                  *)
FrameInUse ==
    /\ \A w \in Workers : op[w].doing # "nothing" => pc[w] = "runs"
    /\ \A t \in Threads : op[t].doing = "setting" => op[t].row \in DOMAIN edits
    /\ frame = "building" => key_index = NoIndex /\ \A t \in Threads : op[t] = Nothing
    /\ caller # "outside" => frame = "ready"

FrameInv == FrameTyped /\ FrameInUse /\ FrameConsistent

(* Taking one element out of a sequence moves those behind it.             *)
LEMMA Removed ==
    ASSUME NEW S, NEW s \in Seq(S), NEW i \in DOMAIN s
    PROVE  /\ RemoveAt(s, i) \in Seq(S) /\ Len(RemoveAt(s, i)) = Len(s) - 1
           /\ \A j \in 1..(Len(s) - 1) :
                  RemoveAt(s, i)[j] = IF j < i THEN s[j] ELSE s[j + 1]
<1> DEFINE n == Len(s)
           f == SubSeq(s, 1, i - 1)
           b == SubSeq(s, i + 1, n)
<1>1. n \in Nat /\ i \in 1..n /\ DOMAIN s = 1..n
  OBVIOUS
<1>2. f \in Seq(S) /\ Len(f) = i - 1 /\ \A j \in 1..(i - 1) : f[j] = s[j]
  BY <1>1
<1>3. b \in Seq(S) /\ Len(b) = n - i /\ \A j \in 1..(n - i) : b[j] = s[i + j]
  BY <1>1
<1>4. RemoveAt(s, i) = f \o b
  BY DEF RemoveAt
<1> HIDE DEF n, f, b
<1>5. f \o b \in Seq(S) /\ Len(f \o b) = n - 1
  <2>0. f \in Seq(S) /\ b \in Seq(S)
    BY ONLY <1>2, <1>3
  <2>1. f \o b \in Seq(S)
    BY ONLY <2>0
  <2>2. Len(f \o b) = Len(f) + Len(b)
    BY ONLY <2>0
  <2> QED
    BY ONLY <1>1, <1>2, <1>3, <2>1, <2>2
<1>6. ASSUME NEW j \in 1..(n - 1)
      PROVE  (f \o b)[j] = IF j < i THEN s[j] ELSE s[j + 1]
  <2>1. CASE j < i
    BY <1>1, <1>2, <1>3, <2>1
  <2>2. CASE ~(j < i)
    <3>1. (f \o b)[j] = b[j - (i - 1)] /\ j - (i - 1) \in 1..(n - i)
      BY <1>1, <1>2, <1>3, <2>2
    <3>2. b[j - (i - 1)] = s[i + (j - (i - 1))] /\ i + (j - (i - 1)) = j + 1
      BY ONLY <1>1, <1>3, <3>1
    <3> QED
      BY ONLY <2>2, <3>1, <3>2
  <2> QED
    BY <2>1, <2>2
<1> QED
  BY <1>4, <1>5, <1>6 DEF n

(* What is known of a thread from what it is doing.                        *)
LEMMA OpKinds ==
    ASSUME FrameInv, NEW t \in Threads
    PROVE  /\ op[t].doing = "setting" => /\ op[t].row \in DOMAIN edits
                                         /\ op[t].copy \in SUBSET Nat
           /\ op[t].doing = "indexing" => op[t] \in [doing : {"indexing"}, key : Keys, row : Nat]
           /\ op[t].doing = "finding" => op[t].key \in Keys
           /\ op[t].doing = "found" => op[t].key \in Keys
           /\ DOMAIN op = Threads /\ op \in [Threads -> Doings]
<1>1. op[t] \in Doings /\ DOMAIN op = Threads /\ op \in [Threads -> Doings]
  BY DEF FrameInv, FrameTyped
<1>2. op[t].doing = "setting" => op[t].row \in DOMAIN edits
  BY DEF FrameInv, FrameInUse
<1>3. /\ op[t].doing = "setting" => op[t].copy \in SUBSET Nat
      /\ op[t].doing = "indexing" => op[t] \in [doing : {"indexing"}, key : Keys, row : Nat]
      /\ op[t].doing = "finding" => op[t].key \in Keys
      /\ op[t].doing = "found" => op[t].key \in Keys
  BY ONLY <1>1 DEF Doings, Nothing, Acted
<1> QED
  BY <1>1, <1>2, <1>3

(* What a thread does that is not an edit leaves the locks as they are.    *)
LEMMA NoLockMoves ==
    ASSUME FrameInv, NEW t \in Threads, NEW what \in Doings, Does(t, what),
           what.doing # "setting", op[t].doing # "setting",
           t \in Workers => pc[t] = "runs" \/ what = Nothing,
           \A w \in Workers : w # t /\ pc[w] = "runs" => pc'[w] = "runs",
           t \in Workers => pc'[t] = pc[t] \/ what = Nothing,
           frame # "building", caller' # "outside" => frame = "ready",
           \A x \in DOMAIN key_index' : key_index'[x] \in Nat,
           UNCHANGED <<coming, source, keyed, frame, rows, keys_, edits>>
    PROVE  FrameInv'
<1>1. /\ op' \in [Threads -> Doings] /\ DOMAIN op = Threads /\ DOMAIN op' = Threads
      /\ \A u \in Threads : op'[u] = IF u = t THEN what ELSE op[u]
  BY OpKinds DEF Does
<1>2. \A u \in Threads : /\ op'[u].doing = "setting" <=> op[u].doing = "setting"
                         /\ op[u].doing = "setting" => op'[u].row = op[u].row
  BY ONLY <1>1, what.doing # "setting", op[t].doing # "setting"
<1>3. FrameTyped'
  BY <1>1 DEF FrameInv, FrameTyped
<1>4. FrameInUse'
  <2>1. \A w \in Workers : op[w].doing # "nothing" => pc[w] = "runs"
    BY DEF FrameInv, FrameInUse
  <2>2. ASSUME NEW w \in Workers, op'[w].doing # "nothing" PROVE pc'[w] = "runs"
    BY <1>1, <2>1, <2>2 DEF Nothing, Threads
  <2>3. ASSUME NEW u \in Threads, op'[u].doing = "setting" PROVE op'[u].row \in DOMAIN edits'
    BY <1>2, <2>3 DEF FrameInv, FrameInUse
  <2> QED
    BY <2>2, <2>3 DEF FrameInUse
<1>5. FrameConsistent'
  BY <1>1, <1>2 DEF FrameInv, FrameConsistent
<1> QED
  BY <1>3, <1>4, <1>5 DEF FrameInv

(* Another element in a sequence.                                          *)
LEMMA Replaced ==
    ASSUME NEW S, NEW s \in Seq(S), NEW i \in DOMAIN s, NEW e \in S
    PROVE  /\ [s EXCEPT ![i] = e] \in Seq(S) /\ Len([s EXCEPT ![i] = e]) = Len(s)
           /\ DOMAIN [s EXCEPT ![i] = e] = DOMAIN s
           /\ \A j \in DOMAIN s : [s EXCEPT ![i] = e][j] = IF j = i THEN e ELSE s[j]
OBVIOUS

(* An edit takes the lock of its row.                                      *)
LEMMA LockRowKeeps ==
    ASSUME FrameInv, NEW t \in Threads, NEW i \in DOMAIN rows, LockRow(t, i),
           t \in Workers => pc[t] = "runs", frame # "building", UNCHANGED <<pc, caller, source>>
    PROVE  FrameInv'
<1>1. /\ AtRest(t) /\ ~edits[i].busy
      /\ edits' = [edits EXCEPT ![i].busy = TRUE]
      /\ op' = [op EXCEPT ![t] = [doing |-> "setting", row |-> i, copy |-> edits[i].values]]
      /\ UNCHANGED <<keyed, coming, frame, rows, keys_, key_index, pc, caller, source>>
  BY DEF LockRow, Does, optionVars
<1>2. /\ edits \in Seq(Entry) /\ Len(edits) = Len(rows) /\ rows \in Seq(Int)
      /\ op \in [Threads -> Doings] /\ op[t].doing # "setting"
  BY <1>1 DEF FrameInv, FrameTyped, FrameConsistent, AtRest
<1>3. i \in DOMAIN edits /\ i \in Nat /\ edits[i].values \in SUBSET Nat
  <2>1. i \in DOMAIN edits /\ i \in Nat /\ edits[i] \in Entry
    BY ONLY <1>2, i \in DOMAIN rows
  <2> QED
    BY ONLY <2>1 DEF Entry
<1>4. /\ edits' \in Seq(Entry) /\ DOMAIN edits' = DOMAIN edits /\ Len(edits') = Len(edits)
      /\ \A j \in DOMAIN edits : edits'[j].busy = IF j = i THEN TRUE ELSE edits[j].busy
  <2> DEFINE entry == [edits[i] EXCEPT !.busy = TRUE]
  <2>1. edits[i] \in Entry
    BY ONLY <1>2, <1>3
  <2>2. entry \in Entry /\ entry.busy = TRUE
    BY ONLY <2>1 DEF Entry
  <2>3. edits' = [edits EXCEPT ![i] = entry]
    BY <1>1
  <2> HIDE DEF entry
  <2> QED
    <3>1. /\ edits' \in Seq(Entry) /\ DOMAIN edits' = DOMAIN edits /\ Len(edits') = Len(edits)
          /\ \A j \in DOMAIN edits : edits'[j] = IF j = i THEN entry ELSE edits[j]
      BY ONLY <1>2, <1>3, <2>2, <2>3, Replaced
    <3> QED
      BY ONLY <2>2, <3>1
<1>5. /\ op' \in [Threads -> Doings]
      /\ op'[t].doing = "setting" /\ op'[t].row = i
      /\ \A u \in Threads : u # t => op'[u] = op[u]
  BY <1>1, <1>2, <1>3 DEF Doings
<1>6. \A u \in Threads : op[u].doing = "setting" => op[u].row # i
  BY <1>1, <1>2, <1>3 DEF FrameInv, FrameConsistent
<1>7. FrameTyped'
  BY <1>1, <1>4, <1>5 DEF FrameInv, FrameTyped
<1>8. FrameInUse'
  BY <1>1, <1>3, <1>4, <1>5 DEF FrameInv, FrameInUse
<1>9. FrameConsistent'
  <2>1. \A j \in DOMAIN edits :
           edits'[j].busy <=> \E u \in Threads : op'[u].doing = "setting" /\ op'[u].row = j
    <3>1. \A j \in DOMAIN edits :
             edits[j].busy <=> \E u \in Threads : op[u].doing = "setting" /\ op[u].row = j
      BY <1>2 DEF FrameInv, FrameConsistent
    <3>2. ASSUME NEW j \in DOMAIN edits, j # i
          PROVE  (\E u \in Threads : op'[u].doing = "setting" /\ op'[u].row = j)
                     <=> \E u \in Threads : op[u].doing = "setting" /\ op[u].row = j
      BY ONLY <1>2, <1>5, <3>2, t \in Threads
    <3>3. \E u \in Threads : op'[u].doing = "setting" /\ op'[u].row = i
      BY ONLY <1>5, t \in Threads
    <3> QED
      BY ONLY <1>4, <3>1, <3>2, <3>3
  <2>2. \A u, v \in Threads :
           u # v /\ op'[u].doing = "setting" /\ op'[v].doing = "setting" => op'[u].row # op'[v].row
    <3>1. \A u, v \in Threads :
             u # v /\ op[u].doing = "setting" /\ op[v].doing = "setting" => op[u].row # op[v].row
      BY <1>2 DEF FrameInv, FrameConsistent
    <3> QED
      BY ONLY <1>5, <1>6, <3>1
  <2>3. DOMAIN op' = Threads
    BY ONLY <1>5
  <2>4. (/\ Len(edits) = Len(rows) /\ Len(keys_) = IF keyed THEN Len(rows) ELSE 0
         /\ IsInjective(keys_))'
    BY <1>1, <1>2, <1>4 DEF FrameInv, FrameConsistent
  <2> QED
    BY ONLY <1>4, <2>1, <2>2, <2>3, <2>4 DEF FrameConsistent
<1> QED
  BY <1>7, <1>8, <1>9 DEF FrameInv

(* ... and gives it back with the cell set.                                *)
LEMMA SetCellKeeps ==
    ASSUME FrameInv, NEW t \in Threads, NEW c \in Nat, NEW after \in {Nothing, Acted},
           SetCell(t, c, after), UNCHANGED <<pc, caller, source>>
    PROVE  FrameInv'
<1> DEFINE r == op[t].row
           entry == [busy |-> FALSE, values |-> op[t].copy \cup {c}]
<1>1. /\ op[t].doing = "setting"
      /\ edits' = [edits EXCEPT ![r] = entry]
      /\ op' = [op EXCEPT ![t] = after]
      /\ UNCHANGED <<keyed, coming, frame, rows, keys_, key_index, pc, caller, source>>
  BY DEF SetCell, Does, optionVars
<1>2. /\ edits \in Seq(Entry) /\ Len(edits) = Len(rows)
      /\ op \in [Threads -> Doings] /\ DOMAIN op = Threads
  BY OpKinds DEF FrameInv, FrameTyped, FrameConsistent
<1>3. r \in DOMAIN edits /\ entry \in Entry /\ entry.busy = FALSE
  BY <1>1, OpKinds DEF Entry
<1> HIDE DEF r, entry
<1>4. /\ edits' \in Seq(Entry) /\ DOMAIN edits' = DOMAIN edits /\ Len(edits') = Len(edits)
      /\ \A j \in DOMAIN edits : edits'[j] = IF j = r THEN entry ELSE edits[j]
  BY ONLY <1>1, <1>2, <1>3, Replaced
<1>5. after \in Doings /\ after.doing \in {"nothing", "acted"}
  BY DEF Doings, Nothing, Acted
<1>6. /\ op' \in [Threads -> Doings] /\ DOMAIN op' = Threads
      /\ \A u \in Threads : op'[u] = IF u = t THEN after ELSE op[u]
  BY ONLY <1>1, <1>2, <1>5, t \in Threads
<1>7. \A u, v \in Threads :
          u # v /\ op[u].doing = "setting" /\ op[v].doing = "setting" => op[u].row # op[v].row
  BY <1>2 DEF FrameInv, FrameConsistent
<1>8. \A u \in Threads : op'[u].doing = "setting" =>
          u # t /\ op[u].doing = "setting" /\ op'[u].row = op[u].row /\ op[u].row # r
  BY <1>1, <1>5, <1>6, <1>7 DEF r
<1>9. \A u \in Threads : u # t /\ op[u].doing = "setting" =>
          op'[u].doing = "setting" /\ op'[u].row = op[u].row
  BY ONLY <1>6
<1>10. FrameTyped'
  BY <1>1, <1>4, <1>6 DEF FrameInv, FrameTyped
<1>11. FrameInUse'
  <2>1. /\ \A w \in Workers : op[w].doing # "nothing" => pc[w] = "runs"
        /\ \A u \in Threads : op[u].doing = "setting" => op[u].row \in DOMAIN edits
        /\ frame = "building" => \A u \in Threads : op[u] = Nothing
        /\ caller # "outside" => frame = "ready"
    BY DEF FrameInv, FrameInUse
  <2>2. frame # "building"
    BY <1>1, <2>1 DEF Nothing
  <2>3. \A w \in Workers : op'[w].doing # "nothing" => pc'[w] = "runs"
    BY <1>1, <1>6, <2>1 DEF Threads
  <2> QED
    BY <1>1, <1>4, <1>8, <2>1, <2>2, <2>3 DEF FrameInUse
<1>12. FrameConsistent'
  <2>1. \A j \in DOMAIN edits :
           edits'[j].busy <=> \E u \in Threads : op'[u].doing = "setting" /\ op'[u].row = j
    <3>1. \A j \in DOMAIN edits :
             edits[j].busy <=> \E u \in Threads : op[u].doing = "setting" /\ op[u].row = j
      BY <1>2 DEF FrameInv, FrameConsistent
    <3>2. ASSUME NEW j \in DOMAIN edits, j # r
          PROVE  (\E u \in Threads : op'[u].doing = "setting" /\ op'[u].row = j)
                     <=> \E u \in Threads : op[u].doing = "setting" /\ op[u].row = j
      BY <1>1, <1>8, <1>9, <3>2 DEF r
    <3>3. ~\E u \in Threads : op'[u].doing = "setting" /\ op'[u].row = r
      BY ONLY <1>8
    <3> QED
      BY ONLY <1>3, <1>4, <3>1, <3>2, <3>3
  <2>2. \A u, v \in Threads :
           u # v /\ op'[u].doing = "setting" /\ op'[v].doing = "setting" => op'[u].row # op'[v].row
    BY ONLY <1>7, <1>8
  <2>3. (/\ Len(edits) = Len(rows) /\ Len(keys_) = IF keyed THEN Len(rows) ELSE 0
         /\ IsInjective(keys_))'
    BY <1>1, <1>2, <1>4 DEF FrameInv, FrameConsistent
  <2> QED
    BY ONLY <1>4, <1>6, <2>1, <2>2, <2>3 DEF FrameConsistent
<1> QED
  BY <1>10, <1>11, <1>12 DEF FrameInv

(* A row is erased by the owner, while nothing is locked.                  *)
LEMMA EraseAtKeeps ==
    ASSUME FrameInv, NEW i \in DOMAIN rows, EraseAt(Main, i), UNCHANGED <<pc, caller, source>>,
           frame # "building", \A u \in Threads : op[u].doing # "setting"
    PROVE  FrameInv'
<1>1. /\ edits' = RemoveAt(edits, i) /\ rows' = RemoveAt(rows, i)
      /\ keys_' = IF keyed THEN RemoveAt(keys_, i) ELSE keys_
      /\ op' = [op EXCEPT ![Main] = Nothing] /\ key_index' = NoIndex
      /\ UNCHANGED <<keyed, coming, frame, pc, caller, source>>
  BY DEF EraseAt, Does, optionVars
<1>2. /\ edits \in Seq(Entry) /\ rows \in Seq(Int) /\ keys_ \in Seq(Keys)
      /\ Len(edits) = Len(rows) /\ Len(keys_) = IF keyed THEN Len(rows) ELSE 0
      /\ op \in [Threads -> Doings] /\ DOMAIN op = Threads /\ IsInjective(keys_)
      /\ \A j \in DOMAIN edits : ~edits[j].busy
  BY OpKinds DEF FrameInv, FrameTyped, FrameConsistent
<1>3. i \in DOMAIN rows /\ i \in DOMAIN edits /\ (keyed => i \in DOMAIN keys_) /\ Len(rows) \in Nat
  BY ONLY <1>2, i \in DOMAIN rows
<1>4. /\ rows' \in Seq(Int) /\ Len(rows') = Len(rows) - 1
      /\ edits' \in Seq(Entry) /\ Len(edits') = Len(rows) - 1
      /\ \A j \in 1..(Len(rows) - 1) : edits'[j] = IF j < i THEN edits[j] ELSE edits[j + 1]
  BY ONLY <1>1, <1>2, <1>3, Removed
<1>5. /\ keys_' \in Seq(Keys) /\ Len(keys_') = IF keyed THEN Len(rows') ELSE 0
      /\ IsInjective(keys_')
  <2>1. CASE keyed
    <3>1. /\ keys_' \in Seq(Keys) /\ Len(keys_') = Len(keys_) - 1
          /\ \A j \in 1..(Len(keys_) - 1) : keys_'[j] = IF j < i THEN keys_[j] ELSE keys_[j + 1]
      BY ONLY <1>1, <1>2, <1>3, <2>1, Removed
    <3>2. ASSUME NEW j \in DOMAIN keys_', NEW k \in DOMAIN keys_', keys_'[j] = keys_'[k]
          PROVE  j = k
      <4>1. j \in 1..(Len(keys_) - 1) /\ k \in 1..(Len(keys_) - 1) /\ i \in Nat
        <5>1. DOMAIN keys_' = 1..(Len(keys_) - 1)
          BY ONLY <3>1
        <5>2. i \in Nat
          BY ONLY <1>2, <1>3
        <5> QED
          BY <3>2, <5>1, <5>2
      <4>2. \A x, y \in 1..Len(keys_) : keys_[x] = keys_[y] => x = y
        BY <1>2 DEF IsInjective
      <4> DEFINE p == IF j < i THEN j ELSE j + 1
                 q == IF k < i THEN k ELSE k + 1
      <4>3. keys_'[j] = keys_[p] /\ keys_'[k] = keys_[q]
        BY ONLY <3>1, <4>1
      <4>4. p \in 1..Len(keys_) /\ q \in 1..Len(keys_) /\ (p = q => j = k)
        <5>1. Len(keys_) \in Nat
          BY <1>2
        <5> QED
          BY ONLY <4>1, <5>1
      <4> HIDE DEF p, q
      <4> QED
        BY ONLY <3>2, <4>2, <4>3, <4>4
    <3> QED
      BY <1>2, <1>4, <2>1, <3>1, <3>2 DEF IsInjective
  <2>2. CASE ~keyed
    BY <1>1, <1>2, <2>2
  <2> QED
    BY <2>1, <2>2
<1>6. \A j \in DOMAIN edits' : ~edits'[j].busy
  <2>1. \A j \in 1..Len(rows) : ~edits[j].busy
    BY <1>2
  <2>2. DOMAIN edits' = 1..(Len(rows) - 1)
    BY ONLY <1>3, <1>4
  <2> QED
    <3>1. ASSUME NEW j \in 1..(Len(rows) - 1) PROVE ~edits'[j].busy
      <4>1. j \in 1..Len(rows) /\ j + 1 \in 1..Len(rows)
        BY ONLY <1>3
      <4> QED
        BY <1>4, <2>1, <4>1
    <3> QED
      BY ONLY <2>2, <3>1
<1>7. /\ op' \in [Threads -> Doings] /\ DOMAIN op' = Threads
      /\ \A u \in Threads : op'[u] = IF u = Main THEN Nothing ELSE op[u]
  BY <1>1, <1>2 DEF Threads, Doings
<1>8. \A u \in Threads : op'[u].doing # "setting"
  BY <1>7 DEF Nothing
<1>9. FrameTyped'
  <2>1. DOMAIN NoIndex = {}
    BY DEF NoIndex
  <2> QED
    BY <1>1, <1>4, <1>5, <1>7, <2>1 DEF FrameInv, FrameTyped
<1>10. FrameInUse'
  BY <1>1, <1>7, <1>8 DEF FrameInv, FrameInUse, Nothing, Threads
<1>11. FrameConsistent'
  BY <1>1, <1>4, <1>5, <1>6, <1>7, <1>8 DEF FrameConsistent
<1> QED
  BY <1>9, <1>10, <1>11 DEF FrameInv

(* Rows come from the reader one by one, before anything else happens.     *)
LEMMA BuildKeeps ==
    ASSUME FrameInv, Build
    PROVE  FrameInv'
<1>1. UNCHANGED <<source, pc, caller, keyed, key_index, op>> /\ frame = "building"
  BY DEF Build, BuildRow, Built, optionVars, storeVars, executorVars, workerVars, callerVars
<1>2. /\ \A t \in Threads : op[t] = Nothing
      /\ caller = "outside" /\ DOMAIN op = Threads
      /\ coming \in Column /\ source \in Column /\ rows \in Seq(Int) /\ keys_ \in Seq(Keys)
      /\ edits \in Seq(Entry) /\ Len(edits) = Len(rows) /\ op \in [Threads -> Doings]
      /\ Len(keys_) = IF keyed THEN Len(rows) ELSE 0
      /\ IsInjective(keys_)
  BY <1>1 DEF FrameInv, FrameTyped, FrameInUse, FrameConsistent
<1>3. \A j \in DOMAIN edits : ~edits[j].busy
  BY <1>2 DEF FrameInv, FrameConsistent, Nothing
<1>4. /\ rows' \in Seq(Int) /\ keys_' \in Seq(Keys) /\ edits' \in Seq(Entry)
      /\ Len(edits') = Len(rows') /\ Len(keys_') = IF keyed THEN Len(rows') ELSE 0
      /\ \A j \in DOMAIN edits' : ~edits'[j].busy
      /\ IsInjective(keys_') /\ coming' \in Column
  <2>1. CASE Built \/ Fails
    BY <1>2, <1>3, <2>1 DEF Built, Fails, storeVars
  <2>2. CASE /\ coming # <<>> /\ PushRow(RowNumber(source))
             /\ keyed => NextKey \notin ToSet(keys_)
    <3> DEFINE entry == [busy |-> FALSE, values |-> {}]
               number == RowNumber(source)
    <3>1. entry \in Entry /\ entry.busy = FALSE
      BY DEF Entry
    <3>2. number \in Int
      BY <1>2 DEF RowNumber, Column
    <3>3. Head(coming) \in Keys \cup {Missing} /\ Tail(coming) \in Column
      BY <1>2, <2>2 DEF Column
    <3>4. NextKey \in Keys
      BY <3>3, SetupsAssumption DEF NextKey
    <3>5. /\ rows' = Append(rows, number) /\ edits' = Append(edits, entry)
          /\ keys_' = IF keyed THEN Append(keys_, NextKey) ELSE keys_
          /\ coming' = Tail(coming)
      BY <2>2 DEF PushRow
    <3> HIDE DEF entry, number
    <3>6. /\ rows' \in Seq(Int) /\ Len(rows') = Len(rows) + 1
      BY ONLY <1>2, <3>2, <3>5
    <3>7. /\ edits' \in Seq(Entry) /\ Len(edits') = Len(rows) + 1
          /\ \A j \in DOMAIN edits' : edits'[j] = entry \/ (j \in DOMAIN edits /\ edits'[j] = edits[j])
      BY ONLY <1>2, <3>1, <3>5
    <3>8. /\ keys_' \in Seq(Keys) /\ Len(keys_') = IF keyed THEN Len(rows') ELSE 0
          /\ IsInjective(keys_')
      <4>1. CASE keyed
        <5> DEFINE k == NextKey
        <5>1. k \in Keys /\ keys_' = Append(keys_, k) /\ Len(keys_) = Len(rows)
          BY ONLY <1>2, <3>4, <3>5, <4>1
        <5>2. \A j \in DOMAIN keys_ : keys_[j] # k
          BY <2>2, <4>1 DEF ToSet
        <5> HIDE DEF k
        <5>3. /\ keys_' \in Seq(Keys) /\ Len(keys_') = Len(rows) + 1
              /\ \A j \in DOMAIN keys_' :
                     \/ j \in DOMAIN keys_ /\ keys_'[j] = keys_[j]
                     \/ j = Len(rows) + 1 /\ keys_'[j] = k
          BY ONLY <1>2, <5>1
        <5>4. IsInjective(keys_')
          BY ONLY <1>2, <5>2, <5>3 DEF IsInjective
        <5> QED
          BY ONLY <3>6, <4>1, <5>3, <5>4
      <4>2. CASE ~keyed
        BY ONLY <1>2, <3>5, <4>2
      <4> QED
        BY <4>1, <4>2
    <3> QED
      BY ONLY <1>3, <3>1, <3>3, <3>5, <3>6, <3>7, <3>8
  <2>3. CASE coming # <<>> /\ KnownRow(RowNumber(source))
    <3> DEFINE number == RowNumber(source)
    <3>1. number \in Int
      BY <1>2 DEF RowNumber, Column
    <3>2. coming' \in Column
      BY <1>2, <2>3 DEF KnownRow, Column
    <3>3. UNCHANGED <<keys_, edits>>
      BY <2>3 DEF KnownRow
    <3>4. PICK i \in DOMAIN keys_ : rows' = IF policy = "OVERWRITE" THEN [rows EXCEPT ![i] = number] ELSE rows
      BY <2>3 DEF KnownRow
    <3> HIDE DEF number
    <3>5. i \in DOMAIN rows
      BY ONLY <1>2, i \in DOMAIN keys_
    <3>6. rows' \in Seq(Int) /\ Len(rows') = Len(rows)
      BY ONLY <1>2, <3>1, <3>4, <3>5, Replaced
    <3> QED
      BY ONLY <1>2, <1>3, <3>2, <3>3, <3>6
  <2> QED
    BY <2>1, <2>2, <2>3 DEF Build, BuildRow
<1>5. FrameTyped'
  BY <1>1, <1>2, <1>4 DEF FrameInv, FrameTyped
<1>6. FrameInUse'
  BY <1>1, <1>2 DEF FrameInv, FrameInUse, Nothing
<1>7. FrameConsistent'
  BY <1>1, <1>2, <1>4 DEF FrameConsistent, Nothing
<1> QED
  BY <1>5, <1>6, <1>7 DEF FrameInv

(* A lookup, its steps, and the end of a callback, by whoever makes them.  *)
LEMMA LookupsKeep ==
    ASSUME FrameInv, NEW t \in Threads, frame # "building", t \in Workers => pc[t] = "runs",
           (\E k \in Keys : Lookup(t, k)) \/ IndexRow(t) \/ Find(t),
           UNCHANGED <<pc, caller, source>>
    PROVE  FrameInv'
<1>1. /\ caller # "outside" => frame = "ready"
      /\ \A x \in DOMAIN key_index : key_index[x] \in Nat
      /\ keys_ \in Seq(Keys) /\ rows \in Seq(Int)
      /\ Len(keys_) = IF keyed THEN Len(rows) ELSE 0
  BY DEF FrameInv, FrameInUse, FrameTyped, FrameConsistent
<1>2. ASSUME NEW what \in Doings, Does(t, what), what.doing # "setting", op[t].doing # "setting",
             UNCHANGED <<coming, keyed, frame, rows, keys_, edits>>,
             \A x \in DOMAIN key_index' : key_index'[x] \in Nat
      PROVE  FrameInv'
  BY <1>1, <1>2, NoLockMoves
<1>3. ASSUME NEW k \in Keys, Lookup(t, k) PROVE FrameInv'
  <2>1. /\ AtRest(t)
        /\ UNCHANGED <<coming, keyed, frame, rows, keys_, edits>>
    BY <1>3 DEF Lookup, optionVars
  <2>2. op[t].doing # "setting"
    BY <2>1 DEF AtRest
  <2>3. CASE key_index = NoIndex
    <3>1. /\ key_index' = [x \in {Missing} |-> 0]
          /\ Does(t, [doing |-> "indexing", key |-> k, row |-> 1])
      BY <1>3, <2>3 DEF Lookup
    <3>2. [doing |-> "indexing", key |-> k, row |-> 1] \in Doings
      BY DEF Doings
    <3> QED
      BY <1>2, <2>1, <2>2, <3>1, <3>2
  <2>4. CASE key_index # NoIndex
    <3>1. UNCHANGED key_index /\ Does(t, [doing |-> "finding", key |-> k])
      BY <1>3, <2>4 DEF Lookup
    <3>2. [doing |-> "finding", key |-> k] \in Doings
      BY DEF Doings
    <3> QED
      BY <1>1, <1>2, <2>1, <2>2, <3>1, <3>2
  <2> QED
    BY <2>3, <2>4
<1>4. CASE IndexRow(t)
  <2>1. /\ op[t].doing = "indexing"
        /\ UNCHANGED <<coming, keyed, frame, rows, keys_, edits>>
    BY <1>4 DEF IndexRow, optionVars
  <2>2. op[t] \in [doing : {"indexing"}, key : Keys, row : Nat]
    BY <2>1, OpKinds
  <2>3. CASE op[t].row <= Len(rows)
    <3> DEFINE what == [op[t] EXCEPT !.row = @ + 1]
               x0 == keys_[op[t].row]
    <3>1. /\ key_index' = [x \in DOMAIN key_index \cup {x0} |->
                              IF x = x0 THEN op[t].row ELSE key_index[x]]
          /\ Does(t, what)
      BY <1>4, <2>3 DEF IndexRow
    <3>2. what \in [doing : {"indexing"}, key : Keys, row : Nat]
      BY ONLY <2>2
    <3>3. what \in Doings /\ what.doing = "indexing"
      BY ONLY <3>2 DEF Doings
    <3>4. op[t].row \in Nat
      BY <2>2
    <3> HIDE DEF what, x0
    <3>5. \A x \in DOMAIN key_index' : key_index'[x] \in Nat
      BY ONLY <1>1, <3>1, <3>4
    <3> QED
      BY <1>2, <2>1, <3>1, <3>3, <3>5
  <2>4. CASE ~(op[t].row <= Len(rows))
    <3>1. UNCHANGED key_index /\ Does(t, [doing |-> "finding", key |-> op[t].key])
      BY <1>4, <2>4 DEF IndexRow
    <3>2. [doing |-> "finding", key |-> op[t].key] \in Doings
      BY <2>2 DEF Doings
    <3> QED
      BY <1>1, <1>2, <2>1, <3>1, <3>2
  <2> QED
    BY <2>3, <2>4
<1>5. CASE Find(t)
  <2> DEFINE k == op[t].key
             p == IF k \in DOMAIN key_index THEN key_index[k] ELSE 0
             what == [doing |-> "found", key |-> k, position |-> p]
  <2>1. /\ op[t].doing = "finding" /\ Does(t, what)
        /\ UNCHANGED <<coming, keyed, frame, rows, keys_, edits, key_index>>
    BY <1>5 DEF Find, optionVars, storeVars
  <2>2. k \in Keys /\ p \in Nat
    BY <1>1, <2>1, OpKinds
  <2>3. what \in Doings /\ what.doing = "found"
    BY ONLY <2>2 DEF Doings
  <2> HIDE DEF what
  <2> QED
    BY <1>1, <1>2, <2>1, <2>3
<1> QED
  BY <1>3, <1>4, <1>5

(* A thread that has ended what it did with the frame.                     *)
LEMMA RestsKeep ==
    ASSUME FrameInv, NEW t \in Threads, Does(t, Nothing), AtRest(t) \/ op[t] = Acted,
           frame = "ready", \A w \in Workers : w # t /\ pc[w] = "runs" => pc'[w] = "runs",
           UNCHANGED <<optionVars, coming, frame, storeVars, source>>
    PROVE  FrameInv'
<1>1. Nothing \in Doings /\ Nothing.doing # "setting" /\ op[t].doing # "setting"
  BY DEF Doings, Nothing, AtRest, Acted
<1>2. \A x \in DOMAIN key_index' : key_index'[x] \in Nat
  BY DEF storeVars, FrameInv, FrameTyped
<1> QED
  BY <1>1, <1>2, NoLockMoves DEF optionVars, storeVars

(* No worker does anything with the frame while there is no call.          *)
LEMMA WorkersRest ==
    ASSUME ExecutorInv, FrameInv, ~InCall
    PROVE  \A w \in Workers : op[w].doing = "nothing"
BY DEF ExecutorInv, WorkersInCall, InCall, FrameInv, FrameInUse

(* A thread runs a task while the frame is ready.                          *)
LEMMA RunsReady ==
    ASSUME ExecutorInv, FrameInv, NEW t \in Threads, Runs(t)
    PROVE  frame = "ready" /\ (t \in Workers => pc[t] = "runs" /\ InCall)
<1>1. t \in Workers => pc[t] = "runs" /\ InCall
  BY Counting DEF Runs, ExecutorInv, WorkersInCall, InCall
<1>2. caller # "outside"
  BY <1>1 DEF Runs, InCall, Threads
<1> QED
  BY <1>1, <1>2 DEF FrameInv, FrameInUse

(* A step of the executor leaves alone the workers that run a task.        *)
LEMMA RunnersStay ==
    ASSUME ExecutorInv, Executor
    PROVE  \A w \in Workers : pc[w] = "runs" => pc'[w] = "runs"
<1>1. ASSUME NEW v \in Workers, WorkerSteps(v), NEW w \in Workers, pc[w] = "runs"
      PROVE  pc'[w] = "runs"
  <2>1. UNCHANGED pc \/ (pc[v] # "runs" /\ \E place : pc' = [pc EXCEPT ![v] = place])
    BY <1>1 DEF WorkerSteps, Sleep, Leave, Join, Fetch, Catch, Report, Go
  <2> QED
    BY <1>1, <2>1, Kinds
<1>2. CASE CallerSteps \/ Wakes
  <2>1. UNCHANGED pc
    BY <1>2 DEF CallerSteps, Notify, AwaitDone, Return, Stop, NotifyStop, JoinAll, Wakes,
                WakeCaller, WakeWorker, workerVars
  <2> QED
    BY <2>1
<1> QED
  BY <1>1, <1>2 DEF Executor

(* Nobody calls the executor before the frame is built.                    *)
LEMMA CallerReady ==
    ASSUME FrameInv, Executor
    PROVE  caller' # "outside" => frame = "ready"
<1>1. CASE frame = "ready"
  BY <1>1
<1>2. CASE frame # "ready"
  <2>1. (\E w \in Workers : WorkerSteps(w)) \/ Wakes
    BY <1>2 DEF Executor
  <2>2. UNCHANGED caller
    BY <2>1 DEF WorkerSteps, Sleep, Leave, Join, Fetch, Catch, Report, callerVars, Wakes,
                WakeCaller, WakeWorker
  <2> QED
    BY <2>2 DEF FrameInv, FrameInUse
<1> QED
  BY <1>1, <1>2

(* Every step, of whatever thread, keeps the invariant of the frame.       *)
LEMMA FrameNext ==
    ASSUME ExecutorInv, FrameInv, [Next]_vars
    PROVE  FrameInv'
<1>1. CASE Ended \/ UNCHANGED vars
  <2>1. UNCHANGED <<coming, source, rows, keys_, edits, op, key_index, pc, frame, caller, keyed>>
    BY <1>1 DEF Ended, vars, frameVars, optionVars, storeVars, executorVars, workerVars, callerVars
  <2>2. FrameTyped'
    BY <2>1 DEF FrameInv, FrameTyped
  <2>3. FrameInUse'
    BY <2>1 DEF FrameInv, FrameInUse
  <2>4. FrameConsistent'
    BY <2>1 DEF FrameInv, FrameConsistent
  <2> QED
    BY <2>2, <2>3, <2>4 DEF FrameInv
<1>2. CASE Build
  BY <1>2, BuildKeeps
<1>3. CASE OwnerBegins \/ OwnerGoesOn
  <2>1. /\ frame = "ready" /\ caller = "outside" /\ ~InCall /\ Main \in Threads /\ Main \notin Workers
        /\ UNCHANGED <<pc, caller, source>>
    BY <1>3, Counting DEF OwnerBegins, OwnerGoesOn, Idle, InCall, Threads, executorVars,
                          workerVars, callerVars
  <2>2. ASSUME NEW i \in DOMAIN rows, LockRow(Main, i) PROVE FrameInv'
    BY <2>1, <2>2, LockRowKeeps
  <2>3. ASSUME NEW i \in DOMAIN rows, EraseAt(Main, i) PROVE FrameInv'
    <3>1. \A u \in Threads : op[u].doing # "setting"
      BY <2>1, <2>3, WorkersRest DEF EraseAt, AtRest, Threads
    <3> QED
      BY <2>1, <2>3, <3>1, EraseAtKeeps
  <2>4. CASE (\E k \in Keys : Lookup(Main, k)) \/ IndexRow(Main) \/ Find(Main)
    BY <2>1, <2>4, LookupsKeep
  <2>5. CASE SetCell(Main, 0, Nothing)
    BY <2>1, <2>5, SetCellKeeps
  <2> QED
    BY <1>3, <2>2, <2>3, <2>4, <2>5 DEF OwnerBegins, OwnerGoesOn
<1>4. CASE column_parallel_apply
  <2>1. /\ frame = "ready" /\ AtRest(Main) /\ Does(Main, Nothing)
        /\ UNCHANGED <<optionVars, coming, frame, storeVars, source>>
    BY <1>4 DEF column_parallel_apply, Idle
  <2>2. UNCHANGED pc
    BY <1>4 DEF column_parallel_apply, parallel_for, CallSerial, Publish, workerVars
  <2>3. Main \in Threads
    BY DEF Threads
  <2> QED
    BY <2>1, <2>2, <2>3, RestsKeep
<1>5. CASE Executor
  <2>1. /\ UNCHANGED <<coming, source, rows, keys_, edits, op, key_index, frame, keyed>>
        /\ \A w \in Workers : pc[w] = "runs" => pc'[w] = "runs"
        /\ caller' # "outside" => frame = "ready"
    BY <1>5, RunnersStay, CallerReady DEF Executor, frameVars, optionVars, storeVars
  <2>2. FrameTyped'
    BY <2>1 DEF FrameInv, FrameTyped
  <2>3. FrameInUse'
    BY <2>1 DEF FrameInv, FrameInUse
  <2>4. FrameConsistent'
    BY <2>1 DEF FrameInv, FrameConsistent
  <2> QED
    BY <2>2, <2>3, <2>4 DEF FrameInv
<1>6. ASSUME NEW t \in Threads, Callback(t) PROVE FrameInv'
  <2>1. Runs(t)
    BY <1>6 DEF Callback, CallbackEdits, CallbackLooksUp, CallbackReturns, CallbackThrows,
                TaskReturns, TaskThrows
  <2>2. frame = "ready" /\ (t \in Workers => pc[t] = "runs")
    BY <2>1, RunsReady
  <2>3. CASE CallbackEdits(t)
    <3>1. UNCHANGED <<pc, caller, source>>
      BY <2>3 DEF CallbackEdits, executorVars, workerVars, callerVars
    <3>2. ASSUME NEW i \in DOMAIN rows, LockRow(t, i) PROVE FrameInv'
      BY <2>2, <3>1, <3>2, LockRowKeeps
    <3>3. CASE SetCell(t, task_index[t], Acted)
      <4>1. task_index[t] \in Nat
        BY Kinds
      <4> QED
        BY <3>1, <3>3, <4>1, SetCellKeeps
    <3> QED
      BY <2>3, <3>2, <3>3 DEF CallbackEdits
  <2>4. CASE CallbackLooksUp(t)
    <3>1. UNCHANGED <<pc, caller, source>>
      BY <2>4 DEF CallbackLooksUp, executorVars, workerVars, callerVars
    <3>2. (\E k \in Keys : Lookup(t, k)) \/ IndexRow(t) \/ Find(t)
      BY <2>4 DEF CallbackLooksUp
    <3> QED
      BY <2>2, <3>1, <3>2, LookupsKeep
  <2>5. CASE CallbackReturns(t)
    <3>1. /\ AtRest(t) \/ op[t] = Acted
          /\ Does(t, Nothing) /\ TaskReturns(t)
          /\ UNCHANGED <<optionVars, coming, frame, storeVars, source>>
      BY <2>5 DEF CallbackReturns
    <3>2. \A w \in Workers : w # t /\ pc[w] = "runs" => pc'[w] = "runs"
      BY <3>1, Kinds DEF TaskReturns, Go
    <3> QED
      BY <2>2, <3>1, <3>2, RestsKeep
  <2>6. CASE CallbackThrows(t)
    <3>1. /\ op[t] = Nothing /\ TaskThrows(t)
          /\ UNCHANGED <<coming, source, rows, keys_, edits, op, key_index, frame, keyed>>
      BY <2>6 DEF CallbackThrows, frameVars, optionVars, storeVars
    <3>2. /\ \A w \in Workers : w # t /\ pc[w] = "runs" => pc'[w] = "runs"
          /\ op[t].doing = "nothing"
      BY <3>1, Kinds DEF TaskThrows, Go, Nothing
    <3>3. FrameTyped'
      BY <3>1 DEF FrameInv, FrameTyped
    <3>4. FrameInUse'
      BY <2>2, <3>1, <3>2 DEF FrameInv, FrameInUse
    <3>5. FrameConsistent'
      BY <3>1 DEF FrameInv, FrameConsistent
    <3> QED
      BY <3>3, <3>4, <3>5 DEF FrameInv
  <2> QED
    BY <1>6, <2>3, <2>4, <2>5, <2>6 DEF Callback
<1> QED
  BY <1>1, <1>2, <1>3, <1>4, <1>5, <1>6 DEF Next

(* A new frame has no rows.                                                *)
LEMMA FrameBegins ==
    ASSUME Init
    PROVE  FrameInv
<1>1. /\ caller = "outside" /\ frame = "building" /\ pc \in [Workers -> {"waits"}]
      /\ rows = <<>> /\ keys_ = <<>> /\ edits = <<>> /\ key_index = NoIndex
      /\ op = [t \in Threads |-> Nothing] /\ source = coming
  BY DEF Init, ExecutorInit, FrameInit
<1>2. coming \in Column
  BY SetupsAssumption DEF Init, FrameInit, Column
<1>3. DOMAIN NoIndex = {}
  BY DEF NoIndex
<1>4. FrameTyped
  BY <1>1, <1>2, <1>3 DEF FrameTyped, Doings
<1>5. FrameInUse
  BY <1>1 DEF FrameInUse, Nothing, Threads
<1>6. FrameConsistent
  BY <1>1 DEF FrameConsistent, IsInjective, Nothing
<1> QED
  BY <1>4, <1>5, <1>6 DEF FrameInv

(* The invariant holds of every state of a frame with its executor.        *)
THEOREM FrameInvariance == Spec => [](ExecutorInv /\ FrameInv)
<1>1. Init => ExecutorInv /\ FrameInv
  BY ExecutorBegins, FrameBegins DEF Init
<1>2. ExecutorInv /\ FrameInv /\ [Next]_vars => (ExecutorInv /\ FrameInv)'
  BY ExecutorNext, FrameNext
<1> QED
  BY <1>1, <1>2, PTL DEF Spec

(* The counters of the executor stay within bounds, no worker calls the    *)
(* function of a call outside that call, and the vectors of the frame stay *)
(* side by side under a lock per row.                                      *)
THEOREM FrameAndExecutorConsistent == Spec => []Consistent
<1>1. ExecutorInv /\ FrameInv => Consistent
  BY CountersHold DEF FrameInv, Consistent
<1> QED
  BY <1>1, FrameInvariance, PTL

-----------------------------------------------------------------------------
(* The index.  Where the callbacks look keys up only when there is an      *)
(* index, the owner alone builds it, between two calls, and it is complete *)
(* before anybody looks something up in it.                                *)
Indexing == op[Main].doing = "indexing"

IndexBuilt ==
    /\ \A t \in Threads : op[t].doing = "indexing" =>
           t = Main /\ caller = "outside" /\ keyed /\ op[t].row \in Nat \ {0}
    /\ \A t \in Threads : op[t].doing \in {"indexing", "finding"} => Missing \in DOMAIN key_index
    /\ key_index = NoIndex \/ Missing \in DOMAIN key_index
    /\ Missing \in DOMAIN key_index =>
           \A i \in DOMAIN keys_ :
               keys_[i] \in DOMAIN key_index \/ (Indexing /\ i >= op[Main].row)
    /\ \A x \in DOMAIN key_index \ {Missing} :
           key_index[x] \in DOMAIN keys_ /\ keys_[key_index[x]] = x

IndexInv == IndexBuilt /\ LookupsFindKeys

(* A key has one position. *)
LEMMA Positions ==
    ASSUME FrameInv
    PROVE  /\ \A i \in DOMAIN keys_ : PositionOf(keys_[i]) = i
           /\ \A k : (\A i \in DOMAIN keys_ : keys_[i] # k) => PositionOf(k) = 0
<1>1. \A i, j \in DOMAIN keys_ : keys_[i] = keys_[j] => i = j
  BY DEF FrameInv, FrameConsistent, IsInjective
<1> QED
  BY <1>1 DEF PositionOf, ToSet

(* What is not a lookup leaves the index and what was found as they are.   *)
LEMMA IndexAside ==
    ASSUME FrameInv, IndexInv, UNCHANGED <<keys_, key_index, keyed>>, op' \in [Threads -> Doings],
           \A t \in Threads : \/ op'[t] = op[t]
                              \/ op'[t].doing \in {"nothing", "acted", "setting"},
           Indexing => op'[Main] = op[Main] /\ caller' = caller
    PROVE  IndexInv'
<1>1. IndexBuilt /\ Main \in Threads
  BY DEF IndexInv, Threads
<1>2. \A t \in Threads : op'[t].doing \in {"indexing", "finding", "found"} => op'[t] = op[t]
  OBVIOUS
<1>3. \A t \in Threads : op'[t].doing = "indexing" =>
          t = Main /\ caller' = "outside" /\ keyed' /\ op'[t].row \in Nat \ {0}
  BY <1>1, <1>2 DEF IndexBuilt, Indexing
<1>4. \A t \in Threads : op'[t].doing \in {"indexing", "finding"} => Missing \in DOMAIN key_index'
  BY <1>1, <1>2 DEF IndexBuilt
<1>5. IndexBuilt'
  BY <1>1, <1>3, <1>4 DEF IndexBuilt, Indexing
<1>6. LookupsFindKeys'
  <2>1. \A t \in Threads : op[t].doing = "found" => op[t].position = PositionOf(op[t].key)
    BY DEF IndexInv, LookupsFindKeys
  <2>2. \A k : PositionOf(k)' = PositionOf(k)
    BY DEF PositionOf
  <2> QED
    BY ONLY <1>2, <2>1, <2>2 DEF LookupsFindKeys
<1> QED
  BY <1>5, <1>6 DEF IndexInv

(* Without an index there is nothing to be wrong.                          *)
LEMMA IndexGone ==
    ASSUME key_index' = NoIndex, \A t \in Threads : op'[t].doing = "nothing"
    PROVE  IndexInv'
<1>1. DOMAIN key_index' = {}
  BY DEF NoIndex
<1>2. \A t \in Threads : op'[t].doing \notin {"indexing", "finding", "found"}
  OBVIOUS
<1> QED
  BY <1>1, <1>2 DEF IndexInv, IndexBuilt, LookupsFindKeys

(* A lookup begins the index, or finds it complete.                        *)
LEMMA LookupIndexes ==
    ASSUME FrameInv, IndexInv, NEW t \in Threads, NEW k \in Keys, Lookup(t, k),
           key_index = NoIndex => t = Main /\ caller = "outside", ~Indexing, UNCHANGED caller
    PROVE  IndexInv'
<1>1. IndexBuilt /\ LookupsFindKeys /\ Main \in Threads
  BY DEF IndexInv, Threads
<1>2. AtRest(t) /\ keyed /\ UNCHANGED <<keys_, keyed>>
  BY DEF Lookup, optionVars
<1>3. CASE key_index = NoIndex
  <2>1. /\ key_index' = [x \in {Missing} |-> 0] /\ t = Main
        /\ op' = [op EXCEPT ![Main] = [doing |-> "indexing", key |-> k, row |-> 1]]
    BY <1>3 DEF Lookup, Does
  <2>2. DOMAIN key_index' = {Missing} /\ Missing \notin DOMAIN key_index
    BY <1>3, <2>1 DEF NoIndex
  <2>3. /\ op'[Main].doing = "indexing" /\ op'[Main].row = 1
        /\ \A u \in Threads : u # Main => op'[u] = op[u] /\ op[u].doing \notin {"indexing", "finding"}
    BY <1>1, <2>1, <2>2, OpKinds DEF IndexBuilt
  <2>4. \A i \in DOMAIN keys_ : i >= 1
    BY DEF FrameInv, FrameTyped
  <2>5. IndexBuilt'
    BY <1>2, <1>3, <2>2, <2>3, <2>4 DEF IndexBuilt, Indexing
  <2>6. LookupsFindKeys'
    BY <1>1, <1>2, <2>3 DEF LookupsFindKeys, PositionOf
  <2> QED
    BY <2>5, <2>6 DEF IndexInv
<1>4. CASE key_index # NoIndex
  <2>1. /\ UNCHANGED key_index
        /\ op' = [op EXCEPT ![t] = [doing |-> "finding", key |-> k]]
    BY <1>4 DEF Lookup, Does
  <2>2. /\ op'[t].doing = "finding" /\ \A u \in Threads : u # t => op'[u] = op[u]
        /\ Missing \in DOMAIN key_index
    BY <1>1, <1>4, <2>1, OpKinds DEF IndexBuilt
  <2>3. op'[Main].doing # "indexing"
    BY <1>1, <2>2 DEF Indexing
  <2>4. IndexBuilt'
    BY <1>1, <1>2, <2>1, <2>2, <2>3 DEF IndexBuilt, Indexing
  <2>5. LookupsFindKeys'
    BY <1>1, <1>2, <2>2 DEF LookupsFindKeys, PositionOf
  <2> QED
    BY <2>4, <2>5 DEF IndexInv
<1> QED
  BY <1>3, <1>4

(* The owner enters a row in the index, or has entered them all.           *)
LEMMA IndexRowIndexes ==
    ASSUME FrameInv, IndexInv, NEW t \in Threads, IndexRow(t), UNCHANGED caller
    PROVE  IndexInv'
<1>1. IndexBuilt /\ LookupsFindKeys /\ op[t].doing = "indexing" /\ UNCHANGED <<keys_, keyed>>
  BY DEF IndexInv, IndexRow, optionVars
<1>2. /\ t = Main /\ caller = "outside" /\ keyed /\ op[Main].row \in Nat \ {0}
      /\ Missing \in DOMAIN key_index
  BY <1>1 DEF IndexBuilt
<1>3. /\ op[Main] \in [doing : {"indexing"}, key : Keys, row : Nat]
      /\ Len(keys_) = Len(rows) /\ Len(rows) \in Nat /\ keys_ \in Seq(Keys)
  BY <1>1, <1>2, OpKinds DEF FrameInv, FrameConsistent, FrameTyped
<1>4. CASE op[Main].row <= Len(rows)
  <2> DEFINE r == op[Main].row
             what == [op[Main] EXCEPT !.row = @ + 1]
  <2>1. /\ key_index' = [x \in DOMAIN key_index \cup {keys_[r]} |->
                            IF x = keys_[r] THEN r ELSE key_index[x]]
        /\ op' = [op EXCEPT ![Main] = what]
    BY <1>2, <1>4 DEF IndexRow, Does
  <2>2. what.doing = "indexing" /\ what.row = r + 1 /\ r \in DOMAIN keys_
    BY ONLY <1>2, <1>3, <1>4
  <2> HIDE DEF what
  <2>3. /\ op'[Main].doing = "indexing" /\ op'[Main].row = r + 1
        /\ \A u \in Threads : u # Main => op'[u] = op[u]
    BY <2>1, <2>2, OpKinds DEF Threads
  <2>4. /\ DOMAIN key_index' = DOMAIN key_index \cup {keys_[r]}
        /\ \A x \in DOMAIN key_index' : key_index'[x] = IF x = keys_[r] THEN r ELSE key_index[x]
    BY ONLY <2>1
  <2>5. \A i \in DOMAIN keys_ : i >= r => i = r \/ i >= r + 1
    BY ONLY <1>2, <1>3
  <2>6. \A i \in DOMAIN keys_ : keys_[i] \in DOMAIN key_index' \/ i >= r + 1
    BY <1>1, <1>2, <2>4, <2>5 DEF IndexBuilt, Indexing
  <2>7. \A x \in DOMAIN key_index' \ {Missing} :
           key_index'[x] \in DOMAIN keys_ /\ keys_[key_index'[x]] = x
    BY <1>1, <2>2, <2>4 DEF IndexBuilt
  <2>8. \A u \in Threads : op'[u].doing = "indexing" =>
            u = Main /\ caller' = "outside" /\ keyed' /\ op'[u].row \in Nat \ {0}
    BY <1>1, <1>2, <2>3 DEF IndexBuilt
  <2>9. IndexBuilt'
    BY <1>1, <1>2, <2>3, <2>4, <2>6, <2>7, <2>8 DEF IndexBuilt, Indexing
  <2>10. LookupsFindKeys'
    <3>1. \A k : PositionOf(k)' = PositionOf(k)
      BY <1>1 DEF PositionOf
    <3> QED
      BY ONLY <1>1, <2>3, <3>1 DEF LookupsFindKeys
  <2> QED
    BY <2>9, <2>10 DEF IndexInv
<1>5. CASE ~(op[Main].row <= Len(rows))
  <2>1. /\ UNCHANGED key_index
        /\ op' = [op EXCEPT ![Main] = [doing |-> "finding", key |-> op[Main].key]]
    BY <1>2, <1>5 DEF IndexRow, Does
  <2>2. /\ op'[Main].doing = "finding" /\ \A u \in Threads : u # Main => op'[u] = op[u]
    BY <2>1, OpKinds DEF Threads
  <2>3. \A i \in DOMAIN keys_ : ~(i >= op[Main].row)
    BY ONLY <1>2, <1>3, <1>5
  <2>4. \A i \in DOMAIN keys_ : keys_[i] \in DOMAIN key_index
    BY <1>1, <1>2, <2>3 DEF IndexBuilt
  <2>5. IndexBuilt'
    BY <1>1, <1>2, <2>1, <2>2, <2>4 DEF IndexBuilt, Indexing
  <2>6. LookupsFindKeys'
    BY <1>1, <2>2 DEF LookupsFindKeys, PositionOf
  <2> QED
    BY <2>5, <2>6 DEF IndexInv
<1> QED
  BY <1>4, <1>5

(* What a thread finds in a complete index is right.                       *)
LEMMA FindFinds ==
    ASSUME FrameInv, IndexInv, NEW t \in Threads, Find(t), ~Indexing, UNCHANGED caller
    PROVE  IndexInv'
<1> DEFINE k == op[t].key
           p == IF k \in DOMAIN key_index THEN key_index[k] ELSE 0
<1>1. /\ IndexBuilt /\ LookupsFindKeys /\ op[t].doing = "finding"
      /\ UNCHANGED <<keys_, keyed, key_index>>
      /\ op' = [op EXCEPT ![t] = [doing |-> "found", key |-> k, position |-> p]]
  BY DEF IndexInv, Find, Does, optionVars, storeVars
<1>2. Missing \in DOMAIN key_index /\ k \in Keys /\ k # Missing
  BY <1>1, OpKinds, SetupsAssumption DEF IndexBuilt
<1>3. /\ op'[t].doing = "found" /\ op'[t].key = k /\ op'[t].position = p
      /\ \A u \in Threads : u # t => op'[u] = op[u]
  BY <1>1, OpKinds
<1>4. p = PositionOf(k)
  <2>1. CASE k \in DOMAIN key_index
    <3>1. key_index[k] \in DOMAIN keys_ /\ keys_[key_index[k]] = k
      BY <1>1, <1>2, <2>1 DEF IndexBuilt
    <3> QED
      BY <2>1, <3>1, Positions
  <2>2. CASE k \notin DOMAIN key_index
    <3>1. \A i \in DOMAIN keys_ : keys_[i] # k
      BY <1>1, <1>2, <2>2 DEF IndexBuilt
    <3> QED
      BY <2>2, <3>1, Positions
  <2> QED
    BY <2>1, <2>2
<1> HIDE DEF k, p
<1>5. op'[Main].doing # "indexing"
  BY <1>3 DEF Indexing, Threads
<1>6. IndexBuilt'
  BY <1>1, <1>2, <1>3, <1>5 DEF IndexBuilt, Indexing
<1>7. LookupsFindKeys'
  <2>1. ASSUME NEW u \in Threads, op'[u].doing = "found"
        PROVE  op'[u].position = PositionOf(op'[u].key)
    BY <1>1, <1>3, <1>4, <2>1 DEF LookupsFindKeys
  <2> QED
    BY <1>1, <2>1 DEF LookupsFindKeys, PositionOf
<1> QED
  BY <1>6, <1>7 DEF IndexInv

(* While the owner builds the index no other thread is at work, and the    *)
(* owner is not in a callback.                                             *)
LEMMA OwnerIndexes ==
    ASSUME ExecutorInv, IndexInv, Indexing
    PROVE  caller = "outside" /\ \A t \in Threads : ~Runs(t)
<1>1. caller = "outside"
  BY DEF IndexInv, IndexBuilt, Indexing, Threads
<1> QED
  BY <1>1 DEF ExecutorInv, WorkersInCall, Runs, Threads

(* Every step, of whatever thread, keeps the index and what was found.     *)
LEMMA IndexNext ==
    ASSUME ~ColdLookups, ExecutorInv, FrameInv, IndexInv, [Next]_vars, FrameInv'
    PROVE  IndexInv'
<1>1. Main \in Threads /\ op' \in [Threads -> Doings]
  BY DEF Threads, FrameInv, FrameTyped
<1>2. CASE Ended \/ UNCHANGED vars
  <2>1. UNCHANGED <<keys_, key_index, keyed, op, caller>>
    BY <1>2 DEF Ended, vars, frameVars, optionVars, storeVars, executorVars, callerVars
  <2> QED
    BY <1>1, <2>1, IndexAside
<1>3. CASE Build
  <2>1. UNCHANGED <<key_index, op>> /\ frame = "building"
    BY <1>3 DEF Build, BuildRow, Built, storeVars
  <2>2. key_index = NoIndex /\ \A t \in Threads : op[t].doing = "nothing"
    BY <2>1 DEF FrameInv, FrameInUse, Nothing
  <2> QED
    BY <2>1, <2>2, IndexGone
<1>4. CASE OwnerBegins \/ OwnerGoesOn
  <2>1. caller = "outside" /\ ~InCall /\ UNCHANGED caller
    BY <1>4 DEF OwnerBegins, OwnerGoesOn, Idle, InCall, executorVars, callerVars
  <2>2. \A w \in Workers : op[w].doing = "nothing"
    BY <2>1, WorkersRest
  <2>3. ASSUME NEW i \in DOMAIN rows, LockRow(Main, i) PROVE IndexInv'
    <3>1. ~Indexing /\ UNCHANGED <<keys_, key_index, keyed>>
      BY <2>3 DEF LockRow, AtRest, Indexing, optionVars
    <3>2. \A t \in Threads : op'[t] = op[t] \/ op'[t].doing \in {"nothing", "acted", "setting"}
      BY <2>3, OpKinds DEF LockRow, Does
    <3> QED
      BY <1>1, <3>1, <3>2, IndexAside
  <2>4. ASSUME NEW i \in DOMAIN rows, EraseAt(Main, i) PROVE IndexInv'
    <3>1. key_index' = NoIndex /\ op' = [op EXCEPT ![Main] = Nothing]
      BY <2>4 DEF EraseAt, Does
    <3>2. \A t \in Threads : op'[t].doing = "nothing"
      BY <1>1, <2>2, <3>1, OpKinds DEF Nothing, Threads
    <3> QED
      BY <3>1, <3>2, IndexGone
  <2>5. ASSUME NEW k \in Keys, Lookup(Main, k) PROVE IndexInv'
    <3>1. ~Indexing
      BY <2>5 DEF Lookup, AtRest, Indexing
    <3> QED
      BY <1>1, <2>1, <2>5, <3>1, LookupIndexes
  <2>6. CASE IndexRow(Main)
    BY <1>1, <2>1, <2>6, IndexRowIndexes
  <2>7. CASE Find(Main)
    <3>1. ~Indexing
      BY <2>7 DEF Find, Indexing
    <3> QED
      BY <1>1, <2>1, <2>7, <3>1, FindFinds
  <2>8. CASE SetCell(Main, 0, Nothing)
    <3>1. ~Indexing /\ UNCHANGED <<keys_, key_index, keyed>>
      BY <2>8 DEF SetCell, Indexing, optionVars
    <3>2. \A t \in Threads : op'[t] = op[t] \/ op'[t].doing \in {"nothing", "acted", "setting"}
      BY <2>8, OpKinds DEF SetCell, Does, Nothing
    <3> QED
      BY <1>1, <3>1, <3>2, IndexAside
  <2> QED
    BY <1>4, <2>3, <2>4, <2>5, <2>6, <2>7, <2>8 DEF OwnerBegins, OwnerGoesOn
<1>5. CASE column_parallel_apply
  <2>1. AtRest(Main) /\ Does(Main, Nothing) /\ UNCHANGED <<keys_, key_index, keyed>>
    BY <1>5 DEF column_parallel_apply, optionVars, storeVars
  <2>2. ~Indexing
    BY <2>1 DEF AtRest, Indexing
  <2>3. \A t \in Threads : op'[t] = op[t] \/ op'[t].doing \in {"nothing", "acted", "setting"}
    BY <2>1, OpKinds DEF Does, Nothing
  <2> QED
    BY <1>1, <2>1, <2>2, <2>3, IndexAside
<1>6. CASE Executor
  <2>1. UNCHANGED <<op, keys_, key_index, keyed>>
    BY <1>6 DEF Executor, frameVars, optionVars, storeVars
  <2>2. Indexing => UNCHANGED caller
    <3>1. CASE AtRest(Main)
      BY <3>1 DEF AtRest, Indexing
    <3>2. CASE (\E w \in Workers : WorkerSteps(w)) \/ Wakes
      BY <3>2 DEF WorkerSteps, Sleep, Leave, Join, Fetch, Catch, Report, callerVars, Wakes,
                  WakeCaller, WakeWorker
    <3> QED
      BY <1>6, <3>1, <3>2 DEF Executor
  <2> QED
    BY <1>1, <2>1, <2>2, IndexAside
<1>7. ASSUME NEW t \in Threads, Callback(t) PROVE IndexInv'
  <2>1. Runs(t)
    BY <1>7 DEF Callback, CallbackEdits, CallbackLooksUp, CallbackReturns, CallbackThrows,
                TaskReturns, TaskThrows
  <2>2. ~Indexing
    BY <2>1, OwnerIndexes
  <2>3. CASE CallbackEdits(t)
    <3>1. UNCHANGED <<keys_, key_index, keyed>>
      BY <2>3 DEF CallbackEdits, LockRow, SetCell, optionVars
    <3>2. \A u \in Threads : op'[u] = op[u] \/ op'[u].doing \in {"nothing", "acted", "setting"}
      BY <2>3, OpKinds DEF CallbackEdits, LockRow, SetCell, Does, Acted
    <3> QED
      BY <1>1, <2>2, <3>1, <3>2, IndexAside
  <2>4. CASE CallbackLooksUp(t)
    <3>1. UNCHANGED caller
      BY <2>4 DEF CallbackLooksUp, executorVars, callerVars
    <3>2. ASSUME key_index # NoIndex, NEW k \in Keys, Lookup(t, k) PROVE IndexInv'
      BY <2>2, <3>1, <3>2, LookupIndexes
    <3>3. CASE IndexRow(t)
      BY <3>1, <3>3, IndexRowIndexes
    <3>4. CASE Find(t)
      BY <2>2, <3>1, <3>4, FindFinds
    <3> QED
      BY <2>4, <3>2, <3>3, <3>4 DEF CallbackLooksUp
  <2>5. CASE CallbackReturns(t)
    <3>1. UNCHANGED <<keys_, key_index, keyed>> /\ Does(t, Nothing)
      BY <2>5 DEF CallbackReturns, optionVars, storeVars
    <3>2. \A u \in Threads : op'[u] = op[u] \/ op'[u].doing \in {"nothing", "acted", "setting"}
      BY <3>1, OpKinds DEF Does, Nothing
    <3> QED
      BY <1>1, <2>2, <3>1, <3>2, IndexAside
  <2>6. CASE CallbackThrows(t)
    <3>1. UNCHANGED <<keys_, key_index, keyed, op>>
      BY <2>6 DEF CallbackThrows, frameVars, optionVars, storeVars
    <3> QED
      BY <1>1, <2>2, <3>1, IndexAside
  <2> QED
    BY <1>7, <2>3, <2>4, <2>5, <2>6 DEF Callback
<1> QED
  BY <1>2, <1>3, <1>4, <1>5, <1>6, <1>7 DEF Next

(* When the callbacks look keys up only once the index exists, a lookup    *)
(* finds the row of its key, and no other: without that assumption it does *)
(* not, because the callback that builds the index shares it half built.   *)
THEOREM LookupsFindTheirKeys ==
    ASSUME ~ColdLookups
    PROVE  Spec => []LookupsFindKeys
<1>1. Init => IndexInv
  <2>1. ASSUME Init PROVE IndexInv
    <3>1. key_index = NoIndex /\ \A t \in Threads : op[t].doing = "nothing"
      BY <2>1 DEF Init, FrameInit, Nothing
    <3>2. DOMAIN key_index = {}
      BY <3>1 DEF NoIndex
    <3> QED
      BY <3>1, <3>2 DEF IndexInv, IndexBuilt, LookupsFindKeys
  <2> QED
    BY <2>1
<1>2. ExecutorInv /\ FrameInv /\ IndexInv /\ [Next]_vars /\ FrameInv' => IndexInv'
  BY IndexNext
<1>3. IndexInv => LookupsFindKeys
  BY DEF IndexInv
<1> QED
  BY <1>1, <1>2, <1>3, FrameInvariance, PTL DEF Spec
-----------------------------------------------------------------------------
(* The numbers of a sequence: they are typed, and another element adds one. *)
LEMMA Numbered ==
    ASSUME NEW S, NEW keys \in Seq(S), NEW k \in S
    PROVE  /\ [n \in DOMAIN keys |-> n] \in Seq(Nat)
           /\ ToSet([n \in DOMAIN keys |-> n]) = DOMAIN keys
           /\ [n \in DOMAIN Append(keys, k) |-> n] = Append([n \in DOMAIN keys |-> n], Len(keys) + 1)
<1> DEFINE s == [n \in DOMAIN keys |-> n]
           t == [n \in DOMAIN Append(keys, k) |-> n]
<1>1. DOMAIN keys = 1..Len(keys) /\ Len(keys) \in Nat
  OBVIOUS
<1>2. s \in Seq(Nat) /\ Len(s) = Len(keys) /\ \A n \in 1..Len(keys) : s[n] = n
  BY <1>1
<1>3. ToSet(s) = DOMAIN keys
  BY <1>1 DEF ToSet
<1>4. t = [n \in 1..(Len(keys) + 1) |-> n]
  BY <1>1
<1>5. t \in Seq(Nat) /\ Len(t) = Len(keys) + 1 /\ \A n \in 1..(Len(keys) + 1) : t[n] = n
  BY <1>1, <1>4
<1> HIDE DEF s, t
<1>6. /\ Append(s, Len(keys) + 1) \in Seq(Nat) /\ Len(Append(s, Len(keys) + 1)) = Len(keys) + 1
      /\ \A n \in 1..(Len(keys) + 1) : Append(s, Len(keys) + 1)[n] = n
  BY <1>1, <1>2
<1>7. t = Append(s, Len(keys) + 1)
  BY <1>5, <1>6, SeqEqual
<1> QED
  BY <1>2, <1>3, <1>7 DEF s, t

(* The first occurrences: each key has one, and another key adds one.      *)
LEMMA Firsts ==
    ASSUME NEW S, NEW keys \in Seq(S), NEW k \in S
    PROVE  /\ Table!FirstsOf(keys) \in Seq(Nat)
           /\ ToSet(Table!FirstsOf(keys)) \subseteq DOMAIN keys
           /\ \A j \in DOMAIN keys :
                  \E n \in ToSet(Table!FirstsOf(keys)) : keys[n] = keys[j]
           /\ Table!FirstsOf(Append(keys, k)) =
                  IF k \in ToSet(keys) THEN Table!FirstsOf(keys)
                  ELSE Append(Table!FirstsOf(keys), Len(keys) + 1)
<1> DEFINE more == Append(keys, k)
           F == {n \in DOMAIN keys : \A m \in 1..(n - 1) : keys[m] # keys[n]}
           G == {n \in DOMAIN more : \A m \in 1..(n - 1) : more[m] # more[n]}
           s == [n \in DOMAIN keys |-> n]
           l == Len(keys) + 1
<1>1. /\ DOMAIN keys = 1..Len(keys) /\ Len(keys) \in Nat /\ DOMAIN more = 1..l /\ more[l] = k
      /\ \A n \in 1..Len(keys) : more[n] = keys[n]
  OBVIOUS
<1>2. s \in Seq(Nat) /\ ToSet(s) = DOMAIN keys /\ [n \in DOMAIN more |-> n] = Append(s, l)
  BY Numbered
<1>3. Table!FirstsOf(keys) = Table!Selected(s, F) /\ Table!FirstsOf(more) = Table!Selected(Append(s, l), G)
  BY <1>2 DEF Table!FirstsOf
<1>4. F \subseteq DOMAIN keys
  OBVIOUS
<1>5. \A n \in 1..Len(keys) : n \in F <=> n \in G
  BY <1>1
<1>6. l \in G <=> k \notin ToSet(keys)
  <2>1. l \in G <=> \A m \in 1..(l - 1) : more[m] # more[l]
    BY <1>1
  <2>2. k \in ToSet(keys) <=> \E m \in 1..Len(keys) : keys[m] = k
    BY <1>1 DEF ToSet
  <2> QED
    BY <1>1, <2>1, <2>2
<1>7. \A j \in DOMAIN keys : \E n \in F : keys[n] = keys[j]
  <2> TAKE j \in DOMAIN keys
  <2> DEFINE T == {n \in DOMAIN keys : keys[n] = keys[j]}
  <2>1. T \in SUBSET Nat /\ T # {}
    BY <1>1
  <2>2. PICK n \in T : \A m \in T : n <= m
    <3> HIDE DEF T
    <3> QED
      BY <2>1, Table!LeastNumber
  <2>3. \A m \in 1..(n - 1) : keys[m] # keys[n]
    BY <1>1, <2>2
  <2> QED
    BY <2>2, <2>3
<1> HIDE DEF s, F, G, l, more
<1>8. /\ Table!Selected(s, F) \in Seq(Nat)
      /\ ToSet(Table!Selected(s, F)) = ToSet(s) \cap F
  <2>1. Table!ToSet(Table!Selected(s, F)) = Table!ToSet(s) \cap F
    BY <1>2, Table!SelectedElements
  <2> QED
    BY <2>1, <1>2, Table!SelectedElements DEF ToSet, Table!ToSet
<1>9. Table!Selected(s, G) = Table!Selected(s, F)
  <2>1. Table!ToSet(s) \cap G = Table!ToSet(s) \cap F
    BY <1>1, <1>2, <1>5 DEF ToSet, Table!ToSet
  <2> QED
    BY <2>1, <1>2, Table!SelectedAgree
<1>10. Table!Selected(Append(s, l), G) =
           IF l \in G THEN Append(Table!Selected(s, F), l) ELSE Table!Selected(s, F)
  <2>1. l \in Nat
    BY <1>1 DEF l
  <2> QED
    <3>1. Table!Selected(Append(s, l), G) =
              IF l \in G THEN Append(Table!Selected(s, G), l) ELSE Table!Selected(s, G)
      BY ONLY <2>1, <1>2, Table!SelectedAppend, ZenonT(60)
    <3> QED
      BY ONLY <3>1, <1>9, ZenonT(60)
<1>11. ToSet(Table!FirstsOf(keys)) = F
  BY <1>2, <1>3, <1>4, <1>8
<1> QED
  BY <1>3, <1>6, <1>7, <1>8, <1>10, <1>11, <1>4 DEF l, more

(* The last occurrence of a key moves only when the key comes.             *)
LEMMA LastOccurrence ==
    ASSUME NEW S, NEW keys \in Seq(S), NEW k \in S
    PROVE  /\ Table!Max(Table!Occurrences(k, Append(keys, k))) = Len(keys) + 1
           /\ \A j : j # k => Table!Occurrences(j, Append(keys, k)) = Table!Occurrences(j, keys)
<1> DEFINE more == Append(keys, k)
           T == Table!Occurrences(k, more)
           l == Len(keys) + 1
<1>1. /\ DOMAIN keys = 1..Len(keys) /\ Len(keys) \in Nat /\ DOMAIN more = 1..l /\ more[l] = k
      /\ \A n \in 1..Len(keys) : more[n] = keys[n]
  OBVIOUS
<1>2. l \in T /\ \A n \in T : n \in Nat /\ l >= n
  BY <1>1 DEF Table!Occurrences
<1>3. Table!Max(T) = l
  <2> HIDE DEF T, l
  <2>1. \A n \in T : (\A m \in T : n >= m) => n = l
    BY <1>1, <1>2
  <2> QED
    BY <1>2, <2>1 DEF Table!Max
<1>4. \A j : j # k => Table!Occurrences(j, more) = Table!Occurrences(j, keys)
  BY <1>1 DEF Table!Occurrences
<1> QED
  BY <1>3, <1>4
(* What the table is with one key more.                                    *)
NewRecord(k, number) == [key |-> k, row |-> number, cells |-> {}]

LEMMA TableGrows ==
    ASSUME NEW S, NEW keys \in Seq(S), NEW k \in S,
           NEW old, old = Table!TableOf(keys), NEW new, new = Table!TableOf(Append(keys, k))
    PROVE  /\ DOMAIN old = 1..Len(Table!FirstsOf(keys)) /\ Len(Table!FirstsOf(keys)) \in Nat
           /\ new = [i \in DOMAIN new |-> new[i]]
           /\ \A i \in DOMAIN old : old[i].cells = {}
           /\ {old[i].key : i \in DOMAIN old} = ToSet(keys)
           /\ k \notin ToSet(keys) =>
                  /\ DOMAIN new = 1..(Len(Table!FirstsOf(keys)) + 1)
                  /\ \A i \in DOMAIN old : new[i] = old[i]
                  /\ new[Len(Table!FirstsOf(keys)) + 1] = NewRecord(k, Len(keys) + 1)
           /\ k \in ToSet(keys) =>
                  /\ DOMAIN new = DOMAIN old
                  /\ \A i \in DOMAIN old :
                        new[i] = IF policy = "OVERWRITE" /\ old[i].key = k
                                 THEN NewRecord(k, Len(keys) + 1) ELSE old[i]
<1> DEFINE more == Append(keys, k)
           f == Table!FirstsOf(keys)
           g == Table!FirstsOf(more)
           l == Len(keys) + 1
           Of(j, s) == IF policy = "OVERWRITE" THEN Table!Max(Table!Occurrences(s[j], s)) ELSE j
           Entries(s, h) == [i \in DOMAIN h |-> [key |-> s[h[i]], row |-> Of(h[i], s), cells |-> {}]]
<1>1. /\ DOMAIN keys = 1..Len(keys) /\ Len(keys) \in Nat /\ DOMAIN more = 1..l /\ more[l] = k
      /\ \A n \in 1..Len(keys) : more[n] = keys[n]
  OBVIOUS
<1>2. /\ f \in Seq(Nat) /\ ToSet(f) \subseteq DOMAIN keys
      /\ \A j \in DOMAIN keys : \E n \in ToSet(f) : keys[n] = keys[j]
      /\ g = IF k \in ToSet(keys) THEN f ELSE Append(f, l)
  BY Firsts
<1>3. old = Entries(keys, f) /\ new = Entries(more, g)
  BY DEF Table!TableOf
<1>4. \A j \in DOMAIN keys : more[j] = keys[j] /\ Of(j, more) =
          IF policy = "OVERWRITE" /\ keys[j] = k THEN l ELSE Of(j, keys)
  BY <1>1, LastOccurrence
<1>5. policy # "OVERWRITE" => \A j : Of(j, more) = j /\ Of(j, keys) = j
  OBVIOUS
<1>6. Of(l, more) = l
  BY <1>1, LastOccurrence
<1> HIDE DEF Of, f, g, more, l
<1>7. /\ DOMAIN old = DOMAIN f /\ DOMAIN new = DOMAIN g
      /\ \A i \in DOMAIN f : old[i] = [key |-> keys[f[i]], row |-> Of(f[i], keys), cells |-> {}]
      /\ \A i \in DOMAIN g : new[i] = [key |-> more[g[i]], row |-> Of(g[i], more), cells |-> {}]
      /\ new = [i \in DOMAIN new |-> new[i]]
  BY <1>3
<1>8. DOMAIN f = 1..Len(f) /\ Len(f) \in Nat /\ \A i \in DOMAIN f : f[i] \in DOMAIN keys
  <2>1. \A i \in DOMAIN f : f[i] \in ToSet(f)
    BY DEF ToSet
  <2> QED
    BY <1>2, <2>1
<1>9. {old[i].key : i \in DOMAIN old} = ToSet(keys)
  <2>1. ASSUME NEW x \in ToSet(keys) PROVE \E i \in DOMAIN old : old[i].key = x
    <3>1. PICK j \in DOMAIN keys : keys[j] = x
      BY <2>1 DEF ToSet
    <3>2. PICK n \in ToSet(f) : keys[n] = keys[j]
      BY <1>2
    <3>3. PICK i \in DOMAIN f : f[i] = n
      BY DEF ToSet
    <3> QED
      BY <1>7, <3>1, <3>2, <3>3
  <2>2. ASSUME NEW i \in DOMAIN old PROVE old[i].key \in ToSet(keys)
    BY <1>7, <1>8 DEF ToSet
  <2> QED
    BY <2>1, <2>2
<1>10. ASSUME k \notin ToSet(keys)
       PROVE  /\ DOMAIN new = 1..(Len(f) + 1) /\ \A i \in DOMAIN old : new[i] = old[i]
              /\ new[Len(f) + 1] = NewRecord(k, l)
  <2>1. g = Append(f, l)
    BY <1>2, <1>10
  <2>2. DOMAIN g = 1..(Len(f) + 1) /\ g[Len(f) + 1] = l /\ \A i \in DOMAIN f : g[i] = f[i]
    BY <1>2, <1>8, <2>1
  <2>3. \A j \in DOMAIN keys : keys[j] # k
    BY <1>10 DEF ToSet
  <2>4. ASSUME NEW i \in DOMAIN old PROVE new[i] = old[i]
    <3>1. i \in DOMAIN f /\ i \in DOMAIN g /\ g[i] = f[i] /\ f[i] \in DOMAIN keys
      BY <1>7, <1>8, <2>2
    <3>2. more[f[i]] = keys[f[i]] /\ Of(f[i], more) = Of(f[i], keys)
      BY <1>4, <2>3, <3>1
    <3>3. /\ old[i] = [key |-> keys[f[i]], row |-> Of(f[i], keys), cells |-> {}]
          /\ new[i] = [key |-> more[f[i]], row |-> Of(f[i], more), cells |-> {}]
      BY <1>7, <3>1
    <3> QED
      BY ONLY <3>2, <3>3
  <2>5. new[Len(f) + 1] = NewRecord(k, l)
    <3>1. Len(f) + 1 \in DOMAIN g
      BY <1>8, <2>2
    <3> QED
      BY ONLY <1>1, <1>6, <1>7, <2>2, <3>1 DEF NewRecord
  <2> QED
    BY <1>7, <2>2, <2>4, <2>5
<1>11. ASSUME k \in ToSet(keys)
       PROVE  /\ DOMAIN new = DOMAIN old
              /\ \A i \in DOMAIN old :
                    new[i] = IF policy = "OVERWRITE" /\ old[i].key = k
                             THEN NewRecord(k, l) ELSE old[i]
  <2>1. g = f
    BY <1>2, <1>11
  <2>2. ASSUME NEW i \in DOMAIN old
        PROVE  new[i] = IF policy = "OVERWRITE" /\ old[i].key = k
                        THEN NewRecord(k, l) ELSE old[i]
    <3>1. i \in DOMAIN f /\ i \in DOMAIN g /\ g[i] = f[i] /\ f[i] \in DOMAIN keys
      BY <1>7, <1>8, <2>1
    <3>2. /\ old[i] = [key |-> keys[f[i]], row |-> Of(f[i], keys), cells |-> {}]
          /\ new[i] = [key |-> keys[f[i]], row |-> Of(f[i], more), cells |-> {}]
          /\ Of(f[i], more) = IF policy = "OVERWRITE" /\ keys[f[i]] = k THEN l ELSE Of(f[i], keys)
      BY <1>4, <1>7, <3>1
    <3>3. old[i].key = keys[f[i]]
      BY ONLY <3>2
    <3>4. CASE policy = "OVERWRITE" /\ keys[f[i]] = k
      BY ONLY <3>2, <3>3, <3>4 DEF NewRecord
    <3>5. CASE ~(policy = "OVERWRITE" /\ keys[f[i]] = k)
      BY ONLY <3>2, <3>3, <3>5
    <3> QED
      BY <3>4, <3>5
  <2> QED
    BY <1>7, <2>1, <2>2
<1> QED
  BY <1>7, <1>8, <1>9, <1>10, <1>11 DEF f, l

(* The table.  The reader yields the source in its order, what is built so *)
(* far is the table of the keys that came, and a thread that holds a lock  *)
(* has the values of the overlay it locked.                                *)
SourceKept ==
    /\ Len(coming) <= Len(source)
    /\ \A j \in 1..Len(coming) : coming[j] = source[Len(source) - Len(coming) + j]

TableBuilt == frame = "building" => Records = Table!TableOf(LoadedKeys)

CopiesKept ==
    \A t \in Threads : op[t].doing = "setting" => op[t].copy = edits[op[t].row].values

TableInv == SourceKept /\ TableBuilt /\ CopiesKept

(* A row that comes adds its key to those that came.                       *)
LEMMA KeyComes ==
    ASSUME FrameInv, SourceKept, coming # <<>>, coming' = Tail(coming),
           UNCHANGED <<source, keyed>>
    PROVE  /\ SourceKept'
           /\ LoadedKeys \in Seq(Keys \cup Nat)
           /\ Len(LoadedKeys) + 1 = RowNumber(source)
           /\ LoadedKeys' = Append(LoadedKeys, IF keyed THEN NextKey ELSE RowNumber(source))
           /\ (IF keyed THEN NextKey ELSE RowNumber(source)) \in Keys \cup Nat
           /\ keyed => NextKey \in Keys
           /\ ~keyed => LoadedKeys = [n \in 1..(RowNumber(source) - 1) |-> n]
<1> DEFINE n == Len(source) - Len(coming)
           KeyAt(i) == IF ~keyed THEN i ELSE IF source[i] = Missing THEN DefaultKey ELSE source[i]
           k == IF keyed THEN NextKey ELSE RowNumber(source)
           S == Keys \cup Nat
<1>1. /\ coming \in Column /\ source \in Column /\ Len(coming) \in Nat /\ Len(source) \in Nat
      /\ Len(coming) > 0 /\ Len(coming) <= Len(source)
      /\ \A j \in 1..Len(coming) : coming[j] = source[n + j]
      /\ \A i \in 1..Len(source) : source[i] \in Keys \cup {Missing}
  BY DEF FrameInv, FrameTyped, Column, SourceKept
<1>2. /\ n \in Nat /\ n + 1 \in 1..Len(source) /\ RowNumber(source) = n + 1
      /\ Head(coming) = source[n + 1]
  BY <1>1 DEF RowNumber, Column
<1>3. /\ Len(coming') = Len(coming) - 1 /\ n' = n + 1
      /\ \A j \in 1..Len(coming') : coming'[j] = coming[j + 1]
  BY <1>1 DEF Column
<1>4. SourceKept'
  <2>1. Len(coming') <= Len(source)
    BY <1>1, <1>3
  <2>2. ASSUME NEW j \in 1..Len(coming') PROVE coming'[j] = source[n' + j]
    <3>1. j + 1 \in 1..Len(coming) /\ n + (j + 1) = n' + j
      BY <1>1, <1>2, <1>3
    <3> QED
      BY <1>1, <1>3, <3>1
  <2> QED
    BY <2>1, <2>2 DEF SourceKept
<1>5. \A i \in 1..Len(source) : KeyAt(i) \in S
  BY <1>1, SetupsAssumption
<1>6. k = KeyAt(n + 1)
  BY <1>2 DEF NextKey
<1>7. LoadedKeys = [i \in 1..n |-> KeyAt(i)] /\ LoadedKeys' = [i \in 1..(n + 1) |-> KeyAt(i)]
  BY <1>3 DEF LoadedKeys
<1>8. keyed => NextKey \in Keys
  BY <1>1, <1>2, SetupsAssumption DEF NextKey
<1>9. ~keyed => LoadedKeys = [i \in 1..(RowNumber(source) - 1) |-> i]
  BY <1>2 DEF LoadedKeys
<1> HIDE DEF n, KeyAt, k, S
<1>10. 1..n \subseteq 1..Len(source) /\ n \in Nat /\ k \in S
  BY <1>1, <1>2, <1>5, <1>6
<1>11. LoadedKeys \in Seq(S) /\ Len(LoadedKeys) = n /\ LoadedKeys' = Append(LoadedKeys, k)
  <2>1. LoadedKeys \in Seq(S) /\ Len(LoadedKeys) = n /\ \A i \in 1..n : LoadedKeys[i] = KeyAt(i)
    BY <1>5, <1>7, <1>10
  <2>2. LoadedKeys' \in Seq(S) /\ Len(LoadedKeys') = n + 1
        /\ \A i \in 1..(n + 1) : LoadedKeys'[i] = KeyAt(i)
    BY <1>2, <1>5, <1>7, <1>10
  <2>3. /\ Append(LoadedKeys, k) \in Seq(S) /\ Len(Append(LoadedKeys, k)) = n + 1
        /\ \A i \in 1..(n + 1) : Append(LoadedKeys, k)[i] = KeyAt(i)
    BY <1>6, <1>10, <2>1
  <2> QED
    BY <2>1, <2>2, <2>3, SeqEqual
<1> QED
  BY <1>2, <1>4, <1>8, <1>9, <1>10, <1>11 DEF k, S

(* The records shown are known from the vectors side by side.              *)
LEMMA RecordsShown ==
    /\ DOMAIN Records = DOMAIN rows /\ Records = [i \in DOMAIN Records |-> Records[i]]
    /\ \A i \in DOMAIN rows :
          Records[i] = [key |-> IF keyed THEN keys_[i] ELSE rows[i], row |-> rows[i],
                        cells |-> edits[i].values]
BY DEF Records

(* A row that is kept makes the table longer, one of a known key makes the *)
(* record of the key that of the row where the policy says so.             *)
LEMMA RowLoads ==
    ASSUME FrameInv, TableInv, frame = "building", coming # <<>>,
           UNCHANGED <<source, keyed, policy, op>>,
           \/ PushRow(RowNumber(source)) /\ (keyed => NextKey \notin ToSet(keys_))
           \/ KnownRow(RowNumber(source)) /\ keyed
    PROVE  Table!Load /\ TableInv'
<1> DEFINE l == RowNumber(source)
           k == IF keyed THEN NextKey ELSE l
           new == Table!TableOf(Append(LoadedKeys, k))
           S == Keys \cup Nat
           old == Table!TableOf(LoadedKeys)
           m == Len(Table!FirstsOf(LoadedKeys))
<1>1. coming' = Tail(coming) /\ frame' = "building" /\ Records = old
  BY DEF PushRow, KnownRow, TableInv, TableBuilt
<1>2. /\ SourceKept' /\ LoadedKeys \in Seq(S) /\ Len(LoadedKeys) + 1 = l
      /\ LoadedKeys' = Append(LoadedKeys, k) /\ k \in S
      /\ ~keyed => LoadedKeys = [n \in 1..(l - 1) |-> n]
  BY <1>1, KeyComes DEF TableInv
<1> HIDE DEF l, k, S, new, old
<1>3. /\ DOMAIN old = 1..m /\ m \in Nat /\ new = [i \in DOMAIN new |-> new[i]]
      /\ \A i \in DOMAIN old : old[i].cells = {}
      /\ {old[i].key : i \in DOMAIN old} = ToSet(LoadedKeys)
      /\ k \notin ToSet(LoadedKeys) =>
             /\ DOMAIN new = 1..(m + 1) /\ \A i \in DOMAIN old : new[i] = old[i]
             /\ new[m + 1] = NewRecord(k, l)
      /\ k \in ToSet(LoadedKeys) =>
             /\ DOMAIN new = DOMAIN old
             /\ \A i \in DOMAIN old :
                    new[i] = IF policy = "OVERWRITE" /\ old[i].key = k THEN NewRecord(k, l) ELSE old[i]
  BY <1>2, TableGrows DEF new, old
<1> HIDE DEF m
<1>4. /\ rows \in Seq(Int) /\ edits \in Seq(Entry) /\ keys_ \in Seq(Keys)
      /\ Len(edits) = Len(rows) /\ Len(keys_) = IF keyed THEN Len(rows) ELSE 0
      /\ IsInjective(keys_)
  BY DEF FrameInv, FrameTyped, FrameConsistent
<1>5. DOMAIN rows = 1..m /\ Len(rows) = m /\ DOMAIN edits = 1..m /\ (keyed => DOMAIN keys_ = 1..m)
  <2>1. DOMAIN rows = 1..m
    BY <1>1, <1>3, RecordsShown
  <2>2. DOMAIN rows = 1..Len(rows) /\ Len(rows) \in Nat
    BY <1>4
  <2>3. Len(rows) = m
    BY <1>3, <2>1, <2>2
  <2> QED
    BY <1>4, <2>1, <2>3
<1>6. \A i \in 1..m : /\ old[i] = [key |-> IF keyed THEN keys_[i] ELSE rows[i], row |-> rows[i],
                                   cells |-> edits[i].values]
                      /\ old[i].key = IF keyed THEN keys_[i] ELSE rows[i]
                      /\ edits[i].values = {}
  <2>1. \A i \in 1..m : old[i] = [key |-> IF keyed THEN keys_[i] ELSE rows[i], row |-> rows[i],
                                  cells |-> edits[i].values]
    BY <1>1, <1>5, RecordsShown
  <2> QED
    BY <1>3, <2>1
<1>7. Records' = new
  <2>1. CASE PushRow(l) /\ (keyed => NextKey \notin ToSet(keys_))
    <3>1. k \notin ToSet(LoadedKeys)
      <4>1. CASE keyed
        BY <1>3, <1>5, <1>6, <2>1, <4>1, SMTT(30) DEF k, ToSet
      <4>2. CASE ~keyed
        BY <1>2, <4>2 DEF k, ToSet
      <4> QED
        BY <4>1, <4>2
    <3>2. /\ rows' = Append(rows, l) /\ keys_' = (IF keyed THEN Append(keys_, k) ELSE keys_)
          /\ edits' = Append(edits, [busy |-> FALSE, values |-> {}])
      BY <2>1 DEF PushRow, k
    <3>3. /\ DOMAIN rows' = 1..(m + 1) /\ rows'[m + 1] = l /\ \A i \in 1..m : rows'[i] = rows[i]
      BY <1>3, <1>4, <1>5, <3>2
    <3>4. /\ edits'[m + 1].values = {} /\ \A i \in 1..m : edits'[i] = edits[i]
      BY <1>3, <1>4, <1>5, <3>2, SMTT(30)
    <3>5. keyed => keys_'[m + 1] = k /\ \A i \in 1..m : keys_'[i] = keys_[i]
      BY <1>3, <1>4, <1>5, <3>2
    <3>6. /\ DOMAIN Records' = 1..(m + 1) /\ Records' = [i \in DOMAIN Records' |-> Records'[i]]
          /\ \A i \in 1..(m + 1) :
                Records'[i] = [key |-> IF keyed THEN keys_'[i] ELSE rows'[i], row |-> rows'[i],
                               cells |-> edits'[i].values]
      BY <3>3 DEF Records
    <3>7. Records'[m + 1] = NewRecord(k, l)
      <4>1. m + 1 \in 1..(m + 1)
        BY <1>3
      <4>2. (IF keyed THEN keys_'[m + 1] ELSE rows'[m + 1]) = k
        BY <3>3, <3>5 DEF k
      <4>3. Records'[m + 1] = [key |-> IF keyed THEN keys_'[m + 1] ELSE rows'[m + 1],
                               row |-> rows'[m + 1], cells |-> edits'[m + 1].values]
        BY ONLY <3>6, <4>1
      <4> QED
        BY ONLY <3>3, <3>4, <4>2, <4>3 DEF NewRecord
    <3>8. ASSUME NEW i \in 1..m PROVE Records'[i] = new[i]
      <4>1. new[i] = old[i] /\ i \in 1..(m + 1)
        BY <1>3, <3>1
      <4> QED
        BY <1>6, <3>3, <3>4, <3>5, <3>6, <4>1
    <3>9. \A i \in 1..(m + 1) : i = m + 1 \/ i \in 1..m
      BY <1>3
    <3>10. DOMAIN new = 1..(m + 1) /\ new[m + 1] = NewRecord(k, l)
      BY <1>3, <3>1
    <3>11. \A i \in 1..(m + 1) : Records'[i] = new[i]
      BY <3>7, <3>8, <3>9, <3>10
    <3> QED
      BY <1>3, <3>6, <3>10, <3>11
  <2>2. CASE KnownRow(l) /\ keyed
    <3>1. PICK j \in DOMAIN keys_ :
              /\ keys_[j] = k
              /\ rows' = IF policy = "OVERWRITE" THEN [rows EXCEPT ![j] = l] ELSE rows
              /\ UNCHANGED <<keys_, edits>>
      BY <2>2 DEF KnownRow, k
    <3>2. j \in 1..m /\ \A i \in 1..m : keys_[i] = k <=> i = j
      BY <1>4, <1>5, <2>2, <3>1 DEF IsInjective
    <3>3. k \in ToSet(LoadedKeys)
      BY <1>3, <1>6, <2>2, <3>1, <3>2
    <3>4. /\ DOMAIN rows' = 1..m
          /\ \A i \in 1..m : rows'[i] = IF policy = "OVERWRITE" /\ i = j THEN l ELSE rows[i]
      BY <1>4, <1>5, <3>1, <3>2
    <3>5. /\ DOMAIN Records' = 1..m /\ Records' = [i \in DOMAIN Records' |-> Records'[i]]
          /\ \A i \in 1..m : Records'[i] = [key |-> keys_[i], row |-> rows'[i],
                                            cells |-> edits[i].values]
      BY <2>2, <3>1, <3>4 DEF Records
    <3>6. ASSUME NEW i \in 1..m PROVE Records'[i] = new[i]
      <4>1. new[i] = IF policy = "OVERWRITE" /\ i = j THEN NewRecord(k, l) ELSE old[i]
        BY <1>3, <1>6, <2>2, <3>2, <3>3
      <4>2. CASE policy = "OVERWRITE" /\ i = j
        BY <1>6, <3>2, <3>4, <3>5, <4>1, <4>2 DEF NewRecord
      <4>3. CASE ~(policy = "OVERWRITE" /\ i = j)
        BY <1>6, <2>2, <3>4, <3>5, <4>1, <4>3
      <4> QED
        BY <4>2, <4>3
    <3> QED
      BY <1>3, <3>3, <3>5, <3>6
  <2> QED
    BY <2>1, <2>2 DEF l
<1>8. new = Table!TableOf(LoadedKeys')
  BY <1>2 DEF new
<1>9. Table!Load
  <2>1. Len(LoadedKeys') = Len(LoadedKeys) + 1 /\ Table!IsPrefix(LoadedKeys, LoadedKeys')
    BY <1>2 DEF Table!IsPrefix
  <2> QED
    BY <1>1, <1>7, <1>8, <2>1 DEF Table!Load
<1>10. TableBuilt'
  BY <1>7, <1>8 DEF TableBuilt, Table!TableOf
<1>11. CopiesKept'
  BY DEF CopiesKept, FrameInv, FrameInUse, Nothing
<1> QED
  BY <1>2, <1>9, <1>10, <1>11 DEF TableInv

(* A step by which no value of an overlay changes is none of the table's.  *)
LEMMA TableStays ==
    ASSUME FrameInv, TableInv, frame # "building" \/ UNCHANGED op,
           UNCHANGED <<source, coming, keyed, policy, frame, rows, keys_>>,
           \A i \in DOMAIN rows : edits'[i].values = edits[i].values,
           CopiesKept'
    PROVE  UNCHANGED Table!vars /\ TableInv'
<1>1. LoadedKeys' = LoadedKeys
  BY DEF LoadedKeys
<1>2. Records' = Records
  <2>1. Records' = [i \in DOMAIN rows |->
                       [key   |-> IF keyed THEN keys_[i] ELSE rows[i],
                        row   |-> rows[i],
                        cells |-> edits'[i].values]]
    BY DEF Records
  <2> QED
    BY <2>1 DEF Records
<1>3. SourceKept' /\ TableBuilt'
  BY <1>1, <1>2 DEF TableInv, SourceKept, TableBuilt, Table!TableOf
<1> QED
  BY <1>1, <1>2, <1>3 DEF TableInv, Table!vars

(* The steps of a thread that hold no lock.                                *)
LEMMA CopiesStay ==
    ASSUME FrameInv, TableInv, NEW t \in Threads, NEW what, Does(t, what),
           what.doing # "setting", UNCHANGED edits
    PROVE  CopiesKept'
<1>1. op' = [op EXCEPT ![t] = what] /\ DOMAIN op = Threads
  BY OpKinds DEF Does
<1>2. \A u \in Threads : op'[u] = IF u = t THEN what ELSE op[u]
  BY <1>1
<1> QED
  BY <1>2 DEF TableInv, CopiesKept

(* Taking the lock of a row copies its values.                             *)
LEMMA LockRowCopies ==
    ASSUME FrameInv, TableInv, NEW t \in Threads, NEW i \in DOMAIN rows, LockRow(t, i),
           frame # "building", UNCHANGED source
    PROVE  UNCHANGED Table!vars /\ TableInv'
<1>1. /\ edits' = [edits EXCEPT ![i].busy = TRUE]
      /\ op' = [op EXCEPT ![t] = [doing |-> "setting", row |-> i, copy |-> edits[i].values]]
      /\ UNCHANGED <<source, coming, keyed, policy, frame, rows, keys_>>
  BY DEF LockRow, Does, optionVars
<1>2. /\ edits \in Seq(Entry) /\ DOMAIN edits = DOMAIN rows /\ DOMAIN op = Threads
      /\ \A u \in Threads : op[u].doing = "setting" => op[u].row \in DOMAIN edits
  BY OpKinds DEF FrameInv, FrameTyped, FrameConsistent
<1>3. \A j \in DOMAIN rows : edits'[j].values = edits[j].values
  <2>1. \A j \in DOMAIN edits : edits[j] \in Entry
    BY <1>2
  <2> QED
    BY <1>1, <1>2, <2>1 DEF Entry
<1>4. \A u \in Threads :
          op'[u] = IF u = t THEN [doing |-> "setting", row |-> i, copy |-> edits[i].values]
                   ELSE op[u]
  BY <1>1, <1>2
<1>5. CopiesKept'
  <2> SUFFICES ASSUME NEW u \in Threads, op'[u].doing = "setting"
               PROVE  op'[u].copy = edits'[op'[u].row].values
    BY DEF CopiesKept
  <2>1. CASE u = t
    BY <1>3, <1>4, <2>1
  <2>2. CASE u # t
    BY <1>2, <1>3, <1>4, <2>2 DEF TableInv, CopiesKept
  <2> QED
    BY <2>1, <2>2
<1> QED
  BY <1>1, <1>3, <1>5, TableStays

(* Setting the cell adds it to what the record showed: since the row is    *)
(* locked, nobody's edit is lost.                                          *)
LEMMA SetCellEdits ==
    ASSUME FrameInv, TableInv, NEW t \in Threads, NEW c, NEW after \in {Nothing, Acted},
           SetCell(t, c, after), frame = "ready", UNCHANGED source
    PROVE  (\E i \in DOMAIN Records : Table!Edit(i)) /\ TableInv'
<1> DEFINE r == op[t].row
           entry == [busy |-> FALSE, values |-> op[t].copy \cup {c}]
<1>1. /\ op[t].doing = "setting" /\ edits' = [edits EXCEPT ![r] = entry]
      /\ op' = [op EXCEPT ![t] = after]
      /\ UNCHANGED <<source, coming, keyed, policy, frame, rows, keys_>>
  BY DEF SetCell, Does, optionVars
<1>2. /\ edits \in Seq(Entry) /\ DOMAIN edits = DOMAIN rows /\ DOMAIN op = Threads
      /\ \A u \in Threads : op[u].doing = "setting" => op[u].row \in DOMAIN edits
      /\ \A u, v \in Threads :
            u # v /\ op[u].doing = "setting" /\ op[v].doing = "setting" => op[u].row # op[v].row
  BY OpKinds DEF FrameInv, FrameTyped, FrameConsistent
<1>3. r \in DOMAIN rows /\ op[t].copy = edits[r].values
  BY <1>1, <1>2 DEF TableInv, CopiesKept
<1>4. entry.values = edits[r].values \cup {c}
  BY <1>3
<1> HIDE DEF r, entry
<1>5. \A j \in DOMAIN rows : edits'[j] = IF j = r THEN entry ELSE edits[j]
  BY <1>1, <1>2
<1>6. \A u \in Threads : op'[u] = IF u = t THEN after ELSE op[u]
  BY <1>1, <1>2
<1>7. LoadedKeys' = LoadedKeys
  BY <1>1 DEF LoadedKeys
<1>8. Records' = [Records EXCEPT ![r].cells = @ \cup {c}]
  <2>1. Records' = [i \in DOMAIN rows |->
                       [key   |-> IF keyed THEN keys_[i] ELSE rows[i],
                        row   |-> rows[i],
                        cells |-> edits'[i].values]]
    BY <1>1 DEF Records
  <2>2. [Records EXCEPT ![r].cells = @ \cup {c}]
           = [i \in DOMAIN rows |->
                IF i = r THEN [Records[r] EXCEPT !.cells = @ \cup {c}] ELSE Records[i]]
    BY <1>3, RecordsShown
  <2>3. ASSUME NEW i \in DOMAIN rows
        PROVE  [key   |-> IF keyed THEN keys_[i] ELSE rows[i],
                row   |-> rows[i],
                cells |-> edits'[i].values]
                  = IF i = r THEN [Records[r] EXCEPT !.cells = @ \cup {c}] ELSE Records[i]
    <3>1. CASE i = r
      <4>1. Records[r] = [key |-> IF keyed THEN keys_[r] ELSE rows[r], row |-> rows[r],
                          cells |-> edits[r].values]
        BY <1>3, RecordsShown
      <4>2. [Records[r] EXCEPT !.cells = @ \cup {c}]
                = [key |-> IF keyed THEN keys_[r] ELSE rows[r], row |-> rows[r],
                   cells |-> edits[r].values \cup {c}]
        BY ONLY <4>1
      <4>3. edits'[r].values = edits[r].values \cup {c}
        BY <1>3, <1>4, <1>5
      <4> QED
        BY ONLY <3>1, <4>2, <4>3
    <3>2. CASE i # r
      BY <1>5, <3>2, RecordsShown
    <3> QED
      BY <3>1, <3>2
  <2> QED
    BY <2>1, <2>2, <2>3
<1>9. Table!Edit(r)
  <2>1. r \in DOMAIN Records' /\ c \in Records'[r].cells
    BY <1>3, <1>4, <1>5, <1>1 DEF Records
  <2> QED
    BY <1>1, <1>7, <1>8, <2>1 DEF Table!Edit
<1>10. SourceKept' /\ TableBuilt'
  BY <1>1 DEF TableInv, SourceKept, TableBuilt
<1>11. CopiesKept'
  <2> SUFFICES ASSUME NEW u \in Threads, op'[u].doing = "setting"
               PROVE  op'[u].copy = edits'[op'[u].row].values
    BY DEF CopiesKept
  <2>1. u # t
    BY <1>6 DEF Nothing, Acted
  <2>2. op'[u] = op[u] /\ op[u].row # r /\ op[u].row \in DOMAIN rows
    BY <1>1, <1>2, <1>6, <2>1 DEF r
  <2> QED
    BY <1>5, <2>2 DEF TableInv, CopiesKept
<1> QED
  BY <1>3, <1>9, <1>10, <1>11, RecordsShown DEF TableInv

(* Erasing takes the record out.                                           *)
LEMMA EraseAtErases ==
    ASSUME FrameInv, TableInv, NEW i \in DOMAIN rows, EraseAt(Main, i), frame = "ready",
           \A u \in Threads : op[u].doing # "setting", UNCHANGED source
    PROVE  (\E j \in DOMAIN Records : Table!Erase(j)) /\ TableInv'
<1>1. /\ edits' = RemoveAt(edits, i) /\ rows' = RemoveAt(rows, i)
      /\ keys_' = IF keyed THEN RemoveAt(keys_, i) ELSE keys_
      /\ op' = [op EXCEPT ![Main] = Nothing]
      /\ UNCHANGED <<source, coming, keyed, policy, frame>>
  BY DEF EraseAt, Does, optionVars
<1>2. /\ edits \in Seq(Entry) /\ rows \in Seq(Int) /\ keys_ \in Seq(Keys)
      /\ Len(edits) = Len(rows) /\ Len(keys_) = (IF keyed THEN Len(rows) ELSE 0)
      /\ DOMAIN op = Threads
  BY OpKinds DEF FrameInv, FrameTyped, FrameConsistent
<1> DEFINE n == Len(rows)
           Rec == [key : Keys \cup Int, row : Int, cells : SUBSET Nat]
           At(j) == IF j < i THEN j ELSE j + 1
<1>3. /\ n \in Nat /\ i \in 1..n /\ DOMAIN rows = 1..n /\ DOMAIN edits = 1..n
      /\ keyed => DOMAIN keys_ = 1..n
  BY <1>2
<1>4. \A j \in 1..(n - 1) : At(j) \in 1..n
  BY <1>3
<1>5. /\ DOMAIN rows' = 1..(n - 1) /\ \A j \in 1..(n - 1) : rows'[j] = rows[At(j)]
      /\ \A j \in 1..(n - 1) : edits'[j] = edits[At(j)]
      /\ keyed => \A j \in 1..(n - 1) : keys_'[j] = keys_[At(j)]
  <2>1. /\ rows' \in Seq(Int) /\ Len(rows') = n - 1 /\ \A j \in 1..(n - 1) : rows'[j] = rows[At(j)]
    BY <1>1, <1>2, Removed
  <2>2. \A j \in 1..(n - 1) : edits'[j] = edits[At(j)]
    <3>1. i \in DOMAIN edits /\ edits \in Seq(Entry) /\ Len(edits) = n
      BY <1>2, <1>3
    <3>2. \A j \in 1..(Len(edits) - 1) :
              RemoveAt(edits, i)[j] = IF j < i THEN edits[j] ELSE edits[j + 1]
      BY ONLY <3>1, Removed, ZenonT(60)
    <3> QED
      BY <1>1, <3>1, <3>2
  <2>3. keyed => \A j \in 1..(n - 1) : keys_'[j] = keys_[At(j)]
    <3> SUFFICES ASSUME keyed PROVE \A j \in 1..(n - 1) : keys_'[j] = keys_[At(j)]
      OBVIOUS
    <3>1. i \in DOMAIN keys_ /\ keys_ \in Seq(Keys) /\ Len(keys_) = n
      BY <1>2, <1>3
    <3>2. \A j \in 1..(Len(keys_) - 1) :
              RemoveAt(keys_, i)[j] = IF j < i THEN keys_[j] ELSE keys_[j + 1]
      BY ONLY <3>1, Removed, ZenonT(60)
    <3> QED
      BY <1>1, <3>1, <3>2
  <2> QED
    BY <1>3, <2>1, <2>2, <2>3
<1>6. Records \in Seq(Rec) /\ Len(Records) = n /\ i \in DOMAIN Records
  <2>1. \A j \in 1..n : Records[j] \in Rec
    <3> TAKE j \in 1..n
    <3>1. rows[j] \in Int /\ edits[j] \in Entry /\ (keyed => keys_[j] \in Keys)
      BY <1>2, <1>3
    <3>2. edits[j].values \in SUBSET Nat
      BY <3>1 DEF Entry
    <3> QED
      BY <1>3, <3>1, <3>2, RecordsShown
  <2>2. DOMAIN Records = 1..n /\ Records = [j \in 1..n |-> Records[j]]
    BY <1>3, RecordsShown
  <2> HIDE DEF n, Rec
  <2> QED
    BY <1>3, <2>1, <2>2
<1> HIDE DEF n, Rec
<1>7. /\ Table!RemoveAt(Records, i) \in Seq(Rec) /\ Len(Table!RemoveAt(Records, i)) = n - 1
      /\ \A j \in 1..(n - 1) : Table!RemoveAt(Records, i)[j] = Records[At(j)]
  <2>1. Table!RemoveAt(Records, i) = RemoveAt(Records, i)
    BY DEF Table!RemoveAt, RemoveAt
  <2> QED
    BY <1>6, <2>1, Removed
<1>8. /\ DOMAIN Records' = 1..(n - 1) /\ Records' = [j \in DOMAIN Records' |-> Records'[j]]
      /\ \A j \in 1..(n - 1) : Records'[j] = Records[At(j)]
  <2>1. /\ DOMAIN Records' = 1..(n - 1) /\ Records' = [j \in DOMAIN Records' |-> Records'[j]]
        /\ \A j \in 1..(n - 1) : Records'[j] =
               [key |-> IF keyed THEN keys_'[j] ELSE rows'[j], row |-> rows'[j],
                cells |-> edits'[j].values]
    BY <1>1, <1>5 DEF Records
  <2> HIDE DEF At
  <2>2. ASSUME NEW j \in 1..(n - 1) PROVE Records'[j] = Records[At(j)]
    <3>1. At(j) \in DOMAIN rows
      BY <1>3, <1>4
    <3>2. Records[At(j)] = [key |-> IF keyed THEN keys_[At(j)] ELSE rows[At(j)],
                            row |-> rows[At(j)], cells |-> edits[At(j)].values]
      BY <3>1, RecordsShown
    <3>3. /\ rows'[j] = rows[At(j)] /\ edits'[j] = edits[At(j)]
          /\ keyed => keys_'[j] = keys_[At(j)]
      BY <1>5
    <3>4. Records'[j] = [key |-> IF keyed THEN keys_'[j] ELSE rows'[j], row |-> rows'[j],
                         cells |-> edits'[j].values]
      BY <2>1
    <3> QED
      BY ONLY <3>2, <3>3, <3>4
  <2> QED
    BY <2>1, <2>2
<1>9. Records' = Table!RemoveAt(Records, i)
  <2> DEFINE s == Table!RemoveAt(Records, i)
  <2> HIDE DEF At, s
  <2>1. s \in Seq(Rec) /\ Len(s) = n - 1 /\ \A j \in 1..(n - 1) : s[j] = Records[At(j)]
    BY <1>7 DEF s
  <2>2. DOMAIN s = 1..(n - 1) /\ s = [j \in DOMAIN s |-> s[j]]
    BY <2>1, <1>3
  <2>3. \A j \in 1..(n - 1) : Records'[j] = s[j]
    BY <1>8, <2>1
  <2> QED
    BY <1>8, <2>2, <2>3 DEF s
<1>10. LoadedKeys' = LoadedKeys
  BY <1>1 DEF LoadedKeys
<1>11. Table!Erase(i)
  BY <1>1, <1>9, <1>10 DEF Table!Erase
<1>12. TableInv'
  <2>1. SourceKept' /\ TableBuilt'
    BY <1>1 DEF TableInv, SourceKept, TableBuilt
  <2>2. CopiesKept'
    BY <1>1, <1>2 DEF CopiesKept, Nothing
  <2> QED
    BY <2>1, <2>2 DEF TableInv
<1> QED
  BY <1>6, <1>11, <1>12

(* Building the frame loads the table and completes it.                    *)
LEMMA BuildLoads ==
    ASSUME FrameInv, TableInv, Build
    PROVE  [Table!Next]_Table!vars /\ TableInv'
<1>1. UNCHANGED <<source, keyed, policy, op>> /\ frame = "building"
  BY DEF Build, BuildRow, Built, optionVars
<1>2. CASE \/ coming # <<>> /\ PushRow(RowNumber(source)) /\ (keyed => NextKey \notin ToSet(keys_))
           \/ coming # <<>> /\ KnownRow(RowNumber(source)) /\ keyed
  <2>1. Table!Load /\ TableInv'
    BY <1>1, <1>2, RowLoads
  <2> QED
    BY <2>1 DEF Table!Next
<1>3. CASE (Fails \/ Built) /\ UNCHANGED <<coming, rows, keys_, edits>>
  <2>1. LoadedKeys' = LoadedKeys /\ Records' = Records
    BY <1>1, <1>3 DEF LoadedKeys, Records
  <2>2. frame' \in {"failed", "ready"}
    BY <1>3 DEF Fails, Built
  <2>3. TableInv'
    BY <1>1, <1>3, <2>2 DEF TableInv, SourceKept, TableBuilt, CopiesKept
  <2>4. CASE frame' = "ready"
    BY <1>1, <2>1, <2>3, <2>4 DEF Table!Next, Table!Complete
  <2>5. CASE frame' = "failed"
    BY <1>1, <2>1, <2>3, <2>5 DEF Table!vars
  <2> QED
    BY <2>2, <2>4, <2>5
<1>4. \/ coming # <<>> /\ PushRow(RowNumber(source)) /\ (keyed => NextKey \notin ToSet(keys_))
      \/ coming # <<>> /\ KnownRow(RowNumber(source)) /\ keyed
      \/ (Fails \/ Built) /\ UNCHANGED <<coming, rows, keys_, edits>>
  BY DEF Build, BuildRow, Built, Fails, storeVars
<1> QED
  BY <1>2, <1>3, <1>4

(* A lookup is no step of the table.                                       *)
LEMMA LookupsShowNothing ==
    ASSUME FrameInv, TableInv, NEW t \in Threads, frame = "ready", UNCHANGED source,
           (\E k \in Keys : Lookup(t, k)) \/ IndexRow(t) \/ Find(t)
    PROVE  UNCHANGED Table!vars /\ TableInv'
<1>1. UNCHANGED <<coming, keyed, policy, frame, rows, keys_, edits>>
  BY DEF Lookup, IndexRow, Find, optionVars, storeVars
<1>2. CopiesKept'
  <2>1. ASSUME NEW k \in Keys, Lookup(t, k) PROVE CopiesKept'
    <3>1. Does(t, [doing |-> "indexing", key |-> k, row |-> 1])
             \/ Does(t, [doing |-> "finding", key |-> k])
      BY <2>1 DEF Lookup
    <3> QED
      BY <1>1, <3>1, CopiesStay
  <2>2. CASE IndexRow(t)
    <3>1. op[t].doing = "indexing"
             /\ (Does(t, [op[t] EXCEPT !.row = @ + 1])
                    \/ Does(t, [doing |-> "finding", key |-> op[t].key]))
      BY <2>2 DEF IndexRow
    <3>2. [op[t] EXCEPT !.row = @ + 1].doing # "setting"
      <4>1. op[t] \in [doing : {"indexing"}, key : Keys, row : Nat]
        BY <3>1, OpKinds
      <4> QED
        BY ONLY <4>1
    <3> QED
      BY <1>1, <3>1, <3>2, CopiesStay
  <2>3. CASE Find(t)
    <3>1. \E n : Does(t, [doing |-> "found", key |-> op[t].key, position |-> n])
      BY <2>3 DEF Find
    <3> QED
      BY <1>1, <3>1, CopiesStay
  <2> QED
    BY <2>1, <2>2, <2>3
<1> QED
  BY <1>1, <1>2, TableStays

(* Every step of the frame, of whatever thread, is a step of the table.    *)
LEMMA TableNext ==
    ASSUME ExecutorInv, FrameInv, TableInv, [Next]_vars
    PROVE  [Table!Next]_Table!vars /\ TableInv'
<1> DEFINE Good == [Table!Next]_Table!vars /\ TableInv'
<1>0. /\ UNCHANGED Table!vars /\ TableInv' => Good
      /\ (\E i \in DOMAIN Records : Table!Edit(i)) /\ TableInv' => Good
      /\ (\E i \in DOMAIN Records : Table!Erase(i)) /\ TableInv' => Good
  BY DEF Table!Next
<1> HIDE DEF Good
<1> SUFFICES Good
  BY DEF Good
<1>1. CASE UNCHANGED <<coming, source, policy, rows, keys_, edits, op, frame, keyed>>
  <2>1. CopiesKept'
    BY <1>1 DEF TableInv, CopiesKept
  <2> QED
    BY <1>0, <1>1, <2>1, TableStays
<1>2. CASE Build
  BY <1>2, BuildLoads DEF Good
<1>3. CASE OwnerBegins \/ OwnerGoesOn
  <2>1. /\ frame = "ready" /\ caller = "outside" /\ ~InCall /\ Main \in Threads /\ Main \notin Workers
        /\ UNCHANGED source
    BY <1>3, Counting DEF OwnerBegins, OwnerGoesOn, Idle, InCall, Threads
  <2>2. ASSUME NEW i \in DOMAIN rows, LockRow(Main, i) PROVE Good
    BY <1>0, <2>1, <2>2, LockRowCopies
  <2>3. ASSUME NEW i \in DOMAIN rows, EraseAt(Main, i) PROVE Good
    <3>1. \A u \in Threads : op[u].doing # "setting"
      BY <2>1, <2>3, WorkersRest DEF EraseAt, AtRest, Threads
    <3> QED
      BY <1>0, <2>1, <2>3, <3>1, EraseAtErases
  <2>4. CASE (\E k \in Keys : Lookup(Main, k)) \/ IndexRow(Main) \/ Find(Main)
    BY <1>0, <2>1, <2>4, LookupsShowNothing
  <2>5. CASE SetCell(Main, 0, Nothing)
    <3>1. (\E i \in DOMAIN Records : Table!Edit(i)) /\ TableInv'
      BY <2>1, <2>5, SetCellEdits
    <3> QED
      BY <1>0, <3>1
  <2>6. CASE OwnerBegins
    BY <2>2, <2>3, <2>4, <2>6 DEF OwnerBegins
  <2>7. CASE OwnerGoesOn
    BY <2>4, <2>5, <2>7 DEF OwnerGoesOn
  <2> QED
    BY <1>3, <2>6, <2>7
<1>4. CASE column_parallel_apply
  <2>1. /\ frame = "ready" /\ Does(Main, Nothing) /\ Main \in Threads
        /\ UNCHANGED <<coming, source, keyed, policy, frame, rows, keys_, edits>>
    BY <1>4 DEF column_parallel_apply, Idle, optionVars, storeVars, Threads
  <2>2. CopiesKept'
    BY <2>1, CopiesStay DEF Nothing
  <2> QED
    BY <1>0, <2>1, <2>2, TableStays
<1>5. ASSUME NEW t \in Threads, Callback(t) PROVE Good
  <2>1. Runs(t)
    BY <1>5 DEF Callback, CallbackEdits, CallbackLooksUp, CallbackReturns, CallbackThrows,
                TaskReturns, TaskThrows
  <2>2. frame = "ready"
    BY <2>1, RunsReady
  <2>3. CASE CallbackEdits(t)
    <3>1. UNCHANGED source
      BY <2>3 DEF CallbackEdits
    <3>2. ASSUME NEW i \in DOMAIN rows, LockRow(t, i) PROVE Good
      BY <1>0, <2>2, <3>1, <3>2, LockRowCopies
    <3>3. CASE SetCell(t, task_index[t], Acted)
      BY <1>0, <2>2, <3>1, <3>3, SetCellEdits
    <3> QED
      BY <2>3, <3>2, <3>3 DEF CallbackEdits
  <2>4. CASE CallbackLooksUp(t)
    <3>1. UNCHANGED source /\ ((\E k \in Keys : Lookup(t, k)) \/ IndexRow(t) \/ Find(t))
      BY <2>4 DEF CallbackLooksUp
    <3> QED
      BY <1>0, <2>2, <3>1, LookupsShowNothing
  <2>5. CASE CallbackReturns(t)
    <3>1. /\ Does(t, Nothing)
          /\ UNCHANGED <<coming, source, keyed, policy, frame, rows, keys_, edits>>
      BY <2>5 DEF CallbackReturns, optionVars, storeVars
    <3>2. CopiesKept'
      BY <3>1, CopiesStay DEF Nothing
    <3> QED
      BY <1>0, <2>2, <3>1, <3>2, TableStays
  <2>6. CASE CallbackThrows(t)
    <3>1. UNCHANGED <<coming, source, policy, rows, keys_, edits, op, frame, keyed>>
      BY <2>6 DEF CallbackThrows, frameVars, optionVars, storeVars
    <3> QED
      BY <1>1, <3>1
  <2> QED
    BY <1>5, <2>3, <2>4, <2>5, <2>6 DEF Callback
<1>6. CASE Executor \/ Ended \/ UNCHANGED vars
  <2>1. UNCHANGED <<coming, source, policy, rows, keys_, edits, op, frame, keyed>>
    BY <1>6 DEF Executor, Ended, vars, frameVars, optionVars, storeVars
  <2> QED
    BY <1>1, <2>1
<1> QED
  BY <1>2, <1>3, <1>4, <1>5, <1>6 DEF Next

(* A new frame is an empty table.                                          *)
LEMMA TableBegins ==
    ASSUME Init
    PROVE  Table!Init /\ TableInv
<1>1. /\ frame = "building" /\ rows = <<>> /\ op = [t \in Threads |-> Nothing] /\ source = coming
  BY DEF Init, FrameInit
<1>2. source \in Column
  BY <1>1, SetupsAssumption DEF Init, FrameInit, Column
<1>3. LoadedKeys = <<>> /\ Records = <<>>
  <2>1. Len(source) \in Nat /\ Len(source) - Len(coming) = 0
    BY <1>1, <1>2 DEF Column
  <2>2. 1..0 = {}
    OBVIOUS
  <2>3. LoadedKeys = [n \in {} |-> IF ~keyed THEN n ELSE IF source[n] = Missing THEN DefaultKey ELSE source[n]]
    BY <2>1, <2>2 DEF LoadedKeys
  <2> QED
    BY <1>1, <2>3 DEF Records
<1>4. Table!Init
  BY <1>1, <1>3 DEF Table!Init
<1>5. Table!TableOf(<<>>) = <<>>
  <2>1. Table!FirstsOf(<<>>) = <<>>
    <3>1. [n \in DOMAIN <<>> |-> n] = <<>>
      OBVIOUS
    <3> QED
      BY <3>1, Table!SelectedFromEmpty DEF Table!FirstsOf
  <2> QED
    BY <2>1 DEF Table!TableOf
<1>6. SourceKept /\ TableBuilt /\ CopiesKept
  <2>1. SourceKept
    BY <1>1, <1>2 DEF SourceKept, Column
  <2>2. TableBuilt
    BY <1>3, <1>5 DEF TableBuilt
  <2>3. CopiesKept
    BY <1>1 DEF CopiesKept, Nothing
  <2> QED
    BY <2>1, <2>2, <2>3
<1> QED
  BY <1>4, <1>6 DEF TableInv

(* Whoever edits, looks up or erases, and however the threads interleave,  *)
(* the frame is a table of records in the order in which their keys came:  *)
(* it is built of the rows as the policy says, no edit is lost, and an     *)
(* erased row takes its key and its edits with it and no others.           *)
THEOREM FrameIsKeyedTable == Spec => IsKeyedTable
<1>1. Init => Table!Init /\ ExecutorInv /\ FrameInv /\ TableInv
  BY ExecutorBegins, FrameBegins, TableBegins DEF Init
<1>2. ExecutorInv /\ FrameInv /\ TableInv /\ [Next]_vars => [Table!Next]_Table!vars /\ TableInv'
  BY TableNext
<1>3. ExecutorInv /\ FrameInv /\ [Next]_vars => (ExecutorInv /\ FrameInv)'
  BY ExecutorNext, FrameNext
<1>4. Init /\ [][Next]_vars => IsKeyedTable
  BY <1>1, <1>2, <1>3, PTL DEF IsKeyedTable, Table!Spec
<1> QED
  BY <1>4, PTL DEF Spec
=============================================================================
