-------------------------- MODULE DataFrameExecutor --------------------------
(***************************************************************************)
(* csv::DataFrameExecutor of scripts/csv.hpp: persistent worker threads    *)
(* that run the tasks of parallel_for.  One action is one critical section *)
(* of mutex_, one atomic operation, or one step between; what a task does  *)
(* between its call and its return is the matter of the module that uses   *)
(* this one.                                                               *)
(***************************************************************************)
EXTENDS Integers, FiniteSets

CONSTANTS
    Workers,
    TaskCounts,  \* the values of task_count
    MaxCalls,    \* bound on the calls of parallel_for
    Main         \* the thread that calls parallel_for

ASSUME ExecutorAssumption ==
    /\ IsFiniteSet(Workers) /\ Main \notin Workers
    /\ TaskCounts \subseteq Nat /\ MaxCalls \in Nat

VARIABLES
    stop, generation, completed_generation, active_workers, next_task, task_count,
    current_task,    \* the std::function holds a function
    task_exception,
    asleep,          \* the workers waiting on task_ready_
    pc, seen_generation,
    task_index,      \* of every thread
    caller, caller_asleep,
    calls, asked,    \* how often parallel_for was called, and the tasks of the last call
    outcome,         \* how the last call of parallel_for ended
    done, threw      \* the tasks of this call that returned and that threw

sharedVars == <<stop, generation, completed_generation, active_workers, next_task,
                task_count, current_task, task_exception>>
workerVars == <<asleep, pc, seen_generation>>
callerVars == <<caller, caller_asleep, calls, asked, outcome>>
taskVars == <<task_index, done, threw>>
executorVars == <<sharedVars, workerVars, callerVars, taskVars>>

Threads == Workers \cup {Main}

(* start_workers *)
ExecutorInit ==
    /\ stop = FALSE /\ generation = 0 /\ completed_generation = 0
    /\ active_workers = 0 /\ next_task = 0 /\ task_count = 0
    /\ current_task = FALSE /\ task_exception = FALSE
    /\ asleep = {} /\ pc = [w \in Workers |-> "waits"]
    /\ seen_generation = [w \in Workers |-> 0]
    /\ task_index = [t \in Threads |-> 0]
    /\ caller = "outside" /\ caller_asleep = FALSE /\ calls = 0
    /\ asked = 0 /\ outcome = "none"
    /\ done = {} /\ threw = {}

Tasks == 0..(asked - 1)

-----------------------------------------------------------------------------
(* worker_loop *)
Go(w, place) == pc' = [pc EXCEPT ![w] = place]

(* The predicate of task_ready_, and what follows under the lock. *)
Sleep(w) ==
    /\ pc[w] = "waits" /\ w \notin asleep /\ ~stop /\ generation = seen_generation[w]
    /\ asleep' = asleep \cup {w}
    /\ UNCHANGED <<sharedVars, pc, seen_generation, callerVars, taskVars>>

Leave(w) ==
    /\ pc[w] = "waits" /\ w \notin asleep /\ stop
    /\ Go(w, "gone")
    /\ UNCHANGED <<sharedVars, asleep, seen_generation, callerVars, taskVars>>

Join(w) ==
    /\ pc[w] = "waits" /\ w \notin asleep /\ ~stop /\ generation # seen_generation[w]
    /\ seen_generation' = [seen_generation EXCEPT ![w] = generation]
    /\ Go(w, "fetches")
    /\ UNCHANGED <<sharedVars, asleep, callerVars, taskVars>>

(* next_task_.fetch_add(1) *)
Fetch(w) ==
    /\ pc[w] = "fetches"
    /\ next_task' = next_task + 1
    /\ task_index' = [task_index EXCEPT ![w] = next_task]
    /\ Go(w, IF next_task >= task_count THEN "reports" ELSE "runs")
    /\ UNCHANGED <<stop, generation, completed_generation, active_workers, task_count,
                   current_task, task_exception, asleep, seen_generation, callerVars,
                   done, threw>>

Catch(w) ==
    /\ pc[w] = "catches"
    /\ task_exception' = TRUE
    /\ next_task' = IF task_exception THEN next_task ELSE task_count
    /\ Go(w, "reports")
    /\ UNCHANGED <<stop, generation, completed_generation, active_workers, task_count,
                   current_task, asleep, seen_generation, callerVars, taskVars>>

\* Mutated Report: the first worker without work declares the call complete.
ReportFirst(w) ==
    /\ pc[w] = "reports"
    /\ active_workers' = active_workers - 1
    /\ completed_generation' = seen_generation[w] /\ caller_asleep' = FALSE
    /\ Go(w, "waits")
    /\ UNCHANGED <<stop, generation, next_task, task_count, current_task, task_exception,
                   asleep, seen_generation, caller, calls, asked, outcome, taskVars>>

(* The last worker to report completes the generation. *)
Report(w) ==
    /\ pc[w] = "reports"
    /\ active_workers' = active_workers - 1
    /\ IF active_workers' = 0
       THEN completed_generation' = seen_generation[w] /\ caller_asleep' = FALSE
       ELSE UNCHANGED <<completed_generation, caller_asleep>>
    /\ Go(w, "waits")
    /\ UNCHANGED <<stop, generation, next_task, task_count, current_task, task_exception,
                   asleep, seen_generation, caller, calls, asked, outcome, taskVars>>

WorkerSteps(w) == Sleep(w) \/ Leave(w) \/ Join(w) \/ Fetch(w) \/ Catch(w) \/ Report(w)

-----------------------------------------------------------------------------
(* A thread runs a task: a worker, or the caller in run_serial. *)
Runs(t) == IF t = Main THEN caller = "serial" ELSE pc[t] = "runs" /\ current_task

TaskReturns(t) ==
    /\ Runs(t)
    /\ done' = done \cup {task_index[t]}
    /\ IF t = Main
       THEN /\ task_index' = [task_index EXCEPT ![Main] = @ + 1]
            /\ IF task_index[Main] + 1 = asked
               THEN caller' = "outside" /\ outcome' = "returned"
               ELSE UNCHANGED <<caller, outcome>>
            /\ UNCHANGED pc
       ELSE Go(t, "fetches") /\ UNCHANGED <<task_index, caller, outcome>>
    /\ UNCHANGED <<sharedVars, asleep, seen_generation, caller_asleep, calls, asked, threw>>

(* run_serial leaves at the first task that throws. *)
TaskThrows(t) ==
    /\ Runs(t)
    /\ threw' = threw \cup {task_index[t]}
    /\ IF t = Main THEN caller' = "outside" /\ outcome' = "raised" /\ UNCHANGED pc
                   ELSE Go(t, "catches") /\ UNCHANGED <<caller, outcome>>
    /\ UNCHANGED <<sharedVars, asleep, seen_generation, caller_asleep, calls, asked,
                   task_index, done>>

-----------------------------------------------------------------------------
(* parallel_for.  With no more tasks than workers the caller runs them     *)
(* itself.                                                                 *)
Begun(n) ==
    /\ caller = "outside" /\ calls < MaxCalls /\ n > 0
    /\ calls' = calls + 1 /\ asked' = n /\ outcome' = "none"
    /\ done' = {} /\ threw' = {}

CallSerial(n) ==
    /\ Begun(n) /\ n <= Cardinality(Workers)
    /\ caller' = "serial" /\ task_index' = [task_index EXCEPT ![Main] = 0]
    /\ UNCHANGED <<sharedVars, workerVars, caller_asleep>>

\* Mutated Publish: next_task is not reset.
PublishOnwards(n) ==
    /\ Begun(n) /\ n > Cardinality(Workers)
    /\ current_task' = TRUE /\ task_exception' = FALSE
    /\ task_count' = n
    /\ active_workers' = Cardinality(Workers)
    /\ generation' = generation + 1
    /\ caller' = "notifies"
    /\ UNCHANGED <<stop, completed_generation, next_task, workerVars, caller_asleep, task_index>>

Publish(n) ==
    /\ Begun(n) /\ n > Cardinality(Workers)
    /\ current_task' = TRUE /\ task_exception' = FALSE
    /\ next_task' = 0 /\ task_count' = n
    /\ active_workers' = Cardinality(Workers)
    /\ generation' = generation + 1
    /\ caller' = "notifies"
    /\ UNCHANGED <<stop, completed_generation, workerVars, caller_asleep, task_index>>

parallel_for(n) == CallSerial(n) \/ Publish(n)

\* Mutated Notify: notify_one.
NotifyOne ==
    /\ caller = "notifies" /\ caller' = "awaits"
    /\ asleep' \in {asleep \ {w} : w \in asleep} \cup {s \in {asleep} : s = {}}
    /\ UNCHANGED <<sharedVars, pc, seen_generation, caller_asleep, calls, asked, outcome,
                   taskVars>>

(* task_ready_.notify_all(), after the lock was released. *)
Notify ==
    /\ caller = "notifies" /\ caller' = "awaits"
    /\ asleep' = {}
    /\ UNCHANGED <<sharedVars, pc, seen_generation, caller_asleep, calls, asked, outcome,
                   taskVars>>

AwaitDone ==
    /\ caller = "awaits" /\ ~caller_asleep /\ completed_generation # generation
    /\ caller_asleep' = TRUE
    /\ UNCHANGED <<sharedVars, workerVars, caller, calls, asked, outcome, taskVars>>

Return ==
    /\ caller = "awaits" /\ ~caller_asleep /\ completed_generation = generation
    /\ outcome' = IF task_exception THEN "raised" ELSE "returned"
    /\ current_task' = FALSE /\ task_exception' = FALSE
    /\ caller' = "outside"
    /\ UNCHANGED <<stop, generation, completed_generation, active_workers, next_task,
                   task_count, workerVars, caller_asleep, calls, asked, taskVars>>

(* stop_workers, called by the destructor. *)
Stop ==
    /\ caller = "outside" /\ caller' = "notifies stop"
    /\ stop' = TRUE
    /\ UNCHANGED <<generation, completed_generation, active_workers, next_task, task_count,
                   current_task, task_exception, workerVars, caller_asleep, calls, asked,
                   outcome, taskVars>>

NotifyStop ==
    /\ caller = "notifies stop" /\ caller' = "joins"
    /\ asleep' = {}
    /\ UNCHANGED <<sharedVars, pc, seen_generation, caller_asleep, calls, asked, outcome,
                   taskVars>>

JoinAll ==
    /\ caller = "joins" /\ \A w \in Workers : pc[w] = "gone"
    /\ caller' = "destroyed"
    /\ UNCHANGED <<sharedVars, workerVars, caller_asleep, calls, asked, outcome, taskVars>>

CallerSteps == Notify \/ AwaitDone \/ Return \/ Stop \/ NotifyStop \/ JoinAll

(* Condition variables may wake their waiters for no reason. *)
WakeWorker(w) ==
    /\ w \in asleep /\ asleep' = asleep \ {w}
    /\ UNCHANGED <<sharedVars, pc, seen_generation, callerVars, taskVars>>

WakeCaller ==
    /\ caller_asleep /\ caller_asleep' = FALSE
    /\ UNCHANGED <<sharedVars, workerVars, caller, calls, asked, outcome, taskVars>>

Wakes == WakeCaller \/ \E w \in Workers : WakeWorker(w)

-----------------------------------------------------------------------------
InTask(w) == pc[w] \in {"runs", "catches"}

(* The counters of the executor and the places of its threads. *)
ExecutorTypeOK ==
    /\ completed_generation <= generation /\ generation <= MaxCalls
    /\ next_task \in 0..(task_count + Cardinality(Workers))
    /\ asleep \subseteq {w \in Workers : pc[w] = "waits"}
    /\ caller \in {"outside", "serial", "notifies", "awaits", "notifies stop", "joins",
                   "destroyed"}
    /\ done \cup threw \subseteq Tasks

(* A worker is in the loop over the tasks only during a call, of which it  *)
(* has seen the generation, and is counted: current_task_ is never called  *)
(* after parallel_for emptied it, nor by a worker of an earlier call.      *)
WorkersInCall ==
    \A w \in Workers : pc[w] \in {"fetches", "runs", "catches", "reports"} =>
        /\ current_task /\ caller \in {"notifies", "awaits"}
        /\ seen_generation[w] = generation /\ completed_generation # generation

ActiveCounted ==
    active_workers = IF completed_generation = generation THEN 0 ELSE
        Cardinality({w \in Workers : pc[w] # "waits" \/ seen_generation[w] # generation})

ExecutorConsistent == ExecutorTypeOK /\ WorkersInCall /\ ActiveCounted
=============================================================================
