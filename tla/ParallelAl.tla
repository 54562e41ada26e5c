----------------------------- MODULE ParallelAl -----------------------------
(***************************************************************************)
(* The worker pool of the angrylion renderer (parallel_al.cpp): one mutex, *)
(* two condition variables and a bit per worker.  The main thread doubles  *)
(* as worker 0.  Bits, notifications and predicates are handled with       *)
(* m_signal_mutex held, so each critical section is one step; m_task and   *)
(* m_accept_work are touched outside it.  A thread blocked on a condition  *)
(* variable is at "sleep" or "blocked".                                    *)
(***************************************************************************)
EXTENDS Naturals, Sequences, FiniteSets

CONSTANTS NumWorkers,   \* min(num_workers, PARALLEL_MAX_WORKERS)
          MaxRuns       \* bound: run() calls in one behaviour

ASSUME NumWorkersAssumption == NumWorkers \in Nat

ASSUME MaxRunsAssumption == MaxRuns \in Nat

Thread == 1 .. NumWorkers - 1     \* worker 0 is the main thread
Worker == {0} \cup Thread

EmptyTask == 0                    \* the constructor's [](std::uint32_t) {}

VARIABLES m_task,          \* the std::function: the number of its run
          m_tasks_done,    \* the bits set
          m_accept_work,
          main,            \* where the main thread is
          caller,          \* which call the main thread is in
          wpc,             \* where each worker thread is
          runs,            \* history: run() calls started
          ran              \* history: tasks executed by each worker

vars == <<m_task, m_tasks_done, m_accept_work, main, caller, wpc, runs, ran>>

MainPC == {"spawn", "wait", "blocked", "idle", "start", "task0", "join",
           "closed"}
ThreadPC == {"unborn", "top", "task", "mark", "sleep", "check", "exited"}

\* The mask of all worker bits but bit 0.
m_all_tasks_done == Thread

Init ==
  /\ m_task = EmptyTask
  /\ m_tasks_done = {}
  /\ m_accept_work = TRUE
  /\ main = "spawn"
  /\ caller = "ctor"
  /\ wpc = [w \in Thread |-> "unborn"]
  /\ runs = 0
  /\ ran = [w \in Worker |-> << >>]

-----------------------------------------------------------------------------
(* The main thread *)

\* The constructor creates the threads one at a time, in order of their id.
Spawn(w) ==
  /\ main = "spawn"
  /\ wpc[w] = "unborn"
  /\ \A v \in Thread : v < w => wpc[v] # "unborn"
  /\ wpc' = [wpc EXCEPT ![w] = "top"]
  /\ UNCHANGED <<m_task, m_tasks_done, m_accept_work, main, caller, runs, ran>>

SpawnedAll ==
  /\ main = "spawn"
  /\ \A w \in Thread : wpc[w] # "unborn"
  /\ main' = "wait"
  /\ UNCHANGED <<m_task, m_tasks_done, m_accept_work, caller, wpc, runs, ran>>

\* run(): store the task; start_work() follows.
CallRun ==
  /\ main = "idle"
  /\ m_accept_work            \* throws otherwise
  /\ runs < MaxRuns
  /\ runs' = runs + 1
  /\ m_task' = runs + 1
  /\ main' = "start"
  /\ caller' = "run"
  /\ UNCHANGED <<m_tasks_done, m_accept_work, wpc, ran>>

\* Workers that wait on m_signal_work get to test their predicate.
NotifyAll(pcs) == [w \in Thread |-> IF pcs[w] = "sleep" THEN "check" ELSE pcs[w]]

\* Mutant: notify_one for notify_all.
start_work_notify_one ==
  /\ main = "start"
  /\ m_tasks_done' = {}
  /\ \E w \in Thread :
       wpc' = [wpc EXCEPT ![w] = IF @ = "sleep" THEN "check" ELSE @]
  /\ main' = IF caller = "run" THEN "task0" ELSE "join"
  /\ UNCHANGED <<m_task, m_accept_work, caller, runs, ran>>

\* start_work(), from run() and from the destructor.
start_work ==
  /\ main = "start"
  /\ m_tasks_done' = {}
  /\ wpc' = NotifyAll(wpc)
  /\ main' = IF caller = "run" THEN "task0" ELSE "join"
  /\ UNCHANGED <<m_task, m_accept_work, caller, runs, ran>>

\* m_task(0) on the main thread, then wait().
RunTask0 ==
  /\ main = "task0"
  /\ ran' = [ran EXCEPT ![0] = Append(@, m_task)]
  /\ main' = "wait"
  /\ UNCHANGED <<m_task, m_tasks_done, m_accept_work, caller, wpc, runs>>

\* ~Parallel(): wait() first.
CallDestroy ==
  /\ main = "idle"
  /\ main' = "wait"
  /\ caller' = "dtor"
  /\ UNCHANGED <<m_task, m_tasks_done, m_accept_work, wpc, runs, ran>>

\* Mutant: one worker's bit is enough.
any_task_done == m_all_tasks_done # {} => m_tasks_done # {}

\* The predicate of wait().
all_tasks_done == m_tasks_done = m_all_tasks_done

WaitBlock ==
  /\ main = "wait"
  /\ ~all_tasks_done
  /\ main' = "blocked"
  /\ UNCHANGED <<m_task, m_tasks_done, m_accept_work, caller, wpc, runs, ran>>

\* wait() returns; the destructor goes on to stop the workers.
WaitReturn ==
  /\ main = "wait"
  /\ all_tasks_done
  /\ IF caller = "dtor"
     THEN main' = "start" /\ m_accept_work' = FALSE
     ELSE main' = "idle" /\ UNCHANGED m_accept_work
  /\ UNCHANGED <<m_task, m_tasks_done, caller, wpc, runs, ran>>

Join ==
  /\ main = "join"
  /\ \A w \in Thread : wpc[w] = "exited"
  /\ main' = "closed"
  /\ UNCHANGED <<m_task, m_tasks_done, m_accept_work, caller, wpc, runs, ran>>

-----------------------------------------------------------------------------
(* do_work *)

\* while (m_accept_work), then call m_task: it is in use until TaskEnd.
TaskBegin(w) ==
  /\ wpc[w] = "top"
  /\ m_accept_work
  /\ wpc' = [wpc EXCEPT ![w] = "task"]
  /\ UNCHANGED <<m_task, m_tasks_done, m_accept_work, main, caller, runs, ran>>

Exit(w) ==
  /\ wpc[w] = "top"
  /\ ~m_accept_work
  /\ wpc' = [wpc EXCEPT ![w] = "exited"]
  /\ UNCHANGED <<m_task, m_tasks_done, m_accept_work, main, caller, runs, ran>>

TaskEnd(w) ==
  /\ wpc[w] = "task"
  /\ ran' = IF m_task = EmptyTask THEN ran
            ELSE [ran EXCEPT ![w] = Append(@, m_task)]
  /\ wpc' = [wpc EXCEPT ![w] = "mark"]
  /\ UNCHANGED <<m_task, m_tasks_done, m_accept_work, main, caller, runs>>

\* Mutant: the bit is set, the main thread is not told.
MarkQuietly(w) ==
  /\ wpc[w] = "mark"
  /\ m_tasks_done' = m_tasks_done \cup {w}
  /\ wpc' = [wpc EXCEPT ![w] = "sleep"]
  /\ UNCHANGED <<m_task, m_accept_work, main, caller, runs, ran>>

\* Set the bit, notify the main thread and wait: the bit was just set, so
\* the predicate is false and the worker sleeps.
Mark(w) ==
  /\ wpc[w] = "mark"
  /\ m_tasks_done' = m_tasks_done \cup {w}
  /\ main' = IF main = "blocked" THEN "wait" ELSE main
  /\ wpc' = [wpc EXCEPT ![w] = "sleep"]
  /\ UNCHANGED <<m_task, m_accept_work, caller, runs, ran>>

\* Mutant: a woken worker does not look at its bit.
CheckNothing(w) ==
  /\ wpc[w] = "check"
  /\ wpc' = [wpc EXCEPT ![w] = "top"]
  /\ UNCHANGED <<m_task, m_tasks_done, m_accept_work, main, caller, runs, ran>>

\* A woken worker starts over if its bit is clear and sleeps again if not.
Check(w) ==
  /\ wpc[w] = "check"
  /\ wpc' = [wpc EXCEPT ![w] = IF w \in m_tasks_done THEN "sleep" ELSE "top"]
  /\ UNCHANGED <<m_task, m_tasks_done, m_accept_work, main, caller, runs, ran>>

SpuriousWakeupWorker(w) ==
  /\ wpc[w] = "sleep"
  /\ wpc' = [wpc EXCEPT ![w] = "check"]
  /\ UNCHANGED <<m_task, m_tasks_done, m_accept_work, main, caller, runs, ran>>

SpuriousWakeupMain ==
  /\ main = "blocked"
  /\ main' = "wait"
  /\ UNCHANGED <<m_task, m_tasks_done, m_accept_work, caller, wpc, runs, ran>>

Terminated == main = "closed" /\ UNCHANGED vars

MainStep == SpawnedAll \/ start_work \/ RunTask0 \/ WaitBlock \/ WaitReturn
            \/ Join \/ \E w \in Thread : Spawn(w)
WorkerStep(w) == TaskBegin(w) \/ Exit(w) \/ TaskEnd(w) \/ Mark(w) \/ Check(w)

Next ==
  \/ CallRun \/ CallDestroy \/ MainStep
  \/ \E w \in Thread : WorkerStep(w) \/ SpuriousWakeupWorker(w)
  \/ SpuriousWakeupMain
  \/ Terminated

SafeSpec == Init /\ [][Next]_vars

\* Every thread is scheduled; calls to run() and the destructor are up to
\* the renderer; spurious wake-ups are not relied on.
Spec ==
  /\ SafeSpec
  /\ WF_vars(MainStep)
  /\ \A w \in Thread : WF_vars(WorkerStep(w))

-----------------------------------------------------------------------------
(* Properties *)

\* Every variable has its type.
TypeOK ==
  /\ m_task \in 0 .. runs
  /\ m_tasks_done \subseteq Thread
  /\ m_accept_work \in BOOLEAN
  /\ main \in MainPC
  /\ caller \in {"ctor", "run", "dtor"}
  /\ wpc \in [Thread -> ThreadPC]
  /\ runs \in Nat
  /\ ran \in [Worker -> Seq(Nat)]

\* When run() has returned, every worker has executed every task exactly
\* once and in order: no worker slept through a task or ran one twice.
EveryTaskOnce ==
  main = "idle" => \A w \in Worker : ran[w] = [n \in 1 .. runs |-> n]

\* m_task is written without the mutex: it, and m_accept_work, change only
\* when no worker thread can be reading them.
TaskNotInUse ==
  [][(m_task' # m_task \/ m_accept_work' # m_accept_work) =>
       \A w \in Thread : wpc[w] \in {"sleep", "check"} /\ w \in m_tasks_done]_vars

\* A main thread blocked in wait() still has a worker whose bit is to come
\* and whose notification wakes it.
BlockedHasWaker ==
  main = "blocked" =>
    \E w \in Thread : w \notin m_tasks_done /\ wpc[w] # "exited"

\* The destructor returns: every worker leaves do_work and is joined.
DestructorReturns == caller = "dtor" ~> main = "closed"

\* The pool implements fork-join: no run overlaps another, each worker runs
\* each task once, and every run returns.
Pool == INSTANCE ForkJoin WITH
  phase <- IF main = "closed" THEN "closed"
           ELSE IF caller = "run" /\ main # "idle" THEN "running" ELSE "idle"
ImplementsForkJoin == Pool!Spec
=============================================================================
