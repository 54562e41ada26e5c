-------------------------- MODULE ParallelAl_proofs --------------------------
(***************************************************************************)
(* ParallelAl for any number of workers and of runs.  EveryTaskOnce is     *)
(* about the moment run() returns; to carry it there the invariant says,   *)
(* at every moment, which workers still owe the current task (Behind) and  *)
(* what each bit says about the worker's position (Bits, Phases).          *)
(***************************************************************************)
EXTENDS ParallelAl, Integers, TLAPS

Upto(n) == [i \in 1 .. n |-> i]

\* Worker w has not yet executed the current task.
Behind(w) ==
  IF w = 0 THEN caller = "run" /\ main \in {"start", "task0"}
  ELSE IF main = "start" THEN caller = "run"
  ELSE m_accept_work /\ w \notin m_tasks_done /\ wpc[w] # "mark"

History ==
  \A w \in Worker : ran[w] = Upto(IF Behind(w) THEN runs - 1 ELSE runs)

Bits ==
  \A w \in Thread :
    /\ w \in m_tasks_done => wpc[w] \in {"sleep", "check"}
    /\ wpc[w] = "sleep" => w \in m_tasks_done

Phases ==
  /\ m_task = runs
  /\ main \in {"idle", "start"} => m_tasks_done = Thread
  /\ m_accept_work <=> ~(caller = "dtor" /\ main \in {"start", "join", "closed"})
  /\ main \in {"join", "closed"} => caller = "dtor"
  /\ main = "start" => caller # "ctor"
  /\ main = "task0" => caller = "run"
  /\ caller = "run" => runs >= 1
  /\ main = "spawn" => caller = "ctor"
  /\ caller = "dtor" => main # "idle"
  /\ caller = "dtor" /\ main \in {"wait", "blocked"} => m_tasks_done = Thread
  /\ caller = "ctor" => runs = 0
  /\ \A w \in Thread :
       /\ wpc[w] = "unborn" => main = "spawn"
       /\ ~m_accept_work => wpc[w] \in {"sleep", "check", "top", "exited"}
       /\ wpc[w] = "exited" => ~m_accept_work

Inv ==
  /\ TypeOK
  /\ Bits /\ Phases /\ History
  /\ BlockedHasWaker

\* Appending the next task to the first n - 1 tasks gives the first n.
LEMMA UptoAppend ==
  ASSUME NEW n \in Nat, n >= 1
  PROVE  Append(Upto(n - 1), n) = Upto(n)
  BY DEF Upto

\* Worker 0 is not one of the worker threads.
LEMMA ThreadNotMain == \A w \in Thread : w # 0
  BY NumWorkersAssumption DEF Thread

\* Nothing has run when the constructor begins.
LEMMA InitInv == Init => Inv
<1> SUFFICES ASSUME Init PROVE Inv
  OBVIOUS
<1>1. TypeOK
  BY DEF Init, TypeOK, MainPC, ThreadPC, EmptyTask
<1>2. Bits /\ Phases /\ BlockedHasWaker
  BY DEF Init, Bits, Phases, BlockedHasWaker, EmptyTask
<1>3. History
  BY DEF Init, History, Upto, Behind
<1> QED BY <1>1, <1>2, <1>3 DEF Inv

\* run() stores a task when every worker has finished the previous one.
LEMMA CallRunInv == Inv /\ CallRun => Inv'
<1> SUFFICES ASSUME Inv, CallRun PROVE Inv'
  OBVIOUS
<1>0. /\ runs \in Nat /\ runs' = runs + 1 /\ m_task' = runs + 1
      /\ main = "idle" /\ main' = "start" /\ caller' = "run"
      /\ m_accept_work /\ UNCHANGED <<m_tasks_done, m_accept_work, wpc, ran>>
  BY DEF Inv, TypeOK, CallRun
<1>1. TypeOK'
  BY <1>0 DEF Inv, TypeOK, MainPC
<1>2. Bits' /\ BlockedHasWaker'
  BY <1>0 DEF Inv, Bits, BlockedHasWaker
<1>3. Phases'
  BY <1>0 DEF Inv, Phases
<1>4. History'
  <2>1. \A w \in Worker : ~Behind(w) /\ Behind(w)'
    BY <1>0 DEF Inv, Phases, Behind, Worker
  <2>2. runs' - 1 = runs
    BY <1>0
  <2> QED BY <2>1, <2>2, <1>0 DEF Inv, History
<1> QED BY <1>1, <1>2, <1>3, <1>4 DEF Inv

\* start_work() clears the bits of workers that all sleep.
LEMMA StartWorkInv == Inv /\ start_work => Inv'
<1> SUFFICES ASSUME Inv, start_work PROVE Inv'
  OBVIOUS
<1>0. /\ main = "start" /\ m_tasks_done = Thread /\ m_tasks_done' = {}
      /\ caller \in {"run", "dtor"}
      /\ main' = (IF caller = "run" THEN "task0" ELSE "join")
      /\ UNCHANGED <<m_task, m_accept_work, caller, runs, ran>>
      /\ m_accept_work <=> caller = "run"
  BY DEF Inv, TypeOK, Phases, start_work
<1>1. \A w \in Thread : wpc[w] \in {"sleep", "check"} /\ wpc'[w] = "check"
  BY <1>0 DEF Inv, Bits, start_work, NotifyAll
<1>2. TypeOK'
  BY <1>0, <1>1 DEF Inv, TypeOK, MainPC, ThreadPC, start_work, NotifyAll
<1>3. Bits' /\ BlockedHasWaker'
  BY <1>0, <1>1 DEF Bits, BlockedHasWaker
<1>4. Phases'
  BY <1>0, <1>1 DEF Inv, Phases
<1>5. History'
  <2>1. \A w \in Worker : Behind(w)' <=> Behind(w)
    BY <1>0, <1>1, ThreadNotMain DEF Behind, Worker
  <2> QED BY <2>1, <1>0 DEF Inv, History
<1> QED BY <1>2, <1>3, <1>4, <1>5 DEF Inv

\* The main thread runs the task as worker 0.
LEMMA RunTask0Inv == Inv /\ RunTask0 => Inv'
<1> SUFFICES ASSUME Inv, RunTask0 PROVE Inv'
  OBVIOUS
<1>0. /\ main = "task0" /\ caller = "run" /\ main' = "wait"
      /\ runs \in Nat /\ runs >= 1 /\ m_task = runs
      /\ ran \in [Worker -> Seq(Nat)] /\ 0 \in Worker
      /\ ran' = [ran EXCEPT ![0] = Append(ran[0], runs)]
      /\ UNCHANGED <<m_task, m_tasks_done, m_accept_work, caller, wpc, runs>>
  BY DEF Inv, TypeOK, Phases, RunTask0, Worker
<1>1. TypeOK'
  <2>1. ran' \in [Worker -> Seq(Nat)]
    BY <1>0
  <2> QED BY <1>0, <2>1 DEF Inv, TypeOK, MainPC
<1>2. Bits' /\ BlockedHasWaker' /\ Phases'
  BY <1>0 DEF Inv, Bits, BlockedHasWaker, Phases
<1>3. History'
  <2>1. ran'[0] = Upto(runs)
    <3>1. ran[0] = Upto(runs - 1)
      BY <1>0 DEF Inv, History, Behind
    <3> QED BY <3>1, <1>0, UptoAppend
  <2>2. \A w \in Worker : w # 0 => ran'[w] = ran[w] /\ (Behind(w)' <=> Behind(w))
    BY <1>0 DEF Behind
  <2>3. ~Behind(0)'
    BY <1>0 DEF Behind
  <2> QED BY <2>1, <2>2, <2>3, <1>0 DEF Inv, History
<1> QED BY <1>1, <1>2, <1>3 DEF Inv

\* Steps of the main thread that touch neither bits nor tasks.
LEMMA MainQuietInv ==
  ASSUME Inv,
         CallDestroy \/ WaitBlock \/ WaitReturn \/ Join \/ SpawnedAll
           \/ SpuriousWakeupMain
  PROVE  Inv'
<1>0. UNCHANGED <<m_task, m_tasks_done, wpc, runs, ran>>
  BY DEF CallDestroy, WaitBlock, WaitReturn, Join, SpawnedAll,
         SpuriousWakeupMain
<1>1. TypeOK'
  BY DEF Inv, TypeOK, MainPC, CallDestroy, WaitBlock, WaitReturn, Join,
         SpawnedAll, SpuriousWakeupMain
<1>2. Bits'
  BY <1>0 DEF Inv, Bits
<1>3. Phases'
  BY <1>0 DEF Inv, Bits, Phases, TypeOK, CallDestroy, WaitBlock, WaitReturn,
              Join, SpawnedAll, SpuriousWakeupMain, all_tasks_done,
              m_all_tasks_done
<1>4. BlockedHasWaker'
  <2>1. CASE WaitBlock
    <3>1. main = "wait" /\ m_accept_work /\ m_tasks_done # Thread
      BY <2>1 DEF Inv, Phases, WaitBlock, all_tasks_done, m_all_tasks_done
    <3>2. \E w \in Thread : w \notin m_tasks_done
      BY <3>1 DEF Inv, TypeOK
    <3> QED BY <3>1, <3>2, <1>0 DEF Inv, Phases, BlockedHasWaker
  <2>2. CASE ~WaitBlock
    BY <2>2, <1>0 DEF Inv, BlockedHasWaker, CallDestroy, WaitReturn, Join,
                      SpawnedAll, SpuriousWakeupMain
  <2> QED BY <2>1, <2>2
<1>5. History'
  <2>1. \A w \in Worker : Behind(w)' <=> Behind(w)
    <3>1. CASE WaitReturn
      BY <3>1, <1>0 DEF Inv, Phases, Bits, Behind, Worker, WaitReturn,
                        all_tasks_done, m_all_tasks_done
    <3>2. CASE CallDestroy
      BY <3>2, <1>0 DEF Inv, Phases, Behind, CallDestroy
    <3>3. CASE WaitBlock \/ Join \/ SpawnedAll \/ SpuriousWakeupMain
      BY <3>3, <1>0 DEF Inv, Phases, Behind, WaitBlock, Join, SpawnedAll,
                        SpuriousWakeupMain
    <3> QED BY <3>1, <3>2, <3>3
  <2> QED BY <2>1, <1>0 DEF Inv, History
<1> QED BY <1>1, <1>2, <1>3, <1>4, <1>5 DEF Inv

\* Steps of one worker that execute no task and set no bit.
LEMMA WorkerQuietInv ==
  ASSUME Inv, NEW w \in Thread,
         Spawn(w) \/ TaskBegin(w) \/ Exit(w) \/ Check(w)
           \/ SpuriousWakeupWorker(w)
  PROVE  Inv'
<1>0. /\ UNCHANGED <<m_task, m_tasks_done, m_accept_work, main, caller, runs,
                     ran>>
      /\ wpc \in [Thread -> ThreadPC]
      /\ \A v \in Thread : v # w => wpc'[v] = wpc[v]
      /\ wpc' \in [Thread -> ThreadPC]
      /\ wpc[w] # "mark" /\ wpc'[w] # "mark"
  BY DEF Inv, TypeOK, ThreadPC, Spawn, TaskBegin, Exit, Check,
         SpuriousWakeupWorker
<1>1. TypeOK'
  BY <1>0 DEF Inv, TypeOK
<1>2. Bits'
  BY <1>0 DEF Inv, Bits, TypeOK, Spawn, TaskBegin, Exit, Check,
              SpuriousWakeupWorker
<1>3. Phases'
  BY <1>0 DEF Inv, Bits, Phases, TypeOK, Spawn, TaskBegin, Exit, Check,
              SpuriousWakeupWorker
<1>4. BlockedHasWaker'
  <2>1. CASE main = "blocked"
    <3>1. m_accept_work
      BY <2>1 DEF Inv, Phases
    <3> QED BY <3>1, <1>0, <1>3 DEF Inv, BlockedHasWaker, Phases
  <2> QED BY <2>1, <1>0 DEF BlockedHasWaker
<1>5. History'
  <2>1. \A v \in Worker : Behind(v)' <=> Behind(v)
    BY <1>0 DEF Behind, Worker
  <2> QED BY <2>1, <1>0 DEF Inv, History
<1> QED BY <1>1, <1>2, <1>3, <1>4, <1>5 DEF Inv

\* A worker that finishes the task no longer owes it.
LEMMA TaskEndInv == ASSUME Inv, NEW w \in Thread, TaskEnd(w) PROVE Inv'
<1>0. /\ UNCHANGED <<m_task, m_tasks_done, m_accept_work, main, caller, runs>>
      /\ wpc \in [Thread -> ThreadPC] /\ wpc[w] = "task"
      /\ wpc' = [wpc EXCEPT ![w] = "mark"]
      /\ w # 0 /\ w \in Worker /\ m_task = runs /\ runs \in Nat
      /\ w \notin m_tasks_done /\ m_accept_work /\ main # "start"
      /\ ran \in [Worker -> Seq(Nat)]
  BY ThreadNotMain DEF Inv, TypeOK, TaskEnd, Bits, Phases, Worker
<1>1. ran[w] = Upto(runs - 1)
  BY <1>0 DEF Inv, History, Behind
<1>2. ran'[w] = Upto(runs) /\ ran' \in [Worker -> Seq(Nat)]
      /\ \A v \in Worker : v # w => ran'[v] = ran[v]
  <2>1. CASE runs = 0
    BY <2>1, <1>0, <1>1 DEF TaskEnd, EmptyTask, Upto
  <2>2. CASE runs >= 1
    <3>1. ran' = [ran EXCEPT ![w] = Append(ran[w], runs)]
      BY <2>2, <1>0 DEF TaskEnd, EmptyTask
    <3>2. Append(ran[w], runs) = Upto(runs)
      BY <2>2, <1>0, <1>1, UptoAppend
    <3>3. Append(ran[w], runs) \in Seq(Nat)
      BY <1>0
    <3> QED BY <3>1, <3>2, <3>3, <1>0
  <2> QED BY <2>1, <2>2, <1>0
<1>3. TypeOK'
  BY <1>0, <1>2 DEF Inv, TypeOK, ThreadPC
<1>4. Bits' /\ Phases' /\ BlockedHasWaker'
  BY <1>0 DEF Inv, Bits, Phases, BlockedHasWaker
<1>5. History'
  <2>1. \A v \in Worker : v # w => (Behind(v)' <=> Behind(v))
    BY <1>0 DEF Behind, Worker
  <2>2. ~Behind(w)'
    BY <1>0 DEF Behind
  <2> QED BY <2>1, <2>2, <1>0, <1>2 DEF Inv, History
<1> QED BY <1>3, <1>4, <1>5 DEF Inv

\* Setting the bit wakes the main thread.
LEMMA MarkInv == ASSUME Inv, NEW w \in Thread, Mark(w) PROVE Inv'
<1>0. /\ UNCHANGED <<m_task, m_accept_work, caller, runs, ran>>
      /\ main' = (IF main = "blocked" THEN "wait" ELSE main)
      /\ m_tasks_done' = m_tasks_done \cup {w}
      /\ wpc \in [Thread -> ThreadPC] /\ wpc[w] = "mark"
      /\ wpc' = [wpc EXCEPT ![w] = "sleep"]
      /\ w # 0 /\ m_accept_work /\ w \notin m_tasks_done
      /\ main \notin {"idle", "start"}
  BY ThreadNotMain DEF Inv, TypeOK, Mark, Bits, Phases
<1>1. TypeOK'
  BY <1>0 DEF Inv, TypeOK, ThreadPC, MainPC
<1>2. Bits' /\ BlockedHasWaker'
  BY <1>0 DEF Inv, Bits, BlockedHasWaker
<1>3. Phases'
  BY <1>0 DEF Inv, Phases
<1>4. History'
  <2>1. \A v \in Worker : Behind(v)' <=> Behind(v)
    BY <1>0 DEF Behind, Worker
  <2> QED BY <2>1, <1>0 DEF Inv, History
<1> QED BY <1>1, <1>2, <1>3, <1>4 DEF Inv

\* Every step of the pool preserves the invariant.
LEMMA NextInv == Inv /\ [Next]_vars => Inv'
<1> SUFFICES ASSUME Inv, [Next]_vars PROVE Inv'
  OBVIOUS
<1>1. CASE CallRun
  BY <1>1, CallRunInv
<1>2. CASE CallDestroy \/ SpuriousWakeupMain
  BY <1>2, MainQuietInv
<1>3. CASE MainStep
  BY <1>3, MainQuietInv, StartWorkInv, RunTask0Inv, WorkerQuietInv
     DEF MainStep
<1>4. ASSUME NEW w \in Thread, WorkerStep(w) \/ SpuriousWakeupWorker(w)
      PROVE  Inv'
  BY <1>4, WorkerQuietInv, TaskEndInv, MarkInv DEF WorkerStep
<1>5. CASE UNCHANGED vars
  BY <1>5 DEF vars, Inv, TypeOK, Bits, Phases, History, Behind,
              BlockedHasWaker
<1>6. CASE Terminated
  BY <1>5, <1>6 DEF Terminated
<1> QED BY <1>1, <1>2, <1>3, <1>4, <1>5, <1>6 DEF Next

\* The inductive invariant holds throughout.
THEOREM Invariance == SafeSpec => []Inv
  BY InitInv, NextInv, PTL DEF SafeSpec

\* Every worker executes every task exactly once, for any number of workers.
THEOREM TaskOnceSafe == SafeSpec => []EveryTaskOnce
<1>1. Inv => EveryTaskOnce
  <2> SUFFICES ASSUME Inv, main = "idle", NEW w \in Worker
               PROVE  ran[w] = Upto(runs)
    BY DEF EveryTaskOnce, Upto
  <2>1. ~Behind(w)
    BY DEF Inv, Phases, Behind, Worker
  <2> QED BY <2>1 DEF Inv, History
<1> QED BY <1>1, Invariance, PTL

\* The main thread never waits for a bit that nobody will set.
THEOREM WakeupSafe == SafeSpec => []BlockedHasWaker
<1>1. Inv => BlockedHasWaker
  BY DEF Inv
<1> QED BY <1>1, Invariance, PTL

\* A step that changes m_task or m_accept_work finds every worker asleep.
LEMMA TaskNotInUseStep ==
  Inv /\ [Next]_vars =>
    [(m_task' # m_task \/ m_accept_work' # m_accept_work) =>
       \A w \in Thread : wpc[w] \in {"sleep", "check"} /\ w \in m_tasks_done]_vars
<1> SUFFICES ASSUME Inv, [Next]_vars,
                    m_task' # m_task \/ m_accept_work' # m_accept_work
             PROVE  \A w \in Thread : /\ wpc[w] \in {"sleep", "check"}
                                      /\ w \in m_tasks_done
  OBVIOUS
<1>1. CallRun \/ WaitReturn
  BY DEF Next, MainStep, WorkerStep, CallDestroy, SpawnedAll, start_work,
         RunTask0, WaitBlock, Join, Spawn, TaskBegin, Exit, TaskEnd, Mark,
         Check, SpuriousWakeupWorker, SpuriousWakeupMain, Terminated, vars
<1>2. m_tasks_done = Thread
  BY <1>1 DEF Inv, Phases, CallRun, WaitReturn, all_tasks_done,
              m_all_tasks_done
<1> QED BY <1>2 DEF Inv, Bits

\* The shared task object is never replaced under a worker that uses it.
THEOREM TaskNotInUseSafe == SafeSpec => TaskNotInUse
  BY TaskNotInUseStep, Invariance, PTL DEF SafeSpec, TaskNotInUse

-----------------------------------------------------------------------------
(* The pool implements fork-join *)

\* The phase of fork-join, as the refinement mapping has it.
Phase == IF main = "closed" THEN "closed"
         ELSE IF caller = "run" /\ main # "idle" THEN "running" ELSE "idle"

LEMMA UptoLength == ASSUME NEW n \in Nat PROVE Len(Upto(n)) = n
  BY DEF Upto

LEMMA PoolInit == Init => Pool!Init
<1> SUFFICES ASSUME Init PROVE Pool!Init
  OBVIOUS
<1>1. Phase = "idle"
  BY DEF Init, Phase
<1> QED BY <1>1 DEF Init, Pool!Init, Phase

\* Steps that start, execute and end nothing.
LEMMA QuietForPool ==
  ASSUME UNCHANGED <<runs, ran>>, Phase' = Phase
  PROVE  UNCHANGED Pool!vars
BY DEF Pool!vars, Phase

LEMMA BeginPool == Inv /\ CallRun => Pool!Begin
<1> SUFFICES ASSUME Inv, CallRun PROVE Pool!Begin
  OBVIOUS
<1>1. Phase = "idle" /\ Phase' = "running"
  BY DEF CallRun, Phase
<1> QED BY <1>1 DEF CallRun, Pool!Begin, Phase

\* A worker, the main thread among them, executes the task of a run that is on,
\* and for the first time.
LEMMA ExecutePool ==
  ASSUME Inv, NEW w \in Worker, Behind(w), runs >= 1, Phase = "running", Phase' = "running",
         ran' = [ran EXCEPT ![w] = Append(@, runs)], runs' = runs
  PROVE  Pool!Execute(w)
<1>1. runs \in Nat /\ ran[w] = Upto(runs - 1)
  BY DEF Inv, TypeOK, History
<1>2. Len(ran[w]) < runs
  BY <1>1, UptoLength
<1> QED BY <1>2 DEF Pool!Execute, Phase

LEMMA RunTask0Pool == Inv /\ RunTask0 => Pool!Execute(0)
<1> SUFFICES ASSUME Inv, RunTask0 PROVE Pool!Execute(0)
  OBVIOUS
<1>1. /\ 0 \in Worker /\ caller = "run" /\ runs >= 1 /\ m_task = runs
      /\ Behind(0)
  BY DEF Inv, Phases, RunTask0, Behind, Worker
<1>2. Phase = "running" /\ Phase' = "running"
  BY <1>1 DEF RunTask0, Phase
<1>3. ran' = [ran EXCEPT ![0] = Append(@, runs)] /\ runs' = runs
  BY <1>1 DEF RunTask0
<1> QED BY <1>1, <1>2, <1>3, ExecutePool

\* A worker thread runs the constructor's empty task, which no run started, or
\* the task of the run that waits for it.
LEMMA TaskEndPool ==
  ASSUME Inv, NEW w \in Thread, TaskEnd(w)
  PROVE  Pool!Execute(w) \/ UNCHANGED Pool!vars
<1>1. /\ m_task = runs /\ runs \in Nat /\ wpc[w] = "task" /\ w \in Worker /\ w # 0
      /\ m_accept_work /\ main # "start" /\ w \notin m_tasks_done
      /\ UNCHANGED <<main, caller, runs>>
  BY ThreadNotMain DEF Inv, TypeOK, Phases, Bits, TaskEnd, Worker
<1>2. Phase' = Phase
  BY <1>1 DEF Phase
<1>3. CASE runs = 0
  BY <1>1, <1>2, <1>3, QuietForPool DEF TaskEnd, EmptyTask
<1>4. CASE runs >= 1
  <2>1. caller = "run" /\ main \notin {"idle", "closed"}
    <3>1. caller # "ctor" /\ main \notin {"idle", "join", "closed", "spawn"}
      BY <1>1, <1>4 DEF Inv, Phases
    <3>2. caller # "dtor"
      BY <1>1, <3>1 DEF Inv, TypeOK, MainPC, Phases
    <3> QED BY <3>1, <3>2 DEF Inv, TypeOK
  <2>2. Phase = "running" /\ Behind(w)
    BY <1>1, <2>1 DEF Phase, Behind
  <2>3. ran' = [ran EXCEPT ![w] = Append(@, runs)]
    BY <1>1, <1>4 DEF TaskEnd, EmptyTask
  <2> QED BY <1>1, <1>2, <1>4, <2>2, <2>3, ExecutePool
<1> QED BY <1>1, <1>3, <1>4

\* wait() returns from run() when every worker has executed its task.
LEMMA ReturnPool ==
  ASSUME Inv, WaitReturn
  PROVE  Pool!Return \/ UNCHANGED Pool!vars
<1>1. /\ m_tasks_done = Thread /\ UNCHANGED <<runs, ran, caller>> /\ main = "wait"
      /\ runs \in Nat /\ main' = IF caller = "dtor" THEN "start" ELSE "idle"
  BY DEF WaitReturn, all_tasks_done, m_all_tasks_done, Inv, TypeOK
<1>2. CASE caller # "run"
  <2>1. Phase' = Phase
    BY <1>1, <1>2 DEF Phase
  <2> QED BY <1>1, <2>1, QuietForPool
<1>3. CASE caller = "run"
  <2>1. Phase = "running" /\ Phase' = "idle"
    BY <1>1, <1>3 DEF Phase
  <2>2. \A w \in Worker : Len(ran[w]) = runs
    <3> TAKE w \in Worker
    <3>1. ~Behind(w)
      BY <1>1 DEF Behind, Worker
    <3>2. ran[w] = Upto(runs)
      BY <3>1 DEF Inv, History
    <3> QED BY <1>1, <3>2, UptoLength
  <2> QED BY <1>1, <2>1, <2>2 DEF Pool!Return, Phase
<1> QED BY <1>2, <1>3

LEMMA ClosePool == Inv /\ Join => Pool!Close
<1> SUFFICES ASSUME Inv, Join PROVE Pool!Close
  OBVIOUS
<1>1. Phase = "idle" /\ Phase' = "closed"
  BY DEF Inv, Phases, Join, Phase
<1> QED BY <1>1 DEF Join, Pool!Close, Phase

LEMMA PoolStep == Inv /\ [Next]_vars => [Pool!Next]_(Pool!vars)
<1> SUFFICES ASSUME Inv, [Next]_vars PROVE [Pool!Next]_(Pool!vars)
  OBVIOUS
<1>1. CASE CallRun
  BY <1>1, BeginPool DEF Pool!Next
<1>2. CASE CallDestroy \/ SpuriousWakeupMain \/ SpawnedAll \/ start_work \/ WaitBlock
  <2>1. Phase' = Phase /\ UNCHANGED <<runs, ran>>
    BY <1>2 DEF Inv, Phases, CallDestroy, SpuriousWakeupMain, SpawnedAll, start_work,
                WaitBlock, Phase
  <2> QED BY <2>1, QuietForPool
<1>3. CASE RunTask0
  <2>1. 0 \in Worker
    BY DEF Worker
  <2> QED BY <1>3, <2>1, RunTask0Pool DEF Pool!Next
<1>4. CASE WaitReturn
  BY <1>4, ReturnPool DEF Pool!Next
<1>5. CASE Join
  BY <1>5, ClosePool DEF Pool!Next
<1>6. ASSUME NEW w \in Thread,
             Spawn(w) \/ TaskBegin(w) \/ Exit(w) \/ Check(w) \/ SpuriousWakeupWorker(w)
      PROVE  UNCHANGED Pool!vars
  <2>1. Phase' = Phase /\ UNCHANGED <<runs, ran>>
    BY <1>6 DEF Spawn, TaskBegin, Exit, Check, SpuriousWakeupWorker, Phase
  <2> QED BY <2>1, QuietForPool
<1>7. ASSUME NEW w \in Thread, Mark(w)
      PROVE  UNCHANGED Pool!vars
  <2>1. Phase' = Phase /\ UNCHANGED <<runs, ran>>
    BY <1>7 DEF Mark, Phase
  <2> QED BY <2>1, QuietForPool
<1>8. ASSUME NEW w \in Thread, TaskEnd(w)
      PROVE  [Pool!Next]_(Pool!vars)
  <2>1. w \in Worker
    BY DEF Worker
  <2> QED BY <1>8, <2>1, TaskEndPool DEF Pool!Next
<1>9. CASE Terminated \/ UNCHANGED vars
  <2>1. Phase' = Phase /\ UNCHANGED <<runs, ran>>
    BY <1>9 DEF Terminated, vars, Phase
  <2> QED BY <2>1, QuietForPool
<1> QED BY <1>1, <1>2, <1>3, <1>4, <1>5, <1>6, <1>7, <1>8, <1>9
        DEF Next, MainStep, WorkerStep

\* The pool implements fork-join: no run overlaps another, a run returns only when
\* every worker has executed its task once, the destructor closes an idle pool.
\* (That runs do return is checked by TLC.)
THEOREM ImplementsForkJoinSafely == SafeSpec => Pool!SafeSpec
<1>1. SafeSpec => []Inv
  BY Invariance
<1> QED BY <1>1, PoolInit, PoolStep, PTL DEF SafeSpec, Pool!SafeSpec

=============================================================================
