-------------------------- MODULE DiscoveryProofs --------------------------
(***************************************************************************)
(* Machine-checked proofs about Discovery, for any number of rows,         *)
(* requests and workers, any number of retries and any of the faults.      *)
(***************************************************************************)
EXTENDS Discovery, FiniteSetTheorems, TLAPS

\* The run a worker that is not idle is at.
RunOf(w) == task[w].run

\* Who has a task is at one of its retries.
BusyHasTask == \A w \in Workers : at[w] # "idle" => task[w] \in Tasks

\* A run that is executed is not pending: GiveUp may have failed it meanwhile,
\* but nobody may claim it.
ExecutedIsTaken == \A w \in Workers :
    at[w] \in Executing => status[RunOf(w)] \notin {"pending", "absent"}

\* What waits for the provider, or for a worker, has stored nothing.
NothingStoredYet ==
    /\ \A r \in Runs : status[r] \in {"pending", "absent"} => r \notin payload
    /\ \A w \in Workers : at[w] = "searching" => RunOf(w) \notin payload

Inv == TypeOK /\ BusyHasTask /\ ExecutedIsTaken /\ OneExecutor /\ NothingStoredYet

LEMMA InvInitially == ASSUME Assumption, Init PROVE Inv
BY DEF Assumption, Init, Inv, TypeOK, BusyHasTask, ExecutedIsTaken, OneExecutor,
       NothingStoredYet, Executing, Active, Terminal, NoTask, RunOf

\* The minutes requests fall in are numbers.
LEMMA MinutesFacts == ASSUME Assumption PROVE Minutes \subseteq Nat
<1>1. IsFiniteSet(Made)
  BY FS_Subset DEF Assumption, Made
<1>2. Cardinality(Made) \in Nat
  BY <1>1, FS_CardinalityType
<1>3. QED
  BY <1>2 DEF Minutes

\* A task that is enqueued leaves the queue typed.
LEMMA EnqueueFacts ==
    ASSUME TypeOK, NEW t \in Tasks, Enqueue(t) PROVE queue' \in [Tasks -> Nat]
BY DEF TypeOK, Enqueue

\* A request changes no row but one that was absent.
LEMMA RequestKeeps ==
    ASSUME Assumption, Inv, NEW c \in Requests, NEW r \in Runs,
           Ask(c) \/ AnswerExisting(c) \/ CreateBlocked(c, r) \/ CreateRun(c, r)
    PROVE  Inv'
<1> USE DEF Inv, rows, work
<1>1. CASE Ask(c) \/ AnswerExisting(c)
  <2>1. \E m \in Nat : asked' = [asked EXCEPT ![c] = m]
    BY <1>1, MinutesFacts DEF Ask, AnswerExisting
  <2>2. UNCHANGED <<rows, queue, work, refused>>
    BY <1>1 DEF Ask, AnswerExisting
  <2>3. QED
    BY <2>1, <2>2 DEF TypeOK, BusyHasTask, ExecutedIsTaken, OneExecutor,
                      NothingStoredYet, RunOf
<1>2. CASE CreateBlocked(c, r) \/ CreateRun(c, r)
  <2>1. PICK s \in {"pending", "blocked_by_budget"} : Insert(c, r, s)
    BY <1>2 DEF CreateBlocked, CreateRun
  <2>2. [run |-> r, retries |-> 0] \in Tasks
    BY DEF Tasks, Assumption
  <2>3. queue' \in [Tasks -> Nat]
    BY <1>2, <2>2, EnqueueFacts DEF CreateBlocked, CreateRun, TypeOK
  <2>4. status[r] = "absent"
    BY <2>1 DEF Insert, Fresh, Made
  <2>5. TypeOK'
    BY <2>1, <2>3 DEF Insert, TypeOK, Active, Terminal
  <2>6. ASSUME NEW w \in Workers, at[w] \in Executing PROVE RunOf(w) # r /\ RunOf(w) \in Runs
    BY <2>4, <2>6 DEF ExecutedIsTaken, BusyHasTask, Executing, Tasks, RunOf
  <2>7. ExecutedIsTaken' /\ NothingStoredYet'
    BY <2>1, <2>4, <2>6
       DEF Insert, TypeOK, ExecutedIsTaken, NothingStoredYet, Executing, RunOf
  <2>8. QED
    BY <2>1, <2>5, <2>7 DEF Insert, BusyHasTask, OneExecutor
<1>3. QED
  BY <1>1, <1>2

\* A worker moves on with its task, and writes its row at most.
LEMMA GotoKeeps ==
    ASSUME Assumption, Inv, NEW w \in Workers,
           Store(w) \/ RetryableError(w) \/ Fail(w) \/ Complete(w)
    PROVE  Inv'
<1> DEFINE r == RunOf(w)
<1>1. at[w] \in Executing /\ task[w] \in Tasks /\ r \in Runs
  BY DEF Inv, BusyHasTask, Store, RetryableError, Retryable, Fail, Complete,
         Executing, Tasks, RunOf
<1>2. \A v \in Workers : v # w /\ at[v] \in Executing => RunOf(v) # r
  BY <1>1 DEF Inv, OneExecutor, RunOf
<1>3. CASE Store(w)
  BY <1>1, <1>2, <1>3
     DEF Store, Goto, Inv, TypeOK, BusyHasTask, ExecutedIsTaken, OneExecutor,
         NothingStoredYet, Executing, RunOf
<1>4. CASE RetryableError(w) \/ Fail(w) \/ Complete(w)
  <2>1. UNCHANGED <<payload, asked, queue, task, lock, refused, key>>
    BY <1>4 DEF RetryableError, Fail, Complete, Set
  <2>2. PICK s \in {"pending", "failed", "completed"} :
            /\ status' = [status EXCEPT ![r] = s]
            /\ s = "pending" => at[w] = "searching"
    BY <1>4 DEF RetryableError, Retryable, Fail, Complete, Set, RunOf
  <2>3. PICK x \in {"retrying", "ended"} : at' = [at EXCEPT ![w] = x]
    BY <1>4 DEF RetryableError, Fail, Complete, Goto
  <2>4. /\ status' \in [Runs -> Active \cup Terminal \cup {"absent"}]
        /\ at' \in [Workers -> Executing \cup {"idle", "locked", "retrying", "ended"}]
    BY <2>2, <2>3 DEF Inv, TypeOK, Active, Terminal
  <2>5. at[w] # "idle" /\ at'[w] \notin Executing
        /\ \A v \in Workers : v # w => at'[v] = at[v]
    BY <1>1, <2>3 DEF Inv, TypeOK, Executing
  <2>6. TypeOK' /\ BusyHasTask'
    BY <1>1, <2>1, <2>4, <2>5 DEF Inv, TypeOK, BusyHasTask
  <2>7. ExecutedIsTaken' /\ OneExecutor'
    BY <1>2, <2>1, <2>2, <2>5 DEF Inv, TypeOK, ExecutedIsTaken, OneExecutor, RunOf
  <2>8. NothingStoredYet'
    BY <1>1, <2>1, <2>2, <2>5 DEF Inv, TypeOK, NothingStoredYet, Executing, RunOf
  <2>9. QED
    BY <2>6, <2>7, <2>8 DEF Inv
<1>5. QED
  BY <1>3, <1>4

\* A worker becomes idle, and its row is failed at most.
LEMMA IdleKeeps ==
    ASSUME Assumption, Inv, NEW w \in Workers,
           Retry(w) \/ GiveUp(w) \/ End(w) \/ Killed(w)
    PROVE  Inv'
<1>1. at[w] # "idle" /\ task[w] \in Tasks /\ RunOf(w) \in Runs
  BY DEF Inv, BusyHasTask, Retry, GiveUp, End, Killed, Tasks, RunOf
<1>2. /\ at' = [at EXCEPT ![w] = "idle"]
      /\ task' = [task EXCEPT ![w] = NoTask]
      /\ UNCHANGED <<payload, asked, refused, key>>
      /\ lock' \in Workers \cup {NoWorker}
  BY DEF Retry, GiveUp, End, Killed, Return, Goto, Set, rows, Inv, TypeOK
<1>3. UNCHANGED status \/ status' = [status EXCEPT ![RunOf(w)] = "failed"]
  BY DEF Retry, GiveUp, End, Killed, Set, rows, RunOf
<1>4. queue' \in [Tasks -> Nat]
  <2>1. CASE Retry(w)
    <3>1. [run |-> task[w].run, retries |-> task[w].retries + 1] \in Tasks
      BY <1>1, <2>1 DEF Retry, Tasks, Assumption
    <3>2. QED
      BY <2>1, <3>1, EnqueueFacts DEF Retry, Inv
  <2>2. CASE ~ Retry(w)
    BY <2>2 DEF GiveUp, End, Killed, Inv, TypeOK
  <2>3. QED
    BY <2>1, <2>2
<1>5. TypeOK' /\ BusyHasTask'
  <2>1. status' \in [Runs -> Active \cup Terminal \cup {"absent"}]
    BY <1>3 DEF Inv, TypeOK, Terminal
  <2>2. /\ at' \in [Workers -> Executing \cup {"idle", "locked", "retrying", "ended"}]
        /\ task' \in [Workers -> Tasks \cup {NoTask}]
    BY <1>2 DEF Inv, TypeOK
  <2>3. TypeOK'
    BY <1>2, <1>4, <2>1, <2>2 DEF Inv, TypeOK
  <2>4. BusyHasTask'
    BY <1>2 DEF Inv, TypeOK, BusyHasTask
  <2>5. QED
    BY <2>3, <2>4
<1>6. \A v \in Workers : at'[v] # "idle" => v # w /\ at'[v] = at[v] /\ task'[v] = task[v]
  BY <1>2 DEF Inv, TypeOK
<1>7. \A v \in Workers : at'[v] \in Executing =>
        v # w /\ at'[v] = at[v] /\ task'[v] = task[v]
  BY <1>6 DEF Executing
<1>8. \A r \in Runs : status'[r] \in {"pending", "absent"} => status'[r] = status[r]
  BY <1>3 DEF Inv, TypeOK
<1>9. \A v \in Workers : at[v] \in Executing => RunOf(v) \in Runs
  BY DEF Inv, BusyHasTask, Executing, Tasks, RunOf
<1>10. ExecutedIsTaken' /\ OneExecutor'
  BY <1>7, <1>8, <1>9 DEF Inv, ExecutedIsTaken, OneExecutor, RunOf
<1>11. NothingStoredYet'
  BY <1>2, <1>7, <1>8 DEF Inv, NothingStoredYet, Executing, RunOf
<1>12. QED
  BY <1>5, <1>10, <1>11 DEF Inv

\* A worker takes a task, or the run of the task it took.
LEMMA ClaimKeeps ==
    ASSUME Assumption, Inv, NEW w \in Workers, Claim(w) PROVE Inv'
<1> DEFINE r == RunOf(w)
<1>1. at[w] = "locked" /\ task[w] \in Tasks /\ r \in Runs
  BY DEF Inv, BusyHasTask, Claim, Tasks, RunOf
<1>2. CASE Claimable(r)
  <2>1. /\ status[r] = "pending"
        /\ status' = [status EXCEPT ![r] = "running"]
        /\ at' = [at EXCEPT ![w] = "searching"]
        /\ UNCHANGED <<key, payload, asked, queue, task, lock, refused>>
    BY <1>2 DEF Claim, Claimable, Set, Goto, RunOf
  <2>2. \A v \in Workers : at[v] \in Executing => RunOf(v) # r
    BY <2>1 DEF Inv, ExecutedIsTaken
  <2>3. TypeOK' /\ BusyHasTask'
    BY <1>1, <2>1 DEF Inv, TypeOK, BusyHasTask, Active, Executing
  <2>4. ExecutedIsTaken' /\ OneExecutor'
    BY <1>1, <2>1, <2>2 DEF Inv, TypeOK, ExecutedIsTaken, OneExecutor, Executing, RunOf
  <2>5. NothingStoredYet'
    BY <1>1, <2>1 DEF Inv, TypeOK, NothingStoredYet, RunOf
  <2>6. QED
    BY <2>3, <2>4, <2>5 DEF Inv
<1>3. CASE ~ Claimable(r)
  <2>1. /\ at' = [at EXCEPT ![w] = "idle"]
        /\ task' = [task EXCEPT ![w] = NoTask]
        /\ lock' \in Workers \cup {NoWorker}
        /\ UNCHANGED <<status, key, payload, asked, queue, refused>>
    BY <1>3 DEF Claim, Return, Goto, RunOf, Inv, TypeOK
  <2>2. \A v \in Workers : at'[v] # "idle" => at'[v] = at[v] /\ task'[v] = task[v]
    BY <2>1 DEF Inv, TypeOK
  <2>3. QED
    BY <2>1, <2>2 DEF Inv, TypeOK, BusyHasTask, ExecutedIsTaken, OneExecutor,
                      NothingStoredYet, Executing, RunOf
<1>4. QED
  BY <1>2, <1>3

LEMMA DeliverKeeps ==
    ASSUME Assumption, Inv, NEW w \in Workers, NEW t \in Tasks, Deliver(w, t) PROVE Inv'
<1>1. /\ queue' \in [Tasks -> Nat] /\ lock' \in Workers \cup {NoWorker}
      /\ refused' \subseteq Runs
      /\ UNCHANGED <<status, key, payload, asked>>
  <2>1. queue' \in [Tasks -> Nat]
    BY DEF Deliver, Inv, TypeOK
  <2>2. t.run \in Runs
    BY DEF Tasks
  <2>3. refused' \subseteq Runs /\ lock' \in Workers \cup {NoWorker}
    BY <2>2 DEF Deliver, Begin, work, Inv, TypeOK
  <2>4. QED
    BY <2>1, <2>3 DEF Deliver, rows
<1>2. \/ UNCHANGED <<at, task>>
      \/ at' = [at EXCEPT ![w] = "locked"] /\ task' = [task EXCEPT ![w] = t]
  BY DEF Deliver, Begin, work
<1>3. \A v \in Workers : at'[v] \in Executing => at'[v] = at[v] /\ task'[v] = task[v]
  BY <1>2 DEF Inv, TypeOK, Executing
<1>4. TypeOK' /\ BusyHasTask'
  BY <1>1, <1>2 DEF Inv, TypeOK, BusyHasTask
<1>5. ExecutedIsTaken' /\ OneExecutor' /\ NothingStoredYet'
  BY <1>1, <1>3 DEF Inv, ExecutedIsTaken, OneExecutor, NothingStoredYet, Executing, RunOf
<1>6. QED
  BY <1>4, <1>5 DEF Inv

\* Every step keeps the invariant.
LEMMA InvPreserved == ASSUME Assumption, Inv, [Next]_vars PROVE Inv'
<1>1. CASE LockExpires
  BY <1>1 DEF LockExpires, rows, Inv, TypeOK, BusyHasTask, ExecutedIsTaken,
              OneExecutor, NothingStoredYet, RunOf
<1>2. CASE UNCHANGED vars
  BY <1>2 DEF vars, rows, work, Inv, TypeOK, BusyHasTask, ExecutedIsTaken,
              OneExecutor, NothingStoredYet, RunOf
<1>3. ASSUME NEW c \in Requests, Ask(c) \/ AnswerExisting(c) PROVE Inv'
  <2>1. PICK r \in Runs : TRUE
    BY <1>3 DEF Ask, AnswerExisting, SameKey, Made
  <2>2. QED
    BY <1>3, <2>1, RequestKeeps
<1>4. ASSUME NEW w \in Workers, Work(w) PROVE Inv'
  BY <1>4, GotoKeeps, IdleKeeps, ClaimKeeps, DeliverKeeps DEF Work, Execute
<1>5. QED
  BY <1>1, <1>2, <1>3, <1>4, RequestKeeps DEF Next

LEMMA InvAlways == ASSUME Assumption PROVE Spec => []Inv
BY InvInitially, InvPreserved, PTL DEF Spec

-----------------------------------------------------------------------------
\* The variables always hold values of their types (TypeOK).
THEOREM TypeCorrect == ASSUME Assumption PROVE Spec => []TypeOK
<1>1. Inv => TypeOK
  BY DEF Inv
<1>2. QED
  BY <1>1, InvAlways, PTL

\* One worker at a time executes a run (OneExecutor), with the Redis lock, when
\* Redis is down and when the lock ran out: execute_discovery_run takes a row
\* only while it is pending.
THEOREM OneWorker == ASSUME Assumption PROVE Spec => []OneExecutor
<1>1. Inv => OneExecutor
  BY DEF Inv
<1>2. QED
  BY <1>1, InvAlways, PTL

\* A run that waits for a retry has stored nothing (RetriedIsClean), so no retry
\* meets the UNIQUE constraints of an earlier try's payload and usage.
THEOREM RetriesAreClean == ASSUME Assumption PROVE Spec => []RetriedIsClean
<1>1. Inv => RetriedIsClean
  BY DEF Inv, NothingStoredYet, RetriedIsClean
<1>2. QED
  BY <1>1, InvAlways, PTL
=============================================================================
