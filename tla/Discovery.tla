----------------------------- MODULE Discovery -----------------------------
(***************************************************************************)
(* The stock discovery runs of one user (app.services.discovery): the API  *)
(* creates a run and queues its task, a worker takes the user's Redis lock *)
(* and executes the run, and an answer worth a retry puts the run back and *)
(* the task into the queue.  One action is one transaction or one step of  *)
(* the task.  Nothing sweeps these runs.                                   *)
(***************************************************************************)
EXTENDS Naturals, FiniteSets

CONSTANTS
    Runs,        \* rows that may be made
    NoRun,       \* none of them
    Requests,    \* the user's requests, one for each page open
    Workers,     \* worker processes of the default queue
    NoWorker,    \* none of them
    MaxRetries,  \* max_retries of the task
    Faults       \* what may go wrong

\* redis: the lock service is down.  expires: the lock runs out while the
\* task runs.  lost, duplicate, killed: as for any task.  straddle: two
\* requests at once fall in two minutes.  prompt: a request comes between
\* the end of a run and the release of its lock.
Assumption ==
    /\ NoRun \notin Runs
    /\ NoWorker \notin Workers
    /\ MaxRetries \in Nat /\ IsFiniteSet(Runs)
    /\ Faults \subseteq {"redis", "expires", "lost", "duplicate", "killed",
                         "straddle", "prompt"}

VARIABLES
    status,   \* of each row, "absent" before it is made
    key,      \* its idempotency key: the minute it was requested in
    payload,  \* rows whose raw payload and usage are stored
    asked,    \* the key of each request in flight, 0 for none
    queue,    \* deliveries the queue will make: [run, retries] -> how many
    at,       \* where each worker is
    task,     \* what it executes: [run, retries]
    lock,     \* the worker whose Redis lock is held
    refused   \* history: pending runs whose task was turned away by the lock

rows == <<status, key, payload>>
work == <<at, task, lock>>
vars == <<rows, asked, queue, work, refused>>

Active   == {"pending", "running"}
Terminal == {"completed", "failed", "blocked_by_budget"}
Tasks    == [run : Runs, retries : 0..MaxRetries]
NoTask   == [run |-> NoRun, retries |-> 0]
Executing == {"searching", "verifying"}

TypeOK ==
    /\ status \in [Runs -> Active \cup Terminal \cup {"absent"}]
    /\ key \in [Runs -> Nat]
    /\ payload \subseteq Runs
    /\ asked \in [Requests -> Nat]
    /\ queue \in [Tasks -> Nat]
    /\ at \in [Workers -> Executing \cup {"idle", "locked", "retrying", "ended"}]
    /\ task \in [Workers -> Tasks \cup {NoTask}]
    /\ lock \in Workers \cup {NoWorker}
    /\ refused \subseteq Runs

Init ==
    /\ status = [r \in Runs |-> "absent"]
    /\ key = [r \in Runs |-> 0]
    /\ payload = {}
    /\ asked = [c \in Requests |-> 0]
    /\ queue = [t \in Tasks |-> 0]
    /\ at = [w \in Workers |-> "idle"]
    /\ task = [w \in Workers |-> NoTask]
    /\ lock = NoWorker
    /\ refused = {}

\* A task is delivered once, never, or (the first one) twice.
Enqueue(t) ==
    \/ queue' = [queue EXCEPT ![t] = @ + 1]
    \/ "lost" \in Faults /\ UNCHANGED queue
    \/ "duplicate" \in Faults /\ t.retries = 0 /\ queue' = [queue EXCEPT ![t] = @ + 2]

(***************************************************************************)
(* create_discovery_run.  No lock between its checks and its insert: the   *)
(* cooldown of a minute puts each request into a minute of its own, and    *)
(* two at once into one minute, unless they straddle.                      *)
(***************************************************************************)
Made == {r \in Runs : status[r] # "absent"}

Minutes ==
    {Cardinality(Made) + 1} \cup
        (IF "straddle" \in Faults THEN {Cardinality(Made) + 2} ELSE {})

Ask(c) ==
    /\ asked[c] = 0 /\ Made # Runs
    /\ \A r \in Runs : status[r] \notin Active
    /\ \A w \in Workers : at[w] = "ended" => "prompt" \in Faults
    /\ \E m \in Minutes : asked' = [asked EXCEPT ![c] = m]
    /\ UNCHANGED <<rows, queue, work, refused>>

\* A row with the key exists already, or UNIQUE refuses the second one.
SameKey(c) == \E r \in Made : key[r] = asked[c]

AnswerExisting(c) ==
    /\ asked[c] # 0 /\ SameKey(c)
    /\ asked' = [asked EXCEPT ![c] = 0]
    /\ UNCHANGED <<rows, queue, work, refused>>

\* Rows are made in some order: which is no matter.
Fresh(r) == Made # Runs /\ r = CHOOSE x \in Runs \ Made : TRUE

Insert(c, r, s) ==
    /\ asked[c] # 0 /\ ~ SameKey(c)
    /\ Fresh(r)
    /\ status' = [status EXCEPT ![r] = s]
    /\ key' = [key EXCEPT ![r] = asked[c]]
    /\ asked' = [asked EXCEPT ![c] = 0]
    /\ UNCHANGED <<payload, work, refused>>

CreateBlocked(c, r) ==
    /\ Insert(c, r, "blocked_by_budget")
    /\ UNCHANGED queue

CreateRun(c, r) ==
    /\ Insert(c, r, "pending")
    /\ Enqueue([run |-> r, retries |-> 0])

(***************************************************************************)
(* run_stock_discovery and execute_discovery_run.                          *)
(***************************************************************************)
Begin(w, t) ==
    /\ at' = [at EXCEPT ![w] = "locked"]
    /\ task' = [task EXCEPT ![w] = t]
    /\ UNCHANGED refused

\* discovery_lock: taken, unknown while Redis is down, or busy.
Deliver(w, t) ==
    /\ at[w] = "idle" /\ queue[t] > 0
    /\ queue' = [queue EXCEPT ![t] = @ - 1]
    /\ \/ /\ lock = NoWorker
          /\ lock' = w
          /\ Begin(w, t)
       \/ /\ "redis" \in Faults
          /\ lock' = lock
          /\ Begin(w, t)
       \/ /\ lock # NoWorker           \* duplicate_locked
          /\ refused' = refused \cup {r \in {t.run} : status[r] = "pending"}
          /\ UNCHANGED work
    /\ UNCHANGED <<rows, asked>>

LockExpires ==
    /\ lock # NoWorker
    /\ at[lock] = "idle" \/ "expires" \in Faults
    /\ lock' = NoWorker
    /\ UNCHANGED <<rows, asked, queue, at, task, refused>>

Goto(w, s) == at' = [at EXCEPT ![w] = s]

\* The task returns: its lock is released if it still is its own.
Return(w) ==
    /\ Goto(w, "idle")
    /\ task' = [task EXCEPT ![w] = NoTask]
    /\ lock' = IF lock = w THEN NoWorker ELSE lock

Set(r, s) ==
    /\ status' = [status EXCEPT ![r] = s]
    /\ key' = key

Claimable(r) == status[r] = "pending"

\* SELECT ... FOR UPDATE: only a pending run is executed.
Claim(w) ==
    /\ at[w] = "locked"
    /\ IF Claimable(task[w].run)
       THEN /\ Set(task[w].run, "running")
            /\ Goto(w, "searching") /\ UNCHANGED <<task, lock>>
       ELSE Return(w) /\ UNCHANGED <<status, key>>
    /\ UNCHANGED <<payload, asked, queue, refused>>

\* The provider answered: its payload is committed, the analysis follows.
Store(w) ==
    /\ at[w] = "searching"
    /\ payload' = payload \cup {task[w].run}
    /\ Goto(w, "verifying")
    /\ UNCHANGED <<status, key, asked, queue, task, lock, refused>>

\* Mutant: so are the errors of the analysis.
RetryableAll == Executing

\* Only the provider's errors are worth a retry, never the analysis's.
Retryable == {"searching"}

RetryableError(w) ==
    /\ at[w] \in Retryable
    /\ Set(task[w].run, "pending")
    /\ Goto(w, "retrying")
    /\ UNCHANGED <<payload, asked, queue, task, lock, refused>>

Retry(w) ==
    /\ at[w] = "retrying" /\ task[w].retries < MaxRetries
    /\ Enqueue([run |-> task[w].run, retries |-> task[w].retries + 1])
    /\ Return(w)
    /\ UNCHANGED <<rows, asked, refused>>

\* Mutant: the last try leaves the row to a retry.
GiveUpPending(w) ==
    /\ at[w] = "retrying" /\ task[w].retries >= MaxRetries
    /\ Return(w)
    /\ UNCHANGED <<rows, asked, queue, refused>>

\* The last try: the row is failed, whatever it is by then.
GiveUp(w) ==
    /\ at[w] = "retrying" /\ task[w].retries >= MaxRetries
    /\ Set(task[w].run, "failed")
    /\ Return(w)
    /\ UNCHANGED <<payload, asked, queue, refused>>

\* Another error of the provider, or any exception.
Fail(w) ==
    /\ at[w] \in Executing
    /\ Set(task[w].run, "failed")
    /\ Goto(w, "ended")
    /\ UNCHANGED <<payload, asked, queue, task, lock, refused>>

Complete(w) ==
    /\ at[w] = "verifying"
    /\ Set(task[w].run, "completed")
    /\ Goto(w, "ended")
    /\ UNCHANGED <<payload, asked, queue, task, lock, refused>>

End(w) ==
    /\ at[w] = "ended"
    /\ Return(w)
    /\ UNCHANGED <<rows, asked, queue, refused>>

Killed(w) ==
    /\ "killed" \in Faults /\ at[w] # "idle"
    /\ Goto(w, "idle")
    /\ task' = [task EXCEPT ![w] = NoTask]
    /\ UNCHANGED <<rows, asked, queue, lock, refused>>

Execute(w) ==
    \/ Claim(w) \/ Store(w) \/ RetryableError(w) \/ Retry(w) \/ GiveUp(w)
    \/ Fail(w) \/ Complete(w) \/ End(w)

Work(w) == Execute(w) \/ Killed(w) \/ \E t \in Tasks : Deliver(w, t)

Next ==
    \/ \E c \in Requests :
        \/ Ask(c) \/ AnswerExisting(c)
        \/ \E r \in Runs : CreateBlocked(c, r) \/ CreateRun(c, r)
    \/ \E w \in Workers : Work(w)
    \/ LockExpires

Spec == Init /\ [][Next]_vars

\* The workers take what is queued and go on with what they took.
Fairness == \A w \in Workers : WF_vars(Work(w))

FairSpec == Spec /\ Fairness

(***************************************************************************)
(* Properties.                                                             *)
(***************************************************************************)
\* One worker at a time executes a run, also when its task is delivered
\* twice and the Redis lock is down or ran out: the row's status decides.
OneExecutor == \A w1, w2 \in Workers :
    /\ w1 # w2
    /\ at[w1] \in Executing /\ at[w2] \in Executing
    => task[w1].run # task[w2].run

\* A run that waits for a retry has stored nothing: a second payload or
\* usage row would break their UNIQUE(run_id) and fail every retry.
RetriedIsClean == \A r \in Runs : status[r] = "pending" => r \notin payload

\* Every run ends, so the next can be asked for, unless a task that would
\* have executed it found the user's lock taken: nothing brings that back.
DiscoveryEnds == \A r \in Runs :
    status[r] \in Active ~> status[r] \in Terminal \/ r \in refused

\* Every run ends.  A request that comes while a task of an earlier run still
\* holds the lock breaks it.
EveryRunEnds == \A r \in Runs : status[r] \in Active ~> status[r] \in Terminal

\* What has ended stays as it is.  A task delivered twice breaks it.
TerminalStays == [][
    \A r \in Runs : status[r] \in Terminal => status'[r] = status[r]
    ]_vars

\* One active run for the user.
OneActive == Cardinality({r \in Runs : status[r] \in Active}) <= 1
=============================================================================
