----------------------------- MODULE Backtests -----------------------------
(***************************************************************************)
(* The backtests of one user (app.services.quant.backtest.service): rows   *)
(* that the API creates, replays and cancels, that the quant worker        *)
(* executes and that a periodic task sweeps when they went stale.  One     *)
(* action is one transaction; what a request or the worker read in an      *)
(* earlier one is part of the state.  The quant queue has one worker       *)
(* process with one task at a time, which runs the sweep too.              *)
(***************************************************************************)
EXTENDS Naturals, FiniteSets

CONSTANTS
    Runs,   \* rows that may be made
    NoRun,  \* none of them
    Faults  \* the faults that may happen

\* lost: a task is not delivered.  duplicate: it is delivered again.
\* killed: the worker dies.  late: a request to cancel writes after its row
\* changed.  replay: a request to replay inserts after others did.
Assumption ==
    /\ NoRun \notin Runs
    /\ Faults \subseteq {"lost", "duplicate", "killed", "late", "replay"}

VARIABLES
    status,   \* of each row, "absent" before it is made
    results,  \* rows with equity points and trades
    stale,    \* rows last requested or heard of ten minutes ago
    queue,    \* deliveries of each row's task that the quant queue will make
    at,       \* where the worker is: idle, reading or running a row
    job,      \* the row it is at, NoRun when idle
    cancels,  \* requests to cancel in flight: [run, saw]
    replays   \* rows whose replay passed its checks and is not inserted

vars == <<status, results, stale, queue, at, job, cancels, replays>>

Active   == {"pending", "running", "cancel_requested"}
Terminal == {"completed", "failed", "cancelled"}

TypeOK ==
    /\ status \in [Runs -> Active \cup Terminal \cup {"absent"}]
    /\ results \subseteq Runs /\ stale \subseteq Runs
    /\ queue \in [Runs -> 0..2]
    /\ at \in {"idle", "reading", "running"}
    /\ job \in Runs \cup {NoRun}
    /\ cancels \subseteq [run : Runs, saw : {"pending", "running"}]
    /\ replays \subseteq Runs

Init ==
    /\ status = [r \in Runs |-> "absent"]
    /\ results = {} /\ stale = {} /\ queue = [r \in Runs |-> 0]
    /\ at = "idle" /\ job = NoRun
    /\ cancels = {} /\ replays = {}

NoneActive == \A r \in Runs : status[r] \notin Active

\* .delay() after the commit: the task is queued, or never arrives.
Deliveries ==
    {1} \cup (IF "lost" \in Faults THEN {0} ELSE {})
        \cup (IF "duplicate" \in Faults THEN {2} ELSE {})

Insert(r) ==
    /\ status[r] = "absent"
    /\ status' = [status EXCEPT ![r] = "pending"]
    /\ \E n \in Deliveries : queue' = [queue EXCEPT ![r] = n]
    /\ UNCHANGED <<results, stale, at, job, cancels>>

(***************************************************************************)
(* Requests.  create_run holds the user's row from its check to its        *)
(* commit.  rerun takes no lock; cancel_run changes the row the request    *)
(* loaded before, by what its status was then.                             *)
(***************************************************************************)
CreateRun(r) ==
    /\ NoneActive
    /\ Insert(r)
    /\ UNCHANGED replays

MayReplay(o) == status[o] = "completed" /\ NoneActive

ReplayReads(o) ==
    /\ "replay" \in Faults
    /\ MayReplay(o) /\ o \notin replays
    /\ replays' = replays \cup {o}
    /\ UNCHANGED <<status, results, stale, queue, at, job, cancels>>

ReplayInserts(o, r) ==
    /\ o \in replays \/ MayReplay(o)
    /\ Insert(r)
    /\ replays' = replays \ {o}

CancelReads(r) ==
    /\ "late" \in Faults
    /\ status[r] \in {"pending", "running"}
    /\ cancels' = cancels \cup {[run |-> r, saw |-> status[r]]}
    /\ UNCHANGED <<status, results, stale, queue, at, job, replays>>

Cancelled(saw) == IF saw = "pending" THEN "cancelled" ELSE "cancel_requested"

CancelWrites(r, saw) ==
    /\ status[r] = saw \/ [run |-> r, saw |-> saw] \in cancels
    /\ status' = [status EXCEPT ![r] = Cancelled(saw)]
    /\ cancels' = cancels \ {[run |-> r, saw |-> saw]}
    /\ UNCHANGED <<results, stale, queue, at, job, replays>>

AnyRequest == \E r \in Runs :
    \/ CreateRun(r)
    \/ ReplayReads(r)
    \/ \E o \in Runs : ReplayInserts(o, r)
    \/ CancelReads(r)
    \/ \E saw \in {"pending", "running"} : CancelWrites(r, saw)

(***************************************************************************)
(* The worker: execute_run.                                                *)
(***************************************************************************)
\* Only a pending row is gone on with.
Deliver(r) ==
    /\ at = "idle" /\ queue[r] > 0
    /\ queue' = [queue EXCEPT ![r] = @ - 1]
    /\ IF status[r] = "pending" THEN at' = "reading" /\ job' = r
                                ELSE UNCHANGED <<at, job>>
    /\ UNCHANGED <<status, results, stale, cancels, replays>>

\* Mutant: the update is not conditional.
ClaimableAny(r) == TRUE

Claimable(r) == status[r] = "pending"

\* The conditional update: a row cancelled meanwhile is left alone.
Claim ==
    /\ at = "reading"
    /\ IF Claimable(job)
       THEN /\ status' = [status EXCEPT ![job] = "running"]
            /\ stale' = stale \ {job}
            /\ at' = "running" /\ job' = job
       ELSE /\ at' = "idle" /\ job' = NoRun
            /\ UNCHANGED <<status, stale>>
    /\ UNCHANGED <<results, queue, cancels, replays>>

Ends(s) ==
    /\ at = "running"
    /\ status' = [status EXCEPT ![job] = s]
    /\ at' = "idle" /\ job' = NoRun
    /\ UNCHANGED <<stale, queue, cancels, replays>>

\* progress() reads the row again every hundred bars and stops the replay.
NoticesCancel ==
    /\ at = "running" /\ status[job] = "cancel_requested"
    /\ results' = results \ {job}
    /\ Ends("cancelled")

\* The status is written whatever it became since the last look.
Finish ==
    /\ Ends("completed")
    /\ results' = results \cup {job}

\* An exception: bad input, or the soft time limit.
Fail ==
    /\ Ends("failed")
    /\ results' = results \ {job}

\* The hard time limit, or the process is lost.
Killed ==
    /\ "killed" \in Faults /\ at # "idle"
    /\ at' = "idle" /\ job' = NoRun
    /\ UNCHANGED <<status, results, stale, queue, cancels, replays>>

(***************************************************************************)
(* recover_stale_runs, which the worker runs between two backtests.  A     *)
(* running row the worker is at has a heartbeat: it is killed after five   *)
(* minutes.                                                                *)
(***************************************************************************)
Age(r) ==
    /\ status[r] \in Active /\ r \notin stale
    /\ ~ (at = "running" /\ job = r)
    /\ stale' = stale \cup {r}
    /\ UNCHANGED <<status, results, queue, at, job, cancels, replays>>

\* Mutant: the sweep takes only rows a worker had begun with.
SweepableBegun == {r \in stale : status[r] \in Active \ {"pending"}}

Sweepable == {r \in stale : status[r] \in Active}

Swept(s) == IF s = "cancel_requested" THEN "cancelled" ELSE "failed"

Recover ==
    /\ at = "idle" /\ Sweepable # {}
    /\ status' = [r \in Runs |->
                    IF r \in Sweepable THEN Swept(status[r]) ELSE status[r]]
    /\ results' = results \ Sweepable
    /\ UNCHANGED <<stale, queue, at, job, cancels, replays>>

Running == NoticesCancel \/ Finish \/ Fail \/ Killed

Next ==
    \/ AnyRequest
    \/ \E r \in Runs : Deliver(r) \/ Age(r)
    \/ Claim \/ Running \/ Recover

Spec == Init /\ [][Next]_vars

\* Time limits end what runs, the schedule brings the sweep every fifteen
\* minutes.  No delivery, request or cancellation need ever come.
Fairness ==
    /\ WF_vars(Claim) /\ WF_vars(Running) /\ WF_vars(Recover)
    /\ \A r \in Runs : WF_vars(Age(r))

FairSpec == Spec /\ Fairness

(***************************************************************************)
(* Properties.                                                             *)
(***************************************************************************)
\* A completed backtest has its results, whoever cancels, replays or sweeps
\* meanwhile, and results are nowhere left but with a completed backtest or
\* one cancelled after it was.
ResultsBelong ==
    /\ \A r \in Runs : status[r] = "completed" => r \in results
    /\ \A r \in results : status[r] \in {"completed", "cancelled", "cancel_requested"}

\* A backtest cancelled, failed or swept before the worker claims it is not
\* executed, however often its task is delivered.
EndedNeverStarts == [][
    \A r \in Runs : status[r] \in Terminal => ~ (at' = "running" /\ job' = r /\ at # "running")
    ]_vars

\* Every backtest ends: a task lost, a worker killed or a cancellation that
\* comes too late leaves a row the sweep ends, so the next can be created.
BacktestsEnd == \A r \in Runs : status[r] \in Active ~> status[r] \in Terminal

\* What has ended stays as it is.  A late cancellation breaks it.
TerminalStays == [][
    \A r \in Runs : status[r] \in Terminal => status'[r] = status[r]
    ]_vars

\* One active backtest for the user, as create_run and rerun both check.
OneActive == Cardinality({r \in Runs : status[r] \in Active}) <= 1
=============================================================================
