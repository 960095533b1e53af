------------------------- MODULE ResearchJobsProofs -------------------------
(***************************************************************************)
(* What is proved of each family of jobs holds of the three together, for  *)
(* any numbers of rows, requests, workers and crashes and any of the       *)
(* faults.  The backtests' own theorems are here, discovery and deep       *)
(* search have modules of their own.                                       *)
(***************************************************************************)
EXTENDS ResearchJobs, TLAPS

DP == INSTANCE DiscoveryProofs WITH
        Runs <- Discoveries, NoRun <- Nobody, NoWorker <- Nobody,
        Faults <- DiscoveryFaults,
        status <- dStatus, queue <- dQueue, at <- dAt

SP == INSTANCE DeepSearchProofs WITH
        Runs <- Searches, Faults <- SearchFaults, status <- sStatus

-----------------------------------------------------------------------------
(***************************************************************************)
(* The proofs about discovery and deep search are about instances of their *)
(* own of the same modules, which are equal definition by definition.      *)
(***************************************************************************)

LEMMA SameDiscovery == D!Next => DP!Next
BY Zenon
   DEF D!rows, D!work, D!Active, D!Terminal, D!Tasks, D!NoTask, D!Executing,
       D!Enqueue, D!Made, D!Minutes, D!Ask, D!SameKey, D!AnswerExisting,
       D!Fresh, D!Insert, D!CreateBlocked, D!CreateRun, D!Begin, D!Deliver,
       D!LockExpires, D!Goto, D!Return, D!Set, D!Claimable, D!Claim, D!Store,
       D!Retryable, D!RetryableError, D!Retry, D!GiveUp, D!Fail, D!Complete,
       D!End, D!Killed, D!Execute, D!Work, D!Next, D!Cardinality,
       DP!rows, DP!work, DP!Active, DP!Terminal, DP!Tasks, DP!NoTask,
       DP!Executing, DP!Enqueue, DP!Made, DP!Minutes, DP!Ask, DP!SameKey,
       DP!AnswerExisting, DP!Fresh, DP!Insert, DP!CreateBlocked, DP!CreateRun,
       DP!Begin, DP!Deliver, DP!LockExpires, DP!Goto, DP!Return, DP!Set,
       DP!Claimable, DP!Claim, DP!Store, DP!Retryable, DP!RetryableError,
       DP!Retry, DP!GiveUp, DP!Fail, DP!Complete, DP!End, DP!Killed, DP!Execute,
       DP!Work, DP!Next, DP!Cardinality

LEMMA SameSearches == S!Next => SP!Next
BY Zenon
   DEF S!row, S!process, S!exa, S!Active, S!Terminal, S!Remote, S!None,
       S!Idle, S!Polling, S!Session, S!Off, S!Reading, S!IsActive, S!Polled,
       S!Write, S!Existing, S!Create, S!CreateAgain, S!CreateReturns,
       S!CreateFails, S!Disconnect, S!SetPoll, S!PollReads, S!PollAnswered,
       S!PollFails, S!Last, S!PollApplies, S!PollGivesUp, S!Poll, S!Loaded,
       S!Held, S!Asking, S!Applied, S!Visit, S!PageAnswered, S!PageFails,
       S!PageApplies, S!CancelLocally, S!Cancel, S!CancelGranted,
       S!CancelUnanswered, S!CancelRefused, S!CancelAnswered, S!CancelFails,
       S!CancelApplies, S!Stop, S!Arrives, S!RemoteNext, S!Proceeds,
       S!Crash, S!Recoverable, S!Start, S!Next, S!Cardinality,
       SP!row, SP!process, SP!exa, SP!Active, SP!Terminal, SP!Remote,
       SP!None, SP!Idle, SP!Polling, SP!Session, SP!Off, SP!Reading,
       SP!IsActive, SP!Polled, SP!Write, SP!Existing, SP!Create,
       SP!CreateAgain, SP!CreateReturns, SP!CreateFails, SP!Disconnect,
       SP!SetPoll, SP!PollReads, SP!PollAnswered, SP!PollFails, SP!Last,
       SP!PollApplies, SP!PollGivesUp, SP!Poll, SP!Loaded, SP!Held,
       SP!Asking, SP!Applied, SP!Visit, SP!PageAnswered, SP!PageFails,
       SP!PageApplies, SP!CancelLocally, SP!Cancel, SP!CancelGranted,
       SP!CancelUnanswered, SP!CancelRefused, SP!CancelAnswered,
       SP!CancelFails, SP!CancelApplies, SP!Stop, SP!Arrives, SP!RemoteNext,
       SP!Proceeds, SP!Crash, SP!Recoverable, SP!Start, SP!Next,
       SP!Cardinality

\* A step is one of the family it exercises and leaves the others alone.
LEMMA FamilySteps ==
    [Next]_vars => [B!Next]_B!vars /\ [DP!Next]_DP!vars /\ [SP!Next]_SP!vars
<1>1. backtests' = backtests => B!vars' = B!vars
  BY DEF backtests, B!vars
<1>2. discovery' = discovery => DP!vars' = DP!vars
  BY DEF discovery, DP!vars, DP!rows, DP!work
<1>3. searches' = searches => SP!vars' = SP!vars
  BY DEF searches, SP!vars, SP!row, SP!process, SP!exa
<1>4. vars' = vars =>
        backtests' = backtests /\ discovery' = discovery /\ searches' = searches
  BY DEF vars
<1>5. QED
  BY <1>1, <1>2, <1>3, <1>4, SameDiscovery, SameSearches
     DEF Next, Backtest, Discover, Search

LEMMA FamilyInits == Init => B!Init /\ DP!Init /\ SP!Init
<1>1. D!Init => DP!Init
  BY DEF D!Init, DP!Init, D!Tasks, DP!Tasks, D!NoTask, DP!NoTask
<1>2. S!Init => SP!Init
  BY DEF S!Init, SP!Init, S!None, SP!None, S!Idle, SP!Idle, S!Off, SP!Off
<1>3. QED
  BY <1>1, <1>2 DEF Init

\* A behaviour of the three is one of each.
LEMMA Families == Spec => B!Spec /\ DP!Spec /\ SP!Spec
BY FamilyInits, FamilySteps, PTL DEF Spec, B!Spec, DP!Spec, SP!Spec

\* The constants of each family are what its proofs assume.
LEMMA FamilyConstants == DP!Assumption /\ SP!Assumption
BY Zenon, JobsAssumption
   DEF D!Assumption, DP!Assumption, S!Assumption, SP!Assumption, D!IsFiniteSet, DP!IsFiniteSet

-----------------------------------------------------------------------------
\* The worker that is at a row knows which one.
WorkerHasJob == bAt # "idle" => job \in Backtests

BacktestsInv == B!TypeOK /\ WorkerHasJob

\* It holds when no row is made.
LEMMA InvInitially == ASSUME B!Init PROVE BacktestsInv
BY DEF B!Init, BacktestsInv, B!TypeOK, WorkerHasJob, B!Active, B!Terminal

\* Every step leaves the variables in their types and the worker at a row.
LEMMA InvPreserved == ASSUME BacktestsInv, [B!Next]_B!vars PROVE BacktestsInv'
<1> USE DEF BacktestsInv, B!TypeOK, WorkerHasJob, B!Active, B!Terminal
<1>1. ASSUME NEW r \in Backtests, B!Insert(r) PROVE
        /\ bStatus' \in [Backtests -> B!Active \cup B!Terminal \cup {"absent"}]
        /\ bQueue' \in [Backtests -> 0..2]
        /\ UNCHANGED <<results, stale, bAt, job, cancels>>
  BY <1>1 DEF B!Insert, B!Deliveries
<1>2. ASSUME NEW r \in Backtests, B!CreateRun(r) PROVE BacktestsInv'
  BY <1>1, <1>2 DEF B!CreateRun
<1>3. ASSUME NEW r \in Backtests, B!ReplayReads(r) PROVE BacktestsInv'
  BY <1>3 DEF B!ReplayReads
<1>4. ASSUME NEW r \in Backtests, NEW o \in Backtests, B!ReplayInserts(o, r)
      PROVE BacktestsInv'
  BY <1>1, <1>4 DEF B!ReplayInserts
<1>5. ASSUME NEW r \in Backtests, B!CancelReads(r) PROVE BacktestsInv'
  BY <1>5 DEF B!CancelReads
<1>6. ASSUME NEW r \in Backtests, NEW saw \in {"pending", "running"}, B!CancelWrites(r, saw)
      PROVE BacktestsInv'
  BY <1>6 DEF B!CancelWrites, B!Cancelled
<1>7. ASSUME NEW r \in Backtests, B!Deliver(r) PROVE BacktestsInv'
  <2>1. bQueue' \in [Backtests -> 0..2]
    BY <1>7 DEF B!Deliver
  <2>2. QED
    BY <1>7, <2>1 DEF B!Deliver
<1>8. ASSUME NEW r \in Backtests, B!Age(r) PROVE BacktestsInv'
  BY <1>8 DEF B!Age
<1>9. CASE B!Claim
  BY <1>9 DEF B!Claim
<1>10. CASE B!Running
  BY <1>10 DEF B!Running, B!NoticesCancel, B!Finish, B!Fail, B!Killed, B!Ends
<1>11. CASE B!Recover
  BY <1>11 DEF B!Recover, B!Swept
<1>12. CASE UNCHANGED B!vars
  BY <1>12 DEF B!vars
<1>13. QED
  BY <1>2, <1>3, <1>4, <1>5, <1>6, <1>7, <1>8, <1>9, <1>10, <1>11, <1>12
     DEF B!Next, B!AnyRequest

LEMMA InvAlways == Spec => []BacktestsInv
BY Families, InvInitially, InvPreserved, PTL DEF B!Spec

\* The rows, queues and processes of the three always hold values of their
\* types (TypeOK): what the worker writes in execute_run is written to a row.
THEOREM TypeCorrect == Spec => []TypeOK
<1>1. BacktestsInv /\ DP!TypeOK /\ SP!TypeOK => TypeOK
  <2>1. DP!TypeOK => D!TypeOK
    BY Zenon
       DEF D!TypeOK, D!Active, D!Terminal, D!Tasks, D!NoTask, D!Executing,
           DP!TypeOK, DP!Active, DP!Terminal, DP!Tasks, DP!NoTask, DP!Executing
  <2>2. SP!TypeOK => S!TypeOK
    BY Zenon
       DEF S!TypeOK, S!Active, S!Terminal, S!Remote, S!None, S!Polling, S!Session,
           SP!TypeOK, SP!Active, SP!Terminal, SP!Remote, SP!None, SP!Polling,
           SP!Session
  <2>3. QED
    BY <2>1, <2>2 DEF BacktestsInv, TypeOK
<1>2. DP!Spec => []DP!TypeOK
  BY FamilyConstants, DP!TypeCorrect
<1>3. SP!Spec => []SP!TypeOK
  BY FamilyConstants, SP!TypeCorrect
<1>4. QED
  BY <1>1, <1>2, <1>3, InvAlways, Families, PTL

-----------------------------------------------------------------------------
\* A backtest cancelled, failed or swept before the worker claims it is not
\* executed (EndedNeverStarts): the update in execute_run that claims a row is
\* conditional, although the row was read in an earlier transaction.
THEOREM NoLateStart == Spec => EndedNeverStarts
<1> DEFINE Stays == \A r \in Backtests :
        bStatus[r] \in B!Terminal => ~ (bAt' = "running" /\ job' = r /\ bAt # "running")
<1>1. ASSUME BacktestsInv, [B!Next]_B!vars PROVE Stays \/ UNCHANGED B!vars
  <2> SUFFICES ASSUME NEW r \in Backtests, bStatus[r] \in B!Terminal,
                      bAt' = "running", job' = r, bAt # "running"
               PROVE  FALSE
    OBVIOUS
  <2>1. bAt' # bAt
    OBVIOUS
  <2>2. ~ B!AnyRequest
    BY <2>1 DEF B!AnyRequest, B!CreateRun, B!Insert, B!ReplayReads, B!ReplayInserts,
                B!CancelReads, B!CancelWrites
  <2>3. ~ \E q \in Backtests : B!Deliver(q) \/ B!Age(q)
    BY <2>1 DEF B!Deliver, B!Age
  <2>4. ~ B!Claim
    BY DEF B!Claim, B!Claimable, B!Terminal
  <2>5. ~ B!Running /\ ~ B!Recover
    BY <2>1 DEF B!Running, B!NoticesCancel, B!Finish, B!Fail, B!Killed, B!Ends, B!Recover
  <2>6. QED
    BY <1>1, <2>1, <2>2, <2>3, <2>4, <2>5 DEF B!Next, B!vars
<1>2. QED
  BY <1>1, InvAlways, Families, PTL DEF B!Spec, EndedNeverStarts, B!EndedNeverStarts

-----------------------------------------------------------------------------
\* A step keeps the results with the status they belong to.
LEMMA ResultsPreserved ==
    ASSUME BacktestsInv, B!ResultsBelong, [B!Next]_B!vars PROVE B!ResultsBelong'
<1> USE DEF BacktestsInv, B!TypeOK, WorkerHasJob, B!ResultsBelong, B!Active, B!Terminal
<1>1. ASSUME NEW r \in Backtests, B!Insert(r) PROVE B!ResultsBelong'
  BY <1>1 DEF B!Insert
<1>2. CASE B!AnyRequest
  <2>1. ASSUME NEW r \in Backtests, NEW saw \in {"pending", "running"}, B!CancelWrites(r, saw)
        PROVE B!ResultsBelong'
    BY <2>1 DEF B!CancelWrites, B!Cancelled
  <2>2. QED
    BY <1>1, <1>2, <2>1
       DEF B!AnyRequest, B!CreateRun, B!ReplayReads, B!ReplayInserts, B!CancelReads
<1>3. ASSUME NEW r \in Backtests, B!Deliver(r) \/ B!Age(r) PROVE B!ResultsBelong'
  BY <1>3 DEF B!Deliver, B!Age
<1>4. CASE B!Claim
  BY <1>4 DEF B!Claim, B!Claimable
<1>5. CASE B!NoticesCancel
  BY <1>5 DEF B!NoticesCancel, B!Ends
<1>6. CASE B!Finish
  BY <1>6 DEF B!Finish, B!Ends
<1>7. CASE B!Fail
  BY <1>7 DEF B!Fail, B!Ends
<1>8. CASE B!Killed
  BY <1>8 DEF B!Killed
<1>9. CASE B!Recover
  BY <1>9 DEF B!Recover, B!Swept, B!Sweepable
<1>10. CASE UNCHANGED B!vars
  BY <1>10 DEF B!vars
<1>11. QED
  BY <1>2, <1>3, <1>4, <1>5, <1>6, <1>7, <1>8, <1>9, <1>10 DEF B!Next, B!Running

\* A completed backtest has its results, and no other but one cancelled after
\* it completed has any (ResultsBelong), although cancel_run, recover_stale_runs
\* and execute_run change the row in transactions that do not wait for each other.
THEOREM ResultsAreComplete == Spec => []B!ResultsBelong
<1>1. B!Init => B!ResultsBelong
  BY DEF B!Init, B!ResultsBelong
<1>2. QED
  BY <1>1, InvAlways, Families, ResultsPreserved, PTL DEF B!Spec

-----------------------------------------------------------------------------
\* A discovery run that waits for a retry has stored nothing (RetriedIsClean),
\* beside the other jobs too.
THEOREM RetriesAreClean == Spec => []RetriedIsClean
<1>1. DP!RetriedIsClean => RetriedIsClean
  BY DEF RetriedIsClean, D!RetriedIsClean, DP!RetriedIsClean
<1>2. DP!Spec => []DP!RetriedIsClean
  BY FamilyConstants, DP!RetriesAreClean
<1>3. QED
  BY <1>1, <1>2, Families, PTL

\* Exa is asked for a generation at most once (CreatedOnce), beside the other
\* jobs too.
THEOREM OneCreate == Spec => []CreatedOnce
<1>1. SP!CreatedOnce => CreatedOnce
  BY DEF CreatedOnce, S!CreatedOnce, SP!CreatedOnce
<1>2. SP!Spec => []SP!CreatedOnce
  BY FamilyConstants, SP!OneCreate
<1>3. QED
  BY <1>1, <1>2, Families, PTL
=============================================================================
