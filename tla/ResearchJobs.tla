---------------------------- MODULE ResearchJobs ----------------------------
(***************************************************************************)
(* The research a user starts and that goes on without the request:        *)
(* backtests, stock discovery and deep searches.  They share no row, lock, *)
(* queue or process, so a behaviour exercises one family of jobs and       *)
(* leaves the others as they are: what the three say of their states is    *)
(* what a product of them would say.                                       *)
(***************************************************************************)
EXTENDS Naturals, FiniteSets

CONSTANTS
    Backtests, BacktestFaults,     \* see Backtests
    Discoveries, Requests, Workers, MaxRetries, DiscoveryFaults, \* Discovery
    Searches, Limit, MaxCrashes, SearchFaults, \* see DeepSearch
    Nobody                           \* no row, no worker

VARIABLES
    family,                                                 \* of this behaviour
    bStatus, results, stale, bQueue, bAt, job, cancels, replays,
    dStatus, key, payload, asked, dQueue, dAt, task, lock, refused,
    sStatus, known, up, crashes, creating, poll, page, cancel, sent, remote

B == INSTANCE Backtests WITH
        Runs <- Backtests, NoRun <- Nobody, Faults <- BacktestFaults,
        status <- bStatus, queue <- bQueue, at <- bAt

D == INSTANCE Discovery WITH
        Runs <- Discoveries, NoRun <- Nobody, NoWorker <- Nobody,
        Faults <- DiscoveryFaults,
        status <- dStatus, queue <- dQueue, at <- dAt

S == INSTANCE DeepSearch WITH
        Runs <- Searches, Faults <- SearchFaults, status <- sStatus

ASSUME JobsAssumption ==
    B!Assumption /\ D!Assumption /\ S!Assumption

backtests == <<bStatus, results, stale, bQueue, bAt, job, cancels, replays>>
discovery == <<dStatus, key, payload, asked, dQueue, dAt, task, lock, refused>>
searches ==
    <<sStatus, known, up, crashes, creating, poll, page, cancel, sent, remote>>
vars == <<family, backtests, discovery, searches>>

TypeOK == B!TypeOK /\ D!TypeOK /\ S!TypeOK

Init ==
    /\ family \in {"backtests", "discovery", "searches"}
    /\ B!Init /\ D!Init /\ S!Init

Backtest ==
    /\ family = "backtests"
    /\ B!Next
    /\ UNCHANGED <<family, discovery, searches>>

Discover ==
    /\ family = "discovery"
    /\ D!Next
    /\ UNCHANGED <<family, backtests, searches>>

Search ==
    /\ family = "searches"
    /\ S!Next
    /\ UNCHANGED <<family, backtests, discovery>>

Next == Backtest \/ Discover \/ Search

\* A family that is left alone has made no row: none of the actions that
\* are fair is enabled in it.
Spec ==
    /\ Init /\ [][Next]_vars
    /\ B!Fairness /\ D!Fairness /\ S!Fairness

(***************************************************************************)
(* Properties, each as its module states it.                               *)
(***************************************************************************)
\* A backtest that ended is not executed, however often it is delivered.
EndedNeverStarts == B!EndedNeverStarts

\* Every backtest ends, whatever is lost, killed or cancelled too late.
BacktestsEnd == B!BacktestsEnd

\* A discovery run that waits for a retry has stored nothing.
RetriedIsClean == D!RetriedIsClean

\* Every discovery run ends, unless the lock turned its task away.
DiscoveryEnds == D!DiscoveryEnds

\* Exa is asked for a generation once, whatever is lost or restarts.
CreatedOnce == S!CreatedOnce

\* What Exa ended with becomes and stays the status of a row that a page looks
\* at while it is active.
ExaDecides == S!ExaDecides
=============================================================================
