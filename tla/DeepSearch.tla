----------------------------- MODULE DeepSearch -----------------------------
(***************************************************************************)
(* The deep searches of one user (app.external_search.deep_search): a row  *)
(* is committed, Exa is asked for a paid run, and a polling task of the    *)
(* API process, a page that is open or a request to cancel writes what     *)
(* Exa answers into the row.  Coroutines interleave at their awaits: one   *)
(* action goes from one await to the next.  An answer is what Exa knew     *)
(* when it gave it and may be applied later; a session that loaded the row *)
(* before it asked writes a status only if the answer differs from what    *)
(* it loaded.                                                              *)
(***************************************************************************)
EXTENDS Naturals, FiniteSets

CONSTANTS
    Runs,    \* idempotency keys: a message, its mode and its generation
    Limit,   \* active runs a user may have
    MaxCrashes, \* bound of the model: times the API process dies
    Faults   \* what may go wrong

\* network: a request to Exa or its answer is lost.  disconnect: the request
\* that waits for the create is cancelled.  deadline: the poll gives up.
\* refused: Exa does not cancel a run that goes on, or is not reached.
Assumption ==
    /\ Limit \in Nat /\ MaxCrashes \in Nat
    /\ Faults \subseteq {"network", "disconnect", "deadline", "refused"}

VARIABLES
    status,   \* of each row, "absent" before it is made
    known,    \* rows with a provider_run_id
    up,       \* is the API process up
    crashes,  \* how often it died
    creating, \* requests that wait for the answer of a create
    poll,     \* where each row's polling task is
    page,     \* where a page's request is: [at, loaded, answer]
    cancel,   \* where a request to cancel is: [at, loaded, answer]
    sent,     \* create requests sent for each row
    remote    \* Exa's run, "none" before the request arrives

row     == <<status, known>>
process == <<up, crashes, creating, poll, page, cancel>>
exa     == <<sent, remote>>
vars    == <<row, process, exa>>

Active   == {"pending", "queued", "running"}
Terminal == {"completed", "failed", "cancelled"}
Remote   == {"queued", "running"} \cup Terminal

None    == "none"
Idle    == [at |-> "idle", loaded |-> None, answer |-> None]
Polling == [ at : {"off", "reading", "asking", "holding"},
             answer : Remote \cup {None} ]
Session == [ at : {"idle", "asking", "stopping", "holding"},
             loaded : Active \cup {None},
             answer : Remote \cup {None} ]

TypeOK ==
    /\ status \in [Runs -> Active \cup Terminal \cup {"absent"}]
    /\ known \subseteq Runs
    /\ up \in BOOLEAN
    /\ crashes \in 0..MaxCrashes
    /\ creating \subseteq Runs
    /\ poll \in [Runs -> Polling]
    /\ page \in [Runs -> Session]
    /\ cancel \in [Runs -> Session]
    /\ sent \in [Runs -> Nat]
    /\ remote \in [Runs -> Remote \cup {None}]

Off     == [at |-> "off", answer |-> None]
Reading == [at |-> "reading", answer |-> None]

Init ==
    /\ status = [r \in Runs |-> "absent"]
    /\ known = {}
    /\ up = TRUE /\ crashes = 0
    /\ creating = {}
    /\ poll = [r \in Runs |-> Off]
    /\ page = [r \in Runs |-> Idle] /\ cancel = [r \in Runs |-> Idle]
    /\ sent = [r \in Runs |-> 0]
    /\ remote = [r \in Runs |-> None]

IsActive(r) == status[r] \in Active

\* ensure_background and DeepSearchRuntime.start: one polling task for a row.
Polled(r) == [poll EXCEPT ![r] = IF @.at = "off" THEN Reading ELSE @]

Write(r, s) == status' = [status EXCEPT ![r] = s]

(***************************************************************************)
(* create_run.  Between its look for an existing row and the commit of a   *)
(* new one there is no await.                                              *)
(***************************************************************************)
\* Mutant: only a row in progress answers for its key.
ExistingActive == {r \in Runs : IsActive(r)}

Existing == {r \in Runs : status[r] # "absent"}

Create(r) ==
    /\ up /\ r \notin Existing
    /\ Cardinality({s \in Runs : IsActive(s)}) < Limit
    /\ Write(r, "pending")
    /\ creating' = creating \cup {r}
    /\ sent' = [sent EXCEPT ![r] = @ + 1]
    /\ UNCHANGED <<known, up, crashes, poll, page, cancel, remote>>

\* The same generation is asked for again: its row is returned and polled.
CreateAgain(r) ==
    /\ up /\ r \in Existing
    /\ IsActive(r) /\ poll' = Polled(r)
    /\ UNCHANGED <<row, up, crashes, creating, page, cancel, exa>>

\* The row this session made is written over, whatever it became.
CreateReturns(r) ==
    /\ r \in creating /\ remote[r] # None
    /\ \/ Write(r, "queued")
       \/ remote[r] # "queued" /\ Write(r, "running")
    /\ known' = known \cup {r}
    /\ creating' = creating \ {r}
    /\ poll' = Polled(r)
    /\ UNCHANGED <<up, crashes, page, cancel, exa>>

\* Exa refuses, or the answer is lost: the row is failed and kept.
CreateFails(r) ==
    /\ r \in creating
    /\ remote[r] = None \/ "network" \in Faults
    /\ Write(r, "failed")
    /\ creating' = creating \ {r}
    /\ UNCHANGED <<known, up, crashes, poll, page, cancel, exa>>

\* A browser that disconnects, or a generation that is stopped, cancels the
\* coroutine at this await: run_and_wait shields only the polling.
Disconnect(r) ==
    /\ "disconnect" \in Faults /\ r \in creating
    /\ creating' = creating \ {r}
    /\ UNCHANGED <<row, up, crashes, poll, page, cancel, exa>>

(***************************************************************************)
(* _poll_background and _apply_provider_run.  A polling task loads the row *)
(* again before it writes.                                                 *)
(***************************************************************************)
SetPoll(r, p) == poll' = [poll EXCEPT ![r] = p]

PollReads(r) ==
    /\ poll[r].at = "reading"
    /\ SetPoll(r, IF IsActive(r) /\ r \in known
                  THEN [at |-> "asking", answer |-> None] ELSE Off)
    /\ UNCHANGED <<row, up, crashes, creating, page, cancel, exa>>

PollAnswered(r) ==
    /\ poll[r].at = "asking"
    /\ SetPoll(r, [at |-> "holding", answer |-> remote[r]])
    /\ UNCHANGED <<row, up, crashes, creating, page, cancel, exa>>

PollFails(r) ==
    /\ "network" \in Faults /\ poll[r].at = "asking"
    /\ SetPoll(r, Reading)
    /\ UNCHANGED <<row, up, crashes, creating, page, cancel, exa>>

Last(s) == s \in Terminal

PollApplies(r) ==
    /\ poll[r].at = "holding"
    /\ Write(r, poll[r].answer)
    /\ SetPoll(r, IF Last(poll[r].answer) THEN Off ELSE Reading)
    /\ UNCHANGED <<known, up, crashes, creating, page, cancel, exa>>

PollGivesUp(r) ==
    /\ "deadline" \in Faults /\ poll[r].at = "reading"
    /\ SetPoll(r, Off)
    /\ UNCHANGED <<row, up, crashes, creating, page, cancel, exa>>

Poll(r) ==
    PollReads(r) \/ PollAnswered(r) \/ PollFails(r) \/ PollApplies(r) \/ PollGivesUp(r)

(***************************************************************************)
(* sync_run: a page looks at an active run.                                *)
(***************************************************************************)
Loaded(r, s) == [at |-> s, loaded |-> status[r], answer |-> None]

Held(session, s) == [at |-> "holding", loaded |-> session.loaded, answer |-> s]

Asking(session) == [at |-> "asking", loaded |-> session.loaded, answer |-> None]

\* The row as the session of a request writes it.
Applied(r, session) ==
    IF session.answer = session.loaded THEN UNCHANGED status
                                       ELSE Write(r, session.answer)

Visit(r) ==
    /\ up /\ page[r].at = "idle"
    /\ IsActive(r) /\ r \in known
    /\ page' = [page EXCEPT ![r] = Loaded(r, "asking")]
    /\ UNCHANGED <<row, up, crashes, creating, poll, cancel, exa>>

PageAnswered(r) ==
    /\ page[r].at = "asking"
    /\ page' = [page EXCEPT ![r] = Held(@, remote[r])]
    /\ UNCHANGED <<row, up, crashes, creating, poll, cancel, exa>>

PageFails(r) ==
    /\ "network" \in Faults /\ page[r].at = "asking"
    /\ page' = [page EXCEPT ![r] = Idle]
    /\ UNCHANGED <<row, up, crashes, creating, poll, cancel, exa>>

PageApplies(r) ==
    /\ page[r].at = "holding"
    /\ Applied(r, page[r])
    /\ page' = [page EXCEPT ![r] = Idle]
    /\ poll' = IF Last(page[r].answer) THEN poll ELSE Polled(r)
    /\ UNCHANGED <<known, up, crashes, creating, cancel, exa>>

(***************************************************************************)
(* cancel_run: Exa is asked to stop the run, and if that fails, what       *)
(* became of it.                                                           *)
(***************************************************************************)
CancelLocally(r) ==
    /\ up /\ cancel[r].at = "idle"
    /\ IsActive(r) /\ r \notin known
    /\ Write(r, "cancelled")
    /\ UNCHANGED <<known, process, exa>>

Cancel(r) ==
    /\ up /\ cancel[r].at = "idle"
    /\ IsActive(r) /\ r \in known
    /\ cancel' = [cancel EXCEPT ![r] = Loaded(r, "stopping")]
    /\ UNCHANGED <<row, up, crashes, creating, poll, page, exa>>

CancelGranted(r) ==
    /\ cancel[r].at = "stopping" /\ remote[r] \notin Terminal
    /\ remote' = [remote EXCEPT ![r] = "cancelled"]
    /\ cancel' = [cancel EXCEPT ![r] = Held(@, "cancelled")]
    /\ UNCHANGED <<row, up, crashes, creating, poll, page, sent>>

\* Exa cancels the run, and its answer is lost.
CancelUnanswered(r) ==
    /\ "network" \in Faults
    /\ cancel[r].at = "stopping" /\ remote[r] \notin Terminal
    /\ remote' = [remote EXCEPT ![r] = "cancelled"]
    /\ cancel' = [cancel EXCEPT ![r] = Asking(@)]
    /\ UNCHANGED <<row, up, crashes, creating, poll, page, sent>>

\* Mutant: a run that was asked to stop counts as cancelled.
CancelAssumed(r) ==
    /\ cancel[r].at = "stopping"
    /\ remote[r] \in Terminal \/ "refused" \in Faults
    /\ cancel' = [cancel EXCEPT ![r] = Held(@, "cancelled")]
    /\ UNCHANGED <<row, up, crashes, creating, poll, page, exa>>

CancelRefused(r) ==
    /\ cancel[r].at = "stopping"
    /\ remote[r] \in Terminal \/ "refused" \in Faults
    /\ cancel' = [cancel EXCEPT ![r] = Asking(@)]
    /\ UNCHANGED <<row, up, crashes, creating, poll, page, exa>>

CancelAnswered(r) ==
    /\ cancel[r].at = "asking"
    /\ cancel' = [cancel EXCEPT ![r] = Held(@, remote[r])]
    /\ UNCHANGED <<row, up, crashes, creating, poll, page, exa>>

CancelFails(r) ==
    /\ "network" \in Faults /\ cancel[r].at = "asking"
    /\ cancel' = [cancel EXCEPT ![r] = Idle]
    /\ UNCHANGED <<row, up, crashes, creating, poll, page, exa>>

CancelApplies(r) ==
    /\ cancel[r].at = "holding"
    /\ Applied(r, cancel[r])
    /\ cancel' = [cancel EXCEPT ![r] = Idle]
    /\ UNCHANGED <<known, up, crashes, creating, poll, page, exa>>

Stop(r) ==
    \/ CancelLocally(r) \/ Cancel(r)
    \/ CancelGranted(r) \/ CancelUnanswered(r) \/ CancelRefused(r)
    \/ CancelAnswered(r) \/ CancelFails(r) \/ CancelApplies(r)

(***************************************************************************)
(* Exa, and the process.                                                   *)
(***************************************************************************)
\* A create request that was sent may arrive after its sender is gone.
Arrives(r) ==
    /\ sent[r] > 0 /\ remote[r] = None
    /\ r \in creating \/ "disconnect" \in Faults \/ crashes > 0
    /\ remote' = [remote EXCEPT ![r] = "queued"]
    /\ UNCHANGED <<row, process, sent>>

RemoteNext == {<<"queued", "running">>, <<"running", "completed">>, <<"running", "failed">>}

Proceeds(r) ==
    /\ \E s \in Terminal \cup {"running"} :
        /\ <<remote[r], s>> \in RemoteNext
        /\ remote' = [remote EXCEPT ![r] = s]
    /\ UNCHANGED <<row, process, sent>>

Crash ==
    /\ up /\ crashes < MaxCrashes
    /\ up' = FALSE /\ crashes' = crashes + 1
    /\ creating' = {}
    /\ poll' = [r \in Runs |-> Off]
    /\ page' = [r \in Runs |-> Idle] /\ cancel' = [r \in Runs |-> Idle]
    /\ UNCHANGED <<row, exa>>

\* recover_stale_runs: only rows with an ID can be polled.
Recoverable == {r \in known : IsActive(r)}

Start ==
    /\ ~ up
    /\ up' = TRUE
    /\ poll' = [r \in Runs |-> IF r \in Recoverable THEN Reading ELSE Off]
    /\ UNCHANGED <<row, crashes, creating, page, cancel, exa>>

Next ==
    \/ \E r \in Runs :
        \/ Create(r) \/ CreateAgain(r)
        \/ CreateReturns(r) \/ CreateFails(r) \/ Disconnect(r)
        \/ Poll(r)
        \/ Visit(r) \/ PageAnswered(r) \/ PageFails(r) \/ PageApplies(r)
        \/ Stop(r)
        \/ Arrives(r) \/ Proceeds(r)
    \/ Crash \/ Start

Spec == Init /\ [][Next]_vars

\* The process is started again, its event loop runs what is ready, and Exa
\* answers what it is asked again and again.
Fairness ==
    /\ WF_vars(Start)
    /\ \A r \in Runs :
        /\ WF_vars(CreateReturns(r) \/ CreateFails(r))
        /\ WF_vars(PollReads(r) \/ PollApplies(r))
        /\ SF_vars(PollAnswered(r))
        /\ SF_vars(PageAnswered(r))
        /\ WF_vars(PageFails(r) \/ PageApplies(r))
        /\ WF_vars(\/ CancelGranted(r) \/ CancelRefused(r)
                   \/ CancelAnswered(r) \/ CancelFails(r) \/ CancelApplies(r))

FairSpec == Spec /\ Fairness

(***************************************************************************)
(* Properties.                                                             *)
(***************************************************************************)
\* Exa is asked for a generation once, whatever is lost, retried or restarts
\* ("no duplicate automatic create"): each request may be charged.
CreatedOnce == \A r \in Runs : sent[r] <= 1

\* What Exa ended with becomes and stays the status of its row, as long as a
\* page looks at it while it is active (docs/exa-deep-search.md:74, every two
\* seconds), however late the answers of polls, pages and cancellations are
\* applied: a completed answer wins over a cancellation that came too late
\* (docs/exa-deep-search.md:84), and a row that an old answer made active
\* again is asked about again.
ExaDecides == \A r \in Runs :
    WF_vars(Visit(r)) =>
        \A s \in Terminal : (r \in known /\ remote[r] = s) ~> [](status[r] = s)

\* The same with nobody looking: a poll that gave up, or an old answer of a
\* request to cancel that was refused, leaves the row active.
ExaDecidesUnseen == \A r \in Runs : \A s \in Terminal :
    (r \in known /\ remote[r] = s) ~> [](status[r] = s)

\* What has ended stays as it is.  An old answer breaks it for a while.
TerminalStays == [][
    \A r \in Runs : status[r] \in Terminal => status'[r] = status[r]
    ]_vars

\* A run Exa accepted ends in its row.
AcceptedIsFollowed == \A r \in Runs :
    remote[r] # None ~> status[r] \in Terminal

\* The limit of active runs.
LimitHolds == Cardinality({r \in Runs : IsActive(r)}) <= Limit
=============================================================================
