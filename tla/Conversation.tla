---------------------------- MODULE Conversation ----------------------------
(***************************************************************************)
(* One AI conversation: its messages, the generations that write the       *)
(* answers (app.ai.conversations), and the incremental summaries Celery    *)
(* workers make of it (app.ai_memory.summaries).                           *)
(*                                                                         *)
(* The API is one event loop and its database calls block it, so what a    *)
(* handler does between two awaits is one step.  A generation is an async  *)
(* generator pulled by the response: a client that goes away while it is   *)
(* suspended at a yield leaves it behind, with its task over, until the    *)
(* loop's finaliser closes it.  A worker reads a snapshot and its messages *)
(* when it starts, calls the provider, and writes what comes of it over    *)
(* the row, whatever has happened to the row meanwhile.                    *)
(*                                                                         *)
(* A message is its ID, in creation order, and whether it has any text; a  *)
(* summary is the set of messages it was made of.                          *)
(***************************************************************************)
EXTENDS Integers, Sequences, FiniteSets, FiniteSetsExt

CONSTANTS
    MaxMessages,   \* bound of the model: messages of the conversation
    MaxSnapshots,  \* bound of the model: summaries asked for
    MaxDeliveries, \* bound of the model: tasks queued for one summary
    MaxStale,      \* bound of the model: summaries that are given up
    Keep,          \* ai_summary_max_snapshots_per_conversation
    Workers,       \* worker processes of the queue
    Kinds,         \* how a client asks for an answer: stream, respond
    Requests,      \* bound of the model: what else clients do
    Faults         \* the faults that may happen

ASSUME CountsAssumption ==
    /\ MaxMessages \in Nat
    /\ MaxSnapshots \in Nat
    /\ MaxDeliveries \in Nat
    /\ MaxStale \in Nat
    /\ Keep \in Nat \ {0}
    /\ Kinds \subseteq {"stream", "respond"}
    /\ Requests \subseteq {"regenerate", "stop", "delete", "archive"}

\* restart: the API process is restarted.  provider: the summary provider
\* fails or its answer is no summary.  killed: a worker hits the hard time
\* limit.  deepcancel: the deep search run of an answer is cancelled while
\* the answer is being written.
ASSUME FaultsAssumption ==
    Faults \subseteq {"restart", "provider", "killed", "deepcancel"}

Ids      == 1..MaxMessages
Versions == 1..MaxSnapshots

Open     == {"pending", "streaming"}
Finished == {"completed", "partial", "cancelled"}
Terminal == Finished \cup {"failed"}

VARIABLES
    conv,     \* status of the conversation
    msg,      \* the messages: [role, turn, gen, status, text]
    gens,     \* the generators: [id, kind, stage, open, text]
    entry,    \* the answer the runtime registry holds, 0 for none
    stopping, \* answers whose task has been cancelled
    deleting, \* a delete request waits for the generation it stopped
    snap,     \* the summaries by version: [status, from, through, content, stale]
    pointer,  \* current_summary_snapshot_id, 0 for none
    queue,    \* Versions -> tasks queued for it
    work      \* Workers -> [snap, prev, read], what the worker has read

chat    == <<conv, msg, gens, entry, stopping, deleting>>
summary == <<snap, pointer, queue, work>>
vars == <<chat, summary>>

Message  == [ role : {"user", "assistant"}, turn : Ids, gen : 0..MaxMessages,
              status : Open \cup Terminal, text : BOOLEAN ]
\* open: the row is open, as the generator's session has loaded it.  A
\* generator that was left has a task that is done.
Generator == [ id : Ids, kind : Kinds, open : BOOLEAN, text : BOOLEAN,
               stage : {"prepared", "writing", "closing", "left"} ]
Snapshot == [ status  : {"pending", "completed", "failed", "superseded", "pruned"},
              from    : Ids, through : Ids, content : SUBSET Ids, stale : BOOLEAN ]
Idle     == [snap |-> 0, prev |-> 0, read |-> {}]

TypeOK ==
    /\ conv \in {"active", "archived", "deleted"}
    /\ msg \in Seq(Message) /\ Len(msg) <= MaxMessages
    /\ gens \subseteq Generator
    /\ entry \in 0..MaxMessages
    /\ stopping \subseteq Ids
    /\ deleting \in BOOLEAN
    /\ snap \in Seq(Snapshot) /\ Len(snap) <= MaxSnapshots
    /\ pointer \in 0..MaxSnapshots
    /\ queue \in [Versions -> 0..MaxDeliveries]
    /\ work \in [Workers -> [snap : 0..MaxSnapshots, prev : 0..MaxSnapshots,
                             read : SUBSET Ids]]

Init ==
    /\ conv = "active"
    /\ msg = <<>>
    /\ gens = {}
    /\ entry = 0
    /\ stopping = {}
    /\ deleting = FALSE
    /\ snap = <<>>
    /\ pointer = 0
    /\ queue = [v \in Versions |-> 0]
    /\ work = [w \in Workers |-> Idle]

-----------------------------------------------------------------------------
(***************************************************************************)
(* What the history of a turn and a summary are made of.                   *)
(***************************************************************************)

Usable(m) == msg[m].status \in Finished /\ msg[m].text

\* A later usable answer of the same turn replaces this one.
Replaced(m, before) ==
    /\ msg[m].role = "assistant"
    /\ \E n \in 1..(before - 1) :
          /\ msg[n].role = "assistant"
          /\ msg[n].turn = msg[m].turn
          /\ msg[n].gen > msg[m].gen
          /\ Usable(n)

Completed == {v \in 1..Len(snap) : snap[v].status = "completed"}
Newest(S) == IF S = {} THEN 0 ELSE Max(S)
Through(v) == IF v = 0 THEN 0 ELSE snap[v].through
Content(v) == IF v = 0 THEN {} ELSE snap[v].content

\* What the history loader gives the generation of a turn: the newest
\* completed summary, and the usable messages after it.
Context(before) ==
    LET s == Newest(Completed)
    IN  Content(s) \cup
        {m \in 1..(before - 1) :
            m > Through(s) /\ Usable(m) /\ ~Replaced(m, before)}

\* The summary the conversation points to, if that one is completed; the
\* newest completed one if it points to none.
Current ==
    IF pointer = 0 THEN Newest(Completed)
    ELSE IF pointer \in Completed THEN pointer ELSE 0

LastUserMessage == Newest({m \in 1..Len(msg) : msg[m].role = "user"})

-----------------------------------------------------------------------------
(***************************************************************************)
(* The summary requests: request_refresh and enqueue.  A request that      *)
(* raises or returns without a commit is rolled back whole.                *)
(***************************************************************************)

\* A task that cannot be queued is like one that no worker takes.
Deliver(v) ==
    /\ queue[v] < MaxDeliveries
    /\ queue' = [queue EXCEPT ![v] = @ + 1]

Waiting == {v \in 1..Len(snap) : snap[v].status = "pending"}
Fresh   == {v \in Waiting : ~snap[v].stale}

\* The messages an answer leaves to be summarized; m are the messages.
Unsummarized(m) ==
    {i \in 1..Len(m) :
        i > Through(Current) /\ m[i].status \in Finished /\ m[i].text}

\* A pending summary of the last five minutes is queued once more; an older
\* one is given up as a new one is made.  Only the newest one is looked at.
Enqueue(m) ==
    IF Waiting # {} /\ ~snap[Max(Waiting)].stale
    THEN Deliver(Max(Waiting)) /\ UNCHANGED <<snap, pointer, work>>
    ELSE LET source == Unsummarized(m)
             v == Len(snap) + 1
         IN  /\ source # {}
             /\ v <= MaxSnapshots
             /\ snap' = Append(
                   [s \in 1..Len(snap) |->
                       IF Waiting # {} /\ s = Max(Waiting)
                       THEN [snap[s] EXCEPT !.status = "failed"] ELSE snap[s]],
                   [ status |-> "pending", from |-> Min(source),
                     through |-> Max(source), content |-> {}, stale |-> FALSE ])
             /\ Deliver(v)
             /\ UNCHANGED <<pointer, work>>

\* The loop closes a generator a client left behind in its next rounds: the
\* request of the next turn may be handled before, but nothing that has to
\* come from the provider, through the broker, or from another thread.
NoneLeft == \A g \in gens : g.stage # "left"

\* POST /conversations/{id}/summary/refresh, in a thread of its own.
RefreshSummary ==
    /\ NoneLeft
    /\ conv # "deleted"
    /\ Enqueue(msg)
    /\ UNCHANGED chat

\* Five minutes pass over a pending summary.  Workers that were at work
\* when it was made have finished or were killed after 90 seconds.
SummaryGrowsStale(v) ==
    /\ v \in Fresh
    /\ Cardinality({s \in 1..Len(snap) : snap[s].stale}) < MaxStale
    /\ \A w \in Workers : work[w].snap \notin 1..(v - 1)
    /\ snap' = [snap EXCEPT ![v].stale = TRUE]
    /\ UNCHANGED <<chat, pointer, queue, work>>

-----------------------------------------------------------------------------
(***************************************************************************)
(* Generations.                                                            *)
(***************************************************************************)

Running(id) == \E g \in gens : g.id = id /\ g.stage # "left"

\* The registry refuses a conversation whose registered task is not done.
CanReserve == entry = 0 \/ ~Running(entry)

\* Mutant: whatever is registered is forgotten.
UnregistersAny(id) == 0

\* The registry forgets an answer, unless another one is registered.
Unregistered(id) == IF entry = id THEN 0 ELSE entry

Becomes(g, h) == gens' = (gens \ {g}) \cup {h}

\* Mutant: the placeholder does not say which turn it answers.
AssistantOfNone(turn, n) == [role |-> "assistant", turn |-> 0, gen |-> n,
                             status |-> "pending", text |-> FALSE]

Assistant(turn, n) == [role |-> "assistant", turn |-> turn, gen |-> n,
                       status |-> "pending", text |-> FALSE]

\* The placeholder just stored is reserved for this task.
Begin(kind) ==
    /\ gens' = gens \cup {[id |-> Len(msg'), kind |-> kind, open |-> TRUE,
                           text |-> FALSE, stage |-> "prepared"]}
    /\ entry' = Len(msg')
    /\ UNCHANGED <<stopping, deleting, summary>>

\* A message is posted: it is stored with the placeholder of its answer, and
\* an archived conversation is active again.
PostMessage(kind) ==
    LET u == Len(msg) + 1
    IN  /\ conv # "deleted"
        /\ CanReserve
        /\ Len(msg) + 2 <= MaxMessages
        /\ msg' = msg \o << [role |-> "user", turn |-> u, gen |-> 0,
                             status |-> "completed", text |-> TRUE],
                            Assistant(u, 1) >>
        /\ conv' = "active"
        /\ Begin(kind)

\* Another answer to the last turn.
Regenerate(kind) ==
    LET u == LastUserMessage
        n == Max({msg[m].gen : m \in {i \in 1..Len(msg) : msg[i].turn = u}})
    IN  /\ "regenerate" \in Requests
        /\ conv # "deleted"
        /\ CanReserve
        /\ u # 0
        /\ Len(msg) + 1 <= MaxMessages
        /\ msg' = Append(msg, Assistant(u, n + 1))
        /\ UNCHANGED conv
        /\ Begin(kind)

\* _start: the row says streaming, and the orchestrator is called.
Start(g) ==
    /\ g.stage = "prepared"
    /\ msg' = [msg EXCEPT ![g.id].status = "streaming"]
    /\ Becomes(g, [g EXCEPT !.stage = "writing"])
    /\ UNCHANGED <<conv, entry, stopping, deleting, summary>>

\* The answer is under way.
UnderWay(g) ==
    /\ g.stage = "writing"
    /\ g.id \notin stopping
    /\ NoneLeft

\* A piece of the answer, or response.reset.
Delta(g) ==
    /\ UnderWay(g)
    /\ g.kind = "stream"
    /\ Becomes(g, [g EXCEPT !.text = ~@])
    /\ UNCHANGED <<conv, msg, entry, stopping, deleting, summary>>

\* Mutant: the row is written whatever its status.
FinalizedAgain(g, status, text) ==
    [msg EXCEPT ![g.id].status = status, ![g.id].text = text]

\* _finalize writes the row only while its session sees it open.
Finalized(g, status, text) ==
    IF g.open
    THEN [msg EXCEPT ![g.id].status = status, ![g.id].text = text]
    ELSE msg

\* The task is over.
End(g) ==
    /\ gens' = gens \ {g}
    /\ entry' = Unregistered(g.id)
    /\ stopping' = stopping \ {g.id}

\* After its row is final a stream has events left to yield.
AfterFinal(g) ==
    \/ /\ g.kind = "stream"
       /\ Becomes(g, [g EXCEPT !.stage = "closing", !.open = FALSE])
       /\ UNCHANGED <<entry, stopping>>
    \/ g.kind = "respond" /\ End(g)

\* What _finalize does after its commit; a failure to ask is swallowed.
AskForSummary(g) ==
    \/ g.open /\ conv # "deleted" /\ Enqueue(msg')
    \/ UNCHANGED summary

\* The answer is complete, or partial.
Answer(g, status) ==
    /\ UnderWay(g)
    /\ msg' = Finalized(g, status, TRUE)
    /\ AfterFinal(g)
    /\ AskForSummary(g)
    /\ UNCHANGED <<conv, deleting>>

\* The orchestrator fails: what a stream has sent so far is kept.
FailPartial(g) ==
    /\ UnderWay(g)
    /\ g.text
    /\ msg' = Finalized(g, "partial", TRUE)
    /\ AfterFinal(g)
    /\ AskForSummary(g)
    /\ UNCHANGED <<conv, deleting>>

FailEmpty(g) ==
    /\ UnderWay(g)
    /\ ~g.text
    /\ msg' = Finalized(g, "failed", FALSE)
    /\ AfterFinal(g)
    /\ UNCHANGED <<conv, deleting, summary>>

\* The stream yields its last events and is over.
Close(g) ==
    /\ g.stage = "closing"
    /\ End(g)
    /\ UNCHANGED <<conv, msg, deleting, summary>>

\* The registered task is cancelled: by a stop or a delete request, or by
\* the server as the client of a stream goes away.
Stop ==
    /\ "stop" \in Requests
    /\ Running(entry)
    /\ \E g \in gens : g.id = entry /\ g.stage # "prepared"
    /\ stopping' = stopping \cup {entry}
    /\ UNCHANGED <<conv, msg, gens, entry, deleting, summary>>

\* The cancellation arrives in the generator.
Cancelled(g) ==
    /\ g.id \in stopping
    /\ g.stage = "writing"
    /\ msg' = Finalized(g, "cancelled", g.text)
    /\ End(g)
    /\ UNCHANGED <<conv, deleting, summary>>

\* It arrives in the response, with the generator suspended at a yield.
Leave(g) ==
    /\ g.id \in stopping
    /\ g.kind = "stream"
    /\ g.stage \in {"writing", "closing"}
    /\ Becomes(g, [g EXCEPT !.stage = "left"])
    /\ stopping' = stopping \ {g.id}
    /\ UNCHANGED <<conv, msg, entry, deleting, summary>>

\* Mutant: the finally clause only unregisters.
CloseLeftOpen(g) ==
    /\ g.stage = "left"
    /\ End(g)
    /\ UNCHANGED <<conv, msg, deleting, summary>>

\* The loop closes a generator that was left: its finally clause.
CloseLeft(g) ==
    /\ g.stage = "left"
    /\ msg' = Finalized(g, "cancelled", g.text)
    /\ End(g)
    /\ UNCHANGED <<conv, deleting, summary>>

\* The API process is restarted: nothing sweeps the rows it was writing.
Restart ==
    /\ "restart" \in Faults
    /\ gens # {}
    /\ gens' = {} /\ entry' = 0 /\ stopping' = {} /\ deleting' = FALSE
    /\ UNCHANGED <<conv, msg, summary>>

\* The deep search run of an answer is cancelled, and so is the answer: in
\* another session.  The generator's session sees it when it loads the row
\* again, at the end of run_and_wait or after a rollback.
DeepSearchCancelled(m) ==
    /\ "deepcancel" \in Faults
    /\ msg[m].status = "streaming"
    /\ msg' = [msg EXCEPT ![m].status = "cancelled"]
    /\ UNCHANGED <<conv, gens, entry, stopping, deleting, summary>>

Reload(g) ==
    /\ g.open
    /\ msg[g.id].status \notin Open
    /\ Becomes(g, [g EXCEPT !.open = FALSE])
    /\ UNCHANGED <<conv, msg, entry, stopping, deleting, summary>>

-----------------------------------------------------------------------------
(***************************************************************************)
(* The conversation itself.                                                *)
(***************************************************************************)

\* A delete request stops the generation, waits for its task at most two
\* seconds, and marks the conversation.
Delete ==
    /\ "delete" \in Requests
    /\ conv # "deleted"
    /\ ~deleting
    /\ ~\E g \in gens : g.stage = "prepared"
    /\ deleting' = TRUE
    /\ stopping' = stopping \cup {id \in {entry} : Running(id)}
    /\ UNCHANGED <<conv, msg, gens, entry, summary>>

MarkDeleted ==
    /\ deleting
    /\ conv' = "deleted" /\ deleting' = FALSE
    /\ UNCHANGED <<msg, gens, entry, stopping, summary>>

Restore ==
    /\ conv = "deleted"
    /\ conv' = "active"
    /\ UNCHANGED <<msg, gens, entry, stopping, deleting, summary>>

Archive(status) ==
    /\ "archive" \in Requests
    /\ conv \notin {"deleted", status}
    /\ status \in {"active", "archived"}
    /\ conv' = status
    /\ UNCHANGED <<msg, gens, entry, stopping, deleting, summary>>

-----------------------------------------------------------------------------
(***************************************************************************)
(* Workers.                                                                *)
(***************************************************************************)

\* Mutant: the summary the conversation points to.
PreviousIsCurrent(v) == Current

\* The completed summary a worker builds on.
Previous(v) == Newest({p \in Completed : p < v})

\* The messages of the summary's range that are usable now.
InRange(v) == {m \in snap[v].from..snap[v].through : Usable(m)}

Took(w, v) ==
    /\ work[w] = Idle
    /\ queue[v] > 0
    /\ queue' = [queue EXCEPT ![v] = @ - 1]
    /\ UNCHANGED <<chat, pointer>>

\* A task is about a summary that is no longer pending, or was deleted.
SkipSummary(w, v) ==
    /\ Took(w, v)
    /\ snap[v].status # "pending"
    /\ UNCHANGED <<snap, work>>

\* The conversation has been deleted.
DropSummary(w, v) ==
    /\ Took(w, v)
    /\ snap[v].status = "pending"
    /\ conv = "deleted"
    /\ snap' = [snap EXCEPT ![v].status = "failed"]
    /\ UNCHANGED work

\* The worker reads the previous summary and the messages, and calls the
\* provider.
ReadForSummary(w, v) ==
    /\ Took(w, v)
    /\ snap[v].status = "pending"
    /\ conv # "deleted"
    /\ NoneLeft
    /\ work' = [work EXCEPT ![w] =
                   [ snap |-> v, prev |-> Previous(v),
                     read |-> Content(Previous(v)) \cup InRange(v) ]]
    /\ UNCHANGED snap

AtWork(w) == work[w].snap # 0

Rest(w) ==
    /\ work' = [work EXCEPT ![w] = Idle]
    /\ UNCHANGED <<chat, queue>>

\* All but the newest summaries are deleted.
Pruned(s) ==
    [v \in 1..Len(s) |->
        IF v <= Len(s) - Keep THEN [s[v] EXCEPT !.status = "pruned"] ELSE s[v]]

\* The status of a row that is gone cannot be written.
Gone(v) == v # 0 /\ snap[v].status = "pruned"

\* Mutant: every completed summary is superseded, whatever its version.
CompleteOverAll(w) ==
    LET v == work[w].snap
    IN  /\ AtWork(w)
        /\ snap' = Pruned([s \in 1..Len(snap) |->
              IF s = v
              THEN [snap[s] EXCEPT !.status = "completed", !.content = work[w].read]
              ELSE IF snap[s].status = "completed"
                   THEN [snap[s] EXCEPT !.status = "superseded"] ELSE snap[s]])
        /\ pointer' = v
        /\ Rest(w)

\* The provider answers: the summary is completed, the one it builds on is
\* superseded, the conversation points to it, and old ones are pruned.
CompleteSummary(w) ==
    LET v == work[w].snap
        p == work[w].prev
    IN  /\ AtWork(w)
        /\ ~Gone(v) /\ ~Gone(p)
        /\ snap' = Pruned([s \in 1..Len(snap) |->
              IF s = v
              THEN [snap[s] EXCEPT !.status = "completed", !.content = work[w].read]
              ELSE IF s = p THEN [snap[s] EXCEPT !.status = "superseded"] ELSE snap[s]])
        /\ pointer' = v
        /\ Rest(w)

\* It fails, or the summary's predecessor is gone: the row says failed.
FailSummary(w) ==
    /\ AtWork(w)
    /\ "provider" \in Faults \/ Gone(work[w].prev)
    /\ ~Gone(work[w].snap)
    /\ snap' = [snap EXCEPT ![work[w].snap].status = "failed"]
    /\ UNCHANGED pointer
    /\ Rest(w)

\* The row is gone, or the worker is killed at its time limit.
GiveUp(w) ==
    /\ AtWork(w)
    /\ "killed" \in Faults \/ Gone(work[w].snap)
    /\ UNCHANGED <<snap, pointer>>
    /\ Rest(w)

-----------------------------------------------------------------------------

Generate(g) ==
    \/ Start(g) \/ Delta(g) \/ FailPartial(g) \/ FailEmpty(g)
    \/ \E status \in {"completed", "partial"} : Answer(g, status)
    \/ Close(g) \/ Cancelled(g) \/ Leave(g) \/ CloseLeft(g) \/ Reload(g)

Manage ==
    \/ Stop \/ Delete \/ MarkDeleted \/ Restore \/ Restart
    \/ \E status \in {"active", "archived"} : Archive(status)
    \/ \E m \in 1..Len(msg) : DeepSearchCancelled(m)

Work(w) ==
    \/ \E v \in 1..Len(snap) :
          SkipSummary(w, v) \/ DropSummary(w, v) \/ ReadForSummary(w, v)
    \/ CompleteSummary(w) \/ FailSummary(w) \/ GiveUp(w)

Next ==
    \/ \E kind \in Kinds : PostMessage(kind) \/ Regenerate(kind)
    \/ \E g \in gens : Generate(g)
    \/ Manage
    \/ RefreshSummary
    \/ \E v \in 1..Len(snap) : SummaryGrowsStale(v)
    \/ \E w \in Workers : Work(w)

Spec == Init /\ [][Next]_vars

\* The event loop goes on, and the orchestrator's time budget ends every
\* answer it is asked for.
Ends(g) ==
    \/ Start(g) \/ FailPartial(g) \/ FailEmpty(g)
    \/ \E status \in {"completed", "partial"} : Answer(g, status)
    \/ Close(g) \/ Cancelled(g) \/ CloseLeft(g)

FairSpec == Spec /\ WF_vars(\E g \in gens : Ends(g))

-----------------------------------------------------------------------------
(***************************************************************************)
(* Properties.                                                             *)
(***************************************************************************)

\* At most one generation of a conversation is at work: a generator that was
\* left, closed after the next answer was registered, does not make room for
\* a third (runtime.py).
OneGeneration == Cardinality({g \in gens : g.stage # "left"}) <= 1

\* What a turn is told covers the conversation: every usable message that no
\* later answer replaces is in the newest completed summary or after it,
\* whichever way tasks that were queued twice, given up as stale, killed or
\* late write their summaries (history.py, summaries/service.py).
NothingForgotten ==
    \A m \in 1..Len(msg) :
        Usable(m) /\ ~Replaced(m, Len(msg) + 1) => m \in Context(Len(msg) + 1)

\* A message that has its final status keeps it, and its text: a stop that
\* comes while the last events are sent, or the closing of a generator whose
\* client has gone, does not change an answer that was stored (_finalize).
FinalStays ==
    [][\A m \in 1..Len(msg) :
        msg[m].status \in Terminal =>
            /\ msg'[m].status = msg[m].status
            /\ msg'[m].text = msg[m].text]_vars

\* The summary a turn is told never shrinks: tasks of older summaries that
\* finish late do not take the place of a newer one, and pruning leaves it.
SummaryGrows ==
    [][Content(Newest(Completed)) \subseteq Content(Newest(Completed))']_vars

\* Every placeholder becomes an answer, or says that there is none: one that
\* stays open would be shown as being written for ever.
EveryAnswerEnds ==
    \A m \in Ids :
        (m <= Len(msg) /\ msg[m].status \in Open)
            ~> (m <= Len(msg) /\ msg[m].status \in Terminal)

\* docs/ai-conversation-summary.md:32-33 of a failed task: a previous
\* completed snapshot stays current.
PreviousStaysCurrent ==
    [][Completed # {} => Completed' # {}]_vars

=============================================================================
