-------------------------- MODULE DeepSearchProofs --------------------------
(***************************************************************************)
(* Machine-checked proofs about DeepSearch, for any number of generations, *)
(* any limit, any number of crashes and any of the faults.                 *)
(***************************************************************************)
EXTENDS DeepSearch, TLAPS

\* Only a run Exa has can have an ID, only a row with an ID is asked about,
\* and what is applied is what Exa answered.
AnswersAreReal == \A r \in Runs :
    /\ r \in known => remote[r] # None
    /\ poll[r].at = "asking" => r \in known
    /\ poll[r].at = "holding" => poll[r].answer # None
    /\ page[r].at \in {"asking", "stopping"} => r \in known
    /\ page[r].at = "holding" => page[r].answer # None
    /\ cancel[r].at \in {"asking", "stopping"} => r \in known
    /\ cancel[r].at = "holding" => cancel[r].answer # None

\* A key that has no row was never sent; the others were sent once.
SentWithRow == \A r \in Runs :
    /\ sent[r] <= 1
    /\ status[r] = "absent" => sent[r] = 0

Inv == TypeOK /\ AnswersAreReal /\ SentWithRow

\* What the sessions of a page and of a cancellation can be.
LEMMA SessionFacts ==
    /\ Idle \in Session /\ Idle.at = "idle"
    /\ \A r \in Runs, s \in {"asking", "stopping"} : status[r] \in Active =>
        Loaded(r, s) \in Session /\ Loaded(r, s).at = s
    /\ \A session \in Session : \A s \in Remote :
        /\ Held(session, s) \in Session
        /\ Held(session, s).at = "holding" /\ Held(session, s).answer = s
    /\ \A session \in Session :
        Asking(session) \in Session /\ Asking(session).at = "asking"
    /\ \A session \in Session : session.answer \in Remote \cup {None}
<1>1. Idle \in Session /\ Idle.at = "idle"
  BY DEF Session, Idle
<1>2. ASSUME NEW r \in Runs, NEW s \in {"asking", "stopping"}, status[r] \in Active
      PROVE  Loaded(r, s) \in Session /\ Loaded(r, s).at = s
  BY <1>2 DEF Session, Loaded
<1>3. ASSUME NEW session \in Session, NEW s \in Remote
      PROVE  /\ Held(session, s) \in Session
             /\ Held(session, s).at = "holding" /\ Held(session, s).answer = s
  BY DEF Session, Held
<1>4. ASSUME NEW session \in Session
      PROVE  /\ Asking(session) \in Session /\ Asking(session).at = "asking"
             /\ session.answer \in Remote \cup {None}
  BY DEF Session, Asking
<1>5. QED
  BY <1>1, <1>2, <1>3, <1>4

\* What a polling task can be.
LEMMA PollingFacts ==
    /\ Off \in Polling /\ Off.at = "off"
    /\ Reading \in Polling /\ Reading.at = "reading"
    /\ [at |-> "asking", answer |-> None] \in Polling
    /\ \A s \in Remote : [at |-> "holding", answer |-> s] \in Polling
    /\ \A p \in Polling : p.answer \in Remote \cup {None}
BY DEF Polling, Off, Reading

\* What is known of the statuses of a row and of Exa.
LEMMA StatusFacts ==
    /\ \A s : s \in Remote => s \in Active \cup Terminal
    /\ \A s : s \in Active \cup Terminal => s # "absent" /\ s # None
    /\ \A s \in {"pending", "queued", "running", "completed", "failed", "cancelled"} :
        s \in Active \cup Terminal
    /\ \A s \in {"queued", "running", "completed", "failed", "cancelled"} : s \in Remote
BY DEF Remote, Active, Terminal, None

\* A row that is written to is there, stays typed and its key stays sent once.
LEMMA WriteFacts ==
    ASSUME Inv, NEW r \in Runs, NEW s \in Active \cup Terminal, Write(r, s), UNCHANGED sent
    PROVE  /\ status' \in [Runs -> Active \cup Terminal \cup {"absent"}]
           /\ SentWithRow'
BY StatusFacts DEF Inv, TypeOK, SentWithRow, Write

\* One row's polling task, or one session, becomes another.
LEMMA PollOf ==
    ASSUME Inv, NEW r \in Runs, NEW p \in Polling, SetPoll(r, p),
           UNCHANGED <<known, page, cancel, remote>>,
           p.at = "asking" => r \in known, p.at = "holding" => p.answer # None
    PROVE  poll' \in [Runs -> Polling] /\ AnswersAreReal'
BY DEF Inv, TypeOK, AnswersAreReal, SetPoll

LEMMA PageOf ==
    ASSUME Inv, NEW r \in Runs, NEW p \in Session, page' = [page EXCEPT ![r] = p],
           UNCHANGED <<known, cancel, remote, poll>>,
           p.at \in {"asking", "stopping"} => r \in known,
           p.at = "holding" => p.answer # None
    PROVE  page' \in [Runs -> Session] /\ AnswersAreReal'
BY DEF Inv, TypeOK, AnswersAreReal

LEMMA CancelOf ==
    ASSUME Inv, NEW r \in Runs, NEW p \in Session, cancel' = [cancel EXCEPT ![r] = p],
           UNCHANGED <<known, page, remote, poll>>,
           p.at \in {"asking", "stopping"} => r \in known,
           p.at = "holding" => p.answer # None
    PROVE  cancel' \in [Runs -> Session] /\ AnswersAreReal'
BY DEF Inv, TypeOK, AnswersAreReal

LEMMA PolledFacts ==
    ASSUME Inv, NEW r \in Runs
    PROVE  /\ Polled(r) \in [Runs -> Polling]
           /\ \A q \in Runs : Polled(r)[q] = poll[q] \/ Polled(r)[q] = Reading
BY PollingFacts DEF Inv, TypeOK, Polled

\* The initial state satisfies the invariant.
LEMMA InvInitially == ASSUME Assumption, Init PROVE Inv
<1>1. /\ \A r \in Runs : poll[r] = Off /\ page[r] = Idle /\ cancel[r] = Idle
      /\ poll \in [Runs -> Polling]
      /\ page \in [Runs -> Session] /\ cancel \in [Runs -> Session]
  BY PollingFacts, SessionFacts DEF Init
<1>2. AnswersAreReal
  BY <1>1, PollingFacts, SessionFacts DEF Init, AnswersAreReal
<1>3. TypeOK /\ SentWithRow
  BY <1>1 DEF Init, TypeOK, SentWithRow, Assumption
<1>4. QED
  BY <1>2, <1>3 DEF Inv

\* The steps of the requests that create a row.
LEMMA CreateKeeps ==
    ASSUME Inv, NEW r \in Runs,
           Create(r) \/ CreateAgain(r) \/ CreateReturns(r) \/ CreateFails(r) \/ Disconnect(r)
    PROVE  Inv'
<1>1. CASE Create(r)
  <2>1. AnswersAreReal'
    BY <1>1 DEF Inv, AnswersAreReal, Create, Write
  <2>2. TypeOK' /\ SentWithRow'
    BY <1>1, StatusFacts DEF Inv, TypeOK, SentWithRow, Create, Existing, Write
  <2>3. QED
    BY <2>1, <2>2 DEF Inv
<1>2. CASE CreateAgain(r)
  <2>1. AnswersAreReal'
    BY <1>2, PolledFacts, PollingFacts
       DEF Inv, TypeOK, AnswersAreReal, CreateAgain, row, exa
  <2>2. TypeOK' /\ SentWithRow'
    BY <1>2, PolledFacts DEF Inv, TypeOK, SentWithRow, CreateAgain, row, exa
  <2>3. QED
    BY <2>1, <2>2 DEF Inv
<1>3. CASE CreateReturns(r)
  <2>1. AnswersAreReal'
    BY <1>3, PolledFacts, PollingFacts
       DEF Inv, TypeOK, AnswersAreReal, CreateReturns, exa
  <2>2. PICK s \in {"queued", "running"} : Write(r, s)
    BY <1>3 DEF CreateReturns
  <2>3. TypeOK' /\ SentWithRow'
    BY <1>3, <2>2, StatusFacts, PolledFacts, WriteFacts DEF Inv, TypeOK, CreateReturns, exa
  <2>4. QED
    BY <2>1, <2>3 DEF Inv
<1>4. CASE CreateFails(r)
  <2>1. AnswersAreReal'
    BY <1>4 DEF Inv, AnswersAreReal, CreateFails, exa
  <2>2. TypeOK' /\ SentWithRow'
    BY <1>4, StatusFacts, WriteFacts DEF Inv, TypeOK, CreateFails, exa
  <2>3. QED
    BY <2>1, <2>2 DEF Inv
<1>5. CASE Disconnect(r)
  BY <1>5 DEF Inv, TypeOK, AnswersAreReal, SentWithRow, Disconnect, row, exa
<1>6. QED
  BY <1>1, <1>2, <1>3, <1>4, <1>5

\* The steps of the polling tasks.
LEMMA PollKeeps == ASSUME Inv, NEW r \in Runs, Poll(r) PROVE Inv'
<1>1. CASE PollApplies(r)
  <2>1. PICK p \in {Off, Reading} : SetPoll(r, p)
    BY <1>1 DEF PollApplies
  <2>2. poll' \in [Runs -> Polling] /\ AnswersAreReal'
    BY <1>1, <2>1, PollOf, PollingFacts DEF PollApplies, exa
  <2>3. poll[r].answer \in Active \cup Terminal
    BY <1>1, PollingFacts, StatusFacts DEF Inv, TypeOK, AnswersAreReal, PollApplies
  <2>4. QED
    BY <1>1, <2>2, <2>3, WriteFacts DEF Inv, TypeOK, PollApplies, exa
<1>2. ASSUME PollReads(r) \/ PollAnswered(r) \/ PollFails(r) \/ PollGivesUp(r) PROVE Inv'
  <2>1. /\ UNCHANGED <<row, up, crashes, creating, page, cancel, exa>>
        /\ \E p \in Polling : /\ SetPoll(r, p)
                              /\ p.at = "asking" => r \in known
                              /\ p.at = "holding" => p.answer # None
    <3>1. CASE PollAnswered(r)
      <4>1. remote[r] \in Remote /\ remote[r] # None
        BY <3>1, StatusFacts DEF Inv, TypeOK, AnswersAreReal, PollAnswered
      <4>2. QED
        BY <3>1, <4>1, PollingFacts DEF PollAnswered
    <3>2. CASE PollReads(r)
      BY <3>2, PollingFacts DEF PollReads
    <3>3. QED
      BY <1>2, <3>1, <3>2, PollingFacts DEF PollFails, PollGivesUp
  <2>2. poll' \in [Runs -> Polling] /\ AnswersAreReal'
    BY <2>1, PollOf DEF row, exa
  <2>3. QED
    BY <2>1, <2>2 DEF Inv, TypeOK, SentWithRow, row, exa
<1>3. QED
  BY <1>1, <1>2 DEF Poll

\* What a session holds can be applied.
LEMMA AppliedFacts ==
    ASSUME Inv, NEW r \in Runs, NEW session \in Session, session.answer # None,
           Applied(r, session), UNCHANGED sent
    PROVE  /\ status' \in [Runs -> Active \cup Terminal \cup {"absent"}]
           /\ SentWithRow'
<1>1. session.answer \in Active \cup Terminal
  BY SessionFacts, StatusFacts
<1>2. CASE UNCHANGED status
  BY <1>2 DEF Inv, TypeOK, SentWithRow
<1>3. CASE Write(r, session.answer)
  BY <1>1, <1>3, WriteFacts
<1>4. QED
  BY <1>2, <1>3 DEF Applied

\* The steps of a page's request.
LEMMA PageKeeps ==
    ASSUME Inv, NEW r \in Runs,
           Visit(r) \/ PageAnswered(r) \/ PageFails(r) \/ PageApplies(r)
    PROVE  Inv'
<1>1. CASE Visit(r)
  <2>1. page' \in [Runs -> Session] /\ AnswersAreReal'
    BY <1>1, PageOf, SessionFacts DEF Visit, IsActive, row, exa
  <2>2. QED
    BY <1>1, <2>1 DEF Inv, TypeOK, SentWithRow, Visit, row, exa
<1>2. CASE PageAnswered(r)
  <2>1. remote[r] \in Remote /\ remote[r] # None /\ page[r] \in Session
    BY <1>2, StatusFacts DEF Inv, TypeOK, AnswersAreReal, PageAnswered
  <2>2. page' \in [Runs -> Session] /\ AnswersAreReal'
    BY <1>2, <2>1, PageOf, SessionFacts DEF PageAnswered, row, exa
  <2>3. QED
    BY <1>2, <2>2 DEF Inv, TypeOK, SentWithRow, PageAnswered, row, exa
<1>3. CASE PageApplies(r)
  <2>1. page[r] \in Session /\ page[r].answer # None
    BY <1>3 DEF Inv, TypeOK, AnswersAreReal, PageApplies
  <2>2. page' \in [Runs -> Session] /\ poll' \in [Runs -> Polling]
    BY <1>3, SessionFacts, PolledFacts DEF Inv, TypeOK, PageApplies
  <2>3. \A q \in Runs : /\ page'[q] = page[q] \/ page'[q] = Idle
                        /\ poll'[q] = poll[q] \/ poll'[q] = Reading
    BY <1>3, PolledFacts DEF Inv, TypeOK, PageApplies
  <2>4. AnswersAreReal'
    BY <1>3, <2>3, SessionFacts, PollingFacts DEF Inv, AnswersAreReal, PageApplies, exa
  <2>5. QED
    BY <1>3, <2>1, <2>2, <2>4, AppliedFacts DEF Inv, TypeOK, PageApplies, exa
<1>4. CASE PageFails(r)
  <2>1. page' \in [Runs -> Session] /\ AnswersAreReal'
    BY <1>4, PageOf, SessionFacts DEF PageFails, row, exa
  <2>2. QED
    BY <1>4, <2>1 DEF Inv, TypeOK, SentWithRow, PageFails, row, exa
<1>5. QED
  BY <1>1, <1>2, <1>3, <1>4

\* The steps of a request to cancel.
LEMMA StopKeeps == ASSUME Inv, NEW r \in Runs, Stop(r) PROVE Inv'
<1>1. CASE CancelLocally(r)
  BY <1>1, StatusFacts, WriteFacts
     DEF Inv, TypeOK, AnswersAreReal, CancelLocally, process, exa
<1>2. CASE Cancel(r)
  <2>1. cancel' \in [Runs -> Session] /\ AnswersAreReal'
    BY <1>2, CancelOf, SessionFacts DEF Cancel, IsActive, row, exa
  <2>2. QED
    BY <1>2, <2>1 DEF Inv, TypeOK, SentWithRow, Cancel, row, exa
<1>3. CASE CancelGranted(r)
  <2>1. cancel[r] \in Session /\ "cancelled" \in Remote /\ "cancelled" # None
    BY StatusFacts DEF Inv, TypeOK
  <2>2. Held(cancel[r], "cancelled") \in Session
    BY <2>1, SessionFacts
  <2>3. cancel' \in [Runs -> Session] /\ remote' \in [Runs -> Remote \cup {None}]
    BY <1>3, <2>1, <2>2 DEF Inv, TypeOK, CancelGranted
  <2>4. AnswersAreReal'
    BY <1>3, <2>1, SessionFacts DEF Inv, TypeOK, AnswersAreReal, CancelGranted, row
  <2>5. QED
    BY <1>3, <2>3, <2>4 DEF Inv, TypeOK, SentWithRow, CancelGranted, row
<1>4. CASE CancelRefused(r)
  <2>1. cancel[r] \in Session /\ r \in known
    BY <1>4 DEF Inv, TypeOK, AnswersAreReal, CancelRefused
  <2>2. cancel' \in [Runs -> Session] /\ AnswersAreReal'
    BY <1>4, <2>1, CancelOf, SessionFacts DEF CancelRefused, row, exa
  <2>3. QED
    BY <1>4, <2>2 DEF Inv, TypeOK, SentWithRow, CancelRefused, row, exa
<1>5. CASE CancelAnswered(r)
  <2>1. remote[r] \in Remote /\ remote[r] # None /\ cancel[r] \in Session
    BY <1>5, StatusFacts DEF Inv, TypeOK, AnswersAreReal, CancelAnswered
  <2>2. cancel' \in [Runs -> Session] /\ AnswersAreReal'
    BY <1>5, <2>1, CancelOf, SessionFacts DEF CancelAnswered, row, exa
  <2>3. QED
    BY <1>5, <2>2 DEF Inv, TypeOK, SentWithRow, CancelAnswered, row, exa
<1>6. CASE CancelApplies(r)
  <2>1. cancel[r] \in Session /\ cancel[r].answer # None
    BY <1>6 DEF Inv, TypeOK, AnswersAreReal, CancelApplies
  <2>2. cancel' \in [Runs -> Session] /\ AnswersAreReal'
    BY <1>6, CancelOf, SessionFacts DEF CancelApplies, exa
  <2>3. QED
    BY <1>6, <2>1, <2>2, AppliedFacts DEF Inv, TypeOK, CancelApplies, exa
<1>7. CASE CancelUnanswered(r)
  <2>1. /\ cancel[r] \in Session /\ r \in known
        /\ "cancelled" \in Remote /\ "cancelled" # None
    BY <1>7, StatusFacts DEF Inv, TypeOK, AnswersAreReal, CancelUnanswered
  <2>2. Asking(cancel[r]) \in Session
    BY <2>1, SessionFacts
  <2>3. cancel' \in [Runs -> Session] /\ remote' \in [Runs -> Remote \cup {None}]
    BY <1>7, <2>1, <2>2 DEF Inv, TypeOK, CancelUnanswered
  <2>4. AnswersAreReal'
    BY <1>7, <2>1, SessionFacts DEF Inv, TypeOK, AnswersAreReal, CancelUnanswered, row
  <2>5. QED
    BY <1>7, <2>3, <2>4 DEF Inv, TypeOK, SentWithRow, CancelUnanswered, row
<1>8. CASE CancelFails(r)
  <2>1. cancel' \in [Runs -> Session] /\ AnswersAreReal'
    BY <1>8, CancelOf, SessionFacts DEF CancelFails, row, exa
  <2>2. QED
    BY <1>8, <2>1 DEF Inv, TypeOK, SentWithRow, CancelFails, row, exa
<1>9. QED
  BY <1>1, <1>2, <1>3, <1>4, <1>5, <1>6, <1>7, <1>8 DEF Stop

\* Every step keeps the invariant.
LEMMA InvPreserved == ASSUME Assumption, Inv, [Next]_vars PROVE Inv'
<1>1. ASSUME NEW r \in Runs, Arrives(r) \/ Proceeds(r) PROVE Inv'
  <2>1. \E s \in Remote : remote' = [remote EXCEPT ![r] = s]
    BY <1>1, StatusFacts DEF Arrives, Proceeds, Terminal
  <2>2. UNCHANGED <<row, process, sent>>
    BY <1>1 DEF Arrives, Proceeds
  <2>3. QED
    BY <2>1, <2>2, StatusFacts DEF Inv, TypeOK, AnswersAreReal, SentWithRow, row, process
<1>2. CASE Crash
  <2>1. /\ \A r \in Runs : poll'[r] = Off /\ page'[r] = Idle /\ cancel'[r] = Idle
        /\ poll' \in [Runs -> Polling]
        /\ page' \in [Runs -> Session] /\ cancel' \in [Runs -> Session]
    BY <1>2, PollingFacts, SessionFacts DEF Crash
  <2>2. AnswersAreReal'
    BY <1>2, <2>1, PollingFacts, SessionFacts DEF Crash, Inv, AnswersAreReal, row, exa
  <2>3. crashes' \in 0..MaxCrashes
    BY <1>2 DEF Crash, Inv, TypeOK, Assumption
  <2>4. up' \in BOOLEAN /\ creating' \subseteq Runs /\ UNCHANGED <<row, exa>>
    BY <1>2 DEF Crash
  <2>5. TypeOK' /\ SentWithRow'
    BY <2>1, <2>3, <2>4 DEF Inv, TypeOK, SentWithRow, row, exa
  <2>6. QED
    BY <2>2, <2>5 DEF Inv
<1>3. CASE Start
  BY <1>3, PollingFacts DEF Start, Inv, TypeOK, AnswersAreReal, SentWithRow, row, exa
<1>4. CASE UNCHANGED vars
  BY <1>4 DEF vars, row, process, exa, Inv, TypeOK, AnswersAreReal, SentWithRow
<1>5. QED
  BY <1>1, <1>2, <1>3, <1>4, CreateKeeps, PollKeeps, PageKeeps, StopKeeps DEF Next

LEMMA InvAlways == ASSUME Assumption PROVE Spec => []Inv
BY InvInitially, InvPreserved, PTL DEF Spec

\* The variables always hold values of their types (TypeOK): what polls, pages
\* and requests to cancel write into a row is a status.
THEOREM TypeCorrect == ASSUME Assumption PROVE Spec => []TypeOK
<1>1. Inv => TypeOK
  BY DEF Inv
<1>2. QED
  BY <1>1, InvAlways, PTL

\* Exa is asked for a generation at most once (CreatedOnce), whatever is lost,
\* cancelled or restarted: create_run commits the row before the request and
\* answers with it from then on.
THEOREM OneCreate == ASSUME Assumption PROVE Spec => []CreatedOnce
<1>1. Inv => CreatedOnce
  BY DEF Inv, SentWithRow, CreatedOnce
<1>2. QED
  BY <1>1, InvAlways, PTL
=============================================================================
