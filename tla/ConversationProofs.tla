------------------------ MODULE ConversationProofs ------------------------
(***************************************************************************)
(* What holds of Conversation for every number of messages, summaries,     *)
(* deliveries and workers, and every set of requests and faults.           *)
(***************************************************************************)
EXTENDS Conversation, FiniteSetTheorems, WellFoundedInduction, TLAPS

ChatTypes ==
    /\ conv \in {"active", "archived", "deleted"}
    /\ msg \in Seq(Message) /\ Len(msg) <= MaxMessages
    /\ gens \subseteq Generator
    /\ entry \in 0..MaxMessages
    /\ stopping \subseteq Ids
    /\ deleting \in BOOLEAN

Reading == [snap : 0..MaxSnapshots, prev : 0..MaxSnapshots, read : SUBSET Ids]

SummaryTypes ==
    /\ snap \in Seq(Snapshot) /\ Len(snap) <= MaxSnapshots
    /\ pointer \in 0..MaxSnapshots
    /\ queue \in [Versions -> 0..MaxDeliveries]
    /\ work \in [Workers -> Reading]

\* The answers of a turn are no more than the messages, and a user's message
\* begins its own turn.
RowsFit == \A m \in 1..Len(msg) :
    /\ msg[m].gen <= m
    /\ msg[m].role = "user" => msg[m].turn = m

\* Each generator has a row of its own, and the one that was not left is the
\* one the registry holds: this is what lets a request be refused for it.
Registered ==
    /\ \A g \in gens : g.id \in 1..Len(msg)
    /\ \A g, h \in gens : g.id = h.id => g = h
    /\ \A g \in gens : g.stage # "left" => g.id = entry

\* A generator whose session has its row open is right, if no other session
\* cancels answers.
OpenRows == \A g \in gens :
    /\ g.open => msg[g.id].status \in Open
    /\ g.stage = "prepared" => g.open

\* What is final stays in this step.
Kept == \A m \in 1..Len(msg) :
    msg[m].status \in Terminal =>
        /\ msg'[m].status = msg[m].status
        /\ msg'[m].text = msg[m].text

ChatInv == ChatTypes /\ RowsFit /\ Registered
Inv     == ChatInv /\ SummaryTypes

\* What a step of the chat has to show.
GoesOn == ChatInv' /\ (OpenRows => OpenRows' /\ Kept)

-----------------------------------------------------------------------------
(***************************************************************************)
(* The greatest and the least of finite sets of numbers.                   *)
(***************************************************************************)

LessThan == {pair \in Nat \X Nat : pair[1] < pair[2]}

LEMMA LessThanWellFounded == IsWellFoundedOn(LessThan, Nat)
BY NatLessThanWellFounded DEF OpToRel, LessThan

LEMMA LeastFacts == ASSUME NEW S \in SUBSET Nat, S # {}
                    PROVE  Min(S) \in S /\ \A y \in S : Min(S) <= y
<1>1. PICK x \in S : \A y \in S : ~(<<y, x>> \in LessThan)
  BY LessThanWellFounded, WFMin, Zenon
<1>2. ASSUME NEW y \in S PROVE x <= y
  <2>1. ~(y < x)
    BY <1>1 DEF LessThan
  <2>2. QED
    BY <2>1
<1>3. QED
  BY <1>2 DEF Min

LEMMA GreatestFacts == ASSUME NEW n \in Nat, NEW S \in SUBSET (0..n), S # {}
                       PROVE  Max(S) \in S /\ \A y \in S : Max(S) >= y
<1> DEFINE T == {n - y : y \in S}
<1>1. \A y \in S : n - y \in Nat
  OBVIOUS
<1>2. T \in SUBSET Nat
  BY <1>1
<1>3. T # {}
  <2>1. PICK y : y \in S
    OBVIOUS
  <2>2. n - y \in T
    BY <2>1
  <2>3. QED
    BY <2>2
<1> HIDE DEF T
<1>4. Min(T) \in T /\ \A y \in T : Min(T) <= y
  BY <1>2, <1>3, LeastFacts
<1>5. PICK x \in S : Min(T) = n - x
  BY <1>4 DEF T
<1>6. ASSUME NEW y \in S PROVE x >= y
  <2>1. n - y \in T
    BY DEF T
  <2>2. n - x <= n - y
    BY <2>1, <1>4, <1>5
  <2>3. QED
    BY <2>2
<1>7. QED
  BY <1>6 DEF Max

-----------------------------------------------------------------------------
(***************************************************************************)
(* Rows and generators.                                                    *)
(***************************************************************************)

\* A row gets another status, or another status and another text.
RowWritten(rows, i, status, text) ==
    \/ rows = [msg EXCEPT ![i].status = status]
    \/ rows = [msg EXCEPT ![i].status = status, ![i].text = text]

LEMMA RowFacts ==
    ASSUME ChatTypes, NEW i \in 1..Len(msg), NEW status \in Open \cup Terminal,
           NEW text \in BOOLEAN, NEW rows, RowWritten(rows, i, status, text)
    PROVE  /\ rows \in Seq(Message) /\ Len(rows) = Len(msg)
           /\ \A m \in 1..Len(msg) : /\ m # i => rows[m] = msg[m]
                                     /\ rows[m].gen = msg[m].gen
                                     /\ rows[m].role = msg[m].role
                                     /\ rows[m].turn = msg[m].turn
           /\ rows[i].status = status
<1>1. msg \in Seq(Message) /\ Len(msg) \in Nat /\ \A m \in 1..Len(msg) : msg[m] \in Message
  BY DEF ChatTypes
<1>2. /\ [msg[i] EXCEPT !.status = status] \in Message
      /\ [msg[i] EXCEPT !.status = status].gen = msg[i].gen
      /\ [msg[i] EXCEPT !.status = status].role = msg[i].role
      /\ [msg[i] EXCEPT !.status = status].turn = msg[i].turn
      /\ [msg[i] EXCEPT !.status = status].status = status
  BY <1>1 DEF Message
<1>3. /\ [msg[i] EXCEPT !.status = status, !.text = text] \in Message
      /\ [msg[i] EXCEPT !.status = status, !.text = text].gen = msg[i].gen
      /\ [msg[i] EXCEPT !.status = status, !.text = text].role = msg[i].role
      /\ [msg[i] EXCEPT !.status = status, !.text = text].turn = msg[i].turn
      /\ [msg[i] EXCEPT !.status = status, !.text = text].status = status
  BY <1>1 DEF Message
<1>4. \/ rows = [msg EXCEPT ![i] = [msg[i] EXCEPT !.status = status]]
      \/ rows = [msg EXCEPT ![i] = [msg[i] EXCEPT !.status = status, !.text = text]]
  BY <1>1 DEF RowWritten
<1>5. PICK r \in Message : /\ rows = [msg EXCEPT ![i] = r]
                           /\ r.gen = msg[i].gen /\ r.status = status
                           /\ r.role = msg[i].role /\ r.turn = msg[i].turn
  BY <1>2, <1>3, <1>4
<1>6. QED
  BY <1>1, <1>5

\* A generator goes on, or is left.
LEMMA BecomesKeeps ==
    ASSUME ChatInv, NEW g \in gens, NEW h \in Generator, h.id = g.id,
           h.stage # "left" => g.stage # "left",
           Becomes(g, h), entry' = entry, Len(msg') = Len(msg)
    PROVE  gens' \subseteq Generator /\ Registered'
<1>1. gens' = (gens \ {g}) \cup {h}
  BY DEF Becomes
<1>2. \A x \in gens' : x \in gens \/ x = h
  BY <1>1
<1>3. \A x \in gens : x.id = h.id => x = g
  BY DEF ChatInv, Registered
<1>4. QED
  BY <1>1, <1>2, <1>3 DEF ChatInv, ChatTypes, Registered

\* Its task ends.
LEMMA EndKeeps ==
    ASSUME ChatInv, NEW g \in gens, End(g), Len(msg') = Len(msg)
    PROVE  /\ gens' \subseteq Generator /\ Registered'
           /\ entry' \in 0..MaxMessages /\ stopping' \subseteq Ids
<1>1. /\ gens' = gens \ {g} /\ stopping' = stopping \ {g.id}
      /\ entry' = IF entry = g.id THEN 0 ELSE entry
  BY DEF End, Unregistered
<1>2. \A h \in gens' : h.stage # "left" => h.id = entry'
  BY <1>1 DEF ChatInv, Registered
<1>3. QED
  BY <1>1, <1>2, CountsAssumption DEF ChatInv, ChatTypes, Registered

\* A session that finalizes an answer, or leaves the row to another.
LEMMA FinalizedFacts ==
    ASSUME ChatInv, NEW g \in gens, NEW status \in Terminal, NEW text \in BOOLEAN,
           msg' = Finalized(g, status, text)
    PROVE  /\ msg' \in Seq(Message) /\ Len(msg') = Len(msg) /\ RowsFit'
           /\ \A m \in 1..Len(msg) : m # g.id => msg'[m] = msg[m]
           /\ OpenRows => Kept
<1>1. g.id \in 1..Len(msg)
  BY DEF ChatInv, Registered
<1>2. CASE g.open
  <2>1. msg' = [msg EXCEPT ![g.id].status = status, ![g.id].text = text]
    BY <1>2 DEF Finalized
  <2>2. /\ msg' \in Seq(Message) /\ Len(msg') = Len(msg)
        /\ \A m \in 1..Len(msg) : /\ m # g.id => msg'[m] = msg[m]
                                  /\ msg'[m].gen = msg[m].gen
                                  /\ msg'[m].role = msg[m].role
                                  /\ msg'[m].turn = msg[m].turn
    <3>1. status \in Open \cup Terminal /\ ChatTypes
      BY DEF ChatInv
    <3>2. RowWritten(msg', g.id, status, text)
      BY <2>1 DEF RowWritten
    <3>3. QED
      BY <1>1, <3>1, <3>2, RowFacts
  <2>3. OpenRows => msg[g.id].status \notin Terminal
    BY <1>2 DEF OpenRows, Open, Terminal, Finished
  <2>4. RowsFit'
    BY <2>2 DEF ChatInv, RowsFit
  <2>5. OpenRows => Kept
    BY <2>2, <2>3 DEF Kept
  <2>6. QED
    BY <2>2, <2>4, <2>5
<1>3. CASE ~g.open
  BY <1>3 DEF Finalized, Kept, ChatInv, ChatTypes, RowsFit
<1>4. QED
  BY <1>2, <1>3

\* When generators end or no longer have their row open, the others still do.
LEMMA OpenRowsStay ==
    ASSUME ChatInv, OpenRows, NEW g \in gens, NEW h, Len(msg') = Len(msg),
           \A m \in 1..Len(msg) : m # g.id => msg'[m] = msg[m],
           gens' \subseteq (gens \ {g}) \cup {h},
           h \in gens' => /\ h.open => msg'[h.id].status \in Open
                          /\ h.stage # "prepared"
    PROVE  OpenRows'
<1>1. ASSUME NEW x \in gens', x # h
      PROVE  /\ x.open => msg'[x.id].status \in Open
             /\ x.stage = "prepared" => x.open
  <2>1. x \in gens /\ x # g
    BY <1>1
  <2>2. x.id # g.id /\ x.id \in 1..Len(msg)
    BY <2>1 DEF ChatInv, Registered
  <2>3. QED
    BY <2>1, <2>2 DEF OpenRows
<1>2. QED
  BY <1>1 DEF OpenRows

-----------------------------------------------------------------------------
(***************************************************************************)
(* The steps of a generator.                                               *)
(***************************************************************************)

\* Its row is final and its task over.
LEMMA FinalThenEnd ==
    ASSUME ChatInv, NEW g \in gens, NEW status \in Terminal, NEW text \in BOOLEAN,
           msg' = Finalized(g, status, text), End(g), UNCHANGED <<conv, deleting>>
    PROVE  GoesOn
<1>1. /\ msg' \in Seq(Message) /\ Len(msg') = Len(msg) /\ RowsFit'
      /\ \A m \in 1..Len(msg) : m # g.id => msg'[m] = msg[m]
      /\ OpenRows => Kept
  BY FinalizedFacts
<1>2. /\ gens' \subseteq Generator /\ Registered'
      /\ entry' \in 0..MaxMessages /\ stopping' \subseteq Ids
  BY <1>1, EndKeeps
<1>3. gens' = gens \ {g}
  BY DEF End
<1>4. OpenRows => OpenRows'
  <2>1. ASSUME OpenRows, NEW x \in gens'
        PROVE  /\ x.open => msg'[x.id].status \in Open
               /\ x.stage = "prepared" => x.open
    <3>1. x \in gens /\ x.id # g.id /\ x.id \in 1..Len(msg)
      BY <1>3, <2>1 DEF ChatInv, Registered
    <3>2. QED
      BY <1>1, <2>1, <3>1 DEF OpenRows
  <2>2. QED
    BY <2>1 DEF OpenRows
<1>5. QED
  BY <1>1, <1>2, <1>4 DEF GoesOn, ChatInv, ChatTypes

\* Its row is final, and its stream may have events left.
LEMMA FinalThenCloses ==
    ASSUME ChatInv, NEW g \in gens, NEW status \in Terminal, NEW text \in BOOLEAN,
           g.stage = "writing", msg' = Finalized(g, status, text), AfterFinal(g),
           UNCHANGED <<conv, deleting>>
    PROVE  GoesOn
<1>1. CASE End(g)
  BY <1>1, FinalThenEnd
<1>2. CASE /\ Becomes(g, [g EXCEPT !.stage = "closing", !.open = FALSE])
           /\ UNCHANGED <<entry, stopping>>
  <2> DEFINE h == [g EXCEPT !.stage = "closing", !.open = FALSE]
  <2>1. /\ h \in Generator /\ h.id = g.id /\ h.stage = "closing" /\ h.open = FALSE
    BY DEF ChatInv, ChatTypes, Generator
  <2> HIDE DEF h
  <2>2. /\ msg' \in Seq(Message) /\ Len(msg') = Len(msg) /\ RowsFit'
        /\ \A m \in 1..Len(msg) : m # g.id => msg'[m] = msg[m]
        /\ OpenRows => Kept
    BY FinalizedFacts
  <2>3. Becomes(g, h) /\ entry' = entry
    BY <1>2 DEF h
  <2>4. gens' \subseteq Generator /\ Registered'
    BY <2>1, <2>2, <2>3, BecomesKeeps
  <2>5. OpenRows => OpenRows'
    BY <2>1, <2>2, <2>3, OpenRowsStay DEF Becomes
  <2>6. QED
    BY <1>2, <2>2, <2>4, <2>5 DEF GoesOn, ChatInv, ChatTypes
<1>3. QED
  BY <1>1, <1>2 DEF AfterFinal

\* It changes and no row does.
LEMMA GeneratorChanges ==
    ASSUME ChatInv, NEW g \in gens, NEW h \in Generator, h.id = g.id,
           h.stage # "left" => g.stage # "left",
           h.open => g.open, h.stage # "prepared",
           Becomes(g, h), stopping' \in SUBSET Ids, UNCHANGED <<conv, msg, entry, deleting>>
    PROVE  GoesOn
<1>1. gens' \subseteq Generator /\ Registered'
  BY BecomesKeeps
<1>2. OpenRows => OpenRows'
  BY OpenRowsStay DEF Becomes, OpenRows
<1>3. Kept
  BY DEF Kept
<1>4. QED
  BY <1>1, <1>2, <1>3 DEF GoesOn, ChatInv, ChatTypes, RowsFit

LEMMA StartKeeps == ASSUME ChatInv, NEW g \in gens, Start(g) PROVE GoesOn
<1> DEFINE h == [g EXCEPT !.stage = "writing"]
<1>1. h \in Generator /\ h.id = g.id /\ h.stage = "writing" /\ h.open = g.open
  BY DEF ChatInv, ChatTypes, Generator
<1>2. Becomes(g, h) /\ UNCHANGED <<conv, entry, stopping, deleting>>
  BY DEF Start
<1> HIDE DEF h
<1>3. g.id \in 1..Len(msg) /\ ChatTypes
  BY DEF ChatInv, Registered
<1>4. PICK text \in BOOLEAN : RowWritten(msg', g.id, "streaming", text)
  BY DEF Start, RowWritten
<1>5. "streaming" \in Open \cup Terminal
  BY DEF Open
<1>6. /\ msg' \in Seq(Message) /\ Len(msg') = Len(msg)
      /\ \A m \in 1..Len(msg) : /\ m # g.id => msg'[m] = msg[m]
                                /\ msg'[m].gen = msg[m].gen
                                /\ msg'[m].role = msg[m].role
                                /\ msg'[m].turn = msg[m].turn
      /\ msg'[g.id].status = "streaming"
  BY <1>3, <1>4, <1>5, RowFacts
<1>7. RowsFit'
  BY <1>6 DEF ChatInv, RowsFit
<1>8. gens' \subseteq Generator /\ Registered'
  BY <1>1, <1>2, <1>6, BecomesKeeps DEF Start
<1>9. OpenRows => OpenRows'
  BY <1>1, <1>2, <1>6, OpenRowsStay DEF Becomes, Open
<1>10. OpenRows => Kept
  <2>1. OpenRows => msg[g.id].status \notin Terminal
    BY DEF OpenRows, Start, Open, Terminal, Finished
  <2>2. QED
    BY <1>6, <2>1 DEF Kept
<1>11. QED
  BY <1>2, <1>6, <1>7, <1>8, <1>9, <1>10 DEF GoesOn, ChatInv, ChatTypes

LEMMA GenerateKeeps == ASSUME ChatInv, NEW g \in gens, Generate(g) PROVE GoesOn
<1>0. g \in Generator /\ g.text \in BOOLEAN
  BY DEF ChatInv, ChatTypes, Generator
<1>1. CASE Start(g)
  BY <1>1, StartKeeps
<1>2. CASE Delta(g)
  <2> DEFINE h == [g EXCEPT !.text = ~@]
  <2>1. /\ h \in Generator /\ h.id = g.id /\ h.stage = g.stage /\ h.open = g.open
    BY <1>0 DEF Generator
  <2>2. Becomes(g, h) /\ UNCHANGED <<conv, msg, entry, stopping, deleting>>
    BY <1>2 DEF Delta
  <2> HIDE DEF h
  <2>3. g.stage = "writing"
    BY <1>2 DEF Delta, UnderWay
  <2>4. QED
    BY <2>1, <2>2, <2>3, GeneratorChanges DEF ChatInv, ChatTypes
<1>3. ASSUME NEW status \in {"completed", "partial"}, Answer(g, status) PROVE GoesOn
  BY <1>3, FinalThenCloses DEF Answer, UnderWay, Terminal, Finished
<1>4. CASE FailPartial(g)
  BY <1>4, FinalThenCloses DEF FailPartial, UnderWay, Terminal, Finished
<1>5. CASE FailEmpty(g)
  BY <1>5, FinalThenCloses DEF FailEmpty, UnderWay, Terminal
<1>6. CASE Close(g)
  <2>1. End(g) /\ UNCHANGED <<conv, msg, deleting>>
    BY <1>6 DEF Close
  <2>2. /\ gens' \subseteq Generator /\ Registered'
        /\ entry' \in 0..MaxMessages /\ stopping' \subseteq Ids
    BY <2>1, EndKeeps
  <2>3. Kept /\ RowsFit' /\ (OpenRows => OpenRows')
    BY <2>1 DEF Kept, ChatInv, RowsFit, End, OpenRows
  <2>4. QED
    BY <2>1, <2>2, <2>3 DEF GoesOn, ChatInv, ChatTypes
<1>7. CASE Cancelled(g)
  BY <1>0, <1>7, FinalThenEnd DEF Cancelled, Terminal, Finished
<1>8. CASE Leave(g)
  <2> DEFINE h == [g EXCEPT !.stage = "left"]
  <2>1. /\ h \in Generator /\ h.id = g.id /\ h.stage = "left" /\ h.open = g.open
    BY <1>0 DEF Generator
  <2>2. /\ Becomes(g, h) /\ stopping' = stopping \ {g.id}
        /\ UNCHANGED <<conv, msg, entry, deleting>>
    BY <1>8 DEF Leave
  <2> HIDE DEF h
  <2>3. QED
    BY <2>1, <2>2, GeneratorChanges DEF ChatInv, ChatTypes
<1>9. CASE CloseLeft(g)
  BY <1>0, <1>9, FinalThenEnd DEF CloseLeft, Terminal, Finished
<1>10. CASE Reload(g)
  <2> DEFINE h == [g EXCEPT !.open = FALSE]
  <2>1. /\ h \in Generator /\ h.id = g.id /\ h.stage = g.stage
    BY <1>0 DEF Generator
  <2>2. Becomes(g, h) /\ UNCHANGED <<conv, msg, entry, stopping, deleting>>
    BY <1>10 DEF Reload
  <2> HIDE DEF h
  <2>3. ~OpenRows
    BY <1>10 DEF Reload, OpenRows
  <2>4. gens' \subseteq Generator /\ Registered'
    BY <2>1, <2>2, BecomesKeeps
  <2>5. QED
    BY <2>2, <2>3, <2>4 DEF GoesOn, ChatInv, ChatTypes, RowsFit
<1>11. QED
  BY <1>1, <1>2, <1>3, <1>4, <1>5, <1>6, <1>7, <1>8, <1>9, <1>10 DEF Generate

-----------------------------------------------------------------------------
(***************************************************************************)
(* Requests.                                                               *)
(***************************************************************************)

\* A placeholder is stored after the messages, and reserved: the registry
\* lets it only if no generator is at work.
LEMMA BeginKeeps ==
    ASSUME ChatInv, CanReserve, NEW kind \in Kinds,
           msg' \in Seq(Message), Len(msg') <= MaxMessages, Len(msg) < Len(msg'),
           \A m \in 1..Len(msg) : msg'[m] = msg[m],
           RowsFit', msg'[Len(msg')].status = "pending",
           Begin(kind), conv' \in {"active", "archived", "deleted"}
    PROVE  GoesOn
<1> DEFINE h == [id |-> Len(msg'), kind |-> kind, open |-> TRUE,
                 text |-> FALSE, stage |-> "prepared"]
<1>1. /\ gens' = gens \cup {h} /\ entry' = Len(msg')
      /\ UNCHANGED <<stopping, deleting>>
  BY DEF Begin
<1>2. Len(msg) \in Nat /\ Len(msg') \in Nat /\ Len(msg') \in 1..MaxMessages
  BY CountsAssumption DEF ChatInv, ChatTypes
<1>3. /\ h \in Generator /\ h.id = Len(msg') /\ h.open /\ h.stage = "prepared"
  BY <1>2 DEF Generator, Ids
<1> HIDE DEF h
<1>4. \A g \in gens : g.id \in 1..Len(msg) /\ g.stage = "left"
  BY <1>2 DEF CanReserve, Running, ChatInv, Registered
<1>5. Registered'
  BY <1>1, <1>2, <1>3, <1>4 DEF ChatInv, Registered
<1>6. OpenRows => OpenRows'
  BY <1>1, <1>2, <1>3, <1>4 DEF OpenRows, Open
<1>7. Kept
  BY DEF Kept
<1>8. QED
  BY <1>1, <1>2, <1>3, <1>5, <1>6, <1>7 DEF GoesOn, ChatInv, ChatTypes

LEMMA PostKeeps == ASSUME ChatInv, NEW kind \in Kinds, PostMessage(kind) PROVE GoesOn
<1> DEFINE u == Len(msg) + 1
           question == [role |-> "user", turn |-> u, gen |-> 0,
                        status |-> "completed", text |-> TRUE]
<1>1. msg \in Seq(Message) /\ Len(msg) \in Nat
  BY DEF ChatInv, ChatTypes
<1>2. /\ Len(msg) + 2 <= MaxMessages /\ u \in Ids
      /\ 0 \in 0..MaxMessages /\ 1 \in 0..MaxMessages
  BY <1>1, CountsAssumption DEF PostMessage, Ids
<1>3. question \in Message /\ question.gen = 0 /\ question.turn = u
  BY <1>2 DEF Message, Open, Terminal, Finished
<1>4. /\ Assistant(u, 1) \in Message
       /\ Assistant(u, 1).gen = 1 /\ Assistant(u, 1).role = "assistant"
       /\ Assistant(u, 1).status = "pending"
  BY <1>2 DEF Assistant, Message, Open
<1>5. msg' = msg \o <<question, Assistant(u, 1)>>
  BY DEF PostMessage
<1> HIDE DEF question
<1>6. /\ msg' \in Seq(Message) /\ Len(msg') = Len(msg) + 2
      /\ \A m \in 1..Len(msg) : msg'[m] = msg[m]
      /\ msg'[Len(msg) + 1] = question /\ msg'[Len(msg) + 2] = Assistant(u, 1)
  BY <1>1, <1>3, <1>4, <1>5
<1>7. RowsFit'
  <2>1. ASSUME NEW m \in 1..Len(msg')
        PROVE  /\ msg'[m].gen <= m
               /\ msg'[m].role = "user" => msg'[m].turn = m
    <3>1. m \in 1..Len(msg) \/ m = Len(msg) + 1 \/ m = Len(msg) + 2
      BY <1>1, <1>6
    <3>2. CASE m \in 1..Len(msg)
      BY <3>2, <1>6 DEF ChatInv, RowsFit
    <3>3. CASE m = Len(msg) + 1
      BY <3>3, <1>1, <1>3, <1>4, <1>6
    <3>4. CASE m = Len(msg) + 2
      BY <3>4, <1>1, <1>3, <1>4, <1>6
    <3>5. QED
      BY <3>1, <3>2, <3>3, <3>4
  <2>2. QED
    BY <2>1 DEF RowsFit
<1>8. /\ Len(msg') <= MaxMessages /\ Len(msg) < Len(msg')
      /\ msg'[Len(msg')].status = "pending"
  BY <1>1, <1>2, <1>4, <1>6
<1>9. CanReserve /\ Begin(kind) /\ conv' \in {"active", "archived", "deleted"}
  BY DEF PostMessage
<1>10. QED
  BY <1>6, <1>7, <1>8, <1>9, BeginKeeps

LEMMA RegenerateKeeps == ASSUME ChatInv, NEW kind \in Kinds, Regenerate(kind) PROVE GoesOn
<1> DEFINE u == LastUserMessage
           users == {m \in 1..Len(msg) : msg[m].role = "user"}
           counts == {msg[m].gen : m \in {i \in 1..Len(msg) : msg[i].turn = u}}
           n == Max(counts)
<1>1. /\ msg \in Seq(Message) /\ Len(msg) \in Nat
      /\ \A m \in 1..Len(msg) : msg[m] \in Message
  BY DEF ChatInv, ChatTypes
<1>2. \A m \in 1..Len(msg) : msg[m].gen \in 0..Len(msg)
  <2>1. \A m \in 1..Len(msg) : msg[m].gen \in 0..MaxMessages /\ msg[m].gen <= m
    BY <1>1 DEF Message, ChatInv, RowsFit
  <2>2. QED
    BY <1>1, <2>1, CountsAssumption
<1>3. u \in users
  <2>1. users # {} /\ u = Max(users)
    BY DEF Regenerate, LastUserMessage, Newest
  <2>2. users \in SUBSET (0..Len(msg))
    BY <1>1
  <2>3. QED
    BY <1>1, <2>1, <2>2, GreatestFacts
<1>4. n \in 0..Len(msg)
  <2>1. counts \in SUBSET (0..Len(msg))
    BY <1>2
  <2>2. counts # {}
    <3>1. msg[u].turn = u
      BY <1>3 DEF ChatInv, RowsFit
    <3>2. msg[u].gen \in counts
      BY <1>3, <3>1
    <3>3. QED
      BY <3>2
  <2> HIDE DEF counts
  <2>3. QED
    BY <1>1, <2>1, <2>2, GreatestFacts
<1>5. /\ Len(msg) + 1 <= MaxMessages /\ msg' = Append(msg, Assistant(u, n + 1))
      /\ CanReserve /\ conv' = conv /\ Begin(kind)
  BY DEF Regenerate
<1>6. u \in Ids /\ u \in 1..Len(msg)
  BY <1>1, <1>3, <1>5, CountsAssumption DEF Ids
<1> HIDE DEF u, n
<1>7. /\ Assistant(u, n + 1) \in Message
      /\ Assistant(u, n + 1).gen = n + 1 /\ Assistant(u, n + 1).role = "assistant"
      /\ Assistant(u, n + 1).status = "pending"
  BY <1>1, <1>4, <1>5, <1>6, CountsAssumption DEF Assistant, Message, Open
<1>8. /\ msg' \in Seq(Message) /\ Len(msg') = Len(msg) + 1
      /\ \A m \in 1..Len(msg) : msg'[m] = msg[m]
      /\ msg'[Len(msg) + 1] = Assistant(u, n + 1)
  BY <1>1, <1>5, <1>7
<1>9. RowsFit'
  <2>1. ASSUME NEW m \in 1..Len(msg')
        PROVE  /\ msg'[m].gen <= m
               /\ msg'[m].role = "user" => msg'[m].turn = m
    <3>1. CASE m \in 1..Len(msg)
      BY <3>1, <1>8 DEF ChatInv, RowsFit
    <3>2. CASE m = Len(msg) + 1
      BY <3>2, <1>1, <1>4, <1>7, <1>8
    <3>3. QED
      BY <3>1, <3>2, <1>1, <1>8
  <2>2. QED
    BY <2>1 DEF RowsFit
<1>10. QED
  BY <1>1, <1>5, <1>7, <1>8, <1>9, BeginKeeps DEF ChatInv, ChatTypes

\* Steps that change neither a row nor a generator.
LEMMA RowsAlone ==
    ASSUME ChatInv, UNCHANGED <<msg, gens, entry>>,
           conv' \in {"active", "archived", "deleted"}, stopping' \in SUBSET Ids,
           deleting' \in BOOLEAN
    PROVE  GoesOn
BY DEF GoesOn, ChatInv, ChatTypes, RowsFit, Registered, OpenRows, Kept

LEMMA ManageKeeps ==
    ASSUME ChatInv, Manage
    PROVE  ChatInv' /\ ("deepcancel" \notin Faults => GoesOn) /\ UNCHANGED summary
<1>0. /\ conv \in {"active", "archived", "deleted"} /\ stopping \in SUBSET Ids
      /\ deleting \in BOOLEAN /\ entry \in 0..MaxMessages
  BY DEF ChatInv, ChatTypes
<1>1. CASE Stop
  <2>1. entry \in Ids
    BY <1>1, <1>0, CountsAssumption DEF Stop, Running, ChatInv, ChatTypes, Generator
  <2>2. QED
    BY <1>0, <1>1, <2>1, RowsAlone DEF Stop, GoesOn
<1>2. CASE Delete
  <2>1. Running(entry) => entry \in Ids
    BY <1>0, CountsAssumption DEF Running, ChatInv, ChatTypes, Generator
  <2>2. stopping' \in SUBSET Ids
    BY <1>0, <1>2, <2>1 DEF Delete
  <2>3. QED
    BY <1>0, <1>2, <2>2, RowsAlone DEF Delete, GoesOn
<1>3. CASE MarkDeleted
  BY <1>0, <1>3, RowsAlone DEF MarkDeleted, GoesOn
<1>4. CASE Restore
  BY <1>0, <1>4, RowsAlone DEF Restore, GoesOn
<1>5. CASE Restart
  <2>1. 0 \in 0..MaxMessages
    BY CountsAssumption
  <2>2. QED
    BY <1>5, <2>1 DEF Restart, GoesOn, ChatInv, ChatTypes, RowsFit, Registered,
                      OpenRows, Kept
<1>6. ASSUME NEW status \in {"active", "archived"}, Archive(status)
      PROVE  GoesOn /\ UNCHANGED summary
  BY <1>0, <1>6, RowsAlone DEF Archive
<1>7. ASSUME NEW m \in 1..Len(msg), DeepSearchCancelled(m)
      PROVE  ChatInv' /\ "deepcancel" \in Faults /\ UNCHANGED summary
  <2>1. PICK text \in BOOLEAN : RowWritten(msg', m, "cancelled", text)
    BY <1>7 DEF DeepSearchCancelled, RowWritten
  <2>2. "cancelled" \in Open \cup Terminal /\ ChatTypes
    BY DEF Terminal, Finished, ChatInv
  <2>3. /\ msg' \in Seq(Message) /\ Len(msg') = Len(msg)
        /\ \A i \in 1..Len(msg) : /\ msg'[i].gen = msg[i].gen
                                  /\ msg'[i].role = msg[i].role
                                  /\ msg'[i].turn = msg[i].turn
    BY <2>1, <2>2, RowFacts
  <2>4. QED
    BY <1>7, <2>3 DEF DeepSearchCancelled, ChatInv, ChatTypes, RowsFit, Registered
<1>8. QED
  BY <1>1, <1>2, <1>3, <1>4, <1>5, <1>6, <1>7
  DEF Manage, GoesOn, Stop, Delete, MarkDeleted, Restore, Restart

-----------------------------------------------------------------------------
(***************************************************************************)
(* Summaries.                                                              *)
(***************************************************************************)

LEMMA SnapFacts ==
    ASSUME SummaryTypes
    PROVE  /\ Len(snap) \in Nat /\ Len(snap) <= MaxSnapshots
           /\ \A v \in 1..Len(snap) : snap[v] \in Snapshot /\ v \in Versions
           /\ \A S \in SUBSET (1..Len(snap)) :
                S # {} => Max(S) \in S /\ Max(S) \in Versions
<1>1. /\ Len(snap) \in Nat /\ Len(snap) <= MaxSnapshots
      /\ \A v \in 1..Len(snap) : snap[v] \in Snapshot /\ v \in Versions
  BY CountsAssumption DEF SummaryTypes, Versions
<1>2. ASSUME NEW S \in SUBSET (1..Len(snap)), S # {}
      PROVE  Max(S) \in S
  <2>1. S \in SUBSET (0..Len(snap))
    BY <1>1
  <2>2. QED
    BY <1>1, <1>2, <2>1, GreatestFacts
<1>3. QED
  BY <1>1, <1>2

LEMMA DeliverTypes ==
    ASSUME SummaryTypes, NEW v \in Versions, Deliver(v)
    PROVE  queue' \in [Versions -> 0..MaxDeliveries]
<1>1. queue[v] + 1 \in 0..MaxDeliveries
  BY CountsAssumption DEF SummaryTypes, Deliver
<1>2. QED
  BY <1>1 DEF SummaryTypes, Deliver

LEMMA EnqueueTypes ==
    ASSUME SummaryTypes, NEW m, Len(m) \in 0..MaxMessages, Enqueue(m)
    PROVE  SummaryTypes'
<1> DEFINE source == Unsummarized(m)
           v == Len(snap) + 1
<1>1. Waiting \in SUBSET (1..Len(snap))
  BY DEF Waiting
<1>2. CASE /\ Waiting # {} /\ Deliver(Max(Waiting))
           /\ UNCHANGED <<snap, pointer, work>>
  BY <1>1, <1>2, SnapFacts, DeliverTypes DEF SummaryTypes
<1>3. CASE /\ source # {} /\ v <= MaxSnapshots /\ Deliver(v)
           /\ UNCHANGED <<pointer, work>>
           /\ snap' = Append(
                 [s \in 1..Len(snap) |->
                     IF Waiting # {} /\ s = Max(Waiting)
                     THEN [snap[s] EXCEPT !.status = "failed"] ELSE snap[s]],
                 [ status |-> "pending", from |-> Min(source),
                   through |-> Max(source), content |-> {}, stale |-> FALSE ])
  <2> DEFINE older == [s \in 1..Len(snap) |->
                         IF Waiting # {} /\ s = Max(Waiting)
                         THEN [snap[s] EXCEPT !.status = "failed"] ELSE snap[s]]
             new == [ status |-> "pending", from |-> Min(source),
                      through |-> Max(source), content |-> {}, stale |-> FALSE ]
  <2>1. source \in SUBSET (0..Len(m)) /\ source \in SUBSET Nat /\ source \in SUBSET Ids
    BY CountsAssumption DEF Unsummarized, Ids
  <2>2. Min(source) \in Ids /\ Max(source) \in Ids
    <3>1. Len(m) \in Nat /\ source # {}
      BY <1>3, CountsAssumption
    <3> HIDE DEF source
    <3>2. Min(source) \in source
      BY <2>1, <3>1, LeastFacts
    <3>3. Max(source) \in source
      BY <2>1, <3>1, GreatestFacts
    <3>4. QED
      BY <2>1, <3>2, <3>3
  <2>3. new \in Snapshot
    BY <2>2 DEF Snapshot
  <2>4. \A s \in 1..Len(snap) : older[s] \in Snapshot
    BY SnapFacts DEF Snapshot
  <2>5. older \in Seq(Snapshot) /\ Len(older) = Len(snap)
    BY <2>4, SnapFacts
  <2>6. snap' = Append(older, new)
    BY <1>3
  <2> HIDE DEF older, new
  <2>7. snap' \in Seq(Snapshot) /\ Len(snap') = v
    BY <2>3, <2>5, <2>6
  <2>8. v \in Versions
    BY <1>3, SnapFacts DEF Versions
  <2>9. queue' \in [Versions -> 0..MaxDeliveries]
    BY <1>3, <2>8, DeliverTypes
  <2>10. QED
    BY <1>3, <2>7, <2>9 DEF SummaryTypes
<1>4. QED
  BY <1>2, <1>3 DEF Enqueue

LEMMA TookTypes ==
    ASSUME SummaryTypes, NEW w \in Workers, NEW v \in 1..Len(snap), Took(w, v)
    PROVE  queue' \in [Versions -> 0..MaxDeliveries] /\ UNCHANGED <<chat, pointer>>
<1>1. v \in Versions
  BY SnapFacts
<1>2. queue[v] - 1 \in 0..MaxDeliveries
  BY <1>1, CountsAssumption DEF SummaryTypes, Took
<1>3. QED
  BY <1>1, <1>2 DEF SummaryTypes, Took

LEMMA PreviousFacts ==
    ASSUME SummaryTypes, NEW v \in 1..Len(snap)
    PROVE  /\ Previous(v) \in 0..MaxSnapshots
           /\ Content(Previous(v)) \cup InRange(v) \in SUBSET Ids
<1> DEFINE S == {p \in Completed : p < v}
<1>1. S \in SUBSET (1..Len(snap))
  BY DEF Completed
<1>2. Previous(v) = 0 \/ Previous(v) \in 1..Len(snap)
  BY <1>1, SnapFacts DEF Previous, Newest
<1>3. Content(Previous(v)) \in SUBSET Ids
  BY <1>2, SnapFacts DEF Content, Snapshot
<1>4. InRange(v) \in SUBSET Ids
  <2>1. snap[v].from \in Ids /\ snap[v].through \in Ids
    BY SnapFacts DEF Snapshot
  <2>2. QED
    BY <2>1, CountsAssumption DEF InRange, Ids
<1>5. QED
  BY <1>2, <1>3, <1>4, SnapFacts, CountsAssumption

LEMMA WorkTypes ==
    ASSUME SummaryTypes, NEW w \in Workers, Work(w)
    PROVE  SummaryTypes' /\ UNCHANGED chat
<1>0. /\ work[w] \in Reading /\ snap \in Seq(Snapshot) /\ Len(snap) <= MaxSnapshots
      /\ pointer \in 0..MaxSnapshots
  BY DEF SummaryTypes
<1>1. ASSUME Rest(w)
      PROVE  work' \in [Workers -> Reading] /\ UNCHANGED <<chat, queue>>
  <2>1. Idle \in Reading
    BY CountsAssumption DEF Idle, Reading
  <2>2. QED
    BY <1>1, <2>1 DEF Rest, SummaryTypes
<1>2. ASSUME NEW v \in 1..Len(snap), SkipSummary(w, v)
      PROVE  SummaryTypes' /\ UNCHANGED chat
  BY <1>2, TookTypes DEF SkipSummary, SummaryTypes
<1>3. ASSUME NEW v \in 1..Len(snap), DropSummary(w, v)
      PROVE  SummaryTypes' /\ UNCHANGED chat
  <2>1. [snap[v] EXCEPT !.status = "failed"] \in Snapshot
    BY SnapFacts DEF Snapshot
  <2>2. snap' = [snap EXCEPT ![v] = [snap[v] EXCEPT !.status = "failed"]]
    BY <1>0, <1>3 DEF DropSummary
  <2>3. snap' \in Seq(Snapshot) /\ Len(snap') = Len(snap)
    BY <1>0, <2>1, <2>2
  <2>4. QED
    BY <1>0, <1>3, <2>3, TookTypes DEF DropSummary, SummaryTypes
<1>4. ASSUME NEW v \in 1..Len(snap), ReadForSummary(w, v)
      PROVE  SummaryTypes' /\ UNCHANGED chat
  <2>1. [ snap |-> v, prev |-> Previous(v),
          read |-> Content(Previous(v)) \cup InRange(v) ] \in Reading
    BY SnapFacts, PreviousFacts, CountsAssumption DEF Reading
  <2>2. work' \in [Workers -> Reading]
    BY <1>4, <2>1 DEF ReadForSummary, SummaryTypes
  <2>3. QED
    BY <1>4, <2>2, TookTypes DEF ReadForSummary, SummaryTypes
<1>5. CASE CompleteSummary(w)
  <2> DEFINE v == work[w].snap
             p == work[w].prev
             done == [s \in 1..Len(snap) |->
                IF s = v
                THEN [snap[s] EXCEPT !.status = "completed", !.content = work[w].read]
                ELSE IF s = p THEN [snap[s] EXCEPT !.status = "superseded"] ELSE snap[s]]
  <2>1. work[w].read \in SUBSET Ids /\ v \in 0..MaxSnapshots
    BY <1>0 DEF Reading
  <2>2. \A s \in 1..Len(snap) : done[s] \in Snapshot
    BY <2>1, SnapFacts DEF Snapshot
  <2>3. done \in [1..Len(snap) -> Snapshot]
    BY <2>2, Zenon
  <2>4. snap' = Pruned(done) /\ pointer' = v /\ Rest(w)
    BY <1>5 DEF CompleteSummary
  <2> HIDE DEF done
  <2>5. done \in Seq(Snapshot) /\ Len(done) = Len(snap)
    BY <2>3, SnapFacts
  <2>6. Pruned(done) \in [1..Len(snap) -> Snapshot]
    <3>1. \A r \in Snapshot : [r EXCEPT !.status = "pruned"] \in Snapshot
      BY DEF Snapshot
    <3>2. QED
      BY <2>3, <2>5, <3>1 DEF Pruned
  <2>7. Pruned(done) \in Seq(Snapshot) /\ Len(Pruned(done)) = Len(snap)
    BY <2>6, SnapFacts
  <2>8. QED
    BY <1>0, <1>1, <2>1, <2>4, <2>7 DEF SummaryTypes
<1>6. CASE FailSummary(w)
  <2> DEFINE v == work[w].snap
  <2>1. Rest(w) /\ UNCHANGED pointer /\ snap' = [snap EXCEPT ![v].status = "failed"]
    BY <1>6 DEF FailSummary
  <2>2. snap' \in Seq(Snapshot) /\ Len(snap') = Len(snap)
    <3>1. CASE v \in 1..Len(snap)
      <4>1. [snap[v] EXCEPT !.status = "failed"] \in Snapshot
        BY <3>1, SnapFacts DEF Snapshot
      <4>2. snap' = [snap EXCEPT ![v] = [snap[v] EXCEPT !.status = "failed"]]
        BY <1>0, <2>1
      <4>3. QED
        BY <1>0, <3>1, <4>1, <4>2
    <3>2. CASE v \notin 1..Len(snap)
      <4>1. snap = [x \in 1..Len(snap) |-> snap[x]]
        BY <1>0
      <4>2. snap' = [snap EXCEPT ![v] = [snap[v] EXCEPT !.status = "failed"]]
        BY <1>0, <2>1
      <4>3. snap' = [x \in 1..Len(snap) |-> snap[x]]
        BY <1>0, <3>2, <4>1, <4>2
      <4>4. QED
        BY <1>0, <4>1, <4>3
    <3>3. QED
      BY <3>1, <3>2
  <2>3. QED
    BY <1>0, <1>1, <2>1, <2>2 DEF SummaryTypes
<1>7. CASE GiveUp(w)
  BY <1>0, <1>1, <1>7 DEF GiveUp, SummaryTypes
<1>8. QED
  BY <1>2, <1>3, <1>4, <1>5, <1>6, <1>7 DEF Work

LEMMA StaleTypes ==
    ASSUME SummaryTypes, NEW v \in 1..Len(snap), SummaryGrowsStale(v)
    PROVE  SummaryTypes' /\ UNCHANGED chat
<1>1. snap \in Seq(Snapshot) /\ [snap[v] EXCEPT !.stale = TRUE] \in Snapshot
  BY SnapFacts DEF Snapshot, SummaryTypes
<1>2. snap' = [snap EXCEPT ![v] = [snap[v] EXCEPT !.stale = TRUE]]
  BY <1>1 DEF SummaryGrowsStale
<1>3. snap' \in Seq(Snapshot) /\ Len(snap') = Len(snap)
  BY <1>1, <1>2
<1>4. QED
  BY <1>3 DEF SummaryGrowsStale, SummaryTypes

-----------------------------------------------------------------------------
(***************************************************************************)
(* Results.                                                                *)
(***************************************************************************)

LEMMA TypesOfParts == TypeOK <=> ChatTypes /\ SummaryTypes
BY DEF TypeOK, ChatTypes, SummaryTypes, Reading

LEMMA InvInitially == ASSUME Init PROVE Inv /\ OpenRows
<1>1. 0 \in 0..MaxMessages /\ 0 \in 0..MaxSnapshots /\ 0 \in 0..MaxDeliveries
  BY CountsAssumption
<1>2. Idle \in Reading
  BY <1>1 DEF Idle, Reading
<1>3. \A S : <<>> \in Seq(S) /\ Len(<<>>) = 0
  OBVIOUS
<1>4. ChatTypes
  <2>1. msg = <<>> /\ msg \in Seq(Message) /\ Len(msg) <= MaxMessages
    BY <1>3, CountsAssumption DEF Init
  <2>2. QED
    BY <1>1, <2>1 DEF Init, ChatTypes
<1>5. SummaryTypes
  <2>1. snap = <<>> /\ pointer = 0
    BY DEF Init
  <2>2. snap \in Seq(Snapshot) /\ Len(snap) <= MaxSnapshots
    BY <1>3, <2>1, CountsAssumption
  <2>3. queue \in [Versions -> 0..MaxDeliveries] /\ work \in [Workers -> Reading]
    BY <1>1, <1>2 DEF Init
  <2>4. QED
    BY <1>1, <2>1, <2>2, <2>3 DEF SummaryTypes
<1>6. RowsFit /\ Registered /\ OpenRows
  BY <1>3 DEF Init, RowsFit, Registered, OpenRows
<1>7. QED
  BY <1>4, <1>5, <1>6 DEF Inv, ChatInv

\* A generator's step asks for a summary, or leaves summaries alone.
LEMMA GenerateTypes ==
    ASSUME Inv, NEW g \in gens, Generate(g) PROVE SummaryTypes'
<1>1. Len(msg') \in 0..MaxMessages
  BY GenerateKeeps DEF Inv, GoesOn, ChatInv, ChatTypes
<1>2. ASSUME AskForSummary(g) PROVE SummaryTypes'
  <2>1. CASE Enqueue(msg')
    BY <1>1, <2>1, EnqueueTypes DEF Inv
  <2>2. CASE UNCHANGED summary
    BY <2>2 DEF Inv, SummaryTypes, summary
  <2>3. QED
    BY <1>2, <2>1, <2>2 DEF AskForSummary
<1>3. CASE FailPartial(g) \/ \E status \in {"completed", "partial"} : Answer(g, status)
  BY <1>2, <1>3 DEF FailPartial, Answer
<1>4. CASE UNCHANGED summary
  BY <1>4 DEF Inv, SummaryTypes, summary
<1>5. QED
  BY <1>3, <1>4 DEF Generate, Start, Delta, FailEmpty, Close, Cancelled, Leave,
                    CloseLeft, Reload

\* Every step of the specification, whatever faults it has.
LEMMA NextKeeps ==
    ASSUME Inv, [Next]_vars
    PROVE  Inv' /\ ("deepcancel" \notin Faults => GoesOn)
<1>1. ASSUME UNCHANGED chat PROVE GoesOn
  BY <1>1 DEF chat, Inv, GoesOn, ChatInv, ChatTypes, RowsFit, Registered,
              OpenRows, Kept
<1>2. ASSUME UNCHANGED summary PROVE SummaryTypes'
  BY <1>2 DEF summary, Inv, SummaryTypes
<1>3. ASSUME NEW kind \in Kinds, PostMessage(kind) \/ Regenerate(kind)
      PROVE  GoesOn /\ SummaryTypes'
  <2>1. UNCHANGED summary
    BY <1>3 DEF PostMessage, Regenerate, Begin
  <2>2. QED
    BY <1>2, <1>3, <2>1, PostKeeps, RegenerateKeeps DEF Inv
<1>4. ASSUME NEW g \in gens, Generate(g) PROVE GoesOn /\ SummaryTypes'
  BY <1>4, GenerateKeeps, GenerateTypes DEF Inv
<1>5. CASE Manage
  BY <1>5, <1>2, ManageKeeps DEF Inv
<1>6. CASE RefreshSummary
  <2>1. Len(msg) \in 0..MaxMessages
    BY DEF Inv, ChatInv, ChatTypes
  <2>2. QED
    BY <1>1, <1>6, <2>1, EnqueueTypes DEF RefreshSummary, Inv, GoesOn
<1>7. ASSUME NEW v \in 1..Len(snap), SummaryGrowsStale(v)
      PROVE  GoesOn /\ SummaryTypes'
  BY <1>1, <1>7, StaleTypes DEF Inv
<1>8. ASSUME NEW w \in Workers, Work(w) PROVE GoesOn /\ SummaryTypes'
  BY <1>1, <1>8, WorkTypes DEF Inv
<1>9. CASE UNCHANGED vars
  BY <1>1, <1>2, <1>9 DEF vars, Inv, GoesOn
<1>10. QED
  BY <1>3, <1>4, <1>5, <1>6, <1>7, <1>8, <1>9 DEF Next, Inv, GoesOn

\* The state has its type, through restarts, kills and duplicated tasks.
THEOREM TypeCorrect == Spec => []TypeOK
<1>1. Inv => TypeOK
  BY TypesOfParts DEF Inv, ChatInv
<1>2. QED
  BY InvInitially, NextKeeps, <1>1, PTL DEF Spec

\* The registry lets one generation of a conversation work at a time, for any
\* number of clients, stops, restarts and generators that were left behind
\* (runtime.py).
THEOREM OneAtATime == Spec => []OneGeneration
<1>1. ASSUME Inv PROVE OneGeneration
  <2> DEFINE working == {g \in gens : g.stage # "left"}
  <2>1. \A g, h \in working : g = h
    BY <1>1 DEF Inv, ChatInv, Registered
  <2>2. CASE working = {}
    BY <2>2, FS_EmptySet DEF OneGeneration
  <2>3. CASE working # {}
    <3>1. PICK g \in working : working = {g}
      BY <2>1, <2>3
    <3>2. Cardinality(working) = 1
      BY <3>1, FS_Singleton
    <3>3. QED
      BY <3>2 DEF OneGeneration
  <2>4. QED
    BY <2>2, <2>3
<1>2. QED
  BY InvInitially, NextKeeps, <1>1, PTL DEF Spec

\* What _finalize has made final is not written again by generators that are
\* stopped, closed, left or restarted.  Only the cancellation of a deep search,
\* which writes in another session, could let that happen.
THEOREM FinalIsKept ==
    ASSUME "deepcancel" \notin Faults PROVE Spec => FinalStays
<1>1. ASSUME Inv, OpenRows, [Next]_vars
      PROVE  Inv' /\ OpenRows' /\ Kept
  BY <1>1, NextKeeps DEF GoesOn
<1>2. Init => Inv /\ OpenRows
  BY InvInitially
<1>3. Kept => \A m \in 1..Len(msg) :
                msg[m].status \in Terminal =>
                    /\ msg'[m].status = msg[m].status
                    /\ msg'[m].text = msg[m].text
  BY DEF Kept
<1>4. QED
  BY <1>1, <1>2, <1>3, PTL DEF Spec, FinalStays

-----------------------------------------------------------------------------
(***************************************************************************)
(* What the summaries say of the messages.                                 *)
(***************************************************************************)

Says(rows, m) == rows[m].status \in Finished /\ rows[m].text

Said(rows, t) == {m \in 1..t : Says(rows, m)}

\* An open row has no text yet, and a generator that has its row open will
\* give it one; only the last row has a generator that was not left.
RowsBlank ==
    /\ \A m \in 1..Len(msg) : msg[m].status \in Open => ~msg[m].text
    /\ \A g \in gens : /\ g.open => ~msg[g.id].text
                       /\ g.stage # "left" => g.id = Len(msg)
                       /\ g.stage = "prepared" => g.open /\ msg[g.id].status = "pending"

\* A step of the chat: what a row says it goes on saying, and what begins to
\* say something is new or has its generator.
RowsGrow ==
    /\ Len(msg) <= Len(msg')
    /\ \A m \in 1..Len(msg) : Says(msg, m) => Says(msg', m)
    /\ \A m \in 1..Len(msg') :
          Says(msg', m) => \/ m \in 1..Len(msg) /\ Says(msg, m)
                           \/ m > Len(msg)
                           \/ \E g \in gens : g.open /\ g.id = m
    /\ \A x \in gens' :
          x.open => x.id > Len(msg) \/ \E g \in gens : g.open /\ g.id = x.id

\* A generator of the next state was one before.
Follows(x) == \E g \in gens :
    /\ g.id = x.id
    /\ x.open => g.open
    /\ x.stage # "left" => g.stage # "left"
    /\ x.stage = "prepared" => x.open /\ g.stage = "prepared"

\* No row changes.
LEMMA RowsStand ==
    ASSUME ChatInv, RowsBlank, msg' = msg, \A x \in gens' : Follows(x)
    PROVE  RowsBlank' /\ RowsGrow
<1>1. Len(msg) \in Nat /\ \A g \in gens : g.id \in 1..Len(msg)
  BY DEF ChatInv, ChatTypes, Registered
<1>2. RowsBlank'
  BY <1>1 DEF RowsBlank, Follows
<1>3. RowsGrow
  BY <1>1 DEF RowsGrow, Follows
<1>4. QED
  BY <1>2, <1>3

\* One row changes that said nothing.
LEMMA RowChanges ==
    ASSUME ChatInv, RowsBlank, NEW i \in 1..Len(msg), Len(msg') = Len(msg),
           \A m \in 1..Len(msg) : m # i => msg'[m] = msg[m],
           ~Says(msg, i), msg'[i].status \in Open => ~msg'[i].text,
           Says(msg', i) => \E g \in gens : g.open /\ g.id = i,
           \A x \in gens' : 
               /\ Follows(x)
               /\ x.id = i => x.stage # "prepared" /\ (x.open => ~msg'[i].text)
    PROVE  RowsBlank' /\ RowsGrow
<1>1. Len(msg) \in Nat /\ \A g \in gens : g.id \in 1..Len(msg)
  BY DEF ChatInv, ChatTypes, Registered
<1>2. \A m \in 1..Len(msg) : m # i => (Says(msg', m) <=> Says(msg, m))
  BY DEF Says
<1>3. ASSUME NEW m \in 1..Len(msg'), msg'[m].status \in Open PROVE ~msg'[m].text
  BY <1>3 DEF RowsBlank
<1>4. ASSUME NEW x \in gens'
      PROVE  /\ x.open => ~msg'[x.id].text
             /\ x.stage # "left" => x.id = Len(msg')
             /\ x.stage = "prepared" => x.open /\ msg'[x.id].status = "pending"
             /\ x.open => \E g \in gens : g.open /\ g.id = x.id
  <2>1. PICK g \in gens : /\ g.id = x.id
                          /\ x.open => g.open
                          /\ x.stage # "left" => g.stage # "left"
                          /\ x.stage = "prepared" => x.open /\ g.stage = "prepared"
    BY DEF Follows
  <2>2. g.id \in 1..Len(msg)
    BY <1>1
  <2>3. QED
    BY <2>1, <2>2 DEF RowsBlank
<1>5. RowsBlank'
  BY <1>3, <1>4 DEF RowsBlank
<1>6. RowsGrow
  BY <1>1, <1>2, <1>4 DEF RowsGrow
<1>7. QED
  BY <1>5, <1>6

\* A generator that had its row open finalizes it, and has it open no more.
LEMMA FinalizedGrows ==
    ASSUME ChatInv, RowsBlank, NEW g \in gens, NEW status \in Terminal,
           NEW text \in BOOLEAN, msg' = Finalized(g, status, text),
           \A x \in gens' : Follows(x) /\ (x.id = g.id => ~x.open)
    PROVE  RowsBlank' /\ RowsGrow
<1>1. g.id \in 1..Len(msg) /\ ChatTypes
  BY DEF ChatInv, Registered
<1>2. CASE g.open
  <2>1. msg' = [msg EXCEPT ![g.id].status = status, ![g.id].text = text]
    BY <1>2 DEF Finalized
  <2>2. RowWritten(msg', g.id, status, text) /\ status \in Open \cup Terminal
    BY <2>1 DEF RowWritten
  <2>3. /\ Len(msg') = Len(msg) /\ msg'[g.id].status = status
        /\ \A m \in 1..Len(msg) : m # g.id => msg'[m] = msg[m]
    BY <1>1, <2>2, RowFacts
  <2>4. ~Says(msg, g.id)
    BY <1>2 DEF RowsBlank, Says
  <2>5. msg'[g.id].status \notin Open
    BY <2>3 DEF Open, Terminal, Finished
  <2>6. QED
    <3>1. \A x \in gens' :
            /\ Follows(x)
            /\ x.id = g.id => x.stage # "prepared" /\ (x.open => ~msg'[g.id].text)
      BY DEF Follows
    <3>2. QED
      BY <1>1, <1>2, <2>3, <2>4, <2>5, <3>1, RowChanges
<1>3. CASE ~g.open
  BY <1>3, RowsStand DEF Finalized
<1>4. QED
  BY <1>2, <1>3

\* What becomes of the generators as one of them goes on or ends.
LEMMA BecomesFollows ==
    ASSUME ChatInv, RowsBlank, NEW g \in gens, NEW h, h.id = g.id,
           h.open => g.open, h.stage # "left" => g.stage # "left",
           h.stage # "prepared", gens' \subseteq (gens \ {g}) \cup {h}
    PROVE  \A x \in gens' : Follows(x) /\ (x.id = g.id => x = h)
<1>1. ASSUME NEW x \in gens', x # h PROVE Follows(x) /\ x.id # g.id
  BY <1>1 DEF Follows, RowsBlank, ChatInv, Registered
<1>2. Follows(h)
  BY DEF Follows
<1>3. QED
  BY <1>1, <1>2

LEMMA EndFollows ==
    ASSUME ChatInv, RowsBlank, NEW g \in gens, gens' = gens \ {g}
    PROVE  \A x \in gens' : Follows(x) /\ x.id # g.id
BY DEF Follows, RowsBlank, ChatInv, Registered

LEMMA AnswerGrows ==
    ASSUME ChatInv, RowsBlank, NEW g \in gens, NEW status \in Terminal,
           NEW text \in BOOLEAN, g.stage = "writing",
           msg' = Finalized(g, status, text), AfterFinal(g)
    PROVE  RowsBlank' /\ RowsGrow /\ \A x \in gens' : x.id = g.id => ~x.open
<1>1. CASE End(g)
  <2>1. \A x \in gens' : Follows(x) /\ x.id # g.id
    BY <1>1, EndFollows DEF End
  <2>2. QED
    BY <2>1, FinalizedGrows
<1>2. CASE Becomes(g, [g EXCEPT !.stage = "closing", !.open = FALSE])
  <2> DEFINE h == [g EXCEPT !.stage = "closing", !.open = FALSE]
  <2>1. h.id = g.id /\ h.stage = "closing" /\ h.open = FALSE
    BY DEF ChatInv, ChatTypes, Generator
  <2>2. gens' = (gens \ {g}) \cup {h}
    BY <1>2 DEF Becomes
  <2> HIDE DEF h
  <2>3. \A x \in gens' : Follows(x) /\ (x.id = g.id => x = h)
    BY <2>1, <2>2, BecomesFollows
  <2>4. \A x \in gens' : Follows(x) /\ (x.id = g.id => ~x.open)
    BY <2>1, <2>3
  <2>5. QED
    BY <2>4, FinalizedGrows
<1>3. QED
  BY <1>1, <1>2 DEF AfterFinal

\* A generator's step.
LEMMA GenerateGrows ==
    ASSUME ChatInv, RowsBlank, NEW g \in gens, Generate(g)
    PROVE  RowsBlank' /\ RowsGrow
<1>0. g \in Generator /\ g.text \in BOOLEAN /\ g.id \in 1..Len(msg)
  BY DEF ChatInv, ChatTypes, Generator, Registered
<1>1. CASE Start(g)
  <2> DEFINE h == [g EXCEPT !.stage = "writing"]
  <2>1. h.id = g.id /\ h.stage = "writing" /\ h.open = g.open
    BY <1>0 DEF Generator
  <2>2. gens' = (gens \ {g}) \cup {h}
    BY <1>1 DEF Start, Becomes
  <2> HIDE DEF h
  <2>3. \A x \in gens' : Follows(x) /\ (x.id = g.id => x = h)
    BY <1>1, <2>1, <2>2, BecomesFollows DEF Start
  <2>4. PICK text \in BOOLEAN : RowWritten(msg', g.id, "streaming", text)
    BY <1>1 DEF Start, RowWritten
  <2>5. "streaming" \in Open \cup Terminal /\ "streaming" \notin Finished /\ ChatTypes
    BY DEF Open, Finished, ChatInv
  <2>6. /\ Len(msg') = Len(msg) /\ msg'[g.id].status = "streaming"
        /\ \A m \in 1..Len(msg) : m # g.id => msg'[m] = msg[m]
    BY <1>0, <2>4, <2>5, RowFacts
  <2>7. msg'[g.id].text = msg[g.id].text
    BY <1>0, <1>1 DEF Start, ChatInv, ChatTypes, Message
  <2>8. ~msg[g.id].text
    BY <1>1 DEF Start, RowsBlank
  <2>9. ~Says(msg, g.id) /\ ~Says(msg', g.id) /\ ~msg'[g.id].text
    BY <2>7, <2>8 DEF Says
  <2>10. \A x \in gens' :
           /\ Follows(x)
           /\ x.id = g.id => x.stage # "prepared" /\ (x.open => ~msg'[g.id].text)
    BY <2>1, <2>3, <2>9
  <2>11. QED
    BY <1>0, <2>6, <2>9, <2>10, RowChanges
<1>2. CASE Delta(g)
  <2> DEFINE h == [g EXCEPT !.text = ~@]
  <2>1. h.id = g.id /\ h.stage = g.stage /\ h.open = g.open
    BY <1>0 DEF Generator
  <2>2. gens' = (gens \ {g}) \cup {h} /\ msg' = msg /\ g.stage = "writing"
    BY <1>2 DEF Delta, Becomes, UnderWay
  <2> HIDE DEF h
  <2>3. \A x \in gens' : Follows(x)
    BY <2>1, <2>2, BecomesFollows
  <2>4. QED
    BY <2>2, <2>3, RowsStand
<1>3. ASSUME NEW status \in {"completed", "partial"}, Answer(g, status)
      PROVE  RowsBlank' /\ RowsGrow
  BY <1>3, AnswerGrows DEF Answer, UnderWay, Terminal, Finished
<1>4. CASE FailPartial(g)
  BY <1>4, AnswerGrows DEF FailPartial, UnderWay, Terminal, Finished
<1>5. CASE FailEmpty(g)
  BY <1>5, AnswerGrows DEF FailEmpty, UnderWay, Terminal
<1>6. CASE Close(g)
  BY <1>6, EndFollows, RowsStand DEF Close, End
<1>7. ASSUME msg' = Finalized(g, "cancelled", g.text), End(g)
      PROVE  RowsBlank' /\ RowsGrow
  <2>1. \A x \in gens' : Follows(x) /\ x.id # g.id
    BY <1>7, EndFollows DEF End
  <2>2. "cancelled" \in Terminal
    BY DEF Terminal, Finished
  <2>3. QED
    BY <1>0, <1>7, <2>1, <2>2, FinalizedGrows
<1>8. CASE Leave(g)
  <2> DEFINE h == [g EXCEPT !.stage = "left"]
  <2>1. h.id = g.id /\ h.stage = "left" /\ h.open = g.open
    BY <1>0 DEF Generator
  <2>2. gens' = (gens \ {g}) \cup {h} /\ msg' = msg
    BY <1>8 DEF Leave, Becomes
  <2> HIDE DEF h
  <2>3. \A x \in gens' : Follows(x)
    BY <2>1, <2>2, BecomesFollows
  <2>4. QED
    BY <2>2, <2>3, RowsStand
<1>9. CASE Reload(g)
  <2> DEFINE h == [g EXCEPT !.open = FALSE]
  <2>1. h.id = g.id /\ h.stage = g.stage /\ h.open = FALSE
    BY <1>0 DEF Generator
  <2>2. gens' = (gens \ {g}) \cup {h} /\ msg' = msg
    BY <1>9 DEF Reload, Becomes
  <2> HIDE DEF h
  <2>3. h.stage # "prepared"
    BY <1>9, <2>1 DEF Reload, RowsBlank, Open
  <2>4. \A x \in gens' : Follows(x)
    BY <2>1, <2>2, <2>3, BecomesFollows
  <2>5. QED
    BY <2>2, <2>4, RowsStand
<1>10. QED
  BY <1>1, <1>2, <1>3, <1>4, <1>5, <1>6, <1>7, <1>8, <1>9
  DEF Generate, Cancelled, CloseLeft

\* A placeholder is stored: rows are added that say nothing, or have their
\* final status at once.
LEMMA BeginGrows ==
    ASSUME ChatInv, RowsBlank, CanReserve, NEW kind \in Kinds, Begin(kind),
           Len(msg') \in Nat, Len(msg) < Len(msg'),
           \A m \in 1..Len(msg) : msg'[m] = msg[m],
           \A m \in 1..Len(msg') :
              m > Len(msg) => (msg'[m].status \in Open => ~msg'[m].text),
           msg'[Len(msg')].status = "pending"
    PROVE  RowsBlank' /\ RowsGrow
<1> DEFINE h == [id |-> Len(msg'), kind |-> kind, open |-> TRUE,
                 text |-> FALSE, stage |-> "prepared"]
<1>1. gens' = gens \cup {h}
  BY DEF Begin
<1>2. h.id = Len(msg') /\ h.open = TRUE /\ h.stage = "prepared"
  OBVIOUS
<1> HIDE DEF h
<1>3. Len(msg) \in Nat
  BY DEF ChatInv, ChatTypes
<1>4. \A g \in gens : g.id \in 1..Len(msg) /\ g.stage = "left"
  BY <1>3 DEF CanReserve, Running, ChatInv, Registered
<1>5. \A m \in 1..Len(msg') : m \in 1..Len(msg) \/ m > Len(msg)
  BY <1>3
<1>6. \A m \in 1..Len(msg') : msg'[m].status \in Open => ~msg'[m].text
  BY <1>5 DEF RowsBlank
<1>7. ASSUME NEW x \in gens'
      PROVE  /\ x.open => ~msg'[x.id].text
             /\ x.stage # "left" => x.id = Len(msg')
             /\ x.stage = "prepared" => x.open /\ msg'[x.id].status = "pending"
             /\ x.open => x.id > Len(msg) \/ \E g \in gens : g.open /\ g.id = x.id
  <2>1. CASE x \in gens
    BY <2>1, <1>4 DEF RowsBlank
  <2>2. CASE x = h
    BY <2>2, <1>2, <1>3, <1>6 DEF Open
  <2>3. QED
    BY <1>1, <2>1, <2>2
<1>8. RowsBlank'
  BY <1>6, <1>7 DEF RowsBlank
<1>9. RowsGrow
  BY <1>3, <1>5, <1>7 DEF RowsGrow, Says
<1>10. QED
  BY <1>8, <1>9

LEMMA PostGrows ==
    ASSUME ChatInv, RowsBlank, NEW kind \in Kinds, PostMessage(kind)
    PROVE  RowsBlank' /\ RowsGrow
<1> DEFINE u == Len(msg) + 1
           question == [role |-> "user", turn |-> u, gen |-> 0,
                        status |-> "completed", text |-> TRUE]
<1>1. msg \in Seq(Message) /\ Len(msg) \in Nat
  BY DEF ChatInv, ChatTypes
<1>2. Assistant(u, 1).status = "pending" /\ Assistant(u, 1).text = FALSE
  BY DEF Assistant
<1>3. question.status \notin Open
  BY DEF Open
<1>4. msg' = msg \o <<question, Assistant(u, 1)>>
  BY DEF PostMessage
<1> HIDE DEF question
<1>5. /\ Len(msg') = Len(msg) + 2
      /\ \A m \in 1..Len(msg) : msg'[m] = msg[m]
      /\ msg'[Len(msg) + 1] = question /\ msg'[Len(msg) + 2] = Assistant(u, 1)
  BY <1>1, <1>4
<1> HIDE DEF u
<1>6. \A m \in 1..Len(msg') :
         m > Len(msg) => m = Len(msg) + 1 \/ m = Len(msg) + 2
  BY <1>1, <1>5
<1>7. \A m \in 1..Len(msg') :
         m > Len(msg) => (msg'[m].status \in Open => ~msg'[m].text)
  BY <1>2, <1>3, <1>5, <1>6
<1>8. msg'[Len(msg')].status = "pending" /\ Len(msg') \in Nat /\ Len(msg) < Len(msg')
  BY <1>1, <1>2, <1>5
<1>9. CanReserve /\ Begin(kind)
  BY DEF PostMessage
<1>10. QED
  BY <1>5, <1>7, <1>8, <1>9, BeginGrows

LEMMA RegenerateGrows ==
    ASSUME ChatInv, RowsBlank, NEW kind \in Kinds, Regenerate(kind)
    PROVE  RowsBlank' /\ RowsGrow
<1>1. msg \in Seq(Message) /\ Len(msg) \in Nat
  BY DEF ChatInv, ChatTypes
<1>2. PICK u, n : msg' = Append(msg, Assistant(u, n)) /\ CanReserve /\ Begin(kind)
  BY DEF Regenerate
<1>3. Assistant(u, n).status = "pending" /\ Assistant(u, n).text = FALSE
  BY DEF Assistant
<1>4. /\ Len(msg') = Len(msg) + 1
      /\ \A m \in 1..Len(msg) : msg'[m] = msg[m]
      /\ msg'[Len(msg) + 1] = Assistant(u, n)
  BY <1>1, <1>2
<1>5. \A m \in 1..Len(msg') : m > Len(msg) => m = Len(msg) + 1
  BY <1>1, <1>4
<1>6. \A m \in 1..Len(msg') :
         m > Len(msg) => (msg'[m].status \in Open => ~msg'[m].text)
  BY <1>3, <1>4, <1>5
<1>7. msg'[Len(msg')].status = "pending" /\ Len(msg') \in Nat /\ Len(msg) < Len(msg')
  BY <1>1, <1>3, <1>4
<1>8. QED
  BY <1>2, <1>4, <1>6, <1>7, BeginGrows

LEMMA ManageGrows == ASSUME ChatInv, RowsBlank, Manage PROVE RowsBlank' /\ RowsGrow
<1>1. ASSUME msg' = msg, gens' = gens \/ gens' = {}
      PROVE  RowsBlank' /\ RowsGrow
  <2>1. \A x \in gens' : Follows(x)
    BY <1>1 DEF Follows, RowsBlank
  <2>2. QED
    BY <1>1, <2>1, RowsStand
<1>2. ASSUME NEW m \in 1..Len(msg), DeepSearchCancelled(m)
      PROVE  RowsBlank' /\ RowsGrow
  <2>1. PICK text \in BOOLEAN : RowWritten(msg', m, "cancelled", text)
    BY <1>2 DEF DeepSearchCancelled, RowWritten
  <2>2. "cancelled" \in Open \cup Terminal /\ "cancelled" \notin Open /\ ChatTypes
    BY DEF Open, Terminal, Finished, ChatInv
  <2>3. /\ Len(msg') = Len(msg) /\ msg'[m].status = "cancelled"
        /\ \A i \in 1..Len(msg) : i # m => msg'[i] = msg[i]
    BY <2>1, <2>2, RowFacts
  <2>4. msg'[m].text = msg[m].text
    BY <1>2 DEF DeepSearchCancelled, ChatInv, ChatTypes, Message
  <2>5. msg[m].status = "streaming" /\ gens' = gens
    BY <1>2 DEF DeepSearchCancelled
  <2>6. ~msg[m].text
    BY <2>5 DEF RowsBlank, Open
  <2>7. ~Says(msg, m) /\ ~Says(msg', m) /\ ~msg'[m].text
    BY <2>4, <2>6 DEF Says
  <2>8. \A x \in gens' : Follows(x) /\ (x.id = m => x.stage # "prepared")
    BY <2>5 DEF Follows, RowsBlank
  <2>9. QED
    BY <2>2, <2>3, <2>7, <2>8, RowChanges
<1>3. QED
  BY <1>1, <1>2 DEF Manage, Stop, Delete, MarkDeleted, Restore, Restart, Archive

\* What the summaries are made of only grows, whatever the step.
LEMMA ChatGrows ==
    ASSUME Inv, RowsBlank, [Next]_vars PROVE RowsBlank' /\ RowsGrow
<1>1. ASSUME UNCHANGED chat PROVE RowsBlank' /\ RowsGrow
  <2>1. msg' = msg /\ \A x \in gens' : Follows(x)
    BY <1>1 DEF chat, Follows, RowsBlank
  <2>2. QED
    BY <2>1, RowsStand DEF Inv
<1>2. ASSUME NEW v, SummaryGrowsStale(v) PROVE UNCHANGED chat
  BY <1>2 DEF SummaryGrowsStale, chat
<1>3. ASSUME NEW w \in Workers, Work(w) PROVE UNCHANGED chat
  BY <1>3, WorkTypes DEF Inv
<1>4. UNCHANGED vars => UNCHANGED chat
  BY DEF vars
<1>5. RefreshSummary => UNCHANGED chat
  BY DEF RefreshSummary
<1>6. QED
  BY <1>1, <1>2, <1>3, <1>4, <1>5, PostGrows, RegenerateGrows, GenerateGrows,
     ManageGrows DEF Next, Inv

-----------------------------------------------------------------------------
(***************************************************************************)
(* The invariant of the summaries, as version n is the newest completed one. *)
(***************************************************************************)

\* Version n is the newest completed summary.
NewestIs(n) ==
    /\ n \in 0..Len(snap)
    /\ n # 0 => snap[n].status = "completed"
    /\ \A v \in 1..Len(snap) : snap[v].status = "completed" => v <= n

\* A summary ends with a message that says something, before every answer
\* still to be written, and not before an older summary ends.
Spans == \A v \in 1..Len(snap) :
    /\ snap[v].through \in 1..Len(msg)
    /\ snap[v].from \in 1..snap[v].through
    /\ Says(msg, snap[v].through)
    /\ \A g \in gens : g.open => g.id > snap[v].through
    /\ \A u \in 1..v : snap[u].through <= snap[v].through

\* Only the last one is waited for, those between the newest completed one
\* and it were given up, and those that pruning has deleted are old.
Queued(n) == \A v \in 1..Len(snap) :
    /\ v < Len(snap) => snap[v].status # "pending"
    /\ v = Len(snap) => snap[v].status \in {"pending", "completed"}
    /\ n < v /\ v < Len(snap) => snap[v].stale
    /\ snap[v].status = "pruned" => v <= Len(snap) - Keep

\* A completed summary is all that was said up to its end, and a pending one
\* begins where the newest completed one ends.
Exact(n) == \A v \in 1..Len(snap) :
    /\ snap[v].status = "completed" => snap[v].content = Said(msg, snap[v].through)
    /\ snap[v].status = "pending" =>
          \A m \in 1..(snap[v].from - 1) : Says(msg, m) => m <= Through(n)

\* A worker has read all that was said up to the end of its summary.  While
\* it is at work nothing newer is given up, and what is between its summary
\* and the one it builds on was.
Informed == \A w \in Workers : AtWork(w) =>
    /\ work[w].snap \in 1..Len(snap)
    /\ work[w].prev < work[w].snap
    /\ work[w].read = Said(msg, snap[work[w].snap].through)
    /\ \A k \in 1..Len(snap) :
          /\ k > work[w].snap => ~snap[k].stale
          /\ work[w].prev < k /\ k < work[w].snap => snap[k].stale

SummariesAt(n) == NewestIs(n) /\ Spans /\ Queued(n) /\ Exact(n) /\ Informed

-----------------------------------------------------------------------------

\* What a summary is made of no longer changes.
LEMMA Settled ==
    ASSUME Inv, Inv', Spans, RowsGrow, NEW v \in 1..Len(snap)
    PROVE  /\ snap[v].through \in 1..Len(msg')
           /\ Says(msg', snap[v].through)
           /\ \A x \in gens' : x.open => x.id > snap[v].through
           /\ \A m \in 1..snap[v].through : Says(msg', m) <=> Says(msg, m)
           /\ Said(msg', snap[v].through) = Said(msg, snap[v].through)
<1>1. /\ Len(msg) \in Nat /\ Len(msg') \in Nat /\ snap[v].through \in 1..Len(msg)
      /\ (\A g \in gens : g.id \in Nat) /\ (\A x \in gens' : x.id \in Nat)
  BY DEF Inv, ChatInv, ChatTypes, Registered, Spans
<1>2. snap[v].through \in 1..Len(msg')
  BY <1>1 DEF RowsGrow
<1>3. Says(msg', snap[v].through)
  BY <1>1 DEF RowsGrow, Spans
<1>4. ASSUME NEW x \in gens', x.open PROVE x.id > snap[v].through
  BY <1>1, <1>4 DEF RowsGrow, Spans
<1>5. ASSUME NEW m \in 1..snap[v].through PROVE Says(msg', m) <=> Says(msg, m)
  BY <1>1, <1>2 DEF RowsGrow, Spans
<1>6. Said(msg', snap[v].through) = Said(msg, snap[v].through)
  BY <1>5 DEF Said
<1>7. QED
  BY <1>2, <1>3, <1>4, <1>5, <1>6

\* The chat goes on, and the summaries stand.
LEMMA ChatAlone ==
    ASSUME Inv, Inv', RowsGrow, NEW n, SummariesAt(n), snap' = snap, work' = work
    PROVE  SummariesAt(n)'
<1>1. \A v \in 1..Len(snap) :
         /\ snap[v].through \in 1..Len(msg')
         /\ Says(msg', snap[v].through)
         /\ \A x \in gens' : x.open => x.id > snap[v].through
         /\ \A m \in 1..snap[v].through : Says(msg', m) <=> Says(msg, m)
         /\ Said(msg', snap[v].through) = Said(msg, snap[v].through)
  BY Settled DEF SummariesAt
<1>2. NewestIs(n)' /\ Queued(n)'
  BY DEF SummariesAt, NewestIs, Queued
<1>3. Spans'
  BY <1>1 DEF SummariesAt, Spans
<1>4. Informed'
  BY <1>1 DEF SummariesAt, Informed, AtWork
<1>5. ASSUME NEW v \in 1..Len(snap'), snap'[v].status = "pending",
             NEW m \in 1..(snap'[v].from - 1), Says(msg', m)
      PROVE  m <= Through(n)'
  <2>1. snap[v].from \in 1..snap[v].through /\ snap[v].through \in 1..Len(msg)
    BY <1>5 DEF SummariesAt, Spans
  <2>2. m \in 1..snap[v].through
    BY <1>5, <2>1
  <2>3. Says(msg, m)
    BY <1>1, <1>5, <2>2
  <2>4. QED
    BY <2>3, <1>5 DEF SummariesAt, Exact, Through
<1>6. Exact(n)'
  BY <1>1, <1>5 DEF SummariesAt, Exact
<1>7. QED
  BY <1>2, <1>3, <1>4, <1>6 DEF SummariesAt

-----------------------------------------------------------------------------
(***************************************************************************)
(* A request for a summary.                                                *)
(***************************************************************************)

LEMMA NewestUnique ==
    ASSUME NEW s, Len(s) \in Nat, NEW n \in 0..Len(s),
           n # 0 => s[n].status = "completed",
           \A v \in 1..Len(s) : s[v].status = "completed" => v <= n
    PROVE  Newest({v \in 1..Len(s) : s[v].status = "completed"}) = n
<1> DEFINE C == {v \in 1..Len(s) : s[v].status = "completed"}
<1>1. CASE C = {}
  BY <1>1 DEF Newest
<1>2. CASE C # {}
  <2>1. C \in SUBSET (0..Len(s)) /\ C \in SUBSET (1..Len(s))
    OBVIOUS
  <2>2. Max(C) \in C /\ \A v \in C : Max(C) >= v
    BY <1>2, <2>1, GreatestFacts
  <2>3. n # 0 /\ n \in C
    BY <1>2
  <2>4. Max(C) = n
    BY <2>2, <2>3
  <2>5. QED
    BY <1>2, <2>4 DEF Newest
<1>3. QED
  BY <1>1, <1>2

LEMMA WaitingLast ==
    ASSUME Inv, NEW n, Queued(n), Waiting # {}
    PROVE  /\ Max(Waiting) = Len(snap) /\ Len(snap) \in 1..Len(snap)
           /\ snap[Len(snap)].status = "pending"
<1>1. SummaryTypes /\ Len(snap) \in Nat
  BY SnapFacts DEF Inv
<1>2. Waiting \in SUBSET (1..Len(snap))
  BY DEF Waiting
<1>3. Max(Waiting) \in Waiting
  BY <1>1, <1>2, SnapFacts
<1>4. Max(Waiting) \in 1..Len(snap) /\ snap[Max(Waiting)].status = "pending"
  BY <1>3 DEF Waiting
<1>5. QED
  BY <1>1, <1>4 DEF Queued

\* The summary the conversation points to ends where the newest one does, or
\* before.
LEMMA CurrentBefore ==
    ASSUME Inv, NEW n, SummariesAt(n)
    PROVE  Through(Current) \in Nat /\ Through(Current) <= Through(n)
<1>1. Len(snap) \in Nat /\ n \in 0..Len(snap)
  BY SnapFacts DEF Inv, SummariesAt, NewestIs
<1>2. Newest(Completed) = n
  BY <1>1, NewestUnique DEF SummariesAt, NewestIs, Completed
<1>3. Current = 0 \/ (Current \in 1..Len(snap) /\ Current <= n)
  BY <1>1, <1>2 DEF Current, Completed, SummariesAt, NewestIs
<1>4. \A v \in 1..Len(snap) : snap[v].through \in 1..Len(msg)
  BY DEF SummariesAt, Spans
<1>5. CASE Current = 0
  BY <1>1, <1>4, <1>5 DEF Through
<1>6. CASE Current \in 1..Len(snap) /\ Current <= n
  <2>1. n \in 1..Len(snap) /\ Current \in 1..n
    BY <1>1, <1>6
  <2>2. snap[Current].through <= snap[n].through
    BY <2>1 DEF SummariesAt, Spans
  <2>3. QED
    BY <1>4, <1>6, <2>1, <2>2 DEF Through
<1>7. QED
  BY <1>3, <1>5, <1>6

\* The rows of the summaries as a request appends one.
LEMMA EnqueueFacts ==
    ASSUME Inv, NEW n, SummariesAt(n), NEW rows, Len(rows) \in 0..MaxMessages,
           Enqueue(rows)
    PROVE  \/ snap' = snap /\ work' = work
           \/ \E a, b \in 1..Len(rows) :
                 /\ work' = work
                 /\ snap' \in Seq(Snapshot) /\ Len(snap') = Len(snap) + 1
                 /\ \A v \in 1..Len(snap) :
                       /\ v < Len(snap) => snap'[v] = snap[v]
                       /\ snap'[v].from = snap[v].from
                       /\ snap'[v].through = snap[v].through
                       /\ snap'[v].content = snap[v].content
                       /\ snap'[v].stale = snap[v].stale
                       /\ snap[v].status = "pending" =>
                             snap'[v].status = "failed" /\ snap[v].stale
                       /\ snap[v].status # "pending" =>
                             snap'[v].status = snap[v].status
                 /\ snap'[Len(snap) + 1] =
                       [ status |-> "pending", from |-> a, through |-> b,
                         content |-> {}, stale |-> FALSE ]
                 /\ Says(rows, b) /\ a <= b
                 /\ \A m \in 1..Len(rows) :
                       Says(rows, m) /\ m > Through(Current) => a <= m /\ m <= b
                 /\ a > Through(Current)
<1> DEFINE source == Unsummarized(rows)
           older == [s \in 1..Len(snap) |->
                        IF Waiting # {} /\ s = Max(Waiting)
                        THEN [snap[s] EXCEPT !.status = "failed"] ELSE snap[s]]
           new == [ status |-> "pending", from |-> Min(source),
                    through |-> Max(source), content |-> {}, stale |-> FALSE ]
<1>1. CASE UNCHANGED <<snap, pointer, work>>
  BY <1>1
<1>2. CASE /\ ~(Waiting # {} /\ ~snap[Max(Waiting)].stale)
           /\ source # {} /\ UNCHANGED <<pointer, work>>
           /\ snap' = Append(older, new)
  <2>1. /\ SummaryTypes /\ Len(snap) \in Nat /\ Len(rows) \in Nat
        /\ snap \in Seq(Snapshot)
        /\ \A v \in 1..Len(snap) : snap[v] \in Snapshot
    BY SnapFacts, CountsAssumption DEF Inv, SummaryTypes
  <2>2. /\ source \in SUBSET (0..Len(rows)) /\ source \in SUBSET Nat
        /\ source \in SUBSET (1..Len(rows))
    BY <2>1 DEF Unsummarized
  <2>3. Min(source) \in source /\ \A m \in source : Min(source) <= m
    BY <1>2, <2>2, LeastFacts
  <2>4. Max(source) \in source /\ \A m \in source : Max(source) >= m
    BY <1>2, <2>1, <2>2, GreatestFacts
  <2>5. \A m : m \in source <=> m \in 1..Len(rows) /\ m > Through(Current) /\ Says(rows, m)
    BY DEF Unsummarized, Says
  <2>6. PICK a, b \in 1..Len(rows) :
           /\ a = Min(source) /\ b = Max(source) /\ a <= b
           /\ Says(rows, b) /\ a > Through(Current)
           /\ \A m \in 1..Len(rows) :
                 Says(rows, m) /\ m > Through(Current) => a <= m /\ m <= b
    <3> HIDE DEF source
    <3>1. Min(source) \in 1..Len(rows) /\ Max(source) \in 1..Len(rows)
      BY <2>2, <2>3, <2>4
    <3>2. \A m \in source : Min(source) <= m /\ m <= Max(source)
      BY <2>1, <2>2, <2>3, <2>4
    <3>3. QED
      BY <2>3, <2>4, <2>5, <3>1, <3>2
  <2>7. \A v \in 1..Len(snap) :
           /\ older[v] \in Snapshot
           /\ v < Len(snap) => older[v] = snap[v]
           /\ older[v].from = snap[v].from
           /\ older[v].through = snap[v].through
           /\ older[v].content = snap[v].content
           /\ older[v].stale = snap[v].stale
           /\ snap[v].status = "pending" => older[v].status = "failed" /\ snap[v].stale
           /\ snap[v].status # "pending" => older[v].status = snap[v].status
    <3>1. TAKE v \in 1..Len(snap)
    <3>2. snap[v].status = "pending" <=> Waiting # {} /\ v = Max(Waiting)
      <4>1. CASE Waiting = {}
        BY <4>1 DEF Waiting
      <4>2. CASE Waiting # {}
        <5>1. /\ Max(Waiting) = Len(snap) /\ snap[Len(snap)].status = "pending"
              /\ v < Len(snap) => snap[v].status # "pending"
          BY <4>2, WaitingLast DEF SummariesAt, Queued
        <5>2. v < Len(snap) \/ v = Len(snap)
          BY <2>1
        <5> HIDE DEF older
        <5>3. QED
          BY <2>1, <4>2, <5>1, <5>2
      <4>3. QED
        BY <4>1, <4>2
    <3>3. CASE snap[v].status = "pending"
      <4>1. older[v] = [snap[v] EXCEPT !.status = "failed"]
        BY <3>2, <3>3
      <4>2. v = Len(snap) /\ snap[v].stale
        BY <1>2, <3>2, <3>3, WaitingLast DEF SummariesAt
      <4>3. snap[v] \in Snapshot
        BY <2>1
      <4> HIDE DEF older
      <4>4. \A r \in Snapshot :
               LET x == [r EXCEPT !.status = "failed"]
               IN  /\ x \in Snapshot /\ x.status = "failed" /\ x.from = r.from
                   /\ x.through = r.through /\ x.content = r.content
                   /\ x.stale = r.stale
        BY DEF Snapshot
      <4>5. PICK x \in Snapshot :
               /\ older[v] = x /\ x.status = "failed" /\ x.from = snap[v].from
               /\ x.through = snap[v].through /\ x.content = snap[v].content
               /\ x.stale = snap[v].stale
        BY <4>1, <4>3, <4>4
      <4>6. ~(v < Len(snap))
        BY <2>1, <4>2
      <4>7. QED
        BY <3>3, <4>2, <4>5, <4>6
    <3>4. CASE snap[v].status # "pending"
      <4>1. older[v] = snap[v]
        BY <3>2, <3>4
      <4> HIDE DEF older
      <4>2. QED
        BY <2>1, <3>4, <4>1
    <3>5. QED
      BY <3>3, <3>4
  <2>8. older \in Seq(Snapshot) /\ Len(older) = Len(snap)
    <3>1. older \in [1..Len(snap) -> Snapshot]
      BY <2>7, Zenon
    <3> HIDE DEF older
    <3>2. QED
      BY <2>1, <3>1
  <2>9. new = [ status |-> "pending", from |-> a, through |-> b,
                content |-> {}, stale |-> FALSE ]
    BY <2>6
  <2>10. new \in Snapshot
    <3>1. a \in Ids /\ b \in Ids
      BY CountsAssumption DEF Ids
    <3>2. QED
      BY <2>9, <3>1 DEF Snapshot
  <2> HIDE DEF older, new, source
  <2>11. /\ snap' \in Seq(Snapshot) /\ Len(snap') = Len(snap) + 1
         /\ \A v \in 1..Len(snap) : snap'[v] = older[v]
         /\ snap'[Len(snap) + 1] = new
    BY <1>2, <2>1, <2>8, <2>10
  <2>12. work' = work
    BY <1>2
  <2>13. \A v \in 1..Len(snap) :
           /\ v < Len(snap) => snap'[v] = snap[v]
           /\ snap'[v].from = snap[v].from
           /\ snap'[v].through = snap[v].through
           /\ snap'[v].content = snap[v].content
           /\ snap'[v].stale = snap[v].stale
           /\ snap[v].status = "pending" => snap'[v].status = "failed" /\ snap[v].stale
           /\ snap[v].status # "pending" => snap'[v].status = snap[v].status
    BY <2>7, <2>11
  <2>14. snap'[Len(snap) + 1] = [ status |-> "pending", from |-> a, through |-> b,
                                  content |-> {}, stale |-> FALSE ]
    BY <2>9, <2>11
  <2>15. QED
    BY <2>6, <2>11, <2>12, <2>13, <2>14
<1>3. QED
  BY <1>1, <1>2 DEF Enqueue

\* A request for a summary, with or without an answer that was just stored.
LEMMA EnqueueGrows ==
    ASSUME Inv, Inv', RowsGrow, NEW n, SummariesAt(n), NEW rows, msg' = rows,
           \A x \in gens' : x.open =>
              \A m \in 1..Len(msg') : Says(msg', m) => x.id > m,
           Enqueue(rows)
    PROVE  SummariesAt(n)' /\ Through(n)' = Through(n)
<1>0. /\ Len(snap) \in Nat /\ Len(msg) \in Nat /\ Len(rows) \in 0..MaxMessages
      /\ n \in 0..Len(snap)
  BY SnapFacts DEF Inv, ChatInv, ChatTypes, SummariesAt, NewestIs
<1>1. CASE snap' = snap /\ work' = work
  BY <1>1, ChatAlone DEF Through
<1>2. ASSUME NEW a \in 1..Len(rows), NEW b \in 1..Len(rows),
             /\ work' = work
             /\ snap' \in Seq(Snapshot) /\ Len(snap') = Len(snap) + 1
             /\ \A v \in 1..Len(snap) :
                   /\ v < Len(snap) => snap'[v] = snap[v]
                   /\ snap'[v].from = snap[v].from
                   /\ snap'[v].through = snap[v].through
                   /\ snap'[v].content = snap[v].content
                   /\ snap'[v].stale = snap[v].stale
                   /\ snap[v].status = "pending" =>
                         snap'[v].status = "failed" /\ snap[v].stale
                   /\ snap[v].status # "pending" =>
                         snap'[v].status = snap[v].status
             /\ snap'[Len(snap) + 1] =
                   [ status |-> "pending", from |-> a, through |-> b,
                     content |-> {}, stale |-> FALSE ]
             /\ Says(rows, b) /\ a <= b
             /\ \A m \in 1..Len(rows) :
                   Says(rows, m) /\ m > Through(Current) => a <= m /\ m <= b
             /\ a > Through(Current)
      PROVE  SummariesAt(n)' /\ Through(n)' = Through(n)
  <2> DEFINE L == Len(snap)
  <2>1. /\ snap'[L + 1].status = "pending" /\ snap'[L + 1].from = a
        /\ snap'[L + 1].through = b /\ snap'[L + 1].stale = FALSE
    BY <1>2
  <2>2. \A v \in 1..Len(snap') : v \in 1..L \/ v = L + 1
    BY <1>0, <1>2
  <2>3. Through(n)' = Through(n)
    BY <1>0, <1>2 DEF Through
  <2>4. \A v \in 1..L :
           /\ snap[v].through \in 1..Len(msg')
           /\ Says(msg', snap[v].through)
           /\ \A x \in gens' : x.open => x.id > snap[v].through
           /\ \A m \in 1..snap[v].through : Says(msg', m) <=> Says(msg, m)
           /\ Said(msg', snap[v].through) = Said(msg, snap[v].through)
    BY Settled DEF SummariesAt
  <2>5. Through(Current) \in Nat /\ Through(Current) <= Through(n)
    BY CurrentBefore
  <2>6. NewestIs(n)'
    <3>1. NewestIs(n)
      BY DEF SummariesAt
    <3>2. ASSUME NEW v \in 1..Len(snap'), snap'[v].status = "completed" PROVE v <= n
      <4>1. v \in 1..L
        BY <2>1, <2>2, <3>2
      <4>2. snap[v].status = "completed"
        BY <1>2, <3>2, <4>1
      <4>3. QED
        BY <3>1, <4>1, <4>2 DEF NewestIs
    <3>3. n # 0 => snap'[n].status = "completed"
      BY <1>0, <1>2, <3>1 DEF NewestIs
    <3>4. n \in 0..Len(snap')
      BY <1>0, <1>2
    <3>5. QED
      BY <3>2, <3>3, <3>4 DEF NewestIs
  <2>7. Spans'
    <3>1. \A u \in 1..L : snap[u].through <= b
      <4>1. TAKE u \in 1..L
      <4>2. snap[u].through \in 1..Len(rows) /\ Says(rows, snap[u].through)
        BY <2>4
      <4>3. CASE snap[u].through > Through(Current)
        BY <1>2, <4>2, <4>3
      <4>4. CASE ~(snap[u].through > Through(Current))
        BY <1>0, <1>2, <2>5, <4>2, <4>4
      <4>5. QED
        BY <4>3, <4>4
    <3>2. ASSUME NEW v \in 1..Len(snap')
          PROVE  /\ snap'[v].through \in 1..Len(msg')
                 /\ snap'[v].from \in 1..snap'[v].through
                 /\ Says(msg', snap'[v].through)
                 /\ \A g \in gens' : g.open => g.id > snap'[v].through
                 /\ \A u \in 1..v : snap'[u].through <= snap'[v].through
      <4>1. CASE v \in 1..L
        <5>1. \A u \in 1..v : u \in 1..L
          BY <1>0, <4>1
        <5>2. QED
          BY <1>2, <2>4, <4>1, <5>1 DEF SummariesAt, Spans
      <4>2. CASE v = L + 1
        <5>1. \A u \in 1..v : u \in 1..L \/ u = v
          BY <1>0, <4>2
        <5>2. \A u \in 1..v : snap'[u].through <= b
          BY <1>0, <1>2, <2>1, <3>1, <4>2, <5>1
        <5>3. a \in 1..b
          BY <1>0, <1>2
        <5>4. QED
          BY <1>2, <2>1, <4>2, <5>2, <5>3
      <4>3. QED
        BY <2>2, <4>1, <4>2
    <3>3. QED
      BY <3>2 DEF Spans
  <2>8. Queued(n)'
    <3>1. ASSUME NEW v \in 1..Len(snap')
          PROVE  /\ v < Len(snap') => snap'[v].status # "pending"
                 /\ v = Len(snap') => snap'[v].status \in {"pending", "completed"}
                 /\ n < v /\ v < Len(snap') => snap'[v].stale
                 /\ snap'[v].status = "pruned" => v <= Len(snap') - Keep
      <4>0. Len(snap') = L + 1
        BY <1>2
      <4>1. CASE v \in 1..L
        <5>1. /\ v < L => snap[v].status # "pending"
              /\ v = L => snap[v].status \in {"pending", "completed"}
              /\ n < v /\ v < L => snap[v].stale
              /\ snap[v].status = "pruned" => v <= L - Keep
              /\ snap[v].status = "completed" => v <= n
          BY <4>1 DEF SummariesAt, Queued, NewestIs
        <5>2. v < L \/ v = L
          BY <1>0, <4>1
        <5>3. snap[v].status = "pending" \/ snap'[v].status = snap[v].status
          BY <1>2, <4>1
        <5>4. snap[v].status = "pending" => snap'[v].status = "failed" /\ snap[v].stale
          BY <1>2, <4>1
        <5>5. snap'[v].stale = snap[v].stale
          BY <1>2, <4>1
        <5>6. snap'[v].status # "pending"
          BY <5>3, <5>4
        <5>7. n < v => snap[v].stale
          BY <1>0, <4>1, <5>1, <5>2, <5>4
        <5>8. snap'[v].status = "pruned" => v <= L + 1 - Keep
          BY <1>0, <4>1, <5>1, <5>3, <5>4, CountsAssumption
        <5>9. v # Len(snap')
          BY <1>0, <4>0, <4>1
        <5>10. snap'[v].status = "pruned" => v <= Len(snap') - Keep
          BY <1>0, <4>0, <4>1, <5>8, CountsAssumption
        <5>11. n < v => snap'[v].stale
          BY <5>5, <5>7
        <5>12. QED
          BY <5>6, <5>9, <5>10, <5>11
      <4>2. CASE v = L + 1
        <5>1. snap'[v].status = "pending"
          BY <2>1, <4>2
        <5>2. ~(v < L + 1)
          BY <1>0, <4>2
        <5>3. QED
          BY <4>0, <5>1, <5>2
      <4>3. QED
        BY <2>2, <4>1, <4>2
    <3>2. QED
      BY <3>1, Zenon DEF Queued
  <2>9. Exact(n)'
    <3>1. ASSUME NEW v \in 1..Len(snap'), snap'[v].status = "completed"
          PROVE  snap'[v].content = Said(msg', snap'[v].through)
      <4>1. v \in 1..L
        BY <2>1, <2>2, <3>1
      <4>2. snap[v].status = "completed"
        BY <1>2, <3>1, <4>1
      <4>3. snap[v].content = Said(msg, snap[v].through)
        BY <4>1, <4>2 DEF SummariesAt, Exact
      <4>4. QED
        BY <1>2, <2>4, <4>1, <4>3
    <3>2. ASSUME NEW v \in 1..Len(snap'), snap'[v].status = "pending",
                 NEW m \in 1..(snap'[v].from - 1), Says(msg', m)
          PROVE  m <= Through(n)'
      <4>1. v = L + 1
        BY <1>2, <2>2, <3>2
      <4>2. m \in 1..Len(rows) /\ m < a
        BY <1>0, <2>1, <3>2, <4>1
      <4>3. ~(m > Through(Current))
        BY <1>0, <1>2, <3>2, <4>2
      <4>4. Through(n) \in Nat
        BY <1>0, <2>4 DEF Through
      <4>5. QED
        BY <2>3, <2>5, <4>2, <4>3, <4>4
    <3>3. QED
      BY <3>1, <3>2 DEF Exact
  <2>10. Informed'
    <3>1. ASSUME NEW w \in Workers, work'[w].snap # 0
          PROVE  /\ work'[w].snap \in 1..Len(snap')
                 /\ work'[w].prev < work'[w].snap
                 /\ work'[w].read = Said(msg', snap'[work'[w].snap].through)
                 /\ \A k \in 1..Len(snap') :
                       /\ k > work'[w].snap => ~snap'[k].stale
                       /\ work'[w].prev < k /\ k < work'[w].snap => snap'[k].stale
      <4>1. /\ work[w].snap \in 1..L /\ work[w].prev < work[w].snap
            /\ work[w].read = Said(msg, snap[work[w].snap].through)
            /\ \A k \in 1..L : /\ k > work[w].snap => ~snap[k].stale
                               /\ work[w].prev < k /\ k < work[w].snap => snap[k].stale
        BY <1>2, <3>1 DEF SummariesAt, Informed, AtWork
      <4>2. work'[w] = work[w]
        BY <1>2
      <4>3. work[w].read = Said(msg', snap'[work[w].snap].through)
        BY <1>2, <2>4, <4>1
      <4>4. \A k \in 1..Len(snap') :
               /\ k > work[w].snap => ~snap'[k].stale
               /\ work[w].prev < k /\ k < work[w].snap => snap'[k].stale
        <5>1. TAKE k \in 1..Len(snap')
        <5>2. CASE k \in 1..L
          BY <1>2, <4>1, <5>2
        <5>3. CASE k = L + 1
          BY <1>0, <2>1, <4>1, <5>3
        <5>4. QED
          BY <2>2, <5>2, <5>3
      <4>5. work[w].snap \in 1..Len(snap')
        BY <1>0, <1>2, <4>1
      <4>6. QED
        BY <4>1, <4>2, <4>3, <4>4, <4>5
    <3>2. QED
      BY <3>1 DEF Informed, AtWork
  <2>11. QED
    BY <2>3, <2>6, <2>7, <2>8, <2>9, <2>10 DEF SummariesAt
<1>3. QED
  BY <1>0, <1>1, <1>2, EnqueueFacts

-----------------------------------------------------------------------------
(***************************************************************************)
(* The steps of the workers.                                               *)
(***************************************************************************)

\* No Keep - 2 summaries in a row have waited for more than five minutes: a
\* summary a worker builds on is not pruned before the worker is done.
FewGivenUp == \A v \in 1..Len(snap) :
    v + Keep - 3 <= Len(snap) => \E k \in v..(v + Keep - 3) : ~snap[k].stale

\* The newest completed summary is version n, or a later one that says more.
Onward(n) == \E k : SummariesAt(k)' /\ Through(n) <= Through(k)'

\* The statuses of summaries, and what one says, are all that changes.
SameSpans ==
    /\ Len(snap') = Len(snap)
    /\ \A v \in 1..Len(snap) : /\ snap'[v].from = snap[v].from
                               /\ snap'[v].through = snap[v].through

LEMMA SpansStand ==
    ASSUME Inv, NEW n, SummariesAt(n), SameSpans, msg' = msg, gens' = gens
    PROVE  Spans' /\ Through(n)' = Through(n) /\ Through(n) \in Nat
<1>1. n \in 0..Len(snap) /\ Len(snap) \in Nat
  BY SnapFacts DEF SummariesAt, NewestIs, Inv
<1>2. Through(n)' = Through(n)
  BY <1>1 DEF SameSpans, Through
<1>3. \A v \in 1..Len(snap) : \A u \in 1..v : u \in 1..Len(snap)
  BY <1>1
<1>4. Through(n) \in Nat
  BY <1>1 DEF SummariesAt, Spans, Through
<1>5. Spans'
  BY <1>1, <1>3 DEF SummariesAt, Spans, SameSpans
<1>6. QED
  BY <1>2, <1>4, <1>5

\* What a worker's rest leaves to the others, as summaries change status.
LEMMA OthersInformed ==
    ASSUME Inv, NEW n, SummariesAt(n), SameSpans, msg' = msg,
           \A v \in 1..Len(snap) : snap'[v].stale = snap[v].stale,
           NEW w \in Workers, work' = [work EXCEPT ![w] = Idle]
    PROVE  Informed'
<1>1. ASSUME NEW x \in Workers, work'[x].snap # 0
      PROVE  work'[x] = work[x] /\ AtWork(x)
  BY <1>1 DEF Inv, SummaryTypes, Idle, AtWork
<1>2. QED
  BY <1>1 DEF Informed, AtWork, SummariesAt, SameSpans

LEMMA StaleGrows ==
    ASSUME Inv, NEW n, SummariesAt(n), NEW v \in 1..Len(snap), SummaryGrowsStale(v)
    PROVE  Onward(n)
<1>1. /\ snap \in Seq(Snapshot) /\ Len(snap) \in Nat
      /\ n \in 0..Len(snap)
      /\ \A k \in 1..Len(snap) : snap[k] \in Snapshot
  BY SnapFacts DEF Inv, SummaryTypes, SummariesAt, NewestIs
<1>2. PICK r \in Snapshot :
         /\ snap' = [snap EXCEPT ![v] = r] /\ r.stale = TRUE
         /\ r.status = snap[v].status /\ r.from = snap[v].from
         /\ r.through = snap[v].through /\ r.content = snap[v].content
  <2>1. PICK r : r = [snap[v] EXCEPT !.stale = TRUE]
    OBVIOUS
  <2>2. /\ r \in Snapshot /\ r.stale = TRUE
        /\ r.status = snap[v].status /\ r.from = snap[v].from
        /\ r.through = snap[v].through /\ r.content = snap[v].content
    BY <1>1, <2>1 DEF Snapshot
  <2>3. snap' = [snap EXCEPT ![v] = r]
    BY <1>1, <2>1 DEF SummaryGrowsStale
  <2>4. QED
    BY <2>2, <2>3
<1>3. /\ Len(snap') = Len(snap)
      /\ \A k \in 1..Len(snap) :
            /\ snap'[k].status = snap[k].status /\ snap'[k].from = snap[k].from
            /\ snap'[k].through = snap[k].through /\ snap'[k].content = snap[k].content
            /\ k # v => snap'[k] = snap[k]
            /\ snap[k].stale => snap'[k].stale
  BY <1>1, <1>2
<1>4. v = Len(snap)
  BY <1>1 DEF SummaryGrowsStale, Fresh, Waiting, SummariesAt, Queued
<1>5. msg' = msg /\ gens' = gens /\ work' = work
  BY DEF SummaryGrowsStale, chat
<1>6. SameSpans
  BY <1>3 DEF SameSpans
<1>7. Spans' /\ Through(n)' = Through(n) /\ Through(n) \in Nat
  BY <1>5, <1>6, SpansStand
<1>8. NewestIs(n)'
  BY <1>1, <1>3 DEF SummariesAt, NewestIs
<1>9. Queued(n)'
  BY <1>1, <1>3 DEF SummariesAt, Queued
<1>10. Exact(n)'
  BY <1>3, <1>5, <1>7 DEF SummariesAt, Exact
<1>11. Informed'
  <2>1. ASSUME NEW w \in Workers, work[w].snap # 0
        PROVE  /\ work[w].snap \in 1..Len(snap')
               /\ work[w].prev < work[w].snap
               /\ work[w].read = Said(msg', snap'[work[w].snap].through)
               /\ \A k \in 1..Len(snap') :
                     /\ k > work[w].snap => ~snap'[k].stale
                     /\ work[w].prev < k /\ k < work[w].snap => snap'[k].stale
    <3>1. /\ work[w].snap \in 1..Len(snap)
          /\ work[w].prev < work[w].snap
          /\ work[w].read = Said(msg, snap[work[w].snap].through)
          /\ \A k \in 1..Len(snap) :
                /\ k > work[w].snap => ~snap[k].stale
                /\ work[w].prev < k /\ k < work[w].snap => snap[k].stale
      BY <2>1 DEF SummariesAt, Informed, AtWork
    <3>2. ~(v > work[w].snap)
      <4>1. work[w].snap \notin 1..(v - 1)
        BY DEF SummaryGrowsStale
      <4>2. QED
        BY <1>1, <3>1, <4>1
    <3>3. QED
      BY <1>3, <1>5, <3>1, <3>2
  <2>2. QED
    BY <1>5, <2>1 DEF Informed, AtWork
<1>12. SummariesAt(n)'
  BY <1>7, <1>8, <1>9, <1>10, <1>11 DEF SummariesAt
<1>13. QED
  BY <1>7, <1>12 DEF Onward

\* The summaries stand, and each worker knows what it has read.
LEMMA SummariesStand ==
    ASSUME Inv, NEW n, SummariesAt(n), snap' = snap, msg' = msg, gens' = gens,
           Informed'
    PROVE  Onward(n)
<1>1. SameSpans
  BY DEF SameSpans
<1>2. Spans' /\ Through(n)' = Through(n) /\ Through(n) \in Nat
  BY <1>1, SpansStand
<1>3. NewestIs(n)' /\ Queued(n)' /\ Exact(n)'
  BY <1>2 DEF SummariesAt, NewestIs, Queued, Exact
<1>4. QED
  BY <1>2, <1>3 DEF SummariesAt, Onward

\* A worker that starts reads all that was said up to the summary's end.
LEMMA ReadGrows ==
    ASSUME Inv, NEW n, SummariesAt(n), NEW w \in Workers, NEW v \in 1..Len(snap),
           ReadForSummary(w, v)
    PROVE  Onward(n)
<1>1. Len(snap) \in Nat /\ n \in 0..Len(snap) /\ Len(msg) \in Nat
  BY SnapFacts DEF Inv, SummariesAt, NewestIs, ChatInv, ChatTypes
<1>2. snap[v].status = "pending" /\ UNCHANGED <<chat, snap>>
  BY DEF ReadForSummary, Took
<1>3. v = Len(snap)
  BY <1>1, <1>2 DEF SummariesAt, Queued
<1>4. n < v
  BY <1>1, <1>2, <1>3 DEF SummariesAt, NewestIs
<1>5. {p \in Completed : p < v} = {p \in 1..Len(snap) : snap[p].status = "completed"}
  BY <1>1, <1>3, <1>2 DEF Completed
<1>6. Previous(v) = n
  BY <1>1, <1>5, NewestUnique DEF Previous, SummariesAt, NewestIs
<1>7. /\ snap[v].through \in 1..Len(msg) /\ snap[v].from \in 1..snap[v].through
      /\ n # 0 => /\ snap[n].through <= snap[v].through
                  /\ snap[n].through \in 1..Len(msg)
                  /\ snap[n].content = Said(msg, snap[n].through)
  <2>1. n # 0 => n \in 1..v /\ n \in 1..Len(snap)
    BY <1>1, <1>4
  <2>2. QED
    BY <2>1 DEF SummariesAt, Spans, Exact, NewestIs
<1>8. Content(n) \cup InRange(v) = Said(msg, snap[v].through)
  <2>1. ASSUME NEW m \in Content(n) PROVE m \in Said(msg, snap[v].through)
    BY <1>1, <1>7, <2>1 DEF Content, Said
  <2>2. ASSUME NEW m \in InRange(v) PROVE m \in Said(msg, snap[v].through)
    BY <1>1, <1>7, <2>2 DEF InRange, Said, Usable, Says
  <2>3. ASSUME NEW m \in Said(msg, snap[v].through)
        PROVE  m \in Content(n) \cup InRange(v)
    <3>1. m \in 1..snap[v].through /\ Says(msg, m)
      BY <2>3 DEF Said
    <3>2. CASE m >= snap[v].from
      BY <1>1, <1>7, <3>1, <3>2 DEF InRange, Usable, Says
    <3>3. CASE ~(m >= snap[v].from)
      <4>1. m \in 1..(snap[v].from - 1)
        BY <1>1, <1>7, <3>1, <3>3
      <4>2. m <= Through(n)
        BY <1>2, <3>1, <4>1 DEF SummariesAt, Exact
      <4>3. n # 0
        BY <4>1, <4>2, <1>7 DEF Through
      <4>4. m \in 1..snap[n].through
        BY <1>7, <4>1, <4>2, <4>3 DEF Through
      <4>5. QED
        BY <1>7, <3>1, <4>3, <4>4 DEF Content, Said
    <3>4. QED
      BY <3>2, <3>3
  <2>4. QED
    BY <2>1, <2>2, <2>3
<1>9. work' = [work EXCEPT ![w] = [ snap |-> v, prev |-> n,
                                    read |-> Said(msg, snap[v].through) ]]
  BY <1>6, <1>8 DEF ReadForSummary
<1>10. work'[w].snap = v /\ work'[w].prev = n /\ work'[w].read = Said(msg, snap[v].through)
  BY <1>9 DEF Inv, SummaryTypes
<1>11. \A x \in Workers : x # w => work'[x] = work[x]
  BY <1>9 DEF Inv, SummaryTypes
<1>12. msg' = msg /\ gens' = gens /\ snap' = snap
  BY <1>2 DEF chat
<1>13. Informed'
  <2>1. ASSUME NEW x \in Workers, work'[x].snap # 0
        PROVE  /\ work'[x].snap \in 1..Len(snap')
               /\ work'[x].prev < work'[x].snap
               /\ work'[x].read = Said(msg', snap'[work'[x].snap].through)
               /\ \A k \in 1..Len(snap') :
                     /\ k > work'[x].snap => ~snap'[k].stale
                     /\ work'[x].prev < k /\ k < work'[x].snap => snap'[k].stale
    <3>1. CASE x # w
      BY <1>11, <1>12, <2>1, <3>1 DEF SummariesAt, Informed, AtWork
    <3>2. CASE x = w
      <4>1. \A k \in 1..Len(snap) : /\ ~(k > v)
                                    /\ n < k /\ k < v => snap[k].stale
        BY <1>1, <1>3 DEF SummariesAt, Queued
      <4>2. QED
        BY <1>4, <1>10, <1>12, <3>2, <4>1
    <3>3. QED
      BY <3>1, <3>2
  <2>2. QED
    BY <2>1 DEF Informed, AtWork
<1>14. QED
  BY <1>12, <1>13, SummariesStand

\* Nothing newer than both the newest completed summary and one a worker is
\* at work on was given up: one at most has been asked for since.
LEMMA OneNewer ==
    ASSUME Inv, NEW n, SummariesAt(n), NEW w \in Workers, AtWork(w), NEW x \in Nat,
           x >= n, x >= work[w].snap
    PROVE  Len(snap) <= x + 1
<1>1. Len(snap) \in Nat /\ n \in 0..Len(snap) /\ work[w].snap \in 1..Len(snap)
  BY SnapFacts DEF Inv, SummariesAt, NewestIs, Informed
<1>2. ASSUME x + 1 < Len(snap) PROVE FALSE
  <2>1. x + 1 \in 1..Len(snap) /\ x + 1 > work[w].snap /\ n < x + 1
    BY <1>1, <1>2
  <2>2. snap[x + 1].stale
    BY <1>2, <2>1 DEF SummariesAt, Queued
  <2>3. ~snap[x + 1].stale
    BY <2>1 DEF SummariesAt, Informed
  <2>4. QED
    BY <2>2, <2>3
<1>3. QED
  BY <1>1, <1>2

LEMMA FailFacts ==
    ASSUME Inv, NEW v \in 1..Len(snap), snap' = [snap EXCEPT ![v].status = "failed"]
    PROVE  /\ Len(snap') = Len(snap)
           /\ \A k \in 1..Len(snap) :
                 /\ snap'[k].status = IF k = v THEN "failed" ELSE snap[k].status
                 /\ snap'[k].from = snap[k].from /\ snap'[k].through = snap[k].through
                 /\ snap'[k].content = snap[k].content /\ snap'[k].stale = snap[k].stale
<1>1. /\ snap \in Seq(Snapshot) /\ \A k \in 1..Len(snap) : snap[k] \in Snapshot
  BY SnapFacts DEF Inv, SummaryTypes
<1>2. PICK r : r = [snap[v] EXCEPT !.status = "failed"]
  OBVIOUS
<1>3. /\ r \in Snapshot /\ r.status = "failed" /\ r.from = snap[v].from
      /\ r.through = snap[v].through /\ r.content = snap[v].content
      /\ r.stale = snap[v].stale
  BY <1>1, <1>2 DEF Snapshot
<1>4. snap' = [snap EXCEPT ![v] = r]
  BY <1>1, <1>2
<1>5. QED
  BY <1>1, <1>3, <1>4

\* A worker whose summary's predecessor is gone marks it failed: by then a
\* newer one is completed.
LEMMA FailGrows ==
    ASSUME Inv, Inv', "provider" \notin Faults, FewGivenUp, NEW n, SummariesAt(n),
           NEW w \in Workers, FailSummary(w)
    PROVE  Onward(n)
<1> DEFINE v == work[w].snap
           p == work[w].prev
<1>1. /\ Len(snap) \in Nat /\ n \in 0..Len(snap) /\ v \in 1..Len(snap)
      /\ p \in Nat /\ p < v /\ Keep \in Nat
  BY SnapFacts, CountsAssumption
  DEF Inv, SummaryTypes, Reading, SummariesAt, NewestIs, Informed, FailSummary
<1>2. p # 0 /\ snap[p].status = "pruned"
  BY DEF FailSummary, Gone
<1>3. p <= Len(snap) - Keep
  BY <1>1, <1>2 DEF SummariesAt, Queued
<1>4. v < n
  <2>1. SUFFICES ASSUME v >= n PROVE FALSE
    BY <1>1
  <2>2. Len(snap) <= v + 1
    BY <1>1, <2>1, OneNewer DEF FailSummary
  <2>3. Len(snap) - Keep + 1 \in 1..Len(snap)
    BY <1>1, <1>2, <1>3, CountsAssumption
  <2>4. PICK k \in (Len(snap) - Keep + 1)..(Len(snap) - Keep + 1 + Keep - 3) :
           ~snap[k].stale
    <3>1. Len(snap) - Keep + 1 + Keep - 3 <= Len(snap)
      BY <1>1
    <3>2. QED
      BY <2>3, <3>1 DEF FewGivenUp
  <2>5. k \in 1..Len(snap) /\ p < k /\ k < v
    BY <1>1, <1>2, <1>3, <2>2, <2>4
  <2>6. snap[k].stale
    BY <2>5 DEF SummariesAt, Informed, FailSummary
  <2>7. QED
    BY <2>4, <2>6
<1>5. /\ Len(snap') = Len(snap)
      /\ \A k \in 1..Len(snap) :
            /\ snap'[k].status = IF k = v THEN "failed" ELSE snap[k].status
            /\ snap'[k].from = snap[k].from /\ snap'[k].through = snap[k].through
            /\ snap'[k].content = snap[k].content /\ snap'[k].stale = snap[k].stale
  BY <1>1, FailFacts DEF FailSummary
<1>6. /\ work' = [work EXCEPT ![w] = Idle] /\ msg' = msg /\ gens' = gens
      /\ SameSpans
  BY <1>5 DEF FailSummary, Rest, chat, SameSpans
<1>7. Spans' /\ Through(n)' = Through(n) /\ Through(n) \in Nat
  BY <1>6, SpansStand
<1>8. Informed'
  BY <1>5, <1>6, OthersInformed
<1> HIDE DEF v, p
<1>9. NewestIs(n)'
  BY <1>1, <1>4, <1>5 DEF SummariesAt, NewestIs
<1>10. Queued(n)'
  BY <1>1, <1>4, <1>5 DEF SummariesAt, Queued
<1>11. Exact(n)'
  BY <1>5, <1>6, <1>7 DEF SummariesAt, Exact
<1>12. SummariesAt(n)'
  BY <1>7, <1>8, <1>9, <1>10, <1>11 DEF SummariesAt
<1>13. QED
  BY <1>7, <1>12 DEF Onward

LEMMA CompleteFacts ==
    ASSUME Inv, NEW w \in Workers, CompleteSummary(w), work[w].snap \in 1..Len(snap)
    PROVE  LET v == work[w].snap
               p == work[w].prev
           IN  /\ Len(snap') = Len(snap)
               /\ \A k \in 1..Len(snap) :
                     /\ snap'[k].status = IF k <= Len(snap) - Keep THEN "pruned"
                                          ELSE IF k = v THEN "completed"
                                          ELSE IF k = p THEN "superseded"
                                          ELSE snap[k].status
                     /\ snap'[k].from = snap[k].from
                     /\ snap'[k].through = snap[k].through
                     /\ snap'[k].content = IF k = v THEN work[w].read
                                           ELSE snap[k].content
                     /\ snap'[k].stale = snap[k].stale
<1> DEFINE v == work[w].snap
           p == work[w].prev
           done == [s \in 1..Len(snap) |->
              IF s = v
              THEN [snap[s] EXCEPT !.status = "completed", !.content = work[w].read]
              ELSE IF s = p THEN [snap[s] EXCEPT !.status = "superseded"] ELSE snap[s]]
<1>1. /\ snap \in Seq(Snapshot) /\ Len(snap) \in Nat
      /\ \A k \in 1..Len(snap) : snap[k] \in Snapshot
  BY SnapFacts DEF Inv, SummaryTypes
<1>2. work[w].read \in SUBSET Ids
  BY DEF Inv, SummaryTypes, Reading
<1>3. \A k \in 1..Len(snap) :
         /\ done[k] \in Snapshot
         /\ done[k].status = IF k = v THEN "completed"
                             ELSE IF k = p THEN "superseded" ELSE snap[k].status
         /\ done[k].from = snap[k].from /\ done[k].through = snap[k].through
         /\ done[k].content = IF k = v THEN work[w].read ELSE snap[k].content
         /\ done[k].stale = snap[k].stale
  BY <1>1, <1>2 DEF Snapshot
<1>4. done \in [1..Len(snap) -> Snapshot]
  BY <1>3, Zenon
<1>5. snap' = Pruned(done)
  BY DEF CompleteSummary
<1> HIDE DEF done
<1>6. Len(done) = Len(snap)
  BY <1>1, <1>4
<1>7. \A r \in Snapshot :
         LET x == [r EXCEPT !.status = "pruned"]
         IN  /\ x \in Snapshot /\ x.status = "pruned" /\ x.from = r.from
             /\ x.through = r.through /\ x.content = r.content /\ x.stale = r.stale
  BY DEF Snapshot
<1>8. snap' = [k \in 1..Len(snap) |->
                  IF k <= Len(snap) - Keep
                  THEN [done[k] EXCEPT !.status = "pruned"] ELSE done[k]]
  BY <1>5, <1>6 DEF Pruned
<1>9. Len(snap') = Len(snap)
  BY <1>1, <1>8
<1>10. \A k \in 1..Len(snap) :
          /\ k <= Len(snap) - Keep => snap'[k] = [done[k] EXCEPT !.status = "pruned"]
          /\ ~(k <= Len(snap) - Keep) => snap'[k] = done[k]
  BY <1>8
<1> HIDE DEF v, p
<1>11. ASSUME NEW k \in 1..Len(snap)
       PROVE  /\ snap'[k].status = IF k <= Len(snap) - Keep THEN "pruned"
                                   ELSE done[k].status
              /\ snap'[k].from = done[k].from
              /\ snap'[k].through = done[k].through
              /\ snap'[k].content = done[k].content
              /\ snap'[k].stale = done[k].stale
  <2>1. done[k] \in Snapshot
    BY <1>3
  <2>2. PICK x : x = [done[k] EXCEPT !.status = "pruned"]
    OBVIOUS
  <2>3. /\ x.status = "pruned" /\ x.from = done[k].from
        /\ x.through = done[k].through /\ x.content = done[k].content
        /\ x.stale = done[k].stale
    BY <1>7, <2>1, <2>2
  <2>4. CASE k <= Len(snap) - Keep
    BY <1>10, <2>2, <2>3, <2>4
  <2>5. CASE ~(k <= Len(snap) - Keep)
    BY <1>10, <2>5
  <2>6. QED
    BY <2>4, <2>5
<1>12. QED
  BY <1>3, <1>9, <1>11 DEF v, p

\* A summary that is completed, first or again, is the newest one or leaves a
\* newer one in its place.
LEMMA CompleteGrows ==
    ASSUME Inv, FewGivenUp, NEW n, SummariesAt(n), NEW w \in Workers,
           CompleteSummary(w)
    PROVE  Onward(n)
<1>0. PICK v, p : v = work[w].snap /\ p = work[w].prev /\ AtWork(w)
  BY DEF CompleteSummary
<1>1. /\ Len(snap) \in Nat /\ n \in 0..Len(snap) /\ v \in 1..Len(snap)
      /\ p \in Nat /\ p < v /\ Keep \in Nat
      /\ work[w].read = Said(msg, snap[v].through)
  BY <1>0, SnapFacts, CountsAssumption
  DEF Inv, SummaryTypes, Reading, SummariesAt, NewestIs, Informed
<1>2. PICK x \in 1..Len(snap) : x >= n /\ x >= v /\ (x = v \/ x = n)
  <2>1. CASE v >= n
    BY <1>1, <2>1
  <2>2. CASE ~(v >= n)
    <3>1. n \in 1..Len(snap) /\ n >= n /\ n >= v
      BY <1>1, <2>2
    <3>2. QED
      BY <3>1
  <2>3. QED
    BY <2>1, <2>2
<1>3. /\ Len(snap') = Len(snap)
      /\ \A k \in 1..Len(snap) :
            /\ snap'[k].status = IF k <= Len(snap) - Keep THEN "pruned"
                                 ELSE IF k = v THEN "completed"
                                 ELSE IF k = p THEN "superseded"
                                 ELSE snap[k].status
            /\ snap'[k].from = snap[k].from
            /\ snap'[k].through = snap[k].through
            /\ snap'[k].content = IF k = v THEN work[w].read ELSE snap[k].content
            /\ snap'[k].stale = snap[k].stale
  BY <1>0, <1>1, CompleteFacts
<1>4. /\ work' = [work EXCEPT ![w] = Idle] /\ msg' = msg /\ gens' = gens
      /\ SameSpans
  BY <1>3 DEF CompleteSummary, Rest, chat, SameSpans
<1>5. Spans' /\ Through(n)' = Through(n) /\ Through(n) \in Nat
  BY <1>4, SpansStand
<1>6. Informed'
  BY <1>3, <1>4, OthersInformed
<1>8. Len(snap) <= x + 1
  BY <1>0, <1>1, <1>2, OneNewer
<1>9. Keep >= 3
  <2>1. PICK k \in 1..(1 + Keep - 3) : TRUE
    <3>1. 1 \in 1..Len(snap)
      BY <1>1
    <3>2. CASE 1 + Keep - 3 <= Len(snap)
      BY <3>1, <3>2 DEF FewGivenUp
    <3>3. CASE ~(1 + Keep - 3 <= Len(snap))
      BY <1>1, <3>3
    <3>4. QED
      BY <3>2, <3>3
  <2>2. QED
    BY <1>1, <2>1
<1>10. ~(x <= Len(snap) - Keep) /\ x # p
  BY <1>1, <1>2, <1>8, <1>9
<1>11. snap'[x].status = "completed"
  <2>1. x = v \/ snap[x].status = "completed"
    BY <1>2 DEF SummariesAt, NewestIs
  <2>2. QED
    BY <1>2, <1>3, <1>10, <2>1
<1>12. NewestIs(x)'
  <2>1. ASSUME NEW k \in 1..Len(snap), snap'[k].status = "completed" PROVE k <= x
    <3>1. k = v \/ snap[k].status = "completed"
      BY <1>3, <2>1
    <3>2. CASE k = v
      BY <1>1, <1>2, <3>2
    <3>3. CASE snap[k].status = "completed"
      <4>1. k <= n
        BY <3>3 DEF SummariesAt, NewestIs
      <4>2. QED
        BY <1>1, <1>2, <4>1
    <3>4. QED
      BY <3>1, <3>2, <3>3
  <2>2. QED
    BY <1>2, <1>3, <1>11, <2>1 DEF NewestIs
<1>13. Queued(x)'
  <2>1. ASSUME NEW k \in 1..Len(snap')
        PROVE  /\ k < Len(snap') => snap'[k].status # "pending"
               /\ k = Len(snap') => snap'[k].status \in {"pending", "completed"}
               /\ x < k /\ k < Len(snap') => snap'[k].stale
               /\ snap'[k].status = "pruned" => k <= Len(snap') - Keep
    <3>1. k \in 1..Len(snap) /\ Len(snap') = Len(snap)
      BY <1>3
    <3>2. /\ k < Len(snap) => snap[k].status # "pending"
          /\ k = Len(snap) => snap[k].status \in {"pending", "completed"}
          /\ snap[k].status = "pruned" => k <= Len(snap) - Keep
      BY <3>1 DEF SummariesAt, Queued
    <3>3. ~(x < k /\ k < Len(snap))
      BY <1>1, <1>2, <1>8, <3>1
    <3>4. snap'[k].status = IF k <= Len(snap) - Keep THEN "pruned"
                            ELSE IF k = v THEN "completed"
                            ELSE IF k = p THEN "superseded"
                            ELSE snap[k].status
      BY <1>3, <3>1
    <3>5. k < Len(snap) => snap'[k].status # "pending"
      BY <3>2, <3>4
    <3>6. snap'[k].status = "pruned" => k <= Len(snap) - Keep
      BY <3>2, <3>4
    <3>7. k = Len(snap) => snap'[k].status \in {"pending", "completed"}
      <4>1. k = Len(snap) => ~(k <= Len(snap) - Keep) /\ k # p
        BY <1>1, <1>9
      <4>2. QED
        BY <3>2, <3>4, <4>1
    <3>8. QED
      BY <3>1, <3>3, <3>5, <3>6, <3>7
  <2>2. QED
    BY <2>1, Zenon DEF Queued
<1>14. Through(n) <= Through(x)'
  <2>1. CASE n = 0
    <3>1. Through(x)' = snap[x].through /\ snap[x].through \in Nat
      BY <1>1, <1>2, <1>3 DEF Through, SummariesAt, Spans
    <3>2. QED
      BY <2>1, <3>1 DEF Through
  <2>2. CASE n # 0
    <3>1. n \in 1..x
      BY <1>1, <1>2, <2>2
    <3>2. snap[n].through <= snap[x].through
      BY <1>2, <3>1 DEF SummariesAt, Spans
    <3>3. Through(x)' = snap[x].through
      BY <1>1, <1>2, <1>3 DEF Through
    <3>4. QED
      BY <2>2, <3>2, <3>3 DEF Through
  <2>3. QED
    BY <2>1, <2>2
<1>15. Exact(x)'
  <2>1. ASSUME NEW k \in 1..Len(snap'), snap'[k].status = "completed"
        PROVE  snap'[k].content = Said(msg', snap'[k].through)
    <3>1. k \in 1..Len(snap)
      BY <1>3
    <3>2. CASE k = v
      BY <1>1, <1>3, <1>4, <3>1, <3>2
    <3>3. CASE k # v
      <4>1. snap[k].status = "completed"
        BY <1>3, <2>1, <3>1, <3>3
      <4>2. snap[k].content = Said(msg, snap[k].through)
        BY <3>1, <4>1 DEF SummariesAt, Exact
      <4>3. QED
        BY <1>3, <1>4, <3>1, <3>3, <4>2
    <3>4. QED
      BY <3>2, <3>3
  <2>2. ASSUME NEW k \in 1..Len(snap'), snap'[k].status = "pending",
               NEW m \in 1..(snap'[k].from - 1), Says(msg', m)
        PROVE  m <= Through(x)'
    <3>1. k \in 1..Len(snap) /\ snap[k].status = "pending"
      BY <1>3, <2>2
    <3>2. m <= Through(n)
      BY <1>3, <1>4, <2>2, <3>1 DEF SummariesAt, Exact
    <3>3. Through(x)' \in Nat
      <4>1. snap[x].through \in 1..Len(msg)
        BY <1>2 DEF SummariesAt, Spans
      <4>2. Through(x)' = snap[x].through
        BY <1>1, <1>2, <1>3 DEF Through
      <4>3. QED
        BY <4>1, <4>2
    <3>4. m \in Nat
      BY <1>3, <3>1 DEF SummariesAt, Spans
    <3>5. QED
      BY <1>5, <1>14, <3>2, <3>3, <3>4
  <2>3. QED
    BY <2>1, <2>2 DEF Exact
<1>16. SummariesAt(x)'
  BY <1>5, <1>6, <1>12, <1>13, <1>15 DEF SummariesAt
<1>17. QED
  BY <1>14, <1>16 DEF Onward

\* A worker's step, in a conversation nobody deletes.
LEMMA WorkGrows ==
    ASSUME Inv, Inv', "provider" \notin Faults, conv # "deleted", FewGivenUp,
           NEW n, SummariesAt(n), NEW w \in Workers, Work(w)
    PROVE  Onward(n)
<1>1. ASSUME NEW v \in 1..Len(snap), SkipSummary(w, v) PROVE Onward(n)
  <2>1. snap' = snap /\ work' = work /\ msg' = msg /\ gens' = gens
    BY <1>1 DEF SkipSummary, Took, chat
  <2>2. Informed'
    BY <2>1 DEF SummariesAt, Informed, AtWork
  <2>3. QED
    BY <2>1, <2>2, SummariesStand
<1>2. ASSUME NEW v \in 1..Len(snap) PROVE ~DropSummary(w, v)
  BY DEF DropSummary
<1>3. ASSUME NEW v \in 1..Len(snap), ReadForSummary(w, v) PROVE Onward(n)
  BY <1>3, ReadGrows
<1>4. CASE CompleteSummary(w)
  BY <1>4, CompleteGrows
<1>5. CASE FailSummary(w)
  BY <1>5, FailGrows
<1>6. CASE GiveUp(w)
  <2>1. /\ snap' = snap /\ work' = [work EXCEPT ![w] = Idle] /\ msg' = msg
        /\ gens' = gens /\ SameSpans
    BY <1>6 DEF GiveUp, Rest, chat, SameSpans
  <2>2. Informed'
    BY <2>1, OthersInformed
  <2>3. QED
    BY <2>1, <2>2, SummariesStand
<1>7. QED
  BY <1>1, <1>2, <1>3, <1>4, <1>5, <1>6 DEF Work

-----------------------------------------------------------------------------
(***************************************************************************)
(* Nothing is forgotten.                                                   *)
(***************************************************************************)

\* The invariant of the summaries, in a conversation nobody deletes.
Undeleted == conv # "deleted" /\ ~deleting

SummaryInv ==
    Inv /\ RowsBlank /\ Undeleted /\ SummariesAt(Newest(Completed))

LEMMA NewestCompleted ==
    ASSUME Inv, NEW n, SummariesAt(n) PROVE n = Newest(Completed)
<1>1. Len(snap) \in Nat
  BY SnapFacts DEF Inv
<1>2. QED
  BY <1>1, NewestUnique DEF SummariesAt, NewestIs, Completed

LEMMA NewestCompletedNext ==
    ASSUME Inv', NEW n, SummariesAt(n)' PROVE n = Newest(Completed)'
<1>1. Len(snap') \in Nat
  BY DEF Inv, SummaryTypes
<1>2. QED
  BY <1>1, NewestUnique DEF SummariesAt, NewestIs, Completed

\* Nobody deletes the conversation.
LEMMA UndeletedStays ==
    ASSUME Inv, "delete" \notin Requests, Undeleted, [Next]_vars PROVE Undeleted'
<1>1. ASSUME NEW g \in gens, Generate(g) PROVE Undeleted'
  <2>1. CASE Start(g) \/ Delta(g) \/ Close(g) \/ Leave(g) \/ Reload(g)
    BY <2>1 DEF Start, Delta, Close, Leave, Reload, Undeleted
  <2>2. CASE FailPartial(g) \/ FailEmpty(g)
    <3>1. conv' = conv /\ deleting' = deleting
      BY <2>2, Zenon DEF FailPartial, FailEmpty
    <3>2. QED
      BY <3>1 DEF Undeleted
  <2>3. ASSUME NEW status, Answer(g, status) PROVE Undeleted'
    BY <2>3 DEF Answer, Undeleted
  <2>4. CASE Cancelled(g) \/ CloseLeft(g)
    BY <2>4 DEF Cancelled, CloseLeft, Undeleted
  <2>5. QED
    BY <1>1, <2>1, <2>2, <2>3, <2>4 DEF Generate
<1>2. ASSUME NEW kind \in Kinds, PostMessage(kind) \/ Regenerate(kind)
      PROVE  Undeleted'
  BY <1>2 DEF PostMessage, Regenerate, Begin, Undeleted
<1>3. CASE Manage
  BY <1>3 DEF Manage, Stop, Delete, MarkDeleted, Restore, Restart, Archive,
              DeepSearchCancelled, Undeleted
<1>4. CASE RefreshSummary
  BY <1>4 DEF RefreshSummary, chat, Undeleted
<1>5. ASSUME NEW v \in 1..Len(snap), SummaryGrowsStale(v) PROVE Undeleted'
  BY <1>5 DEF SummaryGrowsStale, chat, Undeleted
<1>6. ASSUME NEW w \in Workers, Work(w) PROVE Undeleted'
  BY <1>6, WorkTypes DEF Inv, chat, Undeleted
<1>7. CASE UNCHANGED vars
  BY <1>7 DEF vars, chat, Undeleted
<1>8. QED
  BY <1>1, <1>2, <1>3, <1>4, <1>5, <1>6, <1>7 DEF Next

\* An answer that is stored asks for a summary when no other generator has
\* its row open.
LEMMA GenerateOnward ==
    ASSUME Inv, Inv', RowsBlank, RowsGrow, NEW n, SummariesAt(n), NEW g \in gens,
           Generate(g)
    PROVE  Onward(n)
<1>0. Through(n) \in Nat
  <2>1. n \in 0..Len(snap) /\ Len(snap) \in Nat
    BY SnapFacts DEF Inv, SummariesAt, NewestIs
  <2>2. QED
    BY <2>1 DEF SummariesAt, Spans, Through
<1>1. ASSUME UNCHANGED summary PROVE Onward(n)
  <2>1. snap' = snap /\ work' = work
    BY <1>1 DEF summary
  <2>2. SummariesAt(n)'
    BY <2>1, ChatAlone
  <2>3. Through(n)' = Through(n)
    BY <2>1 DEF Through
  <2>4. QED
    BY <1>0, <2>2, <2>3 DEF Onward
<1>2. ASSUME NEW status \in Terminal, UnderWay(g), AfterFinal(g), AskForSummary(g),
             msg' = Finalized(g, status, TRUE)
      PROVE  Onward(n)
  <2>1. \A h \in gens : h = g
    BY <1>2 DEF UnderWay, NoneLeft, Inv, ChatInv, Registered
  <2>2. \A x \in gens' : ~x.open
    <3>1. \A x \in gens' : x \in gens \/ x.open = FALSE
      BY <1>2 DEF AfterFinal, Becomes, End, Inv, ChatInv, ChatTypes, Generator
    <3>2. \A x \in gens' : x.id = g.id => ~x.open
      BY <1>2, AnswerGrows DEF UnderWay, Inv
    <3>3. QED
      BY <2>1, <3>1, <3>2
  <2>3. CASE Enqueue(msg')
    <3>1. PICK rows : rows = msg'
      OBVIOUS
    <3>2. Enqueue(rows)
      BY <2>3, <3>1
    <3>3. SummariesAt(n)' /\ Through(n)' = Through(n)
      BY <2>2, <3>1, <3>2, EnqueueGrows
    <3>4. QED
      BY <1>0, <3>3 DEF Onward
  <2>4. QED
    BY <1>1, <1>2, <2>3 DEF AskForSummary
<1>3. ASSUME NEW status \in {"completed", "partial"}, Answer(g, status)
      PROVE  Onward(n)
  BY <1>2, <1>3 DEF Answer, Terminal, Finished
<1>4. CASE FailPartial(g)
  BY <1>2, <1>4 DEF FailPartial, Terminal, Finished
<1>5. QED
  BY <1>1, <1>3, <1>4 DEF Generate, Start, Delta, FailEmpty, Close, Cancelled, Leave,
                          CloseLeft, Reload

LEMMA RefreshOnward ==
    ASSUME Inv, Inv', RowsBlank, RowsGrow, NEW n, SummariesAt(n), RefreshSummary
    PROVE  Onward(n)
<1>1. PICK rows : rows = msg /\ Enqueue(rows)
  BY DEF RefreshSummary
<1>2. msg' = rows /\ gens' = gens
  BY <1>1 DEF RefreshSummary, chat
<1>3. \A x \in gens' : x.open => \A m \in 1..Len(msg') : Says(msg', m) => x.id > m
  <2>1. ASSUME NEW x \in gens, x.open, NEW m \in 1..Len(msg), Says(msg, m)
        PROVE  x.id > m
    <3>1. x.id = Len(msg) /\ ~msg[x.id].text /\ Len(msg) \in Nat
      BY <2>1 DEF RefreshSummary, NoneLeft, RowsBlank, Inv, ChatInv, ChatTypes
    <3>2. m # x.id
      BY <2>1, <3>1 DEF Says
    <3>3. QED
      BY <3>1, <3>2
  <2>2. QED
    BY <1>1, <1>2, <2>1
<1>4. SummariesAt(n)' /\ Through(n)' = Through(n)
  BY <1>1, <1>2, <1>3, EnqueueGrows
<1>5. Through(n) \in Nat
  <2>1. n \in 0..Len(snap) /\ Len(snap) \in Nat
    BY SnapFacts DEF Inv, SummariesAt, NewestIs
  <2>2. QED
    BY <2>1 DEF SummariesAt, Spans, Through
<1>6. QED
  BY <1>4, <1>5 DEF Onward

LEMMA SummaryInvInitially == ASSUME Init PROVE SummaryInv
<1>1. Inv
  BY InvInitially
<1>2. Len(msg) = 0 /\ Len(snap) = 0 /\ gens = {} /\ snap = <<>>
  BY DEF Init
<1>3. RowsBlank /\ Undeleted
  BY <1>2 DEF Init, RowsBlank, Undeleted
<1>4. \A w \in Workers : ~AtWork(w)
  BY DEF Init, AtWork, Idle
<1>5. SummariesAt(0)
  BY <1>2, <1>4 DEF SummariesAt, NewestIs, Spans, Queued, Exact, Informed
<1>6. 0 = Newest(Completed)
  BY <1>1, <1>5, NewestCompleted
<1>7. QED
  BY <1>1, <1>3, <1>5, <1>6 DEF SummaryInv

\* Every step keeps it, and the newest completed summary ends no earlier.
LEMMA SummaryInvStays ==
    ASSUME "provider" \notin Faults, "delete" \notin Requests,
           SummaryInv, FewGivenUp, [Next]_vars
    PROVE  /\ SummaryInv' /\ RowsGrow
           /\ Through(Newest(Completed)) <= Through(Newest(Completed))'
<1>1. Inv /\ RowsBlank /\ Undeleted
  BY DEF SummaryInv
<1>2. PICK n : n = Newest(Completed) /\ SummariesAt(n)
  BY DEF SummaryInv
<1>3. Inv' /\ RowsBlank' /\ RowsGrow /\ Undeleted'
  BY <1>1, NextKeeps, ChatGrows, UndeletedStays
<1>4. Onward(n)
  <2>0. Through(n) \in Nat
    <3>1. n \in 0..Len(snap) /\ Len(snap) \in Nat
      BY <1>1, <1>2, SnapFacts DEF Inv, SummariesAt, NewestIs
    <3>2. QED
      BY <1>2, <3>1 DEF SummariesAt, Spans, Through
  <2>1. ASSUME snap' = snap, work' = work PROVE Onward(n)
    <3>1. SummariesAt(n)'
      BY <1>1, <1>2, <1>3, <2>1, ChatAlone
    <3>2. Through(n)' = Through(n)
      BY <2>1 DEF Through
    <3>3. QED
      BY <2>0, <3>1, <3>2 DEF Onward
  <2>2. ASSUME NEW kind \in Kinds, PostMessage(kind) \/ Regenerate(kind)
        PROVE  Onward(n)
    BY <2>1, <2>2 DEF PostMessage, Regenerate, Begin, summary
  <2>3. ASSUME NEW g \in gens, Generate(g) PROVE Onward(n)
    BY <1>1, <1>2, <1>3, <2>3, GenerateOnward
  <2>4. CASE Manage
    BY <1>1, <2>1, <2>4, ManageKeeps DEF Inv, summary
  <2>5. CASE RefreshSummary
    BY <1>1, <1>2, <1>3, <2>5, RefreshOnward
  <2>6. ASSUME NEW v \in 1..Len(snap), SummaryGrowsStale(v) PROVE Onward(n)
    BY <1>1, <1>2, <2>6, StaleGrows
  <2>7. ASSUME NEW w \in Workers, Work(w) PROVE Onward(n)
    BY <1>1, <1>2, <1>3, <2>7, WorkGrows DEF Undeleted
  <2>8. CASE UNCHANGED vars
    BY <2>1, <2>8 DEF vars, summary
  <2>9. QED
    BY <2>2, <2>3, <2>4, <2>5, <2>6, <2>7, <2>8 DEF Next
<1>5. PICK k : SummariesAt(k)' /\ Through(n) <= Through(k)'
  BY <1>4 DEF Onward
<1>6. k = Newest(Completed)'
  BY <1>3, <1>5, NewestCompletedNext
<1>7. SummaryInv'
  BY <1>3, <1>5, <1>6 DEF SummaryInv
<1>8. Through(n) <= Through(Newest(Completed))'
  BY <1>5, <1>6 DEF Through
<1>9. QED
  BY <1>2, <1>3, <1>7, <1>8

\* What a turn is told covers the conversation, however late, often or seldom
\* the workers write their summaries, as long as few in a row are given up: no
\* provider fails, and nobody deletes the conversation (history.py,
\* summaries/service.py).
THEOREM TurnsAreToldAll ==
    ASSUME "provider" \notin Faults, "delete" \notin Requests
    PROVE  Spec /\ []FewGivenUp => []NothingForgotten
<1>1. ASSUME SummaryInv PROVE NothingForgotten
  <2>1. PICK n : n = Newest(Completed) /\ SummariesAt(n)
    BY <1>1 DEF SummaryInv
  <2>2. Len(msg) \in Nat /\ Len(snap) \in Nat /\ n \in 0..Len(snap)
    BY <1>1, <2>1, SnapFacts
    DEF SummaryInv, Inv, ChatInv, ChatTypes, SummariesAt, NewestIs
  <2>3. ASSUME NEW m \in 1..Len(msg), Usable(m), ~Replaced(m, Len(msg) + 1)
        PROVE  m \in Context(Len(msg) + 1)
    <3>1. CASE m > Through(n)
      BY <2>1, <2>2, <2>3, <3>1 DEF Context
    <3>2. CASE ~(m > Through(n))
      <4>1. n # 0 /\ snap[n].through \in 1..Len(msg)
            /\ snap[n].content = Said(msg, snap[n].through)
        BY <2>1, <2>2, <3>2 DEF Through, SummariesAt, NewestIs, Spans, Exact
      <4>2. m \in Content(n)
        BY <2>2, <2>3, <3>2, <4>1 DEF Content, Through, Said, Says, Usable
      <4>3. QED
        BY <2>1, <4>2 DEF Context
    <3>3. QED
      BY <3>1, <3>2
  <2>4. QED
    BY <2>3 DEF NothingForgotten
<1>2. SummaryInv /\ FewGivenUp /\ [Next]_vars => SummaryInv'
  BY SummaryInvStays
<1>3. QED
  BY SummaryInvInitially, <1>1, <1>2, PTL DEF Spec

\* The summary a turn is told never shrinks, in the same cases.
THEOREM SummariesGrow ==
    ASSUME "provider" \notin Faults, "delete" \notin Requests
    PROVE  Spec /\ []FewGivenUp => SummaryGrows
<1>1. ASSUME SummaryInv, FewGivenUp, [Next]_vars
      PROVE  /\ SummaryInv'
             /\ Content(Newest(Completed)) \subseteq Content(Newest(Completed))'
  <2>1. /\ SummaryInv' /\ RowsGrow
        /\ Through(Newest(Completed)) <= Through(Newest(Completed))'
    BY <1>1, SummaryInvStays
  <2>2. PICK n : n = Newest(Completed) /\ SummariesAt(n)
    BY <1>1 DEF SummaryInv
  <2>3. PICK k : k = Newest(Completed)' /\ SummariesAt(k)'
    BY <2>1 DEF SummaryInv
  <2>4. /\ Content(Newest(Completed))' = IF k = 0 THEN {} ELSE snap'[k].content
        /\ Through(Newest(Completed))' = IF k = 0 THEN 0 ELSE snap'[k].through
    BY <2>3 DEF Content, Through
  <2>5. /\ Len(msg) \in Nat /\ Len(msg') \in Nat /\ Len(snap) \in Nat
        /\ n \in 0..Len(snap) /\ k \in 0..Len(snap')
    BY <1>1, <2>1, <2>2, <2>3, SnapFacts
    DEF SummaryInv, Inv, ChatInv, ChatTypes, SummariesAt, NewestIs
  <2>6. ASSUME NEW m \in Content(n) PROVE m \in Content(Newest(Completed))'
    <3>1. /\ n # 0 /\ snap[n].through \in 1..Len(msg)
          /\ snap[n].content = Said(msg, snap[n].through)
      BY <2>2, <2>5, <2>6 DEF Content, SummariesAt, NewestIs, Spans, Exact
    <3>2. m \in 1..snap[n].through /\ Says(msg, m)
      BY <2>6, <3>1 DEF Content, Said
    <3>3. Through(n) = snap[n].through
      BY <3>1 DEF Through
    <3>4. k # 0
      BY <2>1, <2>2, <2>4, <3>1, <3>3
    <3>5. /\ k \in 1..Len(snap') /\ snap'[k].through \in 1..Len(msg')
          /\ snap'[k].content = Said(msg', snap'[k].through)
      BY <2>3, <2>5, <3>4 DEF SummariesAt, NewestIs, Spans, Exact
    <3>6. m \in 1..snap'[k].through
      BY <2>1, <2>2, <2>4, <2>5, <3>1, <3>2, <3>3, <3>4, <3>5
    <3>7. Says(msg', m)
      BY <2>1, <2>5, <3>1, <3>2 DEF RowsGrow
    <3>8. QED
      BY <2>4, <3>4, <3>5, <3>6, <3>7 DEF Said
  <2>7. QED
    BY <2>1, <2>2, <2>6
<1>2. QED
  BY SummaryInvInitially, <1>1, PTL DEF Spec, SummaryGrows

-----------------------------------------------------------------------------
(***************************************************************************)
(* What is given up is bounded by the steps in which summaries grow stale. *)
(***************************************************************************)

Stale == {s \in 1..Len(snap) : snap[s].stale}

StaleBounded == IsFiniteSet(Stale) /\ Cardinality(Stale) <= MaxStale

\* A summary grows stale in a step of its own.
LEMMA StaleStays ==
    ASSUME SummaryInv, [Next]_vars
    PROVE  \/ Stale' = Stale
           \/ Cardinality(Stale) < MaxStale /\ \E v : Stale' = Stale \cup {v}
<1>1. Inv /\ Undeleted /\ Len(snap) \in Nat /\ Inv'
  BY NextKeeps, SnapFacts DEF SummaryInv, Inv
<1>2. PICK n : SummariesAt(n)
  BY DEF SummaryInv
<1>3. snap' = snap => Stale' = Stale
  BY DEF Stale
<1>4. ASSUME Len(snap') = Len(snap),
             \A k \in 1..Len(snap) : snap'[k].stale = snap[k].stale
      PROVE  Stale' = Stale
  BY <1>4 DEF Stale
<1>5. ASSUME NEW rows, Len(rows) \in 0..MaxMessages, Enqueue(rows)
      PROVE  Stale' = Stale
  <2>1. \/ snap' = snap
        \/ /\ Len(snap') = Len(snap) + 1
           /\ \A k \in 1..Len(snap) : snap'[k].stale = snap[k].stale
           /\ snap'[Len(snap) + 1].stale = FALSE
    <3>1. \/ snap' = snap
          \/ \E a, b \in 1..Len(rows) :
                /\ Len(snap') = Len(snap) + 1
                /\ \A k \in 1..Len(snap) : snap'[k].stale = snap[k].stale
                /\ snap'[Len(snap) + 1] =
                      [ status |-> "pending", from |-> a, through |-> b,
                        content |-> {}, stale |-> FALSE ]
      BY <1>1, <1>2, <1>5, EnqueueFacts
    <3>2. ASSUME NEW a, NEW b,
                 snap'[Len(snap) + 1] =
                    [ status |-> "pending", from |-> a, through |-> b,
                      content |-> {}, stale |-> FALSE ]
          PROVE  snap'[Len(snap) + 1].stale = FALSE
      BY <3>2
    <3>3. QED
      BY <3>1, <3>2, Zenon
  <2>2. CASE snap' = snap
    BY <1>3, <2>2
  <2>3. CASE /\ Len(snap') = Len(snap) + 1
             /\ \A k \in 1..Len(snap) : snap'[k].stale = snap[k].stale
             /\ snap'[Len(snap) + 1].stale = FALSE
    <3>1. \A k : k \in 1..Len(snap') <=> k \in 1..Len(snap) \/ k = Len(snap) + 1
      BY <1>1, <2>3
    <3>2. \A k : k \in Stale' <=> k \in Stale
      BY <2>3, <3>1 DEF Stale
    <3>3. QED
      BY <3>2
  <2>4. QED
    BY <2>1, <2>2, <2>3
<1>6. ASSUME NEW v \in 1..Len(snap), SummaryGrowsStale(v)
      PROVE  Cardinality(Stale) < MaxStale /\ Stale' = Stale \cup {v}
  <2>1. /\ snap \in Seq(Snapshot) /\ snap[v] \in Snapshot
        /\ snap' = [snap EXCEPT ![v].stale = TRUE]
    <3>1. snap \in Seq(Snapshot) /\ snap[v] \in Snapshot
      BY <1>1, SnapFacts DEF Inv, SummaryTypes
    <3>2. QED
      BY <1>6, <3>1 DEF SummaryGrowsStale
  <2>2. /\ Len(snap') = Len(snap) /\ snap'[v].stale = TRUE
        /\ \A k \in 1..Len(snap) : k # v => snap'[k] = snap[k]
    BY <2>1 DEF Snapshot
  <2>3. \A k : k \in Stale' <=> k \in Stale \/ k = v
    BY <2>2 DEF Stale
  <2>4. Stale' = Stale \cup {v}
    BY <2>3
  <2>5. Cardinality(Stale) < MaxStale
    BY <1>6 DEF SummaryGrowsStale, Stale
  <2>6. QED
    BY <2>4, <2>5
<1>7. ASSUME NEW w \in Workers, Work(w) PROVE Stale' = Stale
  <2>1. AtWork(w) => work[w].snap \in 1..Len(snap)
    BY <1>2 DEF SummariesAt, Informed
  <2>2. CASE CompleteSummary(w)
    <3>1. work[w].snap \in 1..Len(snap)
      BY <2>1, <2>2 DEF CompleteSummary
    <3>2. /\ Len(snap') = Len(snap)
          /\ \A k \in 1..Len(snap) : snap'[k].stale = snap[k].stale
      BY <1>1, <2>2, <3>1, CompleteFacts
    <3>3. QED
      BY <1>4, <3>2
  <2>3. CASE FailSummary(w)
    <3>1. PICK v \in 1..Len(snap) : snap' = [snap EXCEPT ![v].status = "failed"]
      BY <2>1, <2>3 DEF FailSummary
    <3>2. QED
      BY <1>1, <1>4, <3>1, FailFacts
  <2>4. CASE GiveUp(w)
    BY <1>3, <2>4 DEF GiveUp
  <2>5. ASSUME NEW v \in 1..Len(snap),
               SkipSummary(w, v) \/ DropSummary(w, v) \/ ReadForSummary(w, v)
        PROVE  snap' = snap
    BY <1>1, <2>5 DEF SkipSummary, DropSummary, ReadForSummary, Undeleted
  <2>6. QED
    BY <1>3, <1>7, <2>2, <2>3, <2>4, <2>5 DEF Work
<1>8. ASSUME NEW g \in gens, Generate(g) PROVE Stale' = Stale
  <2>1. Len(msg') \in 0..MaxMessages
    BY <1>1 DEF Inv, ChatInv, ChatTypes
  <2>2. Enqueue(msg') => Stale' = Stale
    BY <1>5, <2>1
  <2>3. AskForSummary(g) => Stale' = Stale
    BY <1>3, <2>2 DEF AskForSummary, summary
  <2>4. QED
    BY <1>3, <1>8, <2>3
    DEF Generate, Start, Delta, FailPartial, FailEmpty, Answer, Close, Cancelled,
        Leave, CloseLeft, Reload, summary
<1>9. RefreshSummary => Stale' = Stale
  <2>1. Len(msg) \in 0..MaxMessages
    BY <1>1 DEF Inv, ChatInv, ChatTypes
  <2>2. QED
    BY <1>5, <2>1 DEF RefreshSummary
<1>10. ASSUME NEW kind \in Kinds, PostMessage(kind) \/ Regenerate(kind)
       PROVE  Stale' = Stale
  BY <1>3, <1>10 DEF PostMessage, Regenerate, Begin, summary
<1>11. Manage => Stale' = Stale
  BY <1>1, <1>3, ManageKeeps DEF Inv, summary
<1>12. UNCHANGED vars => Stale' = Stale
  BY <1>3 DEF vars, summary
<1>13. QED
  BY <1>6, <1>7, <1>8, <1>9, <1>10, <1>11, <1>12 DEF Next

LEMMA StaleBoundedStays ==
    ASSUME SummaryInv, StaleBounded, [Next]_vars PROVE StaleBounded'
<1>1. CASE Stale' = Stale
  BY <1>1 DEF StaleBounded
<1>2. ASSUME NEW v, Cardinality(Stale) < MaxStale, Stale' = Stale \cup {v}
      PROVE  StaleBounded'
  <2>1. /\ IsFiniteSet(Stale \cup {v}) /\ Cardinality(Stale) \in Nat
        /\ Cardinality(Stale \cup {v}) =
              IF v \in Stale THEN Cardinality(Stale) ELSE Cardinality(Stale) + 1
    BY FS_AddElement, FS_CardinalityType DEF StaleBounded
  <2>2. QED
    BY <1>2, <2>1, CountsAssumption DEF StaleBounded
<1>3. QED
  BY <1>1, <1>2, StaleStays

LEMMA FewAreGivenUp ==
    ASSUME SummaryInv, StaleBounded, MaxStale + 2 < Keep PROVE FewGivenUp
<1>1. Len(snap) \in Nat /\ Keep \in Nat /\ MaxStale \in Nat
  BY SnapFacts, CountsAssumption DEF SummaryInv, Inv
<1>2. ASSUME NEW v \in 1..Len(snap), v + Keep - 3 <= Len(snap),
             \A k \in v..(v + Keep - 3) : snap[k].stale
      PROVE  FALSE
  <2>1. v..(v + Keep - 3) \subseteq Stale
    BY <1>1, <1>2 DEF Stale
  <2>2. Cardinality(v..(v + Keep - 3)) = Keep - 2
    <3>1. PICK b \in Int : b = v + Keep - 3 /\ ~(v > b)
      BY <1>1
    <3>2. Cardinality(v..b) = b - v + 1
      BY <3>1, FS_Interval
    <3>3. QED
      BY <1>1, <3>1, <3>2
  <2>3. Cardinality(v..(v + Keep - 3)) <= Cardinality(Stale)
    BY <2>1, FS_Subset DEF StaleBounded
  <2>4. Cardinality(Stale) \in Nat
    BY FS_CardinalityType DEF StaleBounded
  <2>5. QED
    BY <1>1, <2>2, <2>3, <2>4 DEF StaleBounded
<1>3. QED
  BY <1>2 DEF FewGivenUp

\* Both, of every behaviour, when fewer summaries than are kept can grow stale:
\* no summary a worker builds on is then pruned under it (Keep is 10 by default,
\* config.py).
THEOREM TurnsAreToldAllIfFewGrowStale ==
    ASSUME "provider" \notin Faults, "delete" \notin Requests, MaxStale + 2 < Keep
    PROVE  Spec => []NothingForgotten /\ SummaryGrows
<1>1. Init => SummaryInv /\ StaleBounded
  <2>1. ASSUME Init PROVE StaleBounded
    <3>1. Stale = {}
      BY <2>1 DEF Init, Stale
    <3>2. QED
      BY <3>1, FS_EmptySet, CountsAssumption DEF StaleBounded
  <2>2. QED
    BY <2>1, SummaryInvInitially
<1>2. SummaryInv /\ StaleBounded /\ [Next]_vars => SummaryInv' /\ StaleBounded'
  BY SummaryInvStays, StaleBoundedStays, FewAreGivenUp
<1>3. SummaryInv /\ StaleBounded => FewGivenUp
  BY FewAreGivenUp
<1>4. QED
  BY <1>1, <1>2, <1>3, TurnsAreToldAll, SummariesGrow, PTL DEF Spec
=============================================================================
