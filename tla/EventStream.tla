---------------------------- MODULE EventStream ----------------------------
(***************************************************************************)
(* The events of a task and the stream that sends them to a client:        *)
(* append_event of wisense_os/store.py, the order in which                 *)
(* wisense_os/service.py writes statuses and events, and task_event_stream *)
(* of wisense_os/api.py.                                                   *)
(*                                                                         *)
(* A thread has a script: status rows and events it still has to write.    *)
(* Critical sections run under the lock; submit and the reservations of    *)
(* the budget append without it.  An append is two statements,             *)
(* MAX(sequence) + 1 and the insert, and a poll is two reads.  Of the life *)
(* of a task only its statuses matter here; Follows has the moves that     *)
(* TaskLife makes, without the rows that decide between them.              *)
(***************************************************************************)
EXTENDS Naturals, SequencesExt

CONSTANTS
  Tasks,        \* task ids
  TalkTasks,    \* those submitted as talk_only, which change no files
  Holder,       \* the thread that is inside a critical section, whichever it is
  Requests,     \* threads that append without the lock
  Streams,      \* requests of the event stream
  None,         \* no status read, no task
  MaxPolls,     \* polls of one stream (90 in the code)
  MaxTasks,     \* bound: tasks that are submitted
  MaxEvents     \* bound: no script begins that would make a log longer

Threads == {Holder} \cup Requests

VARIABLES
  status,     \* tasks.status; "absent" before the row, "purged" after it
  log,        \* task_events: entries with a sequence number and a kind
  script,     \* what each thread has yet to write
  slot,       \* the number it has computed for its next event; 0 before
  place,      \* where each stream stands
  local,      \* the locals of its generator; sent, owed are history
  \* History, read by no action.
  earlier     \* how far the log went when the task's status was last written

writers == <<script, slot>>
streams == <<place, local>>
vars    == <<status, log, writers, streams, earlier>>

Active == {"accepted", "exploring", "waiting_for_approval", "waiting_for_provider_input",
           "running"}
Final  == {"blocked", "completed", "failed", "canceled", "interrupted"}
Closed == {"canceled", "interrupted"}

ASSUME StreamAssumption ==
  /\ Holder \notin Requests
  /\ None \notin Tasks /\ None \notin Active \cup Final
  /\ TalkTasks \subseteq Tasks
  /\ MaxPolls \in Nat \ {0}
  /\ MaxTasks \in Nat /\ MaxEvents \in Nat

HasRow(t) == status[t] \notin {"absent", "purged"}

\* The statuses service.py can write over status s before their event.
Follows(s) ==
  (IF s \in Active THEN {"canceled"} ELSE {})
  \cup (IF s \in {"accepted", "exploring"} THEN {"exploring"} ELSE {})
  \cup (IF s \in {"accepted", "waiting_for_provider_input"} THEN {"running"} ELSE {})
  \cup (IF s = "waiting_for_approval" THEN {"accepted"} ELSE {})
  \cup (IF s \in (Active \cup Final) \ Closed
          THEN {"failed", "blocked", "waiting_for_approval"} ELSE {})

\* The files that a run has changed, or anything else: the announcement of a
\* status, a reservation.
Kinds == {"files_changed", "other"}

Entries == [seq : Nat \ {0}, kind : Kinds]

\* One item of a script: an event to append or a status to write.
Event(t, k) == [do |-> "append", task |-> t, arg |-> k]
Row(t, s)   == [do |-> "status", task |-> t, arg |-> s]

Numbers(entries) == {e.seq : e \in entries}

\* COALESCE(MAX(sequence), 0)
Newest(entries) == Max(Numbers(entries) \cup {0})

-----------------------------------------------------------------------------
Idle(w) == script[w] = <<>>

LockFree == Idle(Holder)

\* Room for one more script of length n, by the bound.
Room(t, n) == Cardinality(log[t]) + n <= MaxEvents

\* Most sections of service.py: the status first, then the event that announces
\* it; a proposal and a run that was rolled back are announced by two.
ChangeStatus(t) ==
  /\ LockFree
  /\ \E s \in Follows(status[t]), n \in {1, 2} :
       /\ n = 2 => s \in {"waiting_for_approval", "failed"}
       /\ Room(t, n)
       /\ status' = [status EXCEPT ![t] = s]
       /\ script' = [script EXCEPT ![Holder] = [i \in 1..n |-> Event(t, "other")]]
  /\ earlier' = [earlier EXCEPT ![t] = Newest(log[t])]
  /\ UNCHANGED <<log, slot, streams>>

\* Variant: what was done is logged after the status.
StatusThenWork(t, r) == <<Row(t, r), Event(t, "files_changed"), Event(t, "other")>>

\* A result without a list of changed files, as that of a conversation is, is
\* recorded without the event; verification and committed are not told apart.
WorkThenStatus(t, r) ==
  IF t \in TalkTasks
    THEN <<Row(t, r), Event(t, "other")>>
    ELSE <<Event(t, "files_changed"), Row(t, r), Event(t, "other")>>

\* _record_executor_result of a success: what was done, the status, its event.
\* A thread whose task was purged meanwhile writes its events all the same.
RecordSuccess(t) ==
  /\ LockFree
  /\ status[t] \notin Closed \cup {"absent"}
  /\ Room(t, 2)
  /\ \E r \in {"completed", "waiting_for_provider_input"} :
       script' = [script EXCEPT ![Holder] = WorkThenStatus(t, r)]
  /\ UNCHANGED <<status, log, slot, streams, earlier>>

\* Without the lock: submit's event after its row, and the reservation of the
\* plan-draft route, of a proposal or of a talk-only run.  Whatever becomes of
\* the task before the append comes, the thread makes it.
AppendUnlocked(w, t) ==
  /\ Idle(w)
  /\ Room(t, 1)
  /\ script' = [script EXCEPT ![w] = <<Event(t, "other")>>]
  /\ \/ /\ status[t] = "absent"
        /\ Cardinality({u \in Tasks : status[u] # "absent"}) < MaxTasks
        /\ \E s \in {"accepted", "blocked"} : status' = [status EXCEPT ![t] = s]
     \/ /\ \/ status[t] \in {"accepted", "exploring"}
           \/ status[t] = "running" /\ t \in TalkTasks
        /\ UNCHANGED status
  /\ UNCHANGED <<log, slot, streams, earlier>>

\* Variant: the number computed for one event is kept for the next.
KeepNumber(w, rest) ==
  /\ script' = [script EXCEPT ![w] = rest]
  /\ UNCHANGED slot

\* The thread goes on with what is left; with nothing left it is done, and the
\* holder gives the lock back.
Leave(w, rest) ==
  /\ script' = [script EXCEPT ![w] = rest]
  /\ slot' = [slot EXCEPT ![w] = 0]

\* append_event, first statement.
ReadNewest(w) ==
  /\ ~Idle(w)
  /\ Head(script[w]).do = "append"
  /\ slot[w] = 0
  /\ slot' = [slot EXCEPT ![w] = Newest(log[Head(script[w]).task]) + 1]
  /\ UNCHANGED <<status, log, script, streams, earlier>>

\* Variant: the number is not a primary key.
AlwaysFree(entries, n) == TRUE

NumberFree(entries, n) == n \notin Numbers(entries)

\* append_event, second statement: it raises when the number is taken, and the
\* exception drops the rest of the script.
InsertEvent(w) ==
  LET item == Head(script[w]) IN
  /\ ~Idle(w)
  /\ slot[w] # 0
  /\ IF NumberFree(log[item.task], slot[w])
       THEN /\ log' = [log EXCEPT ![item.task] =
                         @ \cup {[seq |-> slot[w], kind |-> item.arg]}]
            /\ Leave(w, Tail(script[w]))
       ELSE Leave(w, <<>>) /\ UNCHANGED log
  /\ UNCHANGED <<status, streams, earlier>>

\* A status row in the middle of a script; a purged task has none.
WriteRow(w) ==
  LET item == Head(script[w]) IN
  /\ ~Idle(w)
  /\ item.do = "status"
  /\ IF HasRow(item.task)
       THEN /\ status' = [status EXCEPT ![item.task] = item.arg]
            /\ earlier' = [earlier EXCEPT ![item.task] = Newest(log[item.task])]
       ELSE UNCHANGED <<status, earlier>>
  /\ Leave(w, Tail(script[w]))
  /\ UNCHANGED <<log, streams>>

\* delete_task: the events go with the row.
DeleteTask(t) ==
  /\ LockFree
  /\ status[t] \in Final
  /\ status' = [status EXCEPT ![t] = "purged"]
  /\ log' = [log EXCEPT ![t] = {}]
  /\ UNCHANGED <<writers, streams, earlier>>

-----------------------------------------------------------------------------
\* The generator's locals before its first poll.
Fresh == [about |-> None, reads |-> 0, row |-> None, page |-> {}, lastSeq |-> 0,
          lastStatus |-> None, polls |-> 0, sent |-> <<>>, owed |-> 0]

\* GET /tasks/<id>/stream: 404 without a row.
Connect(s, t) ==
  /\ place[s] = "closed"
  /\ status[t] \notin {"absent", "purged"}
  /\ place' = [place EXCEPT ![s] = "open"]
  /\ local' = [local EXCEPT ![s].about = t]
  /\ UNCHANGED <<status, log, writers, earlier>>

\* The generator returns, and its locals go.
End(s) ==
  /\ place' = [place EXCEPT ![s] = "ended"]
  /\ local' = [local EXCEPT ![s] = Fresh]

\* Variant: the events are read before the record.
EventsFirst == <<"events", "record">>

\* The two reads of a poll.
ReadOrder == <<"record", "events">>

Reading(s, what) ==
  /\ place[s] = "open"
  /\ local[s].reads < Len(ReadOrder)
  /\ ReadOrder[local[s].reads + 1] = what

\* No record ends the stream.
ReadRecord(s) ==
  LET t == local[s].about IN
  /\ Reading(s, "record")
  /\ IF status[t] = "purged"
       THEN End(s)
       ELSE /\ local' = [local EXCEPT ![s].reads = @ + 1, ![s].row = status[t],
                                      ![s].owed = earlier[t]]
            /\ UNCHANGED place
  /\ UNCHANGED <<status, log, writers, earlier>>

ReadEvents(s) ==
  /\ Reading(s, "events")
  /\ local' = [local EXCEPT ![s].reads = @ + 1, ![s].page = log[local[s].about]]
  /\ UNCHANGED <<status, log, writers, place, earlier>>

\* Variant: what was sent last comes again.
SinceLast(entries, n) == {e \in entries : e.seq >= n}

Unsent(entries, n) == {e \in entries : e.seq > n}

\* ORDER BY sequence
InOrder(entries) ==
  LET n == Cardinality(entries) IN
  CHOOSE f \in [1..n -> entries] : \A i, j \in 1..n : i < j => f[i].seq < f[j].seq

\* The message that follows from the two reads.
Send(s) ==
  LET my  == local[s]
      new == Unsent(my.page, my.lastSeq)
  IN
  /\ place[s] = "open"
  /\ my.reads = Len(ReadOrder)
  /\ place' = [place EXCEPT ![s] = "sent"]
  /\ IF new # {} \/ my.row # my.lastStatus
       THEN local' = [local EXCEPT
              ![s].sent = @ \o InOrder(new),
              ![s].lastSeq = IF my.page = {} THEN @ ELSE Newest(my.page),
              ![s].lastStatus = my.row]
       ELSE UNCHANGED local
  /\ UNCHANGED <<status, log, writers, earlier>>

\* Variant: a poll ends the stream only at a final status.
NeverOutOfPolls(s) == FALSE

OutOfPolls(s) == local[s].polls + 1 >= MaxPolls

\* A final status, or the last poll, ends the stream; otherwise it sleeps.
EndPoll(s) ==
  /\ place[s] = "sent"
  /\ IF local[s].row \in Final \/ OutOfPolls(s)
       THEN End(s)
       ELSE /\ place' = [place EXCEPT ![s] = "open"]
            /\ local' = [local EXCEPT ![s].reads = 0, ![s].row = None, ![s].page = {},
                                      ![s].polls = IF @ < MaxPolls THEN @ + 1 ELSE @]
  /\ UNCHANGED <<status, log, writers, earlier>>

-----------------------------------------------------------------------------
\* The engine dies and is started again: mark_interrupted_runs writes status
\* and event in one transaction; threads and streams are gone.
Restart ==
  /\ status' = [t \in Tasks |-> IF status[t] = "running" THEN "interrupted" ELSE status[t]]
  /\ log' = [t \in Tasks |->
               IF status[t] = "running"
                 THEN log[t] \cup {[seq |-> Newest(log[t]) + 1, kind |-> "other"]}
                 ELSE log[t]]
  /\ earlier' = [t \in Tasks |->
                   IF status[t] = "running" THEN Newest(log[t]) ELSE earlier[t]]
  /\ script' = [w \in Threads |-> <<>>]
  /\ slot' = [w \in Threads |-> 0]
  /\ place' = [s \in Streams |-> IF place[s] = "closed" THEN "closed" ELSE "ended"]
  /\ local' = [s \in Streams |-> Fresh]

Init ==
  /\ status = [t \in Tasks |-> "absent"]
  /\ log = [t \in Tasks |-> {}]
  /\ script = [w \in Threads |-> <<>>]
  /\ slot = [w \in Threads |-> 0]
  /\ place = [s \in Streams |-> "closed"]
  /\ local = [s \in Streams |-> Fresh]
  /\ earlier = [t \in Tasks |-> 0]

WriterStep(w) == ReadNewest(w) \/ InsertEvent(w) \/ WriteRow(w)
StreamStep(s) == ReadRecord(s) \/ ReadEvents(s) \/ Send(s) \/ EndPoll(s)

Next ==
  \/ \E t \in Tasks : ChangeStatus(t) \/ RecordSuccess(t) \/ DeleteTask(t)
  \/ \E w \in Requests, t \in Tasks : AppendUnlocked(w, t)
  \/ \E w \in Threads : WriterStep(w)
  \/ \E s \in Streams, t \in Tasks : Connect(s, t)
  \/ \E s \in Streams : StreamStep(s)
  \/ Restart

Spec == Init /\ [][Next]_vars

\* The generator of a stream is resumed as long as its client is connected (a
\* client that leaves ends it); threads finish what they write.
FairSpec ==
  /\ Spec
  /\ \A w \in Threads : WF_vars(WriterStep(w))
  /\ \A s \in Streams : WF_vars(StreamStep(s))

-----------------------------------------------------------------------------
\* The types of the log, the threads and the streams.
TypeOK ==
  /\ status \in [Tasks -> Active \cup Final \cup {"absent", "purged"}]
  /\ \A t \in Tasks : log[t] \subseteq Entries /\ earlier[t] \in Nat
  /\ \A w \in Threads : slot[w] # 0 => script[w] # <<>> /\ Head(script[w]).do = "append"
  /\ place \in [Streams -> {"closed", "open", "sent", "ended"}]
  /\ \A s \in Streams :
       LET my == local[s] IN
       /\ my.about \in Tasks \cup {None}
       /\ my.reads \in 0..Len(ReadOrder)
       /\ my.row \in Active \cup Final \cup {None}
       /\ my.lastStatus \in Active \cup Final \cup {None}
       /\ my.page \subseteq Entries
       /\ my.sent \in Seq(Entries)
       /\ my.lastSeq \in Nat /\ my.owed \in Nat
       /\ my.polls \in 0..MaxPolls

\* Streams that have a task with a row to tell of.
Telling(s) == place[s] \in {"open", "sent"} /\ HasRow(local[s].about)

\* While a task has its row its log only grows at its end, one number at a
\* time, and no event is lost or replaced, although an append is two
\* statements and some run without the lock (append_event).
LogGrowsAtItsEnd ==
  [][\A t \in Tasks : HasRow(t) /\ HasRow(t)' =>
       /\ log[t] \subseteq log'[t]
       /\ \A e \in log'[t] \ log[t] : e.seq = Newest(log[t]) + 1]_vars

\* As long as its task has a row, what a stream has sent is the log up to
\* last_seq: in order, nothing left out, nothing twice (task_event_stream).
SentIsPrefix ==
  \A s \in Streams : Telling(s) =>
    LET my == local[s] IN
    /\ {my.sent[i] : i \in 1..Len(my.sent)} = {e \in log[my.about] : e.seq <= my.lastSeq}
    /\ \A i \in 1..Len(my.sent) : my.sent[i].seq = i

\* A client that is told a status has been sent every event that was logged
\* before that status was written, whatever is written between the two reads of
\* the poll: a task ends on the screen with the history that led there.
StatusComesWithHistory ==
  \A s \in Streams :
    place[s] = "sent" /\ Telling(s) => local[s].owed <= local[s].lastSeq

\* For a task that may change files, "completed" reaches a client together with
\* the files that were changed: the coordinator logs them before the status, the
\* stream reads them after it.
CompletedShowsChanges ==
  \A s \in Streams :
    place[s] = "sent" /\ Telling(s) /\ local[s].about \notin TalkTasks
      /\ local[s].lastStatus = "completed" =>
      \E i \in 1..Len(local[s].sent) : local[s].sent[i].kind = "files_changed"

\* Every stream ends, also that of a task that waits for its user for ever.
StreamEnds == \A s \in Streams : place[s] \in {"open", "sent"} ~> place[s] = "ended"

=============================================================================
