----------------------------- MODULE ChatSession -----------------------------
(***************************************************************************)
(* Conversations of the assistant: the sessions a process holds in memory, *)
(* their copies in Redis and PostgreSQL, the browser tabs that ask, load   *)
(* and delete, and the goroutines that carry a deletion, a title or the    *)
(* hourly cleanup to the stores.                                           *)
(*                                                                         *)
(* A tab sends the whole conversation with every question and the server   *)
(* archives all of it.  Sessions for alerts (startChat) have no route any  *)
(* more and do not exist here.  One user owns every session.               *)
(***************************************************************************)
EXTENDS Naturals, Sequences, FiniteSets, Functions

CONSTANTS
  Sessions,    \* session IDs
  Tabs,        \* browser tabs
  MaxEvents,   \* bound on questions, thirty-day gaps, restarts and failures
  NoSession

VARIABLES
  memory,    \* sessions.Map: the messages and freshness of the sessions held
  copies,    \* sessions with a hash in Redis, which never has messages
  row,       \* chat_sessions.status
  fresh,     \* chat_sessions.last_active_at is less than thirty days old
  archived,  \* chat_messages of each session, in the order of insertion
  jobs,      \* goroutines under way
  tab,       \* what each tab shows and waits for
  asks,      \* number of questions asked
  events,    \* number of gaps, restarts and failures
  deleted,   \* history: sessions a user has deleted
  lost,      \* history: sessions a write of which failed or was cut off
  emptied    \* history: sessions whose messages the cleanup has removed

vars == <<memory, copies, row, fresh, archived, jobs, tab, asks, events,
          deleted, lost, emptied>>

Absent == [held |-> FALSE, messages |-> <<>>, fresh |-> FALSE]
Held(ms) == [held |-> TRUE, messages |-> ms, fresh |-> TRUE]
Welcome == <<0, "assistant">>
Job(kind, ids) == [kind |-> kind, ids |-> ids]
Unused == {s \in Sessions : /\ row[s] = "none" /\ ~memory[s].held
                            /\ s \notin copies \cup lost \cup deleted
                            /\ \A t \in Tabs : tab[t].at # s /\ tab[t].asked # s}

Left == asks + events < MaxEvents

Init ==
  /\ memory = [s \in Sessions |-> Absent]
  /\ copies = {} /\ jobs = {} /\ deleted = {} /\ lost = {} /\ emptied = {}
  /\ row = [s \in Sessions |-> "none"]
  /\ fresh = [s \in Sessions |-> FALSE]
  /\ archived = [s \in Sessions |-> <<>>]
  /\ tab = [t \in Tabs |-> [at |-> NoSession, shown |-> <<>>,
                            asked |-> NoSession, ask |-> 0]]
  /\ asks = 0 /\ events = 0

\* ChatSessionManager.Create: the session is held whatever the stores answer.
Create(s, failing) ==
  /\ memory' = [memory EXCEPT ![s] = Held(<<Welcome>>)]
  /\ copies' = IF "redis" \in failing THEN copies ELSE copies \cup {s}
  /\ row' = [row EXCEPT ![s] = IF "pg" \in failing THEN "none" ELSE "active"]
  /\ fresh' = [fresh EXCEPT ![s] = "pg" \notin failing]
  /\ lost' = IF failing = {} THEN lost ELSE lost \cup {s}

\* A question: askChatWithEino creates a session if the tab has none.  The
\* creation fails if the diagnosis of the resource in view does.
Question(n) == <<n, "user">>
Reply(n) == <<n, "assistant">>
Busy(t) == tab[t].ask # 0

Ask(t) ==
  /\ ~Busy(t) /\ Left
  /\ asks' = asks + 1
  /\ \E s \in Sessions \cup {NoSession}, failing \in {{}, {"redis"}, {"pg"}, {"diagnosis"}} :
       /\ tab' = [tab EXCEPT ![t].shown = Append(@, Question(asks + 1)),
                             ![t].ask = asks + 1, ![t].asked = s]
       /\ events' = events + Cardinality(failing)
       /\ \/ /\ tab[t].at # NoSession /\ s = tab[t].at /\ failing = {}
             /\ UNCHANGED <<memory, copies, row, fresh, lost>>
          \/ /\ tab[t].at = NoSession /\ s \in Unused
             /\ "diagnosis" \notin failing /\ Create(s, failing)
          \/ /\ tab[t].at = NoSession /\ s = NoSession /\ "diagnosis" \in failing
             /\ UNCHANGED <<memory, copies, row, fresh, lost>>
  /\ UNCHANGED <<archived, jobs, deleted, emptied>>

\* The agent has finished, with or without a text: what the tab sent and the
\* text are archived, and a goroutine makes a title.
Batch(t, answered) ==
  IF answered THEN Append(tab[t].shown, Reply(tab[t].ask)) ELSE tab[t].shown

\* Bug: without an answer nothing is stored.
StoredIfAnswered(t, answered) == IF answered THEN Batch(t, answered) ELSE <<>>

\* What ArchiveMessages inserts.
Stored(t, answered) == Batch(t, answered)

Answer(t, answered) ==
  /\ Busy(t)
  /\ LET s == tab[t].asked IN
       /\ \/ /\ s # NoSession
             /\ archived' = [archived EXCEPT ![s] = @ \o Stored(t, answered)]
             /\ UNCHANGED lost
             /\ UNCHANGED events
          \/ /\ s = NoSession
             /\ UNCHANGED <<archived, lost, events>>
          \/ /\ s # NoSession /\ Left
             /\ lost' = lost \cup {s} /\ events' = events + 1
             /\ UNCHANGED archived
       /\ jobs' = IF answered /\ s # NoSession
                  THEN jobs \cup {Job("title", {s})} ELSE jobs
       /\ tab' = [tab EXCEPT
            ![t].ask = 0, ![t].asked = NoSession,
            ![t].at = IF s = NoSession THEN @ ELSE s,
            ![t].shown = Batch(t, answered)]
  /\ UNCHANGED <<memory, copies, row, fresh, asks, deleted, emptied>>

\* LoadSession: what is held is replaced by the archive if that is longer; what
\* is not held comes from Redis, without messages, or else from PostgreSQL.
Loaded(s) ==
  IF memory[s].held
  THEN IF Len(archived[s]) > Len(memory[s].messages) /\ row[s] # "none"
       THEN [memory[s] EXCEPT !.messages = archived[s]] ELSE memory[s]
  ELSE IF s \in copies THEN Held(<<>>)
       ELSE [Held(archived[s]) EXCEPT !.fresh = fresh[s]]

Findable(s) == memory[s].held \/ s \in copies \/ row[s] # "none"

\* getSession
Load(t, s) ==
  /\ ~Busy(t) /\ Findable(s)
  /\ memory' = [memory EXCEPT ![s] = Loaded(s)]
  /\ tab' = [tab EXCEPT ![t].at = s, ![t].shown = Loaded(s).messages]
  /\ UNCHANGED <<copies, row, fresh, archived, jobs, asks, events,
                 deleted, lost, emptied>>

\* ChatSessionManager.Delete of sessions that are held.
Drop(ids) == [s \in Sessions |-> IF s \in ids THEN Absent ELSE memory[s]]

\* Bug: the row is left as it is.
SpawnedForRedis(ids) == {Job("unstore", {s}) : s \in ids}
Spawned(ids) == {Job(k, {s}) : k \in {"unstore", "close"}, s \in ids}

\* deleteSession: loads the session, which puts it into memory, and drops it.
Delete(t, s) ==
  /\ ~Busy(t) /\ Findable(s)
  /\ memory' = Drop({s})
  /\ jobs' = jobs \cup Spawned({s})
  /\ deleted' = deleted \cup {s}
  /\ tab' = [tab EXCEPT ![t] = IF @.at = s
               THEN [@ EXCEPT !.at = NoSession, !.shown = <<>>] ELSE @]
  /\ UNCHANGED <<copies, row, fresh, archived, asks, events, lost,
                 emptied>>

\* closeChat does nothing for a session this process does not hold.
Close(s) ==
  /\ memory[s].held
  /\ memory' = Drop({s})
  /\ jobs' = jobs \cup Spawned({s})
  /\ UNCHANGED <<copies, row, fresh, archived, tab, asks, events,
                 deleted, lost, emptied>>

\* The hourly cleanup of the process; the rest of it is a goroutine.
Cleanup ==
  LET stale == {s \in Sessions : memory[s].held /\ ~memory[s].fresh} IN
  /\ ~\E j \in jobs : j.kind = "expire"
  /\ \E s \in Sessions : row[s] = "active" /\ ~fresh[s]
  /\ memory' = Drop(stale)
  /\ jobs' = jobs \cup Spawned(stale) \cup {Job("find", {})}
  /\ UNCHANGED <<copies, row, fresh, archived, tab, asks, events,
                 deleted, lost, emptied>>

\* CleanupExpired: one query finds the sessions, further ones expire them.
Expired == {s \in Sessions : row[s] = "active" /\ ~fresh[s]}

Unstore(j) == j.kind = "unstore" /\ copies' = copies \ j.ids
              /\ UNCHANGED <<row, fresh, archived>>
CloseRow(j) ==
  /\ j.kind = "close"
  /\ row' = [s \in Sessions |-> IF s \in j.ids /\ row[s] # "none" THEN "closed" ELSE row[s]]
  /\ fresh' = [s \in Sessions |-> fresh[s] \/ (s \in j.ids /\ row[s] # "none")]
  /\ UNCHANGED <<copies, archived>>
Title(j) ==
  /\ j.kind = "title"
  /\ fresh' = [s \in Sessions |-> fresh[s] \/ (s \in j.ids /\ row[s] # "none")]
  /\ UNCHANGED <<copies, row, archived>>
Find(j) == j.kind = "find" /\ UNCHANGED <<copies, row, fresh, archived>>
Expire(j) ==
  /\ j.kind = "expire"
  /\ row' = [s \in Sessions |-> IF s \in j.ids THEN "expired" ELSE row[s]]
  /\ fresh' = [s \in Sessions |-> fresh[s] \/ s \in j.ids]
  /\ archived' = [s \in Sessions |-> IF s \in j.ids THEN <<>> ELSE archived[s]]
  /\ UNCHANGED copies

Finish(j) ==
  /\ \/ Unstore(j) \/ CloseRow(j) \/ Title(j) \/ Find(j) \/ Expire(j)
  /\ jobs' = (jobs \ {j}) \cup
             (IF j.kind = "find" /\ Expired # {} THEN {Job("expire", Expired)} ELSE {})
  /\ emptied' = IF j.kind = "expire" THEN emptied \cup j.ids ELSE emptied
  /\ UNCHANGED <<memory, tab, asks, events, deleted, lost>>

\* The call fails, which is only logged; so does making a title.
Fail(j) ==
  /\ Left /\ events' = events + 1
  /\ jobs' = jobs \ {j}
  /\ lost' = lost \cup j.ids
  /\ UNCHANGED <<memory, copies, row, fresh, archived, tab, asks, deleted,
                 emptied>>

\* The time to live of the hash in Redis ends; nothing renews it.
CopyExpires(s) ==
  /\ s \in copies
  /\ copies' = copies \ {s}
  /\ UNCHANGED <<memory, row, fresh, archived, jobs, tab, asks, events,
                 deleted, lost, emptied>>

\* Thirty days in which nobody uses any session; a copy in Redis lives shorter.
Idle ==
  /\ Left /\ jobs = {} /\ \A t \in Tabs : ~Busy(t)
  /\ events' = events + 1
  /\ fresh' = [s \in Sessions |-> FALSE]
  /\ memory' = [s \in Sessions |-> [memory[s] EXCEPT !.fresh = FALSE]]
  /\ copies' = {}
  /\ UNCHANGED <<row, archived, jobs, tab, asks, deleted, lost, emptied>>

Restart ==
  /\ Left
  /\ events' = events + 1
  /\ memory' = [s \in Sessions |-> Absent]
  /\ jobs' = {}
  /\ lost' = lost \cup (UNION {j.ids : j \in jobs})
                  \cup ({tab[t].asked : t \in Tabs} \ {NoSession})
  /\ tab' = [t \in Tabs |-> [tab[t] EXCEPT !.ask = 0, !.asked = NoSession]]
  /\ UNCHANGED <<copies, row, fresh, archived, asks, deleted, emptied>>

Next ==
  \/ \E t \in Tabs : \/ Ask(t) \/ \E answered \in BOOLEAN : Answer(t, answered)
                     \/ \E s \in Sessions : Load(t, s) \/ Delete(t, s)
  \/ \E s \in Sessions : Close(s) \/ CopyExpires(s)
  \/ \E j \in jobs : Finish(j) \/ Fail(j)
  \/ Cleanup \/ Idle \/ Restart

Spec == Init /\ [][Next]_vars

\* Goroutines are scheduled and their calls end, with or without an error.
Runs(j) == j \in jobs /\ (Finish(j) \/ Fail(j))
Deletions == UNION {Spawned({s}) : s \in Sessions}
FairSpec == Spec /\ \A j \in Deletions : WF_vars(Runs(j))

(* What a tab shows once the answer is there is in the archive, whichever of
   the three stores the conversation was loaded from, after restarts and
   evictions and with two tabs in one conversation (askChatWithEino archives
   what the tab sent and not what the session holds).  Sessions a write of
   which failed, or that the cleanup emptied, are left out. *)
AnswersArchived ==
  \A t \in Tabs :
    LET s == tab[t].at IN
    s # NoSession /\ ~Busy(t) /\ s \notin lost \cup emptied
      => Range(tab[t].shown) \ {Welcome} \subseteq Range(archived[s])

(* A conversation that a user deletes leaves Redis and is no longer active in
   PostgreSQL, although Delete only starts goroutines for that and a question
   that is still being answered goes on; unless one of its writes failed. *)
DeletedLeavesStores ==
  \A s \in Sessions :
    s \in deleted ~> s \in lost \/ (s \notin copies /\ row[s] # "active")
=============================================================================
