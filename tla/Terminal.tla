------------------------------ MODULE Terminal ------------------------------
(* Web terminals (controllers/terminal_controller.go,                        *)
(* services/terminal/session.go): per session the handler that reads the web *)
(* socket, the goroutine that forwards the input to the exec stream, the     *)
(* stream itself, and the clean-up that runs over all sessions.              *)
EXTENDS Naturals

CONSTANTS
  Terminals,             \* web sockets a browser may open
  Room,                  \* 100: messages stdinChan holds
  MaxAge,                \* 30 minutes
  MaxTime, MaxInput      \* bounds

VARIABLES
  clock, clean,     \* time; whether the clean-up has looked since it passed
  conn,             \* the web socket: "none", "open", "closed"
  handler,          \* ws: "none", "reading", "done"
  created, listed,  \* createdAt; the manager's map
  closeCh,          \* closed or not
  waiting, typed,   \* messages in stdinChan; messages received
  forward,          \* the forwarding goroutine
  stream            \* StreamWithContext: "none", "running", "ended"

vars == <<clock, clean, conn, handler, created, listed, closeCh, waiting, typed, forward, stream>>

Init ==
  /\ clock = 0 /\ clean = TRUE
  /\ conn = [s \in Terminals |-> "none"] /\ handler = [s \in Terminals |-> "none"]
  /\ created = [s \in Terminals |-> 0] /\ listed = {}
  /\ closeCh = [s \in Terminals |-> FALSE]
  /\ waiting = [s \in Terminals |-> 0] /\ typed = [s \in Terminals |-> 0]
  /\ forward = [s \in Terminals |-> "none"] /\ stream = [s \in Terminals |-> "none"]

\* ws upgrades the connection and, given a Pod, creates the session.
Open(s) ==
  /\ conn[s] = "none"
  /\ conn' = [conn EXCEPT ![s] = "open"] /\ handler' = [handler EXCEPT ![s] = "reading"]
  /\ created' = [created EXCEPT ![s] = clock] /\ listed' = listed \cup {s}
  /\ UNCHANGED <<clock, clean, closeCh, waiting, typed, forward, stream>>

\* StartK8sExec: no client, no executor: it ends. Otherwise the goroutines start.
Exec(s) ==
  /\ conn[s] # "none" /\ stream[s] = "none"
  /\ \/ /\ stream' = [stream EXCEPT ![s] = "running"]
        /\ forward' = [forward EXCEPT ![s] = "select"]
     \/ stream' = [stream EXCEPT ![s] = "ended"] /\ UNCHANGED forward
  /\ UNCHANGED <<clock, clean, conn, handler, created, listed, closeCh, waiting, typed>>

\* A message of the browser goes into the channel, or nowhere when it is full.
Type(s) ==
  /\ handler[s] = "reading" /\ conn[s] = "open" /\ typed[s] < MaxInput
  /\ typed' = [typed EXCEPT ![s] = @ + 1]
  /\ waiting' = [waiting EXCEPT ![s] = IF @ < Room THEN @ + 1 ELSE @]
  /\ UNCHANGED <<clock, clean, conn, handler, created, listed, closeCh, forward, stream>>

\* The browser leaves, or does not answer pings for a minute.
Leave(s) ==
  /\ conn[s] = "open" /\ conn' = [conn EXCEPT ![s] = "closed"]
  /\ UNCHANGED <<clock, clean, handler, created, listed, closeCh, waiting, typed, forward, stream>>

\* ReadMessage fails and the handler returns. It leaves the session where it is.
Return(s) ==
  /\ handler[s] = "reading" /\ conn[s] = "closed"
  /\ handler' = [handler EXCEPT ![s] = "done"]
  /\ UNCHANGED <<clock, clean, conn, created, listed, closeCh, waiting, typed, forward, stream>>

\* The forwarding goroutine takes a message or sees the session closed, whichever
\* its select finds, and writes to a pipe that only the running stream reads.
Forward(s) ==
  /\ forward[s] = "select"
  /\ \/ /\ waiting[s] > 0
        /\ waiting' = [waiting EXCEPT ![s] = @ - 1]
        /\ forward' = [forward EXCEPT ![s] = "write"]
     \/ closeCh[s] /\ forward' = [forward EXCEPT ![s] = "done"] /\ UNCHANGED waiting
  /\ UNCHANGED <<clock, clean, conn, handler, created, listed, closeCh, typed, stream>>
Read(s) ==
  /\ forward[s] = "write" /\ stream[s] = "running"
  /\ forward' = [forward EXCEPT ![s] = "select"]
  /\ UNCHANGED <<clock, clean, conn, handler, created, listed, closeCh, waiting, typed, stream>>
\* The shell exits or the API server cuts the stream. Its context is Background:
\* nothing in this program ends it.
Ended(s) ==
  /\ stream[s] = "running" /\ stream' = [stream EXCEPT ![s] = "ended"]
  /\ UNCHANGED <<clock, clean, conn, handler, created, listed, closeCh, waiting, typed, forward>>

\* CleanupExpired, by the age of a session, whatever its use.
Young == {s \in listed : clock - created[s] < MaxAge}
Expired == {s \in listed : clock - created[s] > MaxAge}
ConnOnly(old) == UNCHANGED closeCh
Closed(old) == closeCh' = [s \in Terminals |-> closeCh[s] \/ s \in old]
CleanUp ==
  /\ ~clean /\ clean' = TRUE
  /\ LET old == Expired IN
     /\ Closed(old)
     /\ conn' = [s \in Terminals |-> IF s \in old THEN "closed" ELSE conn[s]]
     /\ listed' = listed \ old
  /\ UNCHANGED <<clock, handler, created, waiting, typed, forward, stream>>
Tick ==
  /\ clean /\ clock < MaxTime
  /\ clock' = clock + 1 /\ clean' = FALSE
  /\ UNCHANGED <<conn, handler, created, listed, closeCh, waiting, typed, forward, stream>>

Next ==
  \/ \E s \in Terminals :
       \/ Open(s) \/ Exec(s) \/ Type(s) \/ Leave(s) \/ Return(s)
       \/ Forward(s) \/ Read(s) \/ Ended(s)
  \/ CleanUp \/ Tick

\* The goroutines are scheduled, the ticker fires, time passes.
Steps == CleanUp \/ Tick
Goroutines(s) == Return(s) \/ Forward(s)
FairSpec ==
  Init /\ [][Next]_vars /\ WF_vars(Steps) /\ \A s \in Terminals : WF_vars(Goroutines(s))

-----------------------------------------------------------------------------
\* Every session is let go: one whose browser is gone leaves the manager's map
\* although its handler never removes it (only the clean-up does, by age).
SessionsLetGo ==
  \A s \in Terminals : (handler[s] = "done" /\ created[s] + MaxAge < MaxTime) ~> s \notin listed

\* And its input stops: a session out of the map has no goroutine left waiting
\* for input; the goroutine has returned, unless it is writing to a stream that
\* nobody reads any more (stdinWriter.Write does not watch closeCh).
InputStops ==
  \A s \in Terminals :
    <>[](s \notin listed => forward[s] \in {"none", "done", "write"})
=============================================================================
