----------------------------- MODULE MCProgress -----------------------------
(* What must come to an end, for TLC: a request of the alert service, the   *)
(* deletion of a conversation, the shutdown, a question to the model, the   *)
(* session of a terminal.  part says which module takes steps.              *)
EXTENDS MCAlertService

CONSTANTS
  NoSession,
  Indexes, MaxFragments, MaxRounds  \* the tool calls of ToolChat

VARIABLES part,
  memory, copies, row, fresh, archived, jobs, tab, asks, events, deleted, lost, emptied,
  main, handler, signalled, listening, informers, sending, missed, seen, taken, consumer,
  committed, biz, skipped, publisher, labels, graphOpen,
  stage, round, sent, accums, calls, toolResults, history, told,
  clock, clean, conn, terminal, created, listed, closeCh, waiting, typed, forward, stream

chatVars == <<memory, copies, row, fresh, archived, jobs, tab, asks, events, deleted,
              lost, emptied>>
stopVars == <<main, handler, signalled, listening, informers, sending, missed, seen, taken,
              consumer, committed, biz, skipped, publisher, labels, graphOpen>>
askVars == <<stage, round, sent, accums, calls, toolResults, history, told>>
termVars == <<clock, clean, conn, terminal, created, listed, closeCh, waiting, typed,
              forward, stream>>

Chat == INSTANCE ChatSession WITH
  Sessions <- {"s"}, Tabs <- {"t"}, MaxEvents <- 2
Stop == INSTANCE Shutdown WITH
  Messages <- {"m1"}, Records <- 1, Consumers <- {"c"},
  LabelWorkers <- {"l"}, BizRoom <- 1, MaxEvents <- 1
Asking == INSTANCE ToolChat WITH results <- toolResults
Term == INSTANCE Terminal WITH
  Terminals <- {"s"}, Room <- 2, MaxAge <- 1, MaxTime <- 4, MaxInput <- 3,
  handler <- terminal

\* The model counts its tool calls.
ASSUME ProgressAssumption == Indexes \subseteq Nat

ProgressInit ==
  /\ part \in {"alerts", "chat", "stop", "ask", "term"}
  /\ Init /\ Chat!Init /\ Stop!Init /\ Asking!Init /\ Term!Init
ProgressNext ==
  /\ UNCHANGED part
  /\ \/ part = "alerts" /\ Next /\ UNCHANGED <<chatVars, stopVars, askVars, termVars>>
     \/ part = "chat" /\ Chat!Next /\ UNCHANGED <<vars, stopVars, askVars, termVars>>
     \/ part = "stop" /\ Stop!Next /\ UNCHANGED <<vars, chatVars, askVars, termVars>>
     \/ part = "ask" /\ Asking!Next /\ UNCHANGED <<vars, chatVars, stopVars, termVars>>
     \/ part = "term" /\ Term!Next /\ UNCHANGED <<vars, chatVars, stopVars, askVars>>

(* The fairness of each module, while it is the one that takes steps.       *)
AlertsFair ==
  \A r \in Requests :
    /\ WF_vars(part = "alerts" /\ Spawn(r)) /\ WF_vars(part = "alerts" /\ Collect(r))
    /\ \A i \in Slots : WF_vars(part = "alerts" /\ WorkerStep(r, i))
ChatFair == \A j \in Chat!Deletions : WF_chatVars(part = "chat" /\ Chat!Runs(j))
StopFair ==
  /\ WF_stopVars(part = "stop" /\ (Stop!Serve \/ Stop!Defer))
  /\ WF_stopVars(part = "stop" /\ Stop!LabelWork("l"))
AskFair ==
  WF_askVars(part = "ask" /\ (Asking!RoundFails \/ Asking!StartRound \/ Asking!TooManyRounds
                             \/ Asking!HandBack \/ \E n \in DOMAIN calls : Asking!ToolEnds(n)))
TermFair ==
  /\ WF_termVars(part = "term" /\ Term!Steps)
  /\ WF_termVars(part = "term" /\ Term!Goroutines("s"))

ProgressSpec ==
  /\ ProgressInit
  /\ [][ProgressNext]_<<part, vars, chatVars, stopVars, askVars, termVars>>
  /\ AlertsFair /\ ChatFair /\ StopFair /\ AskFair /\ TermFair

\* A reply is whole: at most WorkerCount workers run for a request and none of them
\* outlives its reply (alert_service.go:301-345); each tool call that the model
\* streamed is run once, with all its fragments, and the tool messages follow the
\* assistant message with their calls (llm_http.go:886-950).
RepliesWhole ==
  /\ part = "alerts" => TypeOK /\ NoWorkerOutlivesReply
  /\ part = "ask" => Asking!CallsWhole /\ Asking!ResultsFollowCalls
\* A deleted conversation leaves Redis and PostgreSQL.
DeletedLeavesStores == Chat!DeletedLeavesStores
\* A signal ends the process.
SignalEnds == Stop!SignalEnds
\* A question to the model is answered or refused in the end.
AskEnds == <>(part = "ask" => stage = "returned")
\* Every terminal session is let go in the end, and the input of one that was let
\* go stops (terminal/session.go).
TerminalsEnd == Term!SessionsLetGo /\ Term!InputStops
=============================================================================
