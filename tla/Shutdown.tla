------------------------------ MODULE Shutdown ------------------------------
(***************************************************************************)
(* The end of the server.  A signal cancels the context of main, and three *)
(* goroutines wake up: main itself, which runs its deferred calls and       *)
(* exits; the handler, which stops the resource service, the executor and  *)
(* the HTTP server; and the listener that closes the informers' channel,   *)
(* which the handler closes too.  Nobody waits for the handler.            *)
(*                                                                         *)
(* What they stop runs on meanwhile: goroutines that send events of the    *)
(* informers to Kafka, workers of the consumer that hand messages to the    *)
(* channel of the business topic, and the syncer of labels, whose consumer *)
(* and workers share a channel that Stop closes.                           *)
(***************************************************************************)
EXTENDS Naturals, Sequences, FiniteSets

CONSTANTS
  Messages,    \* messages of the resource topic, all of workloads
  Records,     \* messages of the business topic
  Consumers, LabelWorkers,
  BizRoom,     \* BizPublishChanBuffer
  MaxEvents    \* bound on the events of the informers

VARIABLES
  main,        \* deferred calls that are left to main; "serving", "crashed"
  handler,     \* what is left to the handler; "waiting", "panicked"
  signalled,   \* the context is cancelled
  listening,   \* the listener waits for the context
  informers,   \* stopCh is open
  sending,     \* goroutines that send an event to Kafka
  missed,      \* events they could not send
  seen,        \* events of the informers so far
  taken,       \* messages that consumers have taken
  consumer,    \* step and message of each consumer
  committed,   \* messages marked as committed
  biz,         \* bizPublishChan: open, its messages, those that were published
  skipped,     \* messages the full channel had no room for
  publisher,   \* the publishing worker: "idle", a message, or "done"
  labels,      \* the syncer of labels: its consumer, its channel, its workers
  graphOpen    \* Close has not run

vars == <<main, handler, signalled, listening, informers, sending, missed, seen,
          taken, consumer, committed, biz, skipped, publisher, labels, graphOpen>>
topicVars == <<taken, consumer, committed, skipped>>
processVars == <<main, handler, signalled, listening, graphOpen>>
eventVars == <<informers, sending, missed, seen>>

Deferred == <<"flow", "trace", "flush", "labels", "workers",
              "inspection", "close">>
ToStop == <<"informers", "drain", "business", "published", "executor", "server">>
Rest == [step |-> "idle"]
Ended == main \in {<<>>, <<"crashed">>}

Init ==
  /\ main = <<"serving">> /\ handler = <<"waiting">> /\ signalled = FALSE
  /\ listening = TRUE /\ informers = TRUE /\ sending = 0 /\ missed = 0 /\ seen = 0
  /\ taken = {} /\ consumer = [c \in Consumers |-> Rest] /\ committed = {}
  /\ biz = [open |-> TRUE, queue |-> <<>>, published |-> {}] /\ skipped = {}
  /\ publisher = Rest /\ graphOpen = TRUE
  /\ labels = [asked |-> FALSE, open |-> TRUE, loop |-> "poll", queue |-> 0, polled |-> 0,
               busy |-> {}, gone |-> {}]
-----------------------------------------------------------------------------
\* A second signal finds nobody who reads it.
Signal ==
  /\ ~signalled /\ signalled' = TRUE
  /\ UNCHANGED <<main, handler, listening, graphOpen, eventVars, topicVars, biz,
                 publisher, labels>>

\* main: the deferred calls in their order, the last first.  Stop of the flow
\* and trace syncers and of the inspection wait for nobody.
Serve ==
  /\ main = <<"serving">> /\ signalled
  /\ main' = Deferred
  /\ UNCHANGED <<handler, signalled, listening, graphOpen, eventVars, topicVars, biz,
                 publisher, labels>>

LabelsGone == labels.gone = LabelWorkers
NotWaited == TRUE     \* Bug: Stop does not wait for its workers.
Waited == LabelsGone

\* Bug: Stop leaves the channel open, as it is closed by nobody else.
LeftOpen == labels
Closed == [labels EXCEPT !.open = FALSE]

Defer ==
  /\ ~Ended /\ Head(main) # "serving"
  /\ Head(main) = "workers" => Waited
  /\ main' = Tail(main)
  /\ labels' = CASE Head(main) = "flush" -> [labels EXCEPT !.asked = TRUE]
                 [] Head(main) = "labels" -> Closed
                 [] OTHER -> labels
  /\ graphOpen' = (graphOpen /\ Head(main) # "close")
  /\ UNCHANGED <<handler, signalled, listening, eventVars, topicVars, biz, publisher>>

\* The listener and Stop close stopCh; the second of them panics, and the
\* recovery of the handler leaves the rest of its list undone.
Listen ==
  /\ signalled /\ listening /\ ~Ended
  /\ listening' = FALSE /\ informers' = FALSE
  /\ UNCHANGED <<main, handler, signalled, graphOpen, sending, missed, seen,
                 topicVars, biz, publisher, labels>>

NotAwaited == TRUE   \* Bug: Stop does not wait for bizPublishDone.
Published == publisher = [step |-> "done"]

Handler ==
  /\ signalled /\ ~Ended /\ handler # <<>>
  /\ \/ /\ handler = <<"waiting">> /\ handler' = ToStop
        /\ UNCHANGED <<informers, biz>>
     \/ /\ Head(handler) = "informers" /\ informers' = FALSE
        /\ handler' = IF informers THEN Tail(handler) ELSE <<"panicked">>
        /\ UNCHANGED biz
     \/ /\ Head(handler) = "drain"      \* or after ten seconds
        /\ handler' = Tail(handler)
        /\ UNCHANGED <<informers, biz>>
     \/ /\ Head(handler) = "business"
        /\ biz' = [biz EXCEPT !.open = FALSE]
        /\ handler' = Tail(handler)
        /\ UNCHANGED informers
     \/ /\ Head(handler) = "published" /\ Published
        /\ handler' = Tail(handler)
        /\ UNCHANGED <<informers, biz>>
     \/ /\ Head(handler) \in {"executor", "server"}
        /\ handler' = Tail(handler)
        /\ UNCHANGED <<informers, biz>>
  /\ UNCHANGED <<main, signalled, listening, graphOpen, sending, missed, seen,
                 topicVars, publisher, labels>>
-----------------------------------------------------------------------------
\* handleResourceEvent starts a goroutine; seedToKafka gives up when the client
\* is closed, or after PublishTimeoutSec.
Event ==
  /\ informers /\ ~Ended /\ seen < MaxEvents
  /\ seen' = seen + 1 /\ sending' = sending + 1
  /\ UNCHANGED <<processVars, informers, missed, topicVars, biz, publisher, labels>>

Send ==
  /\ sending > 0 /\ ~Ended
  /\ sending' = sending - 1
  /\ missed' = IF graphOpen THEN missed ELSE missed + 1
  /\ UNCHANGED <<processVars, informers, seen, topicVars, biz, publisher, labels>>

\* A worker of the consumer: process, hand over, commit.  To hand over to a
\* closed channel panics: the worker is gone and has not committed.
At(c, step) == consumer[c].step = step /\ ~Ended

Consume(c, m) ==
  /\ At(c, "idle") /\ m \notin taken /\ ~signalled
  /\ taken' = taken \cup {m}
  /\ consumer' = [consumer EXCEPT ![c] = [step |-> "handover", m |-> m]]
  /\ UNCHANGED <<processVars, eventVars, committed, skipped, biz, publisher, labels>>

\* Bug: the message is marked before it is handed over.
MarkFirst(c) == committed' = committed \cup {consumer[c].m}
MarkLater(c) == UNCHANGED committed

HandOver(c) ==
  /\ At(c, "handover")
  /\ MarkLater(c)
  /\ LET m == consumer[c].m
         on == consumer' = [consumer EXCEPT ![c].step = "commit"] IN
       \/ /\ biz.open /\ Len(biz.queue) < BizRoom /\ on
          /\ biz' = [biz EXCEPT !.queue = Append(@, m)]
          /\ UNCHANGED skipped
       \/ /\ biz.open /\ Len(biz.queue) = BizRoom /\ on
          /\ skipped' = skipped \cup {m}
          /\ UNCHANGED biz
       \/ /\ ~biz.open
          /\ consumer' = [consumer EXCEPT ![c] = [step |-> "panicked"]]
          /\ UNCHANGED <<biz, skipped>>
  /\ UNCHANGED <<processVars, eventVars, taken, publisher, labels>>

Commit(c) ==
  /\ At(c, "commit")
  /\ committed' = committed \cup {consumer[c].m}
  /\ consumer' = [consumer EXCEPT ![c] = Rest]
  /\ UNCHANGED <<processVars, eventVars, taken, skipped, biz, publisher, labels>>

\* The publishing worker ranges over the channel until it is closed and empty.
Publish ==
  /\ ~Ended /\ publisher.step # "done"
  /\ \/ /\ publisher = Rest /\ biz.queue # <<>>
        /\ publisher' = [step |-> "publish", m |-> Head(biz.queue)]
        /\ biz' = [biz EXCEPT !.queue = Tail(@)]
     \/ /\ publisher.step = "publish"
        /\ biz' = [biz EXCEPT !.published = @ \cup {publisher.m}]
        /\ publisher' = Rest
     \/ /\ publisher = Rest /\ biz.queue = <<>> /\ ~biz.open
        /\ publisher' = [step |-> "done"] /\ UNCHANGED biz
  /\ UNCHANGED <<processVars, eventVars, topicVars, labels>>
-----------------------------------------------------------------------------
\* consumeLoop of the label syncer: poll, then give each record to the workers,
\* unless it is told to stop.  In Go a select of a closed channel to send to and
\* of one to receive from may choose either; nothing recovers from the panic.
LabelLoop ==
  /\ ~Ended
  /\ \/ /\ labels.loop = "poll" /\ ~labels.asked /\ labels.polled < Records
        /\ labels' = [labels EXCEPT !.loop = "give", !.polled = @ + 1]
        /\ UNCHANGED main
     \/ /\ labels.loop = "poll" /\ labels.asked
        /\ labels' = [labels EXCEPT !.loop = "gone"]
        /\ UNCHANGED main
     \/ /\ labels.loop = "give" /\ labels.open
        /\ labels' = [labels EXCEPT !.loop = "poll", !.queue = @ + 1]
        /\ UNCHANGED main
     \/ /\ labels.loop = "give" /\ ~labels.open
        /\ main' = <<"crashed">>
        /\ UNCHANGED labels
     \/ /\ labels.loop = "give" /\ labels.asked
        /\ labels' = [labels EXCEPT !.loop = "gone"]
        /\ UNCHANGED main
  /\ UNCHANGED <<handler, signalled, listening, graphOpen, eventVars, topicVars, biz,
                 publisher>>

LabelWork(w) ==
  /\ ~Ended /\ w \notin labels.gone
  /\ labels' =
       IF w \in labels.busy THEN [labels EXCEPT !.busy = @ \ {w}]
       ELSE IF labels.queue > 0 THEN [labels EXCEPT !.busy = @ \cup {w}, !.queue = @ - 1]
       ELSE IF ~labels.open THEN [labels EXCEPT !.gone = @ \cup {w}]
       ELSE labels
  /\ UNCHANGED <<processVars, eventVars, topicVars, biz, publisher>>

Next ==
  \/ Signal \/ Serve \/ Defer \/ Listen \/ Handler
  \/ Event \/ Send \/ Publish \/ LabelLoop
  \/ \E c \in Consumers : HandOver(c) \/ Commit(c) \/ \E m \in Messages : Consume(c, m)
  \/ \E w \in LabelWorkers : LabelWork(w)

Fairness == /\ WF_vars(Serve) /\ WF_vars(Defer)
            /\ \A w \in LabelWorkers : WF_vars(LabelWork(w))

Spec == Init /\ [][Next]_vars
FairSpec == Spec /\ Fairness
-----------------------------------------------------------------------------
(* A message of a workload that is committed, and so not read again after the
   next start, was given to the business topic or found its channel full,
   although Stop closes the channel while consumers send to it. *)
CommittedHandedOver ==
  \A m \in committed :
    \/ m \in skipped \cup biz.published
    \/ \E i \in DOMAIN biz.queue : biz.queue[i] = m
    \/ publisher.step = "publish" /\ publisher.m = m

(* Once the resource service has stopped, its consumers have left nothing behind
   in the channel, or in the hands of its worker. *)
BusinessDrained ==
  (\E s \in {"executor", "server"} : handler # <<>> /\ Head(handler) = s) \/ handler = <<>>
    => biz.queue = <<>> /\ publisher = [step |-> "done"]

(* The connections are closed only after the last worker of the label syncer,
   which writes to the graph, has returned. *)
LabelsBeforeClose == ~graphOpen => labels.busy = {} /\ labels.queue = 0

(* A signal ends the process: no worker that ranges over a channel is left
   waiting in the deferred calls. *)
SignalEnds == signalled ~> Ended

(* WaitForKafkaSend, which is to run before the process ends, sees to it that no
   event is lost (ten seconds are enough here). *)
EventsSent == main = <<>> => sending = 0 /\ missed = 0
=============================================================================
