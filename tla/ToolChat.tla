------------------------------- MODULE ToolChat -------------------------------
(* One question to the assistant over the HTTP provider: in each round the    *)
(* model streams an answer, the tool calls in it are put together from their  *)
(* fragments, run in parallel and handed back to the model.                   *)
(*                                                                            *)
(* A tool call is the index the model gives it; its arguments are abstracted  *)
(* to the number of fragments they arrived in.                                *)
EXTENDS Naturals, Sequences, FiniteSets

CONSTANTS Indexes,       \* indexes of the tool calls of one answer
          MaxFragments,  \* bound on the fragments of one call
          MaxRounds      \* rounds of one question

VARIABLES
  stage,    \* where the handler is: start, stream, tools, returned
  round,
  sent,     \* fragments the model has sent of each call it has begun
  accums,   \* what the parser holds of each call: fragments, completed
  calls,    \* the completed calls, in the order of their completion
  results,  \* positions in calls whose goroutine has written its result
  history,  \* the messages added to the user's
  told      \* the last line written for the client
vars == <<stage, round, sent, accums, calls, results, history, told>>

NoCalls == [i \in {} |-> 0]
Init ==
  /\ stage = "start" /\ round = 0 /\ sent = NoCalls /\ accums = NoCalls
  /\ calls = <<>> /\ results = {} /\ history = <<>> /\ told = "nothing"

-----------------------------------------------------------------------------
(* The stream. A chunk brings one delta or two. The first delta of a call     *)
(* names it, the others bring a fragment; calls arrive in the order of their  *)
(* indexes.                                                                   *)
NextDeltas(has) ==
  {[index |-> i, names |-> TRUE] :
     i \in {j \in Indexes \ DOMAIN has : \A k \in Indexes : k < j <=> k \in DOMAIN has}}
  \cup {[index |-> i, names |-> FALSE] :
     i \in {j \in DOMAIN has : has[j] < MaxFragments /\ \A k \in DOMAIN has : k <= j}}
With(has, d) ==
  [i \in DOMAIN has \cup {d.index} |->
     IF i # d.index THEN has[i] ELSE IF d.names THEN 0 ELSE has[i] + 1]
Chunks ==
  LET first == NextDeltas(sent)
  IN {<<d>> : d \in first} \cup UNION {{<<d, e>> : e \in NextDeltas(With(sent, d))} : d \in first}

Pending == {i \in DOMAIN accums : ~accums[i].completed}
UpTo(index) == {i \in Pending : i <= index}
Below(index) == {i \in Pending : i < index}

(* The calls of S are completed in any order: the accumulators are a map.     *)
Orders(S) ==
  {s \in [1..Cardinality(S) -> S] : \A a, b \in DOMAIN s : s[a] = s[b] => a = b}
Completed(S) ==
  {[n \in DOMAIN s |-> [index |-> s[n], fragments |-> accums[s[n]].fragments]] : s \in Orders(S)}

(* A chunk that begins with an index completes the calls below it; then each  *)
(* delta extends the accumulator of its call.                                 *)
Fragments(c, i) == Cardinality({n \in DOMAIN c : c[n].index = i /\ ~c[n].names})
Chunk ==
  /\ stage = "stream"
  /\ \E c \in Chunks :
       LET done == Below(c[1].index)
       IN /\ sent' = IF Len(c) = 1 THEN With(sent, c[1]) ELSE With(With(sent, c[1]), c[2])
          /\ \E s \in Completed(done) : calls' = calls \o s
          /\ accums' = [i \in DOMAIN sent' |->
               IF i \in DOMAIN accums
               THEN [fragments |-> accums[i].fragments + Fragments(c, i),
                     completed |-> accums[i].completed \/ i \in done]
               ELSE [fragments |-> Fragments(c, i), completed |-> FALSE]]
  /\ told' = "tool_start"
  /\ UNCHANGED <<stage, round, results, history>>

Calls == \* finish_reason tool_calls: what is pending is complete, the tools start
  /\ stage = "stream" /\ sent # NoCalls
  /\ \E s \in Completed(Pending) : calls' = calls \o s
  /\ accums' = [i \in DOMAIN accums |-> [accums[i] EXCEPT !.completed = TRUE]]
  /\ stage' = "tools" /\ told' = "tool_args"
  /\ UNCHANGED <<round, sent, results, history>>

Text == \* any other end of the stream, a cut one included, is the answer
  /\ stage = "stream" /\ stage' = "returned" /\ told' = "done"
  /\ UNCHANGED <<round, sent, accums, calls, results, history>>

RoundFails == \* the provider's error, 60 seconds of the round or 300 of the question
  /\ stage = "stream" /\ stage' = "returned" /\ told' = "error"
  /\ UNCHANGED <<round, sent, accums, calls, results, history>>

-----------------------------------------------------------------------------
(* The rounds. *)
StartRound ==
  /\ stage = "start" /\ round < MaxRounds
  /\ stage' = "stream" /\ round' = round + 1
  /\ sent' = NoCalls /\ accums' = NoCalls /\ calls' = <<>> /\ results' = {}
  /\ UNCHANGED <<history, told>>

TooManyRounds ==
  /\ stage = "start" /\ round = MaxRounds
  /\ stage' = "returned" /\ told' = "error"
  /\ UNCHANGED <<round, sent, accums, calls, results, history>>

LastIndex(n) == Len(calls)
Slot(n) == n
ToolEnds(n) == \* a result or an error, after 30 seconds at the latest
  /\ stage = "tools" /\ n \in DOMAIN calls \ results
  /\ results' = results \cup {Slot(n)}
  /\ UNCHANGED <<stage, round, sent, accums, calls, history, told>>

Message(role, n) == [role |-> role, round |-> round, call |-> calls[n].index]
CallsThenResults ==
  [n \in DOMAIN calls |-> Message("assistant", n)] \o [n \in DOMAIN calls |-> Message("tool", n)]
CallWithResult ==
  [m \in 1..(2 * Len(calls)) |->
     IF m % 2 = 1 THEN Message("assistant", (m + 1) \div 2) ELSE Message("tool", m \div 2)]
HandBack == \* when all goroutines are done
  /\ stage = "tools" /\ results = DOMAIN calls
  /\ history' = history \o CallWithResult
  /\ stage' = "start" /\ told' = "tool_result"
  /\ UNCHANGED <<round, sent, accums, calls, results>>

Next ==
  \/ Chunk \/ Calls \/ Text \/ RoundFails
  \/ StartRound \/ TooManyRounds \/ (\E n \in DOMAIN calls : ToolEnds(n)) \/ HandBack
Spec == Init /\ [][Next]_vars
(* The deadlines of the round and of each tool, and a running handler.        *)
Fairness ==
  /\ WF_vars(RoundFails) /\ WF_vars(StartRound) /\ WF_vars(TooManyRounds) /\ WF_vars(HandBack)
  /\ WF_vars(\E n \in DOMAIN calls : ToolEnds(n))
FairSpec == Spec /\ Fairness

-----------------------------------------------------------------------------
(* When the model asks for tools, each call it streamed is run once, with all *)
(* its fragments, however the chunks were cut (llm_http.go:886-950).          *)
CallsWhole ==
  stage = "tools" =>
    /\ {calls[n].index : n \in DOMAIN calls} = DOMAIN sent
    /\ Len(calls) = Cardinality(DOMAIN sent)
    /\ \A n \in DOMAIN calls : calls[n].fragments = sent[calls[n].index]

(* In the history every tool message follows the assistant message with its   *)
(* call, as the provider's API demands, whatever order the tools ended in     *)
(* (diagnosis_controller.go:917-962).                                         *)
ResultsFollowCalls ==
  \A m \in DOMAIN history :
    history[m].role = "tool" =>
      m > 1 /\ history[m - 1] = [history[m] EXCEPT !.role = "assistant"]

(* The handler returns, whatever the model asks for and however its tools end *)
(* (diagnosis_controller.go:864-973).                                         *)
AskEnds == <>(stage = "returned")
=============================================================================
