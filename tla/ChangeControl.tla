--------------------------- MODULE ChangeControl ----------------------------
(***************************************************************************)
(* What the executor promises about the objects it changes, without its    *)
(* Kubernetes calls, its audit table and its goroutines:                   *)
(*   - a call changes an object only after a person has approved it, or    *)
(*     while the program may act by itself and the call is confident;      *)
(*   - it changes nothing but its own object, and that at most once;       *)
(*   - afterwards it may put back, at most once, a spec that was proven    *)
(*     to work or the one it found before its change;                      *)
(*   - a call that is over never changes anything again, and a crash ends  *)
(*     every call that was made.                                           *)
(* Everything else that happens to a spec is an edit made by others.       *)
(***************************************************************************)
EXTENDS Naturals

CONSTANTS Calls, Objects, Specs, NoSpec, NoObject, MaxEdits

VARIABLES
  mode,    \* whether the program may act by itself
  stage,   \* how far each call has come
  object,  \* the object of each call
  grounds, \* what a call can rest on: a person, the program's confidence
  prior,   \* the spec each call found before its change
  spec,    \* the objects
  proven,  \* the specs that were seen to work, of each object
  edits    \* how many edits others have made

vars == <<mode, stage, object, grounds, prior, spec, proven, edits>>

Init ==
  /\ mode \in BOOLEAN
  /\ stage = [c \in Calls |-> "new"]
  /\ object = [c \in Calls |-> NoObject]
  /\ grounds = [c \in Calls |-> {}]
  /\ prior = [c \in Calls |-> NoSpec]
  /\ spec \in [Objects -> Specs]
  /\ proven \in [Objects -> SUBSET Specs]
  /\ edits = 0

Moves(c, from, to) == stage[c] = from /\ stage' = [stage EXCEPT ![c] = to]

Toggle ==
  /\ mode' = ~mode
  /\ UNCHANGED <<stage, object, grounds, prior, spec, proven, edits>>

Ask(c) ==
  /\ Moves(c, "new", "asked")
  /\ \E o \in Objects : object' = [object EXCEPT ![c] = o]
  /\ \E g \in SUBSET {"person", "program"} : grounds' = [grounds EXCEPT ![c] = g]
  /\ prior' = [prior EXCEPT ![c] = NoSpec]
  /\ UNCHANGED <<mode, spec, proven, edits>>

Refuse(c) ==
  /\ Moves(c, "asked", "over")
  /\ UNCHANGED <<mode, object, grounds, prior, spec, proven, edits>>

Allow(c) ==
  /\ Moves(c, "asked", "allowed")
  /\ "person" \in grounds[c] \/ (mode /\ "program" \in grounds[c])
  /\ UNCHANGED <<mode, object, grounds, prior, spec, proven, edits>>

Look(c) ==
  /\ stage[c] = "allowed"
  /\ \E s \in {spec[object[c]], NoSpec} : prior' = [prior EXCEPT ![c] = s]
  /\ UNCHANGED <<mode, stage, object, grounds, spec, proven, edits>>

Change(c) ==
  /\ Moves(c, "allowed", "made")
  /\ \E s \in Specs : spec' = [spec EXCEPT ![object[c]] = s]
  /\ UNCHANGED <<mode, object, grounds, prior, proven, edits>>

\* The change is judged: it stays, or it is to be undone.
Judge(c) ==
  /\ \E next \in {"over", "undoing"} : Moves(c, "made", next)
  /\ UNCHANGED <<mode, object, grounds, prior, spec, proven, edits>>

PutBack(c) ==
  /\ Moves(c, "undoing", "over")
  /\ \E s \in proven[object[c]] \cup {prior[c], spec[object[c]]} :
       spec' = [spec EXCEPT ![object[c]] = s]
  /\ UNCHANGED <<mode, object, grounds, prior, proven, edits>>

Crash ==
  /\ stage' = [c \in Calls |-> IF stage[c] = "new" THEN "new" ELSE "over"]
  /\ mode' \in BOOLEAN
  /\ UNCHANGED <<object, grounds, prior, spec, proven, edits>>

Works(o) ==
  /\ proven' = [proven EXCEPT ![o] = @ \cup {spec[o]}]
  /\ UNCHANGED <<mode, stage, object, grounds, prior, spec, edits>>

Edit(o) ==
  /\ edits < MaxEdits
  /\ edits' = edits + 1
  /\ \E s \in Specs : spec' = [spec EXCEPT ![o] = s]
  /\ UNCHANGED <<mode, stage, object, grounds, prior, proven>>

CallNext(c) ==
  \/ Ask(c) \/ Refuse(c) \/ Allow(c) \/ Look(c)
  \/ Change(c) \/ Judge(c) \/ PutBack(c)

Next ==
  \/ Toggle \/ Crash
  \/ \E c \in Calls : CallNext(c)
  \/ \E o \in Objects : Works(o) \/ Edit(o)

Spec == Init /\ [][Next]_vars
=============================================================================
