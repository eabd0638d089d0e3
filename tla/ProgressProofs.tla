--------------------------- MODULE ProgressProofs ---------------------------
(* A reply of the alert service and a question to the model, while MCProgress *)
(* takes its steps, for every value of the constants.                        *)
EXTENDS MCProgress, AlertServiceProofs

progressVars == <<part, vars, chatVars, stopVars, askVars, termVars>>

-----------------------------------------------------------------------------
(* The tool calls of one answer.                                             *)

\* What has been sent of the calls that have begun.
Sending(f) == /\ f \in [DOMAIN f -> Nat] /\ DOMAIN f \subseteq Indexes /\ IsFiniteSet(DOMAIN f)
Had(f, i) == IF i \in DOMAIN f THEN f[i] ELSE 0
Brings(d, i) == IF d.index = i /\ ~d.names THEN 1 ELSE 0

\* g is what has been sent once the delta d has come.
Extends(f, d, g) ==
  /\ d.names \in BOOLEAN /\ d.index \in Indexes
  /\ Sending(g) /\ DOMAIN g = DOMAIN f \cup {d.index}
  /\ \A i \in DOMAIN g : g[i] = Had(f, i) + Brings(d, i)
  /\ \A i \in DOMAIN f : i <= d.index

\* One delta goes to the last call or begins another one.
LEMMA DeltaAdds ==
  ASSUME NEW f, Sending(f), NEW d \in Asking!NextDeltas(f), NEW g, g = Asking!With(f, d)
  PROVE  Extends(f, d, g)
<1>1. /\ d.names \in BOOLEAN /\ d.index \in Indexes
      /\ d.names => d.index \notin DOMAIN f /\ \A k \in DOMAIN f : k < d.index
      /\ ~d.names => d.index \in DOMAIN f /\ \A k \in DOMAIN f : k <= d.index
  <2>1. CASE \E i \in Indexes \ DOMAIN f : /\ d = [index |-> i, names |-> TRUE]
                                          /\ \A k \in Indexes : k < i <=> k \in DOMAIN f
    BY <2>1 DEF Sending
  <2>2. CASE \E i \in DOMAIN f : /\ d = [index |-> i, names |-> FALSE]
                                /\ \A k \in DOMAIN f : k <= i
    BY <2>2 DEF Sending
  <2>3. QED
    BY <2>1, <2>2 DEF Asking!NextDeltas
<1>2. /\ DOMAIN g = DOMAIN f \cup {d.index}
      /\ \A i \in DOMAIN g : g[i] = IF i # d.index THEN f[i] ELSE IF d.names THEN 0 ELSE f[i] + 1
      /\ g = [i \in DOMAIN g |-> g[i]]
  BY DEF Asking!With
<1>3. \A i \in DOMAIN g : g[i] = Had(f, i) + Brings(d, i) /\ g[i] \in Nat
  BY <1>1, <1>2 DEF Had, Brings, Sending
<1>4. Sending(g)
  <2>1. IsFiniteSet(DOMAIN g)
    BY <1>2, FS_AddElement DEF Sending
  <2>2. g \in [DOMAIN g -> Nat]
    BY <1>2, <1>3
  <2>3. DOMAIN g \subseteq Indexes
    BY <1>1, <1>2 DEF Sending
  <2>4. QED
    BY <2>1, <2>2, <2>3 DEF Sending
<1>5. \A i \in DOMAIN f : i <= d.index
  BY <1>1, ProgressAssumption DEF Sending
<1>6. QED
  BY <1>1, <1>2, <1>3, <1>4, <1>5 DEF Extends

LEMMA CountIs == \A S : Asking!Cardinality(S) = Cardinality(S)
BY DEF Cardinality, Asking!Cardinality

\* The fragments of a chunk of one delta or of two.
LEMMA CountsOfTwo ==
  /\ Cardinality({}) = 0 /\ Cardinality({1}) = 1 /\ Cardinality({2}) = 1
  /\ Cardinality({1, 2}) = 2
<1>1. Cardinality({}) = 0
  BY FS_EmptySet
<1>2. IsFiniteSet({1}) /\ Cardinality({1}) = 1 /\ Cardinality({2}) = 1
  BY FS_Singleton
<1>3. Cardinality({1} \cup {2}) = 2
  BY <1>2, FS_AddElement
<1>4. {1} \cup {2} = {1, 2}
  OBVIOUS
<1>5. QED
  BY <1>1, <1>2, <1>3, <1>4

LEMMA OneBrings ==
  ASSUME NEW d, NEW i
  PROVE  Asking!Fragments(<<d>>, i) = Brings(d, i)
<1>1. PICK S : S = {n \in DOMAIN <<d>> : <<d>>[n].index = i /\ ~<<d>>[n].names}
  OBVIOUS
<1>2. S = IF d.index = i /\ ~d.names THEN {1} ELSE {}
  BY <1>1
<1>3. Cardinality(S) = Brings(d, i)
  BY <1>2, CountsOfTwo DEF Brings
<1>4. QED
  BY <1>1, <1>3, CountIs DEF Asking!Fragments

LEMMA TwoBring ==
  ASSUME NEW d, NEW e, NEW i
  PROVE  Asking!Fragments(<<d, e>>, i) = Brings(d, i) + Brings(e, i)
<1>1. PICK S : S = {n \in DOMAIN <<d, e>> : <<d, e>>[n].index = i /\ ~<<d, e>>[n].names}
  OBVIOUS
<1>2. S = (IF d.index = i /\ ~d.names THEN {1} ELSE {})
          \cup (IF e.index = i /\ ~e.names THEN {2} ELSE {})
  BY <1>1
<1>3. Cardinality(S) = Brings(d, i) + Brings(e, i)
  BY <1>2, CountsOfTwo DEF Brings
<1>4. QED
  BY <1>1, <1>3, CountIs DEF Asking!Fragments

Sent(c) ==
  IF Len(c) = 1 THEN Asking!With(sent, c[1]) ELSE Asking!With(Asking!With(sent, c[1]), c[2])
LEMMA ChunkAdds ==
  ASSUME Sending(sent), NEW c \in Asking!Chunks, NEW g, g = Sent(c)
  PROVE  /\ Sending(g) /\ DOMAIN sent \subseteq DOMAIN g /\ c[1].index \in DOMAIN g
         /\ \A i \in DOMAIN g : /\ Asking!Fragments(c, i) \in Nat
                                /\ g[i] = Had(sent, i) + Asking!Fragments(c, i)
         /\ \A i \in DOMAIN sent : /\ i <= c[1].index
                                   /\ i < c[1].index => Asking!Fragments(c, i) = 0
<1> PICK f : f = sent
  OBVIOUS
<1>1. PICK d \in Asking!NextDeltas(f) :
        c = <<d>> \/ \E e \in Asking!NextDeltas(Asking!With(f, d)) : c = <<d, e>>
  BY DEF Asking!Chunks
<1>0. Sending(f)
  OBVIOUS
<1> PICK h : h = Asking!With(f, d)
  OBVIOUS
<1>2. /\ d.names \in BOOLEAN /\ d.index \in Indexes
      /\ Sending(h) /\ DOMAIN h = DOMAIN f \cup {d.index}
      /\ \A i \in DOMAIN h : h[i] = Had(f, i) + Brings(d, i)
      /\ \A i \in DOMAIN f : i <= d.index
  <2>1. Extends(f, d, h)
    BY <1>0, DeltaAdds
  <2>2. QED
    BY <2>1 DEF Extends
<1>3. d.names \in BOOLEAN /\ d.index \in Nat
  BY <1>2, ProgressAssumption
<1>4. CASE c = <<d>>
  <2>1. g = h /\ c[1] = d
    BY <1>4 DEF Sent
  <2>2. \A i : Asking!Fragments(c, i) = Brings(d, i)
    BY <1>4, OneBrings
  <2>3. \A i : Brings(d, i) \in Nat /\ (i # d.index => Brings(d, i) = 0)
    BY DEF Brings
  <2>4. DOMAIN f \subseteq Nat
    BY ProgressAssumption DEF Sending
  <2>5. QED
    BY <1>2, <1>3, <2>1, <2>2, <2>3, <2>4
<1>5. ASSUME NEW e \in Asking!NextDeltas(h), c = <<d, e>>
      PROVE  /\ Sending(g) /\ DOMAIN sent \subseteq DOMAIN g /\ c[1].index \in DOMAIN g
             /\ \A i \in DOMAIN g : /\ Asking!Fragments(c, i) \in Nat
                                    /\ g[i] = Had(sent, i) + Asking!Fragments(c, i)
             /\ \A i \in DOMAIN sent : /\ i <= c[1].index
                                       /\ i < c[1].index => Asking!Fragments(c, i) = 0
  <2>1. g = Asking!With(h, e) /\ c[1] = d
    BY <1>5 DEF Sent
  <2>2. /\ e.names \in BOOLEAN /\ e.index \in Indexes
        /\ Sending(g) /\ DOMAIN g = DOMAIN h \cup {e.index}
        /\ \A i \in DOMAIN g : g[i] = Had(h, i) + Brings(e, i)
        /\ \A i \in DOMAIN h : i <= e.index
    <3>1. Extends(h, e, g)
      BY <1>2, <2>1, DeltaAdds
    <3>2. QED
      BY <3>1 DEF Extends
  <2>3. e.names \in BOOLEAN /\ e.index \in Nat
    BY <2>2, ProgressAssumption
  <2>4. \A i : Asking!Fragments(c, i) = Brings(d, i) + Brings(e, i)
    BY <1>5, TwoBring
  <2>5. /\ \A i : Brings(d, i) \in Nat /\ (i # d.index => Brings(d, i) = 0)
        /\ \A i : Brings(e, i) \in Nat /\ (i # e.index => Brings(e, i) = 0)
    BY DEF Brings
  <2>6. DOMAIN f \subseteq Nat /\ d.index <= e.index
    BY <1>2, <2>2, ProgressAssumption DEF Sending
  <2>7. \A i \in DOMAIN g : Had(h, i) = Had(f, i) + Brings(d, i)
    <3>1. \A i \in DOMAIN h : Had(h, i) = Had(f, i) + Brings(d, i)
      BY <1>2 DEF Had
    <3>2. \A i \in DOMAIN g \ DOMAIN h : Had(h, i) = 0 /\ Had(f, i) = 0 /\ Brings(d, i) = 0
      BY <1>2, <2>5 DEF Had
    <3>3. QED
      BY <3>1, <3>2
  <2>8. \A i : Had(f, i) \in Nat
    BY DEF Had, Sending
  <2>9. \A i \in DOMAIN g : g[i] = Had(f, i) + Asking!Fragments(c, i)
    BY <2>2, <2>4, <2>5, <2>7, <2>8
  <2>10. \A i \in DOMAIN f : i <= d.index /\ (i < d.index => Asking!Fragments(c, i) = 0)
    BY <1>2, <1>3, <2>3, <2>4, <2>5, <2>6
  <2>11. QED
    BY <1>2, <2>1, <2>2, <2>4, <2>5, <2>9, <2>10
<1>6. QED
  BY <1>1, <1>4, <1>5

\* What is completed, in whatever order: each pending call of a set once.
Call == [index: Indexes, fragments: Nat]
EachOnce(s) == \A m, n \in DOMAIN s : s[m].index = s[n].index => m = n
Completes(s, S) ==
  /\ s \in Seq(Call) /\ EachOnce(s) /\ \A n \in DOMAIN s : s[n].index \in S
  /\ \A i \in S : \E n \in DOMAIN s : s[n].index = i
LEMMA CompletedOnce ==
  ASSUME NEW S, S \subseteq Indexes, IsFiniteSet(S), \A i \in S : accums[i].fragments \in Nat,
         NEW s \in Asking!Completed(S)
  PROVE  Completes(s, S) /\ \A n \in DOMAIN s : s[n].fragments = accums[s[n].index].fragments
<1> PICK k : k = Cardinality(S)
  OBVIOUS
<1>1. k \in Nat /\ Asking!Cardinality(S) = k
  BY FS_CardinalityType, CountIs
<1>2. PICK o \in [1..k -> S] : /\ \A a, b \in DOMAIN o : o[a] = o[b] => a = b
                               /\ s = [n \in DOMAIN o |-> [index |-> o[n], fragments |-> accums[o[n]].fragments]]
  BY <1>1 DEF Asking!Completed, Asking!Orders
<1>3. /\ DOMAIN s = 1..k
      /\ \A n \in 1..k : s[n] \in Call /\ s[n].index = o[n] /\ s[n].fragments = accums[o[n]].fragments
  BY <1>2 DEF Call
<1>4. s \in Seq(Call)
  <2>1. s \in [1..k -> Call]
    BY <1>2, <1>3
  <2>2. QED
    BY <1>1, <2>1
<1>5. EachOnce(s)
  BY <1>2, <1>3 DEF EachOnce
<1>6. \A i \in S : \E n \in 1..k : o[n] = i
  <2> PICK R : R = {o[n] : n \in 1..k}
    OBVIOUS
  <2>1. IsFiniteSet(1..k) /\ Cardinality(1..k) = k
    BY <1>1, FS_Interval
  <2>2. R \subseteq S /\ IsFiniteSet(R)
    BY FS_Subset
  <2>3. o \in Injection(1..k, R)
    BY <1>2 DEF Injection, IsInjective
  <2>4. o \in Surjection(1..k, R)
    BY <1>2 DEF Surjection
  <2>5. Cardinality(R) = k
    <3>1. o \in Bijection(1..k, R)
      BY <2>3, <2>4 DEF Bijection
    <3>2. ExistsBijection(1..k, R)
      BY <3>1 DEF ExistsBijection
    <3>3. QED
      BY <1>1, <3>2, FS_CountingElements
  <2>6. R = S
    BY <2>2, <2>5, FS_Subset
  <2>7. QED
    BY <2>6
<1>7. QED
  BY <1>2, <1>3, <1>4, <1>5, <1>6 DEF Completes

\* What the parser holds, what it has completed and what the history says.
Held == [fragments: Nat, completed: BOOLEAN]
Parsed ==
  /\ Sending(sent) /\ accums \in [DOMAIN sent -> Held]
  /\ \A i \in DOMAIN sent : accums[i].fragments = sent[i]
Listing ==
  /\ calls \in Seq(Call) /\ EachOnce(calls)
  /\ \A n \in DOMAIN calls : /\ calls[n].index \in DOMAIN sent
                             /\ accums[calls[n].index].completed
                             /\ calls[n].fragments = sent[calls[n].index]
  /\ \A i \in DOMAIN sent : accums[i].completed => \E n \in DOMAIN calls : calls[n].index = i
Answers(h) ==
  \A m \in DOMAIN h : h[m].role = "tool" => m > 1 /\ h[m - 1] = [h[m] EXCEPT !.role = "assistant"]
Said == [role: {"assistant", "tool"}, round: Nat, call: Indexes]
AskInv ==
  /\ Parsed /\ Listing /\ round \in Nat
  /\ stage = "stream" => \A i \in DOMAIN sent : accums[i].completed => \E k \in DOMAIN sent : i < k
  /\ stage = "tools" => \A i \in DOMAIN sent : accums[i].completed
  /\ history \in Seq(Said) /\ Answers(history)

\* The calls that are completed are listed after those that were.
ListedAfter(c, s, t) ==
  /\ t \in Seq(Call) /\ EachOnce(t)
  /\ \A n \in DOMAIN t : t[n] \in {c[m] : m \in DOMAIN c} \cup {s[m] : m \in DOMAIN s}
  /\ \A m \in DOMAIN c : \E n \in DOMAIN t : t[n] = c[m]
  /\ \A m \in DOMAIN s : \E n \in DOMAIN t : t[n] = s[m]
LEMMA ListsMore ==
  ASSUME NEW c \in Seq(Call), EachOnce(c), NEW s \in Seq(Call), EachOnce(s),
         \A m \in DOMAIN c, n \in DOMAIN s : c[m].index # s[n].index
  PROVE  ListedAfter(c, s, c \o s)
<1> PICK l \in Nat : l = Len(c)
  OBVIOUS
<1> PICK k \in Nat : k = Len(s)
  OBVIOUS
<1> PICK t : t = c \o s
  OBVIOUS
<1>2. /\ t \in Seq(Call) /\ Len(t) = l + k /\ DOMAIN t = 1..(l + k)
      /\ \A n \in 1..l : t[n] = c[n]
      /\ \A n \in (l + 1)..(l + k) : t[n] = s[n - l]
  OBVIOUS
<1>3. DOMAIN c = 1..l /\ DOMAIN s = 1..k
  OBVIOUS
<1>4. \A m \in DOMAIN c, n \in DOMAIN s : c[m].index # s[n].index
  OBVIOUS
<1>5. EachOnce(t)
  <2>1. ASSUME NEW m \in 1..(l + k), NEW n \in 1..(l + k), t[m].index = t[n].index PROVE m = n
    <3>1. CASE m <= l /\ n <= l
      <4>1. t[m] = c[m] /\ t[n] = c[n] /\ m \in DOMAIN c /\ n \in DOMAIN c
        BY <1>2, <1>3, <3>1
      <4>2. QED
        BY <2>1, <4>1 DEF EachOnce
    <3>2. CASE m > l /\ n > l
      <4>1. t[m] = s[m - l] /\ t[n] = s[n - l] /\ m - l \in DOMAIN s /\ n - l \in DOMAIN s
        BY <1>2, <1>3, <3>2
      <4>2. m - l = n - l
        BY <2>1, <4>1 DEF EachOnce
      <4>3. QED
        BY <4>2
    <3>3. CASE m <= l /\ n > l
      <4>1. t[m] = c[m] /\ t[n] = s[n - l] /\ m \in DOMAIN c /\ n - l \in DOMAIN s
        BY <1>2, <1>3, <3>3
      <4>2. QED
        BY <1>4, <2>1, <4>1
    <3>4. CASE m > l /\ n <= l
      <4>1. t[n] = c[n] /\ t[m] = s[m - l] /\ n \in DOMAIN c /\ m - l \in DOMAIN s
        BY <1>2, <1>3, <3>4
      <4>2. QED
        BY <1>4, <2>1, <4>1
    <3>5. QED
      BY <3>1, <3>2, <3>3, <3>4
  <2>2. QED
    BY <1>2, <2>1 DEF EachOnce
<1>6. \A n \in DOMAIN t : t[n] \in {c[m] : m \in DOMAIN c} \cup {s[m] : m \in DOMAIN s}
  <2>1. ASSUME NEW n \in 1..(l + k)
        PROVE  t[n] \in {c[m] : m \in DOMAIN c} \cup {s[m] : m \in DOMAIN s}
    <3>1. CASE n <= l
      BY <1>2, <1>3, <3>1
    <3>2. CASE n > l
      <4>1. n - l \in 1..k /\ t[n] = s[n - l]
        BY <1>2, <3>2
      <4>2. QED
        BY <1>3, <4>1
    <3>3. QED
      BY <3>1, <3>2
  <2>2. QED
    BY <1>2, <2>1
<1>7. \A m \in DOMAIN c : \E n \in DOMAIN t : t[n] = c[m]
  BY <1>2, <1>3
<1>8. \A m \in DOMAIN s : \E n \in DOMAIN t : t[n] = s[m]
  <2>1. ASSUME NEW m \in 1..k PROVE \E n \in DOMAIN t : t[n] = s[m]
    <3>1. m + l \in (l + 1)..(l + k) /\ (m + l) - l = m
      OBVIOUS
    <3>2. t[m + l] = s[m] /\ m + l \in DOMAIN t
      BY <1>2, <3>1
    <3>3. QED
      BY <3>2
  <2>2. QED
    BY <1>3, <2>1
<1>9. QED
  BY <1>2, <1>5, <1>6, <1>7, <1>8 DEF ListedAfter

LEMMA ChunkStep ==
  ASSUME AskInv, Asking!Chunk
  PROVE  AskInv'
<1>1. PICK c \in Asking!Chunks :
        LET done == Asking!Below(c[1].index)
        IN /\ sent' = Sent(c)
           /\ \E s \in Asking!Completed(done) : calls' = calls \o s
           /\ accums' = [i \in DOMAIN sent' |->
                IF i \in DOMAIN accums
                THEN [fragments |-> accums[i].fragments + Asking!Fragments(c, i),
                      completed |-> accums[i].completed \/ i \in done]
                ELSE [fragments |-> Asking!Fragments(c, i), completed |-> FALSE]]
  BY DEF Asking!Chunk, Sent
<1>2. stage = "stream" /\ UNCHANGED <<stage, round, toolResults, history>>
  BY DEF Asking!Chunk
<1>3. Parsed /\ Listing /\ round \in Nat /\ Sending(sent)
  BY DEF AskInv, Parsed
<1>4. /\ DOMAIN sent \subseteq Indexes /\ DOMAIN accums = DOMAIN sent
      /\ \A i \in DOMAIN sent : /\ accums[i].fragments = sent[i] /\ sent[i] \in Nat
                                /\ accums[i].completed \in BOOLEAN
      /\ IsFiniteSet(DOMAIN sent)
  BY <1>3 DEF Parsed, Sending, Held
<1> PICK x : x = c[1].index
  OBVIOUS
<1> PICK done : done = Asking!Below(x)
  OBVIOUS
<1> PICK g : g = sent'
  OBVIOUS
<1>5. /\ Sending(g) /\ DOMAIN sent \subseteq DOMAIN g /\ x \in DOMAIN g
      /\ \A i \in DOMAIN g : /\ Asking!Fragments(c, i) \in Nat
                             /\ g[i] = Had(sent, i) + Asking!Fragments(c, i)
      /\ \A i \in DOMAIN sent : i <= x /\ (i < x => Asking!Fragments(c, i) = 0)
  <2>1. g = Sent(c)
    BY <1>1
  <2>2. QED
    BY <1>3, <2>1, ChunkAdds
<1>6. done = {i \in DOMAIN sent : ~accums[i].completed /\ i < x}
  BY <1>4 DEF Asking!Below, Asking!Pending
<1>7. PICK s \in Asking!Completed(done) : calls' = calls \o s
  BY <1>1
<1>8. /\ Completes(s, done)
      /\ \A n \in DOMAIN s : s[n].fragments = accums[s[n].index].fragments
  <2>1. IsFiniteSet(done) /\ done \subseteq Indexes
    BY <1>4, <1>6, FS_Subset
  <2>2. \A i \in done : accums[i].fragments \in Nat
    BY <1>4, <1>6
  <2>3. QED
    BY <2>1, <2>2, CompletedOnce
<1>9. ListedAfter(calls, s, calls')
  <2> PICK c0 : c0 = calls
    OBVIOUS
  <2>1. c0 \in Seq(Call) /\ EachOnce(c0) /\ s \in Seq(Call) /\ EachOnce(s)
    BY <1>3, <1>8 DEF Listing, Completes
  <2>2. \A m \in DOMAIN c0, n \in DOMAIN s : c0[m].index # s[n].index
    <3>1. ASSUME NEW m \in DOMAIN c0, NEW n \in DOMAIN s PROVE c0[m].index # s[n].index
      <4>1. accums[c0[m].index].completed
        BY <1>3 DEF Listing
      <4>2. s[n].index \in done
        BY <1>8 DEF Completes
      <4>3. QED
        BY <1>6, <4>1, <4>2
    <3>2. QED
      BY <3>1
  <2>3. ListedAfter(c0, s, c0 \o s)
    BY <2>1, <2>2, ListsMore
  <2>4. QED
    BY <1>7, <2>3
<1>10. accums' = [i \in DOMAIN g |->
         IF i \in DOMAIN sent
         THEN [fragments |-> accums[i].fragments + Asking!Fragments(c, i),
               completed |-> accums[i].completed \/ i \in done]
         ELSE [fragments |-> Asking!Fragments(c, i), completed |-> FALSE]]
  BY <1>1, <1>4
<1>11. /\ \A i \in DOMAIN sent : /\ accums'[i].fragments = sent[i] + Asking!Fragments(c, i)
                                 /\ accums'[i].completed = (accums[i].completed \/ i \in done)
       /\ \A i \in DOMAIN g \ DOMAIN sent : /\ accums'[i].fragments = Asking!Fragments(c, i)
                                            /\ accums'[i].completed = FALSE
       /\ accums' \in [DOMAIN g -> Held]
  <2>1. \A i \in DOMAIN sent :
          /\ accums'[i] = [fragments |-> accums[i].fragments + Asking!Fragments(c, i),
                           completed |-> accums[i].completed \/ i \in done]
    BY <1>5, <1>10
  <2>2. \A i \in DOMAIN g \ DOMAIN sent :
          accums'[i] = [fragments |-> Asking!Fragments(c, i), completed |-> FALSE]
    BY <1>10
  <2>3. \A i \in DOMAIN sent : /\ accums'[i].fragments = sent[i] + Asking!Fragments(c, i)
                               /\ accums'[i].completed = (accums[i].completed \/ i \in done)
                               /\ accums'[i] \in Held
    <3>1. ASSUME NEW i \in DOMAIN sent
          PROVE  /\ accums'[i].fragments = sent[i] + Asking!Fragments(c, i)
                 /\ accums'[i].completed = (accums[i].completed \/ i \in done)
                 /\ accums'[i] \in Held
      <4>1. accums[i].fragments = sent[i] /\ sent[i] + Asking!Fragments(c, i) \in Nat
        BY <1>4, <1>5
      <4>2. PICK b \in BOOLEAN : b = (accums[i].completed \/ i \in done)
        BY <1>4
      <4>3. accums'[i] = [fragments |-> sent[i] + Asking!Fragments(c, i), completed |-> b]
        BY <2>1, <4>1, <4>2
      <4>4. QED
        BY <4>1, <4>2, <4>3 DEF Held
    <3>2. QED
      BY <3>1
  <2>4. \A i \in DOMAIN g \ DOMAIN sent : /\ accums'[i].fragments = Asking!Fragments(c, i)
                                          /\ accums'[i].completed = FALSE
                                          /\ accums'[i] \in Held
    <3>1. ASSUME NEW i \in DOMAIN g \ DOMAIN sent
          PROVE  /\ accums'[i].fragments = Asking!Fragments(c, i)
                 /\ accums'[i].completed = FALSE /\ accums'[i] \in Held
      <4>1. PICK k \in Nat : k = Asking!Fragments(c, i)
        BY <1>5
      <4>2. accums'[i] = [fragments |-> k, completed |-> FALSE]
        BY <2>2, <4>1
      <4>3. QED
        BY <4>1, <4>2 DEF Held
    <3>2. QED
      BY <3>1
  <2>5. accums' \in [DOMAIN g -> Held]
    <3>1. DOMAIN accums' = DOMAIN g /\ accums' = [i \in DOMAIN g |-> accums'[i]]
      BY <1>10
    <3>2. \A i \in DOMAIN g : accums'[i] \in Held
      BY <2>3, <2>4
    <3>3. QED
      BY <3>1, <3>2
  <2>6. QED
    BY <2>3, <2>4, <2>5
<1>12. \A i \in DOMAIN g : accums'[i].fragments = g[i]
  BY <1>5, <1>11 DEF Had
<1>13. Parsed'
  BY <1>5, <1>11, <1>12 DEF Parsed
<1>14. \A i \in DOMAIN sent : accums[i].completed \/ i \in done => i < x /\ g[i] = sent[i]
  <2>1. ASSUME NEW i \in DOMAIN sent, accums[i].completed \/ i \in done PROVE i < x /\ g[i] = sent[i]
    <3>1. i < x
      <4>1. CASE i \in done
        BY <1>6, <4>1
      <4>2. CASE accums[i].completed
        <5>1. PICK k \in DOMAIN sent : i < k
          BY <1>2, <4>2 DEF AskInv
        <5>2. k <= x /\ i \in Nat /\ k \in Nat /\ x \in Nat
          BY <1>4, <1>5, ProgressAssumption DEF Sending
        <5>3. QED
          BY <5>1, <5>2
      <4>3. QED
        BY <2>1, <4>1, <4>2
    <3>2. g[i] = sent[i] + 0 /\ sent[i] \in Nat
      BY <1>4, <1>5, <3>1 DEF Had
    <3>3. QED
      BY <3>1, <3>2
  <2>2. QED
    BY <2>1
<1>15. Listing'
  <2>1. ASSUME NEW n \in DOMAIN calls'
        PROVE  /\ calls'[n].index \in DOMAIN g /\ accums'[calls'[n].index].completed
               /\ calls'[n].fragments = g[calls'[n].index]
    <3>1. CASE \E m \in DOMAIN calls : calls'[n] = calls[m]
      <4>1. PICK m \in DOMAIN calls : calls'[n] = calls[m]
        BY <3>1
      <4>2. PICK i \in DOMAIN sent : i = calls[m].index
        BY <1>3 DEF Listing
      <4>3. accums[i].completed /\ calls[m].fragments = sent[i]
        BY <1>3, <4>2 DEF Listing
      <4>4. i \in DOMAIN g /\ accums'[i].completed /\ g[i] = sent[i]
        BY <1>5, <1>11, <1>14, <4>3
      <4>5. QED
        BY <4>1, <4>2, <4>3, <4>4
    <3>2. CASE \E m \in DOMAIN s : calls'[n] = s[m]
      <4>1. PICK m \in DOMAIN s : calls'[n] = s[m]
        BY <3>2
      <4>2. s[m].index \in done /\ s[m].fragments = accums[s[m].index].fragments
        BY <1>8 DEF Completes
      <4>3. QED
        BY <1>4, <1>5, <1>6, <1>11, <1>14, <4>1, <4>2
    <3>3. QED
      BY <1>9, <3>1, <3>2 DEF ListedAfter
  <2>2. ASSUME NEW i \in DOMAIN g, accums'[i].completed
        PROVE  \E n \in DOMAIN calls' : calls'[n].index = i
    <3>1. i \in DOMAIN sent /\ (accums[i].completed \/ i \in done)
      BY <1>11, <2>2
    <3>2. CASE accums[i].completed
      <4>1. PICK m \in DOMAIN calls : calls[m].index = i
        BY <1>3, <3>1, <3>2 DEF Listing
      <4>2. PICK n \in DOMAIN calls' : calls'[n] = calls[m]
        BY <1>9 DEF ListedAfter
      <4>3. QED
        BY <4>1, <4>2
    <3>3. CASE i \in done
      <4>1. PICK m \in DOMAIN s : s[m].index = i
        BY <1>8, <3>3 DEF Completes
      <4>2. PICK n \in DOMAIN calls' : calls'[n] = s[m]
        BY <1>9 DEF ListedAfter
      <4>3. QED
        BY <4>1, <4>2
    <3>4. QED
      BY <3>1, <3>2, <3>3
  <2>3. QED
    BY <1>9, <2>1, <2>2 DEF Listing, ListedAfter, EachOnce
<1>16. \A i \in DOMAIN g : accums'[i].completed => \E k \in DOMAIN g : i < k
  BY <1>5, <1>11, <1>14
<1>17. QED
  BY <1>2, <1>3, <1>13, <1>15, <1>16 DEF AskInv, Answers

LEMMA CallsStep ==
  ASSUME AskInv, Asking!Calls
  PROVE  AskInv'
<1> PICK done : done = Asking!Pending
  OBVIOUS
<1>1. PICK s \in Asking!Completed(done) : calls' = calls \o s
  BY DEF Asking!Calls
<1>2. /\ accums' = [i \in DOMAIN accums |-> [accums[i] EXCEPT !.completed = TRUE]]
      /\ stage' = "tools" /\ UNCHANGED <<round, sent, toolResults, history>>
  BY DEF Asking!Calls
<1>3. Parsed /\ Listing /\ round \in Nat
  BY DEF AskInv
<1>4. /\ DOMAIN sent \subseteq Indexes /\ DOMAIN accums = DOMAIN sent
      /\ \A i \in DOMAIN sent : accums[i] \in Held /\ accums[i].fragments = sent[i]
      /\ IsFiniteSet(DOMAIN sent)
  BY <1>3 DEF Parsed, Sending
<1>5. done = {i \in DOMAIN sent : ~accums[i].completed}
  BY <1>4 DEF Asking!Pending
<1>6. /\ Completes(s, done)
      /\ \A n \in DOMAIN s : s[n].fragments = accums[s[n].index].fragments
  <2>1. IsFiniteSet(done) /\ done \subseteq Indexes
    BY <1>4, <1>5, FS_Subset
  <2>2. \A i \in done : accums[i].fragments \in Nat
    BY <1>4, <1>5 DEF Held
  <2>3. QED
    BY <2>1, <2>2, CompletedOnce
<1>7. ListedAfter(calls, s, calls')
  <2> PICK c0 : c0 = calls
    OBVIOUS
  <2>1. c0 \in Seq(Call) /\ EachOnce(c0) /\ s \in Seq(Call) /\ EachOnce(s)
    BY <1>3, <1>6 DEF Listing, Completes
  <2>2. \A m \in DOMAIN c0, n \in DOMAIN s : c0[m].index # s[n].index
    <3>1. ASSUME NEW m \in DOMAIN c0, NEW n \in DOMAIN s PROVE c0[m].index # s[n].index
      <4>1. accums[c0[m].index].completed
        BY <1>3 DEF Listing
      <4>2. s[n].index \in done
        BY <1>6 DEF Completes
      <4>3. QED
        BY <1>5, <4>1, <4>2
    <3>2. QED
      BY <3>1
  <2>3. ListedAfter(c0, s, c0 \o s)
    BY <2>1, <2>2, ListsMore
  <2>4. QED
    BY <1>1, <2>3
<1>8. /\ accums' \in [DOMAIN sent -> Held]
      /\ \A i \in DOMAIN sent : accums'[i].fragments = sent[i] /\ accums'[i].completed
  <2>1. ASSUME NEW i \in DOMAIN sent
        PROVE  accums'[i] \in Held /\ accums'[i].fragments = sent[i] /\ accums'[i].completed
    <3>1. PICK a \in Held : a = accums[i]
      BY <1>4
    <3>2. accums'[i] = [a EXCEPT !.completed = TRUE]
      BY <1>2, <1>4, <3>1
    <3>3. QED
      BY <1>4, <3>1, <3>2 DEF Held
  <2>2. DOMAIN accums' = DOMAIN sent /\ accums' = [i \in DOMAIN sent |-> accums'[i]]
    BY <1>2, <1>4
  <2>3. QED
    BY <2>1, <2>2
<1>9. Parsed'
  BY <1>2, <1>3, <1>8 DEF Parsed
<1>10. Listing'
  <2>1. ASSUME NEW n \in DOMAIN calls'
        PROVE  calls'[n].index \in DOMAIN sent /\ calls'[n].fragments = sent[calls'[n].index]
    <3>1. CASE \E m \in DOMAIN calls : calls'[n] = calls[m]
      BY <1>3, <3>1 DEF Listing
    <3>2. CASE \E m \in DOMAIN s : calls'[n] = s[m]
      <4>1. PICK m \in DOMAIN s : calls'[n] = s[m]
        BY <3>2
      <4>2. s[m].index \in done /\ s[m].fragments = accums[s[m].index].fragments
        BY <1>6 DEF Completes
      <4>3. QED
        BY <1>4, <1>5, <4>1, <4>2
    <3>3. QED
      BY <1>7, <3>1, <3>2 DEF ListedAfter
  <2>2. ASSUME NEW i \in DOMAIN sent PROVE \E n \in DOMAIN calls' : calls'[n].index = i
    <3>1. CASE accums[i].completed
      <4>1. PICK m \in DOMAIN calls : calls[m].index = i
        BY <1>3, <3>1 DEF Listing
      <4>2. PICK n \in DOMAIN calls' : calls'[n] = calls[m]
        BY <1>7 DEF ListedAfter
      <4>3. QED
        BY <4>1, <4>2
    <3>2. CASE i \in done
      <4>1. PICK m \in DOMAIN s : s[m].index = i
        BY <1>6, <3>2 DEF Completes
      <4>2. PICK n \in DOMAIN calls' : calls'[n] = s[m]
        BY <1>7 DEF ListedAfter
      <4>3. QED
        BY <4>1, <4>2
    <3>3. QED
      BY <1>5, <3>1, <3>2
  <2>3. QED
    BY <1>2, <1>7, <1>8, <2>1, <2>2 DEF Listing, ListedAfter, EachOnce
<1>11. QED
  BY <1>2, <1>3, <1>8, <1>9, <1>10 DEF AskInv, Answers

\* Each tool message follows the assistant message of its call.
LEMMA PairsFollow ==
  ASSUME Listing, round \in Nat, NEW w, w = Asking!CallWithResult
  PROVE  w \in Seq(Said) /\ Answers(w)
<1> PICK l \in Nat : l = Len(calls)
  BY DEF Listing
<1>1. \A n \in 1..l : calls[n].index \in Indexes
  <2>1. calls \in Seq(Call)
    BY DEF Listing
  <2>2. \A n \in 1..l : calls[n] \in Call
    BY <2>1
  <2>3. QED
    BY <2>2 DEF Call
<1>2. \A m \in 1..(2 * l) : /\ m % 2 = 1 => (m + 1) \div 2 \in 1..l
                            /\ m % 2 # 1 => m \div 2 \in 1..l
  OBVIOUS
<1>3. w = [m \in 1..(2 * l) |-> IF m % 2 = 1 THEN Asking!Message("assistant", (m + 1) \div 2)
                                ELSE Asking!Message("tool", m \div 2)]
  BY DEF Asking!CallWithResult
<1>4. \A n \in 1..l : /\ Asking!Message("assistant", n) \in Said
                      /\ Asking!Message("tool", n) \in Said
                      /\ Asking!Message("assistant", n).role # "tool"
                      /\ Asking!Message("assistant", n) = [Asking!Message("tool", n) EXCEPT !.role = "assistant"]
  BY <1>1 DEF Asking!Message, Said
<1>5. w \in [1..(2 * l) -> Said]
  <2>1. \A m \in 1..(2 * l) : w[m] \in Said
    BY <1>2, <1>3, <1>4
  <2>2. QED
    BY <1>3, <2>1
<1>6. w \in Seq(Said) /\ DOMAIN w = 1..(2 * l)
  BY <1>5
<1>7. ASSUME NEW m \in 1..(2 * l), w[m].role = "tool"
      PROVE  m > 1 /\ w[m - 1] = [w[m] EXCEPT !.role = "assistant"]
  <2>1. m % 2 # 1
    BY <1>2, <1>3, <1>4, <1>7
  <2>2. m > 1 /\ m - 1 \in 1..(2 * l) /\ (m - 1) % 2 = 1 /\ ((m - 1) + 1) \div 2 = m \div 2
    BY <2>1
  <2>3. w[m - 1] = Asking!Message("assistant", m \div 2) /\ w[m] = Asking!Message("tool", m \div 2)
    BY <1>3, <2>1, <2>2
  <2>4. m \div 2 \in 1..l
    BY <1>2, <2>1
  <2>5. QED
    BY <1>4, <2>2, <2>3, <2>4
<1>8. QED
  BY <1>6, <1>7 DEF Answers

LEMMA AnswersJoin ==
  ASSUME NEW h \in Seq(Said), Answers(h), NEW w \in Seq(Said), Answers(w)
  PROVE  h \o w \in Seq(Said) /\ Answers(h \o w)
<1> PICK l \in Nat : l = Len(h)
  OBVIOUS
<1> PICK k \in Nat : k = Len(w)
  OBVIOUS
<1> PICK t : t = h \o w
  OBVIOUS
<1>1. /\ t \in Seq(Said) /\ DOMAIN t = 1..(l + k) /\ DOMAIN h = 1..l /\ DOMAIN w = 1..k
      /\ \A n \in 1..l : t[n] = h[n]
      /\ \A n \in (l + 1)..(l + k) : t[n] = w[n - l]
  OBVIOUS
<1>2. ASSUME NEW m \in 1..(l + k), t[m].role = "tool"
      PROVE  m > 1 /\ t[m - 1] = [t[m] EXCEPT !.role = "assistant"]
  <2>1. CASE m <= l
    <3>1. t[m] = h[m] /\ m \in DOMAIN h
      BY <1>1, <2>1
    <3>2. m > 1 /\ h[m - 1] = [h[m] EXCEPT !.role = "assistant"]
      BY <1>2, <3>1 DEF Answers
    <3>3. t[m - 1] = h[m - 1]
      BY <1>1, <2>1, <3>2
    <3>4. QED
      BY <3>1, <3>2, <3>3
  <2>2. CASE m > l
    <3> PICK n : n = m - l
      OBVIOUS
    <3>1. t[m] = w[n] /\ n \in DOMAIN w
      BY <1>1, <2>2
    <3>2. n > 1 /\ w[n - 1] = [w[n] EXCEPT !.role = "assistant"]
      BY <1>2, <3>1 DEF Answers
    <3>3. t[m - 1] = w[n - 1]
      <4>1. m - 1 \in (l + 1)..(l + k) /\ (m - 1) - l = n - 1
        BY <2>2, <3>2
      <4>2. QED
        BY <1>1, <4>1
    <3>4. QED
      BY <2>2, <3>1, <3>2, <3>3
  <2>3. m <= l \/ m > l
    OBVIOUS
  <2>4. QED
    BY <2>1, <2>2, <2>3, Zenon
<1>3. QED
  BY <1>1, <1>2 DEF Answers

LEMMA AskStep ==
  ASSUME AskInv, Asking!Next \/ UNCHANGED askVars
  PROVE  AskInv'
<1>1. CASE Asking!StartRound
  <2>1. /\ sent' = Asking!NoCalls /\ accums' = Asking!NoCalls /\ calls' = <<>>
        /\ stage' = "stream" /\ round' = round + 1 /\ UNCHANGED history
    BY <1>1 DEF Asking!StartRound
  <2>2. DOMAIN sent' = {} /\ DOMAIN accums' = {} /\ calls' = <<>>
    BY <2>1 DEF Asking!NoCalls
  <2>3. Parsed'
    <3>1. sent' = [i \in {} |-> 0] /\ accums' = [i \in {} |-> 0]
      BY <2>1 DEF Asking!NoCalls
    <3>2. IsFiniteSet({})
      BY FS_EmptySet
    <3>3. QED
      BY <3>1, <3>2 DEF Parsed, Sending
  <2>4. Listing'
    BY <2>2 DEF Listing, EachOnce
  <2>5. QED
    BY <2>1, <2>2, <2>3, <2>4 DEF AskInv, Answers
<1>2. CASE Asking!HandBack
  <2>1. /\ history' = history \o Asking!CallWithResult /\ stage' = "start"
        /\ UNCHANGED <<round, sent, accums, calls, toolResults>>
    BY <1>2 DEF Asking!HandBack
  <2> PICK h : h = history
    OBVIOUS
  <2> PICK w : w = Asking!CallWithResult
    OBVIOUS
  <2>2. h \in Seq(Said) /\ Answers(h) /\ Listing /\ Parsed /\ round \in Nat
    BY DEF AskInv
  <2>3. w \in Seq(Said) /\ Answers(w)
    BY <2>2, PairsFollow
  <2>4. history' \in Seq(Said) /\ Answers(history')
    BY <2>1, <2>2, <2>3, AnswersJoin
  <2>5. Parsed' /\ Listing'
    BY <2>1, <2>2 DEF Parsed, Listing, EachOnce
  <2>6. QED
    BY <2>1, <2>2, <2>4, <2>5 DEF AskInv, Answers
<1>3. ASSUME UNCHANGED <<round, sent, accums, calls, history>>, stage' # "stream",
             stage' = "tools" => stage = "tools"
      PROVE  AskInv'
  BY <1>3 DEF AskInv, Parsed, Listing, EachOnce, Answers
<1>4. CASE Asking!Text \/ Asking!RoundFails \/ Asking!TooManyRounds
           \/ \E n \in DOMAIN calls : Asking!ToolEnds(n)
  BY <1>3, <1>4 DEF Asking!Text, Asking!RoundFails, Asking!TooManyRounds, Asking!ToolEnds
<1>5. CASE UNCHANGED askVars
  BY <1>5 DEF askVars, AskInv, Parsed, Listing, EachOnce, Answers
<1>6. QED
  BY <1>1, <1>2, <1>4, <1>5, ChunkStep, CallsStep DEF Asking!Next

LEMMA AskStart ==
  ASSUME Asking!Init
  PROVE  AskInv
<1>1. /\ sent = [i \in {} |-> 0] /\ accums = [i \in {} |-> 0] /\ calls = <<>>
      /\ stage = "start" /\ round = 0 /\ history = <<>>
  BY DEF Asking!Init, Asking!NoCalls
<1>2. IsFiniteSet({})
  BY FS_EmptySet
<1>3. Parsed
  BY <1>1, <1>2 DEF Parsed, Sending
<1>4. Listing
  BY <1>1 DEF Listing, EachOnce
<1>5. QED
  BY <1>1, <1>3, <1>4 DEF AskInv, Answers

LEMMA AskSound ==
  ASSUME AskInv
  PROVE  Asking!CallsWhole /\ Asking!ResultsFollowCalls
<1>1. Asking!ResultsFollowCalls
  BY DEF AskInv, Answers, Asking!ResultsFollowCalls
<1>2. ASSUME stage = "tools"
      PROVE  /\ {calls[n].index : n \in DOMAIN calls} = DOMAIN sent
             /\ Len(calls) = Asking!Cardinality(DOMAIN sent)
             /\ \A n \in DOMAIN calls : calls[n].fragments = sent[calls[n].index]
  <2>1. Listing /\ \A i \in DOMAIN sent : accums[i].completed
    BY <1>2 DEF AskInv
  <2>2. \A i \in DOMAIN sent : \E n \in DOMAIN calls : calls[n].index = i
    BY <2>1 DEF Listing
  <2> PICK l \in Nat : l = Len(calls) /\ DOMAIN calls = 1..l
    BY <2>1 DEF Listing
  <2> PICK D : D = DOMAIN sent
    OBVIOUS
  <2> PICK o : o = [n \in 1..l |-> calls[n].index]
    OBVIOUS
  <2>3. o \in [1..l -> D] /\ \A m, n \in 1..l : o[m] = o[n] => m = n
    BY <2>1 DEF Listing, EachOnce
  <2>4. \A i \in D : \E n \in 1..l : o[n] = i
    BY <2>2
  <2>5. o \in Bijection(1..l, D)
    BY <2>3, <2>4 DEF Bijection, Injection, Surjection, IsInjective
  <2>6. Cardinality(D) = l
    <3>1. ExistsBijection(1..l, D)
      BY <2>5 DEF ExistsBijection
    <3>2. QED
      BY <3>1, FS_CountingElements
  <2>7. Asking!Cardinality(D) = l
    BY <2>6, CountIs
  <2>8. QED
    BY <2>1, <2>2, <2>7 DEF Listing
<1>3. QED
  BY <1>1, <1>2 DEF Asking!CallsWhole

-----------------------------------------------------------------------------
(* The steps of all parts are steps of each part or leave it alone.          *)

LEMMA AlertsRun == ProgressSpec => Spec
<1>1. ProgressInit => Init
  BY DEF ProgressInit
<1>2. [ProgressNext]_progressVars => [Next]_vars
  BY DEF ProgressNext, progressVars
<1>3. QED
  BY <1>1, <1>2, PTL DEF ProgressSpec, Spec, progressVars

(* A reply is whole (alert_service.go, llm_http.go, diagnosis_controller.go): no
   worker outlives the reply of its request; each tool call that the model streamed
   is run once with all its fragments, however the chunks are cut, and each tool
   message follows the assistant message with its call. *)
THEOREM RepliesAlwaysWhole == ProgressSpec => []RepliesWhole
<1>1. ProgressInit => AskInv
  BY AskStart DEF ProgressInit
<1>2. AskInv /\ [ProgressNext]_progressVars => AskInv'
  BY AskStep DEF ProgressNext, progressVars
<1>3. AskInv => Asking!CallsWhole /\ Asking!ResultsFollowCalls
  BY AskSound
<1>4. TypeOK /\ NoWorkerOutlivesReply /\ Asking!CallsWhole /\ Asking!ResultsFollowCalls
        => RepliesWhole
  BY DEF RepliesWhole
<1>5. QED
  BY <1>1, <1>2, <1>3, <1>4, AlertsRun, TypeCorrect, NoWorkerEverOutlivesReply, PTL
     DEF ProgressSpec, progressVars
=============================================================================
