--------------------------- MODULE JobEventsProofs ---------------------------
(***************************************************************************)
(* That no event of JobEvents disappears between an agent and the rows of  *)
(* the control plane, and that no counter runs ahead of the events, for    *)
(* any agents, files and faults and any size of the spool.                 *)
(***************************************************************************)
EXTENDS JobEvents, SequenceTheorems, FiniteSetTheorems, WellFoundedInduction,
        TLAPS

USE LimitsAssumption

-----------------------------------------------------------------------------
(* The inductive invariants.                                               *)

\* A lane of an agent waits for one request at a time.
OneAtATime(hs) ==
  \A h, k \in hs :
    h.agent = k.agent /\ h.lane = k.lane /\ h.lane \in Lanes => h = k

\* A request that is waited for carries the event its lane waits with.
AwaitedBy(hs, ln) ==
  \A h \in hs : h.lane \in Lanes => h.event = ln[h.agent][h.lane]

\* A request that can be answered with a success has been recorded.
Answerable(hs, rec) ==
  \A h \in hs : h.phase = "recorded" => h.event \in rec

\* The replay waits for the head of its walk.
WalksWhileReplaying ==
  \A a \in Agents : lane[a]["replay"] # Nothing => walk[a] # <<>>

\* The types, but for the rows: these are pruned.
PathTypeOK ==
  /\ work \in [Agents -> Work]
  /\ lane \in [Agents -> [Lanes -> Event \cup {Nothing}]]
  /\ walk \in [Agents -> Seq(Event)]
  /\ spool \in [Agents -> Seq(Event)]
  /\ givenUp \in [Agents -> SUBSET Event]
  /\ handlers \subseteq Handler
  /\ counter \in [Types -> Nat]
  /\ recorded \subseteq Event
  /\ refuses \subseteq Event
  /\ faults \in Nat

\* The inductive invariant of the way of an event.
PathInv ==
  /\ PathTypeOK
  /\ OneAtATime(handlers) /\ AwaitedBy(handlers, lane)
  /\ Answerable(handlers, recorded)
  /\ WalksWhileReplaying
  /\ EventsAccounted

OfType(rec, t) == {e \in rec : e.type = t}

\* What a handler read and will write does not exceed the events there are once
\* it has recorded its own, however many handlers read the same.
ReadsSound(hs, rec) ==
  \A h \in hs :
    h.phase = "read" /\ ~h.seen
      => h.count + 1 <= Cardinality(OfType(rec, h.event.type) \cup {h.event})

\* The inductive invariant of the counters.
CountInv ==
  /\ rows \in Seq(Event)
  /\ \A e \in recorded : InSeq(e, rows)
  /\ IsFiniteSet(recorded)
  /\ ReadsSound(handlers, recorded)
  /\ NeverOvercounted

-----------------------------------------------------------------------------
(* The spool file.                                                         *)

\* The limit leaves room for some of the records, not for all.
LEMMA KeptFits == Kept \in Nat /\ Kept <= SpoolLimit
BY SMT DEF Kept

\* A record that is in the file has a first place in it.
LEMMA FirstPlace ==
  ASSUME NEW s \in Seq(Event), NEW e, InSeq(e, s)
  PROVE  \E j \in DOMAIN s : s[j] = e /\ \A k \in 1 .. j - 1 : s[k] # e
<1> DEFINE P == {j \in DOMAIN s : s[j] = e}
           R == OpToRel(<, Nat)
<1>1. DOMAIN s = 1 .. Len(s) /\ Len(s) \in Nat
  BY LenProperties
<1>2. P \subseteq Nat /\ P # {}
  BY <1>1 DEF InSeq
<1>3. \A x, y \in Nat : x < y <=> <<x, y>> \in R
  BY DEF OpToRel
<1>4. PICK j \in P : \A y \in P : ~(<<y, j>> \in R)
  <2>1. IsWellFoundedOn(R, Nat)
    BY NatLessThanWellFounded
  <2> HIDE DEF P, R
  <2> QED BY <1>2, <2>1, WFMin
<1> HIDE DEF R
<1>5. ASSUME NEW k \in 1 .. j - 1, s[k] = e
      PROVE  FALSE
  <2>1. k \in P /\ k \in Nat /\ j \in Nat /\ k < j
    BY <1>1, <1>2, <1>5, SMT
  <2> HIDE DEF P
  <2> QED BY <1>3, <1>4, <2>1
<1> QED BY <1>4, <1>5

\* Acknowledging a record takes nothing else out of the file.
LEMMA WithoutFirstKeeps ==
  ASSUME NEW s \in Seq(Event), NEW e
  PROVE  /\ WithoutFirst(s, e) \in Seq(Event)
         /\ \A d : d # e /\ InSeq(d, s) => InSeq(d, WithoutFirst(s, e))
<1>1. CASE ~InSeq(e, s)
  BY <1>1 DEF WithoutFirst
<1>2. CASE InSeq(e, s)
  <2>1. PICK i \in DOMAIN s :
          /\ s[i] = e
          /\ WithoutFirst(s, e) = SubSeq(s, 1, i - 1) \o SubSeq(s, i + 1, Len(s))
    BY <1>2, FirstPlace DEF WithoutFirst
  <2> DEFINE p == SubSeq(s, 1, i - 1)
             q == SubSeq(s, i + 1, Len(s))
  <2>2. WithoutFirst(s, e) = p \o q
    BY <2>1
  <2>3. /\ Len(s) \in Nat /\ i \in 1 .. Len(s)
        /\ \A n \in 1 .. Len(s) : s[n] \in Event
        /\ DOMAIN s = 1 .. Len(s)
    BY <2>1, LenProperties, ElementOfSeq
  <2>4. /\ p \in Seq(Event) /\ Len(p) = i - 1
        /\ \A n \in 1 .. i - 1 : p[n] = s[n]
    <3>1. 1 \in Int /\ i - 1 \in Int /\ \A n \in 1 .. i - 1 : s[n] \in Event
      BY <2>3
    <3>2. /\ p \in Seq(Event)
          /\ Len(p) = IF 1 <= i - 1 THEN (i - 1) - 1 + 1 ELSE 0
          /\ \A n \in 1 .. (i - 1) - 1 + 1 : p[n] = s[1 + n - 1]
      BY <3>1, SubSeqProperties
    <3> HIDE DEF p
    <3> QED BY <2>3, <3>2, SMT
  <2>5. /\ q \in Seq(Event) /\ Len(q) = Len(s) - i
        /\ \A n \in 1 .. Len(s) - i : q[n] = s[i + n]
    <3>1. i + 1 \in Int /\ Len(s) \in Int /\ \A n \in i + 1 .. Len(s) : s[n] \in Event
      BY <2>3
    <3>2. /\ q \in Seq(Event)
          /\ Len(q) = IF i + 1 <= Len(s) THEN Len(s) - (i + 1) + 1 ELSE 0
          /\ \A n \in 1 .. Len(s) - (i + 1) + 1 : q[n] = s[i + 1 + n - 1]
      BY <3>1, SubSeqProperties
    <3> HIDE DEF p, q
    <3>3. Len(q) = Len(s) - i
      BY <2>3, <3>2, SMT
    <3>4. ASSUME NEW n \in 1 .. Len(s) - i
          PROVE  q[n] = s[i + n]
      <4>1. n \in 1 .. Len(s) - (i + 1) + 1 /\ i + 1 + n - 1 = i + n
        BY <2>3, SMT
      <4> QED BY <3>2, <4>1
    <3> QED BY <3>2, <3>3, <3>4
  <2> HIDE DEF p, q
  <2>6. /\ p \o q \in Seq(Event) /\ Len(p \o q) = Len(p) + Len(q)
        /\ \A n \in 1 .. Len(p) + Len(q) :
             (p \o q)[n] = IF n <= Len(p) THEN p[n] ELSE q[n - Len(p)]
    BY <2>4, <2>5, ConcatProperties
  <2>7. DOMAIN (p \o q) = 1 .. Len(p) + Len(q)
    BY <2>6, LenProperties
  <2>8. ASSUME NEW d, d # e, NEW n \in DOMAIN s, s[n] = d
        PROVE  \E m \in DOMAIN (p \o q) : (p \o q)[m] = d
    <3>1. n \in 1 .. Len(s) /\ n # i
      BY <2>1, <2>3, <2>8
    <3>2. CASE n < i
      <4>1. n \in 1 .. Len(p) + Len(q) /\ n <= Len(p)
        BY <2>3, <2>4, <2>5, <3>1, <3>2, SMT
      <4>2. (p \o q)[n] = p[n] /\ p[n] = s[n]
        BY <2>3, <2>4, <2>6, <3>1, <3>2, <4>1, SMT
      <4> QED BY <2>7, <2>8, <4>1, <4>2
    <3>3. CASE n > i
      <4>1. /\ n - 1 \in 1 .. Len(p) + Len(q) /\ ~(n - 1 <= Len(p))
            /\ n - 1 - Len(p) = n - i /\ n - i \in 1 .. Len(s) - i
        BY <2>3, <2>4, <2>5, <3>1, <3>3, SMT
      <4>2. (p \o q)[n - 1] = q[n - i]
        BY <2>6, <4>1
      <4>3. q[n - i] = s[n]
        BY <2>3, <2>5, <3>1, <4>1, SMT
      <4> QED BY <2>7, <2>8, <4>1, <4>2, <4>3
    <3> QED BY <2>3, <3>1, <3>2, <3>3, SMT
  <2> QED BY <2>2, <2>6, <2>8 DEF InSeq
<1> QED BY <1>1, <1>2

\* A record that is added is in the file or among those counted as dropped, and
\* so are the records before it.
LEMMA TrimmedOrCutOff ==
  ASSUME NEW s \in Seq(Event), NEW e \in Event
  PROVE  /\ Trimmed(Append(s, e)) \in Seq(Event)
         /\ CutOff(Append(s, e)) \subseteq Event
         /\ \A d : d = e \/ InSeq(d, s)
              => InSeq(d, Trimmed(Append(s, e))) \/ d \in CutOff(Append(s, e))
<1> DEFINE t == Append(s, e)
<1>1. /\ t \in Seq(Event) /\ Len(t) = Len(s) + 1 /\ t[Len(s) + 1] = e
      /\ \A i \in 1 .. Len(s) : t[i] = s[i]
  BY AppendProperties
<1>2. Len(s) \in Nat /\ DOMAIN s = 1 .. Len(s)
  BY LenProperties
<1> HIDE DEF t
<1>3. DOMAIN t = 1 .. Len(t) /\ \A i \in 1 .. Len(t) : t[i] \in Event
  BY <1>1, LenProperties, ElementOfSeq
<1>4. ASSUME NEW d, d = e \/ InSeq(d, s)
      PROVE  \E i \in 1 .. Len(t) : t[i] = d
  BY <1>1, <1>2, <1>4, SMT DEF InSeq
<1>5. CASE ~Overfull(t)
  <2>1. Trimmed(t) = t
    BY <1>5 DEF Trimmed
  <2>2. CutOff(t) = {}
    BY <1>5 DEF CutOff
  <2> QED BY <1>1, <1>3, <1>4, <2>1, <2>2 DEF InSeq, t
<1>6. CASE Overfull(t)
  <2> DEFINE m == Len(t) - Kept
             r == SubSeq(t, m + 1, Len(t))
  <2>1. /\ Trimmed(t) = r
        /\ CutOff(t) = {t[i] : i \in 1 .. m}
    BY <1>6 DEF Trimmed, CutOff
  <2>2. m \in 1 .. Len(t) /\ Len(t) \in Nat
    BY <1>1, <1>2, <1>6, KeptFits, SMT DEF Overfull
  <2> HIDE DEF m
  <2>3. /\ r \in Seq(Event)
        /\ Len(r) = Len(t) - m
        /\ \A n \in 1 .. Len(t) - m : r[n] = t[m + n]
    <3>1. m + 1 \in Int /\ Len(t) \in Int /\ \A n \in m + 1 .. Len(t) : t[n] \in Event
      BY <1>3, <2>2
    <3>2. /\ r \in Seq(Event)
          /\ Len(r) = IF m + 1 <= Len(t) THEN Len(t) - (m + 1) + 1 ELSE 0
          /\ \A n \in 1 .. Len(t) - (m + 1) + 1 : r[n] = t[m + 1 + n - 1]
      BY <3>1, SubSeqProperties
    <3> HIDE DEF r
    <3> QED BY <2>2, <3>2, SMT
  <2>4. DOMAIN r = 1 .. Len(t) - m
    BY <2>3, LenProperties
  <2> HIDE DEF r
  <2>5. ASSUME NEW d, d = e \/ InSeq(d, s)
        PROVE  InSeq(d, r) \/ d \in {t[i] : i \in 1 .. m}
    <3>1. PICK i \in 1 .. Len(t) : t[i] = d
      BY <1>4, <2>5
    <3>2. CASE i <= m
      BY <2>2, <3>1, <3>2
    <3>3. CASE i > m
      <4>1. i - m \in 1 .. Len(t) - m /\ m + (i - m) = i
        BY <2>2, <3>3, SMT
      <4> QED BY <2>3, <2>4, <3>1, <4>1 DEF InSeq
    <3> QED BY <2>2, <3>2, <3>3, SMT
  <2>6. {t[i] : i \in 1 .. m} \subseteq Event
    BY <1>3, <2>2
  <2> QED BY <2>1, <2>3, <2>5, <2>6 DEF t
<1> QED BY <1>5, <1>6

-----------------------------------------------------------------------------
(* Requests and lanes.                                                     *)

LEMMA NothingNoEvent == Nothing \notin Event
BY DEF Nothing, Event, Types, Endings

\* Fewer requests keep what holds of all of them.
LEMMA FewerRequests ==
  ASSUME NEW hs, NEW ln, NEW hs2 \in SUBSET hs, OneAtATime(hs), AwaitedBy(hs, ln)
  PROVE  OneAtATime(hs2) /\ AwaitedBy(hs2, ln)
BY DEF OneAtATime, AwaitedBy

\* A request that goes on stays the only one of its lane.
LEMMA RequestGoesOn ==
  ASSUME NEW hs, NEW ln, OneAtATime(hs), AwaitedBy(hs, ln),
         NEW h \in hs, NEW g,
         g.agent = h.agent, g.lane = h.lane, g.event = h.event
  PROVE  /\ OneAtATime((hs \ {h}) \cup {g})
         /\ AwaitedBy((hs \ {h}) \cup {g}, ln)
BY DEF OneAtATime, AwaitedBy

\* What a lane holds after it is set.
LEMMA LaneSet ==
  ASSUME NEW ln \in [Agents -> [Lanes -> Event \cup {Nothing}]],
         NEW a \in Agents, NEW l \in Lanes, NEW v \in Event \cup {Nothing}
  PROVE  LET ln2 == [ln EXCEPT ![a][l] = v]
         IN  /\ ln2 \in [Agents -> [Lanes -> Event \cup {Nothing}]]
             /\ ln2[a][l] = v
             /\ \A b \in Agents, m \in Lanes : b # a \/ m # l => ln2[b][m] = ln[b][m]
OBVIOUS

\* A lane sends a request only while it waits for none.
LEMMA LaneSends ==
  ASSUME NEW hs \in SUBSET Handler, NEW ln \in [Agents -> [Lanes -> Event \cup {Nothing}]],
         OneAtATime(hs), AwaitedBy(hs, ln),
         NEW a \in Agents, NEW l \in Lanes, NEW e \in Event, ln[a][l] = Nothing,
         NEW g, g.agent = a, g.lane = l, g.event = e
  PROVE  /\ OneAtATime(hs \cup {g})
         /\ AwaitedBy(hs \cup {g}, [ln EXCEPT ![a][l] = e])
<1>1. \A h \in hs : h.event \in Event /\ h.agent \in Agents
  BY DEF Handler
<1>3. \A h \in hs : ~(h.agent = a /\ h.lane = l)
  BY <1>1, NothingNoEvent DEF AwaitedBy
<1>4. OneAtATime(hs \cup {g})
  BY <1>3 DEF OneAtATime
<1>5. AwaitedBy(hs \cup {g}, [ln EXCEPT ![a][l] = e])
  BY <1>1, <1>3, LaneSet DEF AwaitedBy
<1> QED BY <1>4, <1>5

\* A lane that lets go of its request leaves the other lanes with theirs.
LEMMA LaneLetsGo ==
  ASSUME NEW hs \in SUBSET Handler, NEW ln \in [Agents -> [Lanes -> Event \cup {Nothing}]],
         OneAtATime(hs), AwaitedBy(hs, ln),
         NEW h \in hs, h.lane \in Lanes,
         NEW hs2, \A k \in hs2 : k.lane \in Lanes => k \in hs \ {h}
  PROVE  /\ OneAtATime(hs2)
         /\ AwaitedBy(hs2, [ln EXCEPT ![h.agent][h.lane] = Nothing])
<1>1. OneAtATime(hs2)
  BY DEF OneAtATime
<1>2. ASSUME NEW k \in hs2, k.lane \in Lanes
      PROVE  k.event = [ln EXCEPT ![h.agent][h.lane] = Nothing][k.agent][k.lane]
  <2>1. k \in hs \ {h} /\ k.agent \in Agents /\ h.agent \in Agents
    BY <1>2 DEF Handler
  <2>2. k.agent # h.agent \/ k.lane # h.lane
    BY <1>2, <2>1 DEF OneAtATime
  <2>3. [ln EXCEPT ![h.agent][h.lane] = Nothing][k.agent][k.lane] = ln[k.agent][k.lane]
    BY <1>2, <2>1, <2>2, LaneSet
  <2> QED BY <1>2, <2>1, <2>3 DEF AwaitedBy
<1> QED BY <1>1, <1>2 DEF AwaitedBy

\* The next event of an execution.
LEMMA NextEvent ==
  ASSUME NEW w \in Work, NEW n \in 1 .. 3
  PROVE  EventAt(w, n) \in Event
<1>1. w.file \in Files /\ w.ending \in Endings
  BY DEF Work
<1>2. Emission(w)[n] \in Types
  BY <1>1, SMT DEF Emission, Types
<1> QED BY <1>1, <1>2 DEF EventAt, Event

\* When every event keeps its place or gets another, all stay accounted for.
LEMMA StaysAccounted ==
  ASSUME EventsAccounted, recorded \subseteq recorded',
         \A a \in Agents :
           /\ givenUp[a] \subseteq givenUp'[a]
           /\ \A e \in Emitted(a)' : e \in Emitted(a) \/ lane'[a]["direct"] = e
           /\ \A e : lane[a]["direct"] = e /\ e # Nothing
                => \/ e \in recorded' \cup givenUp'[a]
                   \/ lane'[a]["direct"] = e
                   \/ InSeq(e, spool'[a])
           /\ \A e : InSeq(e, spool[a])
                => e \in recorded' \cup givenUp'[a] \/ InSeq(e, spool'[a]),
         \A a \in Agents : Nothing \notin Emitted(a)
  PROVE  EventsAccounted'
BY DEF EventsAccounted

\* An execution that emits nothing has emitted what it had.
LEMMA SameEmitted ==
  ASSUME NEW a \in Agents,
         work'[a].file = work[a].file, work'[a].ending = work[a].ending,
         work'[a].next = work[a].next
  PROVE  Emitted(a)' = Emitted(a)
BY DEF Emitted, EventAt, Emission

\* What was emitted are events.
LEMMA EmittedEvents ==
  ASSUME PathTypeOK, NEW a \in Agents
  PROVE  Emitted(a) \subseteq Event /\ Nothing \notin Emitted(a)
<1>1. work[a] \in Work /\ work[a].next \in 1 .. 4
  BY DEF PathTypeOK, Work
<1>2. \A n \in 1 .. work[a].next - 1 : n \in 1 .. 3
  BY <1>1, SMT
<1>3. Emitted(a) \subseteq Event
  BY <1>1, <1>2, NextEvent DEF Emitted
<1> QED BY <1>3, NothingNoEvent

-----------------------------------------------------------------------------
(* The steps of an agent.                                                  *)

\* The request a lane sends.
LEMMA NewRequest ==
  ASSUME NEW a \in Agents, NEW l \in Lanes, NEW e \in Event
  PROVE  \E g \in Handler :
           /\ Request(a, l, e) = handlers \cup {g}
           /\ g.agent = a /\ g.lane = l /\ g.event = e /\ g.phase = "arrived"
<1> DEFINE g == [agent |-> a, lane |-> l, event |-> e, phase |-> "arrived",
                 count |-> 0, seen |-> FALSE]
<1>1. g \in Handler
  BY DEF Handler
<1>2. Request(a, l, e) = handlers \cup {g}
  BY DEF Request
<1> QED BY <1>1, <1>2

LEMMA EmitKeeps ==
  ASSUME PathInv, NEW a \in Agents, Emit(a)
  PROVE  PathInv'
<1> DEFINE e == EventAt(work[a], work[a].next)
<1>1. /\ work[a] \in Work /\ work[a].next \in 1 .. 3
      /\ "direct" \in Lanes /\ lane[a]["direct"] = Nothing
  BY SMT DEF PathInv, PathTypeOK, Work, Emit, Lanes
<1>2. e \in Event
  BY <1>1, NextEvent
<1>3. /\ work' = [work EXCEPT ![a].next = @ + 1]
      /\ lane' = [lane EXCEPT ![a]["direct"] = e]
      /\ handlers' = Request(a, "direct", e)
      /\ UNCHANGED <<walk, spool, givenUp, counter, rows, recorded, refuses, faults>>
  BY DEF Emit
<1> HIDE DEF e
<1>4. PICK g \in Handler :
        /\ handlers' = handlers \cup {g}
        /\ g.agent = a /\ g.lane = "direct" /\ g.event = e /\ g.phase = "arrived"
  BY <1>1, <1>2, <1>3, NewRequest
<1>5. /\ lane' \in [Agents -> [Lanes -> Event \cup {Nothing}]]
      /\ lane'[a]["direct"] = e
      /\ \A b \in Agents, m \in Lanes : b # a \/ m # "direct" => lane'[b][m] = lane[b][m]
  BY <1>1, <1>2, <1>3, LaneSet DEF PathInv, PathTypeOK
<1>6. /\ work' \in [Agents -> Work]
      /\ work'[a].file = work[a].file /\ work'[a].ending = work[a].ending
      /\ work'[a].next = work[a].next + 1
      /\ \A b \in Agents : b # a => work'[b] = work[b]
  <2>1. work \in [Agents -> Work] /\ work[a].next + 1 \in 1 .. 4
    BY <1>1, SMT DEF PathInv, PathTypeOK
  <2>2. [work[a] EXCEPT !.next = @ + 1] \in Work
    BY <1>1, <2>1 DEF Work
  <2> QED BY <1>1, <1>3, <2>1, <2>2 DEF Work
<1>7. PathTypeOK'
  BY <1>3, <1>4, <1>5, <1>6 DEF PathInv, PathTypeOK
<1>8. OneAtATime(handlers') /\ AwaitedBy(handlers', lane')
  <2>1. /\ handlers \in SUBSET Handler
        /\ lane \in [Agents -> [Lanes -> Event \cup {Nothing}]]
        /\ OneAtATime(handlers) /\ AwaitedBy(handlers, lane)
    BY DEF PathInv, PathTypeOK
  <2>2. /\ OneAtATime(handlers \cup {g})
        /\ AwaitedBy(handlers \cup {g}, [lane EXCEPT ![a]["direct"] = e])
    BY <1>1, <1>2, <1>3, <1>4, <2>1, LaneSends
  <2> QED BY <1>1, <1>2, <1>3, <1>4, <2>2
<1>9. Answerable(handlers', recorded')
  BY <1>3, <1>4 DEF PathInv, Answerable
<1>10. WalksWhileReplaying'
  BY <1>3, <1>5 DEF PathInv, WalksWhileReplaying, Lanes
<1>11. EventsAccounted'
  <2>1. ASSUME NEW b \in Agents, NEW d \in Emitted(b)'
        PROVE  d \in Emitted(b) \/ lane'[b]["direct"] = d
    <3>1. CASE b # a
      BY <1>6, <2>1, <3>1, SameEmitted
    <3>2. CASE b = a
      <4>1. PICK n \in 1 .. work[a].next : d = EventAt(work'[a], n)
        BY <1>1, <1>6, <2>1, <3>2, SMT DEF Emitted
      <4>2. EventAt(work'[a], n) = EventAt(work[a], n)
        BY <1>6 DEF EventAt, Emission
      <4>3. CASE n = work[a].next
        BY <1>5, <3>2, <4>1, <4>2, <4>3 DEF e
      <4>4. CASE n # work[a].next
        <5>1. n \in 1 .. work[a].next - 1
          BY <1>1, <4>4, SMT
        <5> QED BY <3>2, <4>1, <4>2, <5>1 DEF Emitted
      <4> QED BY <4>3, <4>4
    <3> QED BY <3>1, <3>2
  <2>2. \A b \in Agents : lane'[b]["direct"] = lane[b]["direct"] \/ lane[b]["direct"] = Nothing
    BY <1>1, <1>5
  <2> QED BY <1>3, <2>1, <2>2, StaysAccounted, EmittedEvents DEF PathInv
<1> QED BY <1>7, <1>8, <1>9, <1>10, <1>11 DEF PathInv, OneAtATime, AwaitedBy, Answerable

LEMMA StartReplayKeeps ==
  ASSUME PathInv, NEW a \in Agents, StartReplay(a)
  PROVE  PathInv'
<1>1. /\ walk' = [walk EXCEPT ![a] = spool[a]] /\ spool[a] # <<>>
      /\ UNCHANGED <<work, lane, spool, givenUp, handlers, counter, rows,
                     recorded, refuses, faults>>
  BY DEF StartReplay
<1>2. PathTypeOK'
  BY <1>1 DEF PathInv, PathTypeOK
<1>3. WalksWhileReplaying'
  BY <1>1 DEF PathInv, PathTypeOK, WalksWhileReplaying
<1>4. \A b \in Agents : Emitted(b)' = Emitted(b)
  BY <1>1, SameEmitted
<1>5. EventsAccounted'
  BY <1>1, <1>4 DEF PathInv, EventsAccounted
<1> QED BY <1>1, <1>2, <1>3, <1>5 DEF PathInv, OneAtATime, AwaitedBy, Answerable

LEMMA ReplayNextKeeps ==
  ASSUME PathInv, NEW a \in Agents, ReplayNext(a)
  PROVE  PathInv'
<1> DEFINE e == Head(walk[a])
<1>1. /\ walk[a] # <<>> /\ lane[a]["replay"] = Nothing /\ "replay" \in Lanes
      /\ lane' = [lane EXCEPT ![a]["replay"] = e]
      /\ handlers' = Request(a, "replay", e)
      /\ UNCHANGED <<work, walk, spool, givenUp, counter, rows, recorded, refuses, faults>>
  BY DEF ReplayNext, Lanes
<1>2. e \in Event
  BY <1>1, HeadTailProperties DEF PathInv, PathTypeOK
<1> HIDE DEF e
<1>3. PICK g \in Handler :
        /\ handlers' = handlers \cup {g}
        /\ g.agent = a /\ g.lane = "replay" /\ g.event = e /\ g.phase = "arrived"
  BY <1>1, <1>2, NewRequest
<1>4. /\ lane' \in [Agents -> [Lanes -> Event \cup {Nothing}]]
      /\ \A b \in Agents, m \in Lanes : b # a \/ m # "replay" => lane'[b][m] = lane[b][m]
  BY <1>1, <1>2, LaneSet DEF PathInv, PathTypeOK
<1>5. PathTypeOK'
  BY <1>1, <1>3, <1>4 DEF PathInv, PathTypeOK
<1>6. OneAtATime(handlers') /\ AwaitedBy(handlers', lane')
  <2>1. /\ handlers \in SUBSET Handler
        /\ lane \in [Agents -> [Lanes -> Event \cup {Nothing}]]
        /\ OneAtATime(handlers) /\ AwaitedBy(handlers, lane)
    BY DEF PathInv, PathTypeOK
  <2>2. /\ OneAtATime(handlers \cup {g})
        /\ AwaitedBy(handlers \cup {g}, [lane EXCEPT ![a]["replay"] = e])
    BY <1>1, <1>2, <1>3, <2>1, LaneSends
  <2> QED BY <1>1, <1>2, <1>3, <2>2
<1>7. Answerable(handlers', recorded')
  BY <1>1, <1>3 DEF PathInv, Answerable
<1>8. WalksWhileReplaying'
  BY <1>1, <1>4 DEF PathInv, WalksWhileReplaying
<1>9. EventsAccounted'
  <2>1. \A b \in Agents : Emitted(b)' = Emitted(b)
    BY <1>1, SameEmitted
  <2>2. \A b \in Agents : lane'[b]["direct"] = lane[b]["direct"]
    BY <1>4 DEF Lanes
  <2> QED BY <1>1, <2>1, <2>2 DEF PathInv, EventsAccounted
<1> QED BY <1>5, <1>6, <1>7, <1>8, <1>9 DEF PathInv, OneAtATime, AwaitedBy, Answerable

\* An agent stops waiting for a request, which is gone or goes on without it.
StopsWaiting(a, l, h) ==
  /\ h.agent = a /\ h.lane = l
  /\ lane' = [lane EXCEPT ![a][l] = Nothing]
  /\ \A k \in handlers' :
       \/ k \in handlers \ {h}
       \/ k \in Handler /\ k.lane = "late" /\ k.phase \in {"arrived", "read"}
  /\ recorded' = recorded
  /\ \A b \in Agents : walk'[b] = walk[b] \/ (l = "replay" /\ b = a)

\* What is left of its request then.
LEMMA Released ==
  ASSUME PathInv, NEW a \in Agents, NEW l \in Lanes, NEW h \in handlers,
         StopsWaiting(a, l, h)
  PROVE  /\ lane' \in [Agents -> [Lanes -> Event \cup {Nothing}]]
         /\ lane'[a][l] = Nothing
         /\ \A b \in Agents, m \in Lanes : b # a \/ m # l => lane'[b][m] = lane[b][m]
         /\ handlers' \subseteq Handler
         /\ OneAtATime(handlers') /\ AwaitedBy(handlers', lane')
         /\ Answerable(handlers', recorded')
         /\ WalksWhileReplaying'
         /\ h.event \in Event /\ lane[a][l] = h.event
<1>1. /\ handlers \subseteq Handler
      /\ lane \in [Agents -> [Lanes -> Event \cup {Nothing}]]
      /\ OneAtATime(handlers) /\ AwaitedBy(handlers, lane)
  BY DEF PathInv, PathTypeOK
<1>2. /\ lane' \in [Agents -> [Lanes -> Event \cup {Nothing}]]
      /\ lane'[a][l] = Nothing
      /\ \A b \in Agents, m \in Lanes : b # a \/ m # l => lane'[b][m] = lane[b][m]
  BY <1>1, LaneSet DEF StopsWaiting
<1>3. handlers' \subseteq Handler
  BY <1>1 DEF StopsWaiting
<1>4. OneAtATime(handlers') /\ AwaitedBy(handlers', lane')
  <2>1. \A k \in handlers' : k.lane \in Lanes => k \in handlers \ {h}
    BY DEF Lanes, StopsWaiting
  <2>2. /\ OneAtATime(handlers')
        /\ AwaitedBy(handlers', [lane EXCEPT ![h.agent][h.lane] = Nothing])
    BY <1>1, <2>1, LaneLetsGo DEF StopsWaiting
  <2> QED BY <2>2 DEF StopsWaiting
<1>5. Answerable(handlers', recorded')
  BY DEF PathInv, Answerable, StopsWaiting
<1>6. WalksWhileReplaying'
  BY <1>2 DEF PathInv, WalksWhileReplaying, Lanes, StopsWaiting
<1>7. h.event \in Event /\ lane[a][l] = h.event
  BY <1>1 DEF AwaitedBy, Handler, StopsWaiting
<1> QED BY <1>2, <1>3, <1>4, <1>5, <1>6, <1>7

\* The rest of the walk of a lane that replays.
LEMMA RestOfWalk ==
  ASSUME PathInv, NEW a \in Agents, lane[a]["replay"] # Nothing
  PROVE  Tail(walk[a]) \in Seq(Event)
<1>1. walk[a] \in Seq(Event) /\ walk[a] # <<>>
  BY DEF PathInv, PathTypeOK, WalksWhileReplaying
<1> QED BY <1>1, HeadTailProperties

LEMMA AnsweredKeeps ==
  ASSUME PathInv, NEW a \in Agents, NEW l \in Lanes, NEW h \in handlers,
         Answered(a, l, h)
  PROVE  PathInv'
<1>1. /\ h.agent = a /\ h.lane = l /\ h.event \in recorded
      /\ handlers' = handlers \ {h}
      /\ lane' = [lane EXCEPT ![a][l] = Nothing]
      /\ UNCHANGED <<work, givenUp, counter, rows, recorded, refuses, faults>>
  BY DEF Answered, PathInv, Answerable
<1>3. /\ l = "replay" => /\ spool' = [spool EXCEPT ![a] = WithoutFirst(@, h.event)]
                         /\ walk' = [walk EXCEPT ![a] = Tail(@)]
      /\ l = "direct" => spool' = spool /\ walk' = walk
  BY DEF Answered, Acknowledge
<1>4. l \in {"direct", "replay"} /\ "direct" # "replay"
  BY DEF Lanes
<1>5. /\ lane' \in [Agents -> [Lanes -> Event \cup {Nothing}]]
      /\ lane'[a][l] = Nothing
      /\ \A b \in Agents, m \in Lanes : b # a \/ m # l => lane'[b][m] = lane[b][m]
      /\ handlers' \subseteq Handler
      /\ OneAtATime(handlers') /\ AwaitedBy(handlers', lane')
      /\ Answerable(handlers', recorded')
      /\ WalksWhileReplaying'
      /\ h.event \in Event /\ lane[a][l] = h.event
  <2>1. \A b \in Agents : walk'[b] = walk[b] \/ (l = "replay" /\ b = a)
    BY <1>3, <1>4 DEF PathInv, PathTypeOK
  <2>2. StopsWaiting(a, l, h)
    BY <1>1, <2>1 DEF StopsWaiting
  <2> QED BY <2>2, Released
<1>6. walk' \in [Agents -> Seq(Event)]
  <2>1. walk \in [Agents -> Seq(Event)]
    BY DEF PathInv, PathTypeOK
  <2>2. l = "replay" => Tail(walk[a]) \in Seq(Event)
    BY <1>5, RestOfWalk, NothingNoEvent
  <2> QED BY <1>3, <1>4, <2>1, <2>2
<1>7. /\ spool' \in [Agents -> Seq(Event)]
      /\ \A b \in Agents : \A d : InSeq(d, spool[b])
            => d = h.event \/ InSeq(d, spool'[b])
  <2>1. spool \in [Agents -> Seq(Event)]
    BY DEF PathInv, PathTypeOK
  <2>2. /\ WithoutFirst(spool[a], h.event) \in Seq(Event)
        /\ \A d : d # h.event /\ InSeq(d, spool[a])
             => InSeq(d, WithoutFirst(spool[a], h.event))
    BY <2>1, WithoutFirstKeeps
  <2>3. CASE l = "direct"
    BY <1>3, <2>1, <2>3
  <2>4. CASE l = "replay"
    BY <1>3, <2>1, <2>2, <2>4
  <2> QED BY <1>4, <2>3, <2>4
<1>8. PathTypeOK'
  BY <1>1, <1>5, <1>6, <1>7 DEF PathInv, PathTypeOK
<1>9. EventsAccounted'
  <2>1. \A b \in Agents : Emitted(b)' = Emitted(b)
    BY <1>1, SameEmitted
  <2>2. \A b \in Agents : lane'[b]["direct"] = lane[b]["direct"]
                          \/ lane[b]["direct"] = h.event
    BY <1>4, <1>5 DEF Lanes
  <2> QED BY <1>1, <1>7, <2>1, <2>2, StaysAccounted, EmittedEvents DEF PathInv
<1> QED BY <1>5, <1>8, <1>9 DEF PathInv, OneAtATime, AwaitedBy, Answerable

LEMMA RefusedKeeps ==
  ASSUME PathInv, NEW a \in Agents, NEW l \in Lanes, NEW h \in handlers,
         Refused(a, l, h)
  PROVE  PathInv'
<1>1. /\ h.agent = a /\ h.lane = l
      /\ handlers' = handlers \ {h}
      /\ lane' = [lane EXCEPT ![a][l] = Nothing]
      /\ givenUp' = [givenUp EXCEPT ![a] = @ \cup {h.event}]
      /\ UNCHANGED <<counter, rows, recorded, refuses, faults>>
  BY DEF Refused
<1>2. /\ l = "replay" => /\ spool' = [spool EXCEPT ![a] = WithoutFirst(@, h.event)]
                         /\ walk' = [walk EXCEPT ![a] = Tail(@)]
                         /\ work' = work
      /\ l = "direct" => /\ spool' = spool /\ walk' = walk
                         /\ work' = [work EXCEPT ![a].over = TRUE]
  BY DEF Refused, Acknowledge
<1>3. l \in {"direct", "replay"} /\ "direct" # "replay"
  BY DEF Lanes
<1>4. /\ lane' \in [Agents -> [Lanes -> Event \cup {Nothing}]]
      /\ lane'[a][l] = Nothing
      /\ \A b \in Agents, m \in Lanes : b # a \/ m # l => lane'[b][m] = lane[b][m]
      /\ handlers' \subseteq Handler
      /\ OneAtATime(handlers') /\ AwaitedBy(handlers', lane')
      /\ Answerable(handlers', recorded')
      /\ WalksWhileReplaying'
      /\ h.event \in Event /\ lane[a][l] = h.event
  <2>1. \A b \in Agents : walk'[b] = walk[b] \/ (l = "replay" /\ b = a)
    BY <1>2, <1>3 DEF PathInv, PathTypeOK
  <2>2. StopsWaiting(a, l, h)
    BY <1>1, <2>1 DEF StopsWaiting
  <2> QED BY <2>2, Released
<1>5. walk' \in [Agents -> Seq(Event)]
  <2>1. walk \in [Agents -> Seq(Event)]
    BY DEF PathInv, PathTypeOK
  <2>2. l = "replay" => Tail(walk[a]) \in Seq(Event)
    BY <1>4, RestOfWalk, NothingNoEvent
  <2> QED BY <1>2, <1>3, <2>1, <2>2
<1>6. /\ spool' \in [Agents -> Seq(Event)]
      /\ \A b \in Agents : \A d : InSeq(d, spool[b])
            => (b = a /\ d = h.event) \/ InSeq(d, spool'[b])
  <2>1. spool \in [Agents -> Seq(Event)]
    BY DEF PathInv, PathTypeOK
  <2>2. /\ WithoutFirst(spool[a], h.event) \in Seq(Event)
        /\ \A d : d # h.event /\ InSeq(d, spool[a])
             => InSeq(d, WithoutFirst(spool[a], h.event))
    BY <2>1, WithoutFirstKeeps
  <2>3. CASE l = "direct"
    BY <1>2, <2>1, <2>3
  <2>4. CASE l = "replay"
    BY <1>2, <2>1, <2>2, <2>4
  <2> QED BY <1>3, <2>3, <2>4
<1>7. /\ givenUp' \in [Agents -> SUBSET Event]
      /\ \A b \in Agents : givenUp[b] \subseteq givenUp'[b]
      /\ h.event \in givenUp'[a]
  BY <1>1, <1>4 DEF PathInv, PathTypeOK
<1>8. /\ work' \in [Agents -> Work]
      /\ \A b \in Agents : /\ work'[b].file = work[b].file
                           /\ work'[b].ending = work[b].ending
                           /\ work'[b].next = work[b].next
  <2>1. work \in [Agents -> Work]
    BY DEF PathInv, PathTypeOK
  <2>2. [work[a] EXCEPT !.over = TRUE] \in Work
    BY <2>1 DEF Work
  <2>3. \/ work' = work
        \/ work' = [work EXCEPT ![a] = [work[a] EXCEPT !.over = TRUE]]
    BY <1>2, <1>3
  <2>4. CASE work' = work
    BY <2>1, <2>4
  <2>5. CASE work' = [work EXCEPT ![a] = [work[a] EXCEPT !.over = TRUE]]
    <3>1. work' \in [Agents -> Work]
      BY <2>1, <2>2, <2>5
    <3>2. /\ [work[a] EXCEPT !.over = TRUE].file = work[a].file
          /\ [work[a] EXCEPT !.over = TRUE].ending = work[a].ending
          /\ [work[a] EXCEPT !.over = TRUE].next = work[a].next
      BY <2>1 DEF Work
    <3> QED BY <2>1, <2>5, <3>1, <3>2
  <2> QED BY <2>3, <2>4, <2>5
<1>9. PathTypeOK'
  BY <1>1, <1>4, <1>5, <1>6, <1>7, <1>8 DEF PathInv, PathTypeOK
<1>10. EventsAccounted'
  <2>1. \A b \in Agents : Emitted(b)' = Emitted(b)
    BY <1>8, SameEmitted
  <2>2. \A b \in Agents : \/ lane'[b]["direct"] = lane[b]["direct"]
                          \/ b = a /\ lane[b]["direct"] = h.event
    BY <1>3, <1>4 DEF Lanes
  <2> QED BY <1>1, <1>6, <1>7, <2>1, <2>2, StaysAccounted, EmittedEvents DEF PathInv
<1> QED BY <1>4, <1>9, <1>10 DEF PathInv, OneAtATime, AwaitedBy, Answerable

\* A request nobody waits for any more.
LEMMA LateRequest ==
  ASSUME NEW h \in Handler
  PROVE  LET g == [h EXCEPT !.lane = "late"]
         IN  /\ g \in Handler
             /\ g.lane = "late" /\ g.agent = h.agent /\ g.event = h.event
             /\ g.phase = h.phase /\ g.count = h.count /\ g.seen = h.seen
BY DEF Handler

LEMMA UnansweredKeeps ==
  ASSUME PathInv, NEW a \in Agents, NEW l \in Lanes, NEW h \in handlers,
         Unanswered(a, l, h)
  PROVE  PathInv'
<1>1. /\ h.agent = a /\ h.lane = l
      /\ handlers' = Abandoned(h) \/ handlers' = handlers \ {h}
      /\ lane' = [lane EXCEPT ![a][l] = Nothing]
      /\ faults' = faults + 1
      /\ UNCHANGED <<work, counter, rows, recorded, refuses>>
  BY DEF Unanswered, Fault
<1>2. /\ l = "replay" => /\ spool' = spool /\ givenUp' = givenUp
                         /\ walk' = [walk EXCEPT ![a] = <<>>]
      /\ l = "direct" =>
           /\ spool' = [spool EXCEPT ![a] = Trimmed(Append(@, h.event))]
           /\ givenUp' = [givenUp EXCEPT ![a] = @ \cup CutOff(Append(spool[a], h.event))]
           /\ walk' = walk
  BY DEF Unanswered, AppendToSpool, UnansweredBreaks
<1>3. l \in {"direct", "replay"} /\ "direct" # "replay"
  BY DEF Lanes
<1>4. /\ lane' \in [Agents -> [Lanes -> Event \cup {Nothing}]]
      /\ lane'[a][l] = Nothing
      /\ \A b \in Agents, m \in Lanes : b # a \/ m # l => lane'[b][m] = lane[b][m]
      /\ handlers' \subseteq Handler
      /\ OneAtATime(handlers') /\ AwaitedBy(handlers', lane')
      /\ Answerable(handlers', recorded')
      /\ WalksWhileReplaying'
      /\ h.event \in Event /\ lane[a][l] = h.event
  <2>1. \A b \in Agents : walk'[b] = walk[b] \/ (l = "replay" /\ b = a)
    BY <1>2, <1>3 DEF PathInv, PathTypeOK
  <2>2. h \in Handler
    BY DEF PathInv, PathTypeOK
  <2>3. \A k \in handlers' :
          \/ k \in handlers \ {h}
          \/ k \in Handler /\ k.lane = "late" /\ k.phase \in {"arrived", "read"}
    BY <1>1, <2>2, LateRequest DEF Abandoned
  <2>4. StopsWaiting(a, l, h)
    BY <1>1, <2>1, <2>3 DEF StopsWaiting
  <2> QED BY <2>4, Released
<1>5. walk' \in [Agents -> Seq(Event)]
  BY <1>2, <1>3, EmptySeq DEF PathInv, PathTypeOK
<1>6. /\ spool' \in [Agents -> Seq(Event)]
      /\ givenUp' \in [Agents -> SUBSET Event]
      /\ \A b \in Agents : givenUp[b] \subseteq givenUp'[b]
      /\ \A b \in Agents : \A d :
           InSeq(d, spool[b]) \/ (b = a /\ l = "direct" /\ d = h.event)
             => InSeq(d, spool'[b]) \/ d \in givenUp'[b]
  <2>1. spool \in [Agents -> Seq(Event)] /\ givenUp \in [Agents -> SUBSET Event]
    BY DEF PathInv, PathTypeOK
  <2>2. CASE l = "replay"
    BY <1>2, <1>3, <2>1, <2>2
  <2>3. CASE l = "direct"
    <3> DEFINE t == Trimmed(Append(spool[a], h.event))
               c == CutOff(Append(spool[a], h.event))
    <3>1. /\ t \in Seq(Event) /\ c \subseteq Event
          /\ \A d : d = h.event \/ InSeq(d, spool[a]) => InSeq(d, t) \/ d \in c
      BY <1>4, <2>1, TrimmedOrCutOff
    <3>2. /\ spool' = [spool EXCEPT ![a] = t]
          /\ givenUp' = [givenUp EXCEPT ![a] = @ \cup c]
      BY <1>2, <2>3
    <3> HIDE DEF t, c
    <3>3. /\ spool'[a] = t /\ givenUp'[a] = givenUp[a] \cup c
          /\ \A b \in Agents : b # a => spool'[b] = spool[b] /\ givenUp'[b] = givenUp[b]
      BY <2>1, <3>2
    <3>4. spool' \in [Agents -> Seq(Event)] /\ givenUp' \in [Agents -> SUBSET Event]
      BY <2>1, <3>1, <3>2
    <3> QED BY <3>1, <3>3, <3>4
  <2> QED BY <1>3, <2>2, <2>3
<1>7. PathTypeOK'
  BY <1>1, <1>4, <1>5, <1>6 DEF PathInv, PathTypeOK
<1>8. EventsAccounted'
  <2>1. \A b \in Agents : Emitted(b)' = Emitted(b)
    BY <1>1, SameEmitted
  <2>2. \A b \in Agents : \/ lane'[b]["direct"] = lane[b]["direct"]
                          \/ b = a /\ l = "direct" /\ lane[b]["direct"] = h.event
    BY <1>3, <1>4 DEF Lanes
  <2> QED BY <1>1, <1>6, <2>1, <2>2, StaysAccounted, EmittedEvents DEF PathInv
<1> QED BY <1>4, <1>7, <1>8 DEF PathInv, OneAtATime, AwaitedBy, Answerable

LEMMA CrashKeeps ==
  ASSUME PathInv, NEW a \in Agents, Crash(a)
  PROVE  PathInv'
<1>1. /\ work' = [work EXCEPT ![a] = [work[a] EXCEPT !.over = TRUE]]
      /\ lane' = [lane EXCEPT ![a] = [l \in Lanes |-> Nothing]]
      /\ walk' = [walk EXCEPT ![a] = <<>>]
      /\ givenUp' = [givenUp EXCEPT ![a] = @ \cup ({lane[a]["direct"]} \ {Nothing})]
      /\ faults' = faults + 1
      /\ UNCHANGED <<spool, counter, rows, recorded, refuses>>
  BY DEF Crash, Fault, PathInv, PathTypeOK
<1>2. /\ work \in [Agents -> Work]
      /\ lane \in [Agents -> [Lanes -> Event \cup {Nothing}]]
      /\ walk \in [Agents -> Seq(Event)]
      /\ givenUp \in [Agents -> SUBSET Event]
      /\ handlers \subseteq Handler
      /\ "direct" \in Lanes /\ "replay" \in Lanes
  BY DEF PathInv, PathTypeOK, Lanes
<1>3. \A k \in handlers' :
        \/ k \in handlers /\ (k.agent # a \/ k.lane = "late")
        \/ /\ k \in Handler /\ k.lane = "late" /\ k.phase \in {"arrived", "read"}
  <2>1. ASSUME NEW k \in handlers'
        PROVE  \/ k \in handlers /\ (k.agent # a \/ k.lane = "late")
               \/ \E h \in handlers : /\ h.phase \in {"arrived", "read"}
                                      /\ k = [h EXCEPT !.lane = "late"]
    BY <2>1 DEF Crash
  <2>2. ASSUME NEW k, NEW h \in handlers, h.phase \in {"arrived", "read"},
               k = [h EXCEPT !.lane = "late"]
        PROVE  k \in Handler /\ k.lane = "late" /\ k.phase \in {"arrived", "read"}
    BY <1>2, <2>2, LateRequest
  <2> QED BY <2>1, <2>2
<1>4. /\ work' \in [Agents -> Work]
      /\ \A b \in Agents : /\ work'[b].file = work[b].file
                           /\ work'[b].ending = work[b].ending
                           /\ work'[b].next = work[b].next
  BY <1>1, <1>2 DEF Work
<1>5. /\ lane' \in [Agents -> [Lanes -> Event \cup {Nothing}]]
      /\ lane'[a]["direct"] = Nothing /\ lane'[a]["replay"] = Nothing
      /\ \A b \in Agents : b # a => lane'[b] = lane[b]
  BY <1>1, <1>2
<1>6. walk' \in [Agents -> Seq(Event)]
  BY <1>1, <1>2, EmptySeq
<1>7. /\ givenUp' \in [Agents -> SUBSET Event]
      /\ \A b \in Agents : givenUp[b] \subseteq givenUp'[b]
      /\ lane[a]["direct"] # Nothing => lane[a]["direct"] \in givenUp'[a]
  BY <1>1, <1>2
<1>8. PathTypeOK'
  <2>1. handlers' \subseteq Handler
    BY <1>2, <1>3
  <2> QED BY <1>1, <1>4, <1>5, <1>6, <1>7, <2>1 DEF PathInv, PathTypeOK
<1>9. OneAtATime(handlers') /\ AwaitedBy(handlers', lane')
  <2>1. \A k \in handlers' : k.lane \in Lanes => k \in handlers /\ k.agent # a
    BY <1>3 DEF Lanes
  <2>2. OneAtATime(handlers')
    BY <2>1 DEF PathInv, OneAtATime
  <2>3. \A k \in handlers' : k.lane \in Lanes => lane'[k.agent] = lane[k.agent]
    BY <1>2, <1>5, <2>1 DEF Handler
  <2> QED BY <2>1, <2>2, <2>3 DEF PathInv, AwaitedBy
<1>10. Answerable(handlers', recorded')
  BY <1>1, <1>3 DEF PathInv, Answerable
<1>11. WalksWhileReplaying'
  BY <1>1, <1>2, <1>5 DEF PathInv, WalksWhileReplaying
<1>12. EventsAccounted'
  <2>1. \A b \in Agents : Emitted(b)' = Emitted(b)
    BY <1>4, SameEmitted
  <2>2. \A b \in Agents : \A e : lane[b]["direct"] = e /\ e # Nothing
          => e \in recorded' \cup givenUp'[b] \/ lane'[b]["direct"] = e
    BY <1>5, <1>7
  <2> QED BY <1>1, <1>7, <2>1, <2>2, StaysAccounted, EmittedEvents DEF PathInv
<1> QED BY <1>8, <1>9, <1>10, <1>11, <1>12 DEF PathInv, OneAtATime, AwaitedBy, Answerable

-----------------------------------------------------------------------------
(* The steps of the control plane.                                         *)

\* A request as it is after a handler read the counters.
HavingRead(h, c, b) == [h EXCEPT !.phase = "read", !.count = c, !.seen = b]

LEMMA ReadRequest ==
  ASSUME NEW h \in Handler, NEW c \in Nat, NEW b \in BOOLEAN
  PROVE  LET g == HavingRead(h, c, b)
         IN  /\ g \in Handler
             /\ g.agent = h.agent /\ g.lane = h.lane /\ g.event = h.event
             /\ g.phase = "read" /\ g.count = c /\ g.seen = b
BY DEF Handler, HavingRead

\* A request as it is when it can be answered.
LEMMA EndedRequest ==
  ASSUME NEW h \in Handler, NEW p \in {"recorded", "refused"}
  PROVE  LET g == [h EXCEPT !.phase = p]
         IN  /\ g \in Handler
             /\ g.agent = h.agent /\ g.lane = h.lane /\ g.event = h.event
             /\ g.phase = p /\ g.count = h.count /\ g.seen = h.seen
BY DEF Handler

\* A handler goes on, and its request with it; what it read is sound if it read
\* the event as new.
HandlerMoves(h) ==
  \/ handlers' = handlers \ {h}
  \/ \E g \in Handler :
       /\ handlers' = (handlers \ {h}) \cup {g}
       /\ g.agent = h.agent /\ g.lane = h.lane /\ g.event = h.event
       /\ g.phase = "recorded" => g.event \in recorded'
       /\ g.phase = "read" =>
            /\ g.count = counter[h.event.type]
            /\ ~g.seen => ~InSeq(h.event, rows)

LEMMA ReadCounterMoves ==
  ASSUME PathTypeOK, NEW h \in handlers, ReadCounter(h)
  PROVE  HandlerMoves(h)
<1>1. h \in Handler /\ h.event.type \in Types /\ counter[h.event.type] \in Nat
  BY DEF PathTypeOK, Handler, Event
<1>2. CASE h.event \in refuses
  <2>1. \/ handlers' = handlers \ {h}
        \/ handlers' = (handlers \ {h}) \cup {[h EXCEPT !.phase = "refused"]}
    BY <1>2 DEF ReadCounter
  <2> QED BY <1>1, <2>1, EndedRequest DEF HandlerMoves
<1>3. CASE h.event \notin refuses
  <2> DEFINE g == HavingRead(h, counter[h.event.type], Seen(h.event))
  <2>1. Seen(h.event) \in BOOLEAN
    BY DEF Seen, InSeq
  <2>2. handlers' = (handlers \ {h}) \cup {g}
    BY <1>3 DEF ReadCounter, HavingRead
  <2>3. /\ g \in Handler
        /\ g.agent = h.agent /\ g.lane = h.lane /\ g.event = h.event
        /\ g.phase = "read" /\ g.count = counter[h.event.type]
        /\ g.seen = Seen(h.event)
    BY <1>1, <2>1, ReadRequest
  <2> HIDE DEF g
  <2> QED BY <2>2, <2>3 DEF HandlerMoves, Seen
<1> QED BY <1>2, <1>3

LEMMA RecordMoves ==
  ASSUME PathTypeOK, NEW h \in handlers, Record(h)
  PROVE  HandlerMoves(h)
<1>1. h \in Handler
  BY DEF PathTypeOK
<1>2. \/ handlers' = handlers \ {h}
      \/ handlers' = (handlers \ {h}) \cup {[h EXCEPT !.phase = "recorded"]}
  BY DEF Record
<1>3. h.event \in recorded'
  BY DEF Record
<1> QED BY <1>1, <1>2, <1>3, EndedRequest DEF HandlerMoves

\* Whatever a handler does, the agents are not touched.
LEMMA HandlingKeeps ==
  ASSUME PathInv, NEW h \in handlers, ReadCounter(h) \/ Record(h)
  PROVE  PathInv'
<1>1. /\ HandlerMoves(h)
      /\ recorded \subseteq recorded' /\ recorded' \subseteq recorded \cup {h.event}
      /\ UNCHANGED <<work, lane, walk, spool, givenUp, refuses, faults>>
  BY ReadCounterMoves, RecordMoves DEF PathInv, ReadCounter, Record
<1>2. h \in Handler /\ h.event \in Event /\ h.event.type \in Types /\ h.count \in Nat
  BY DEF PathInv, PathTypeOK, Handler, Event
<1>3. counter' \in [Types -> Nat]
  <2>1. \/ counter' = counter
        \/ counter' = [counter EXCEPT ![h.event.type] = h.count + 1]
    BY DEF ReadCounter, Record, Counted
  <2>2. counter \in [Types -> Nat] /\ h.count + 1 \in Nat
    BY <1>2, SMT DEF PathInv, PathTypeOK
  <2> QED BY <1>2, <2>1, <2>2
<1>4. PathTypeOK'
  BY <1>1, <1>2, <1>3 DEF PathInv, PathTypeOK, HandlerMoves
<1>5. OneAtATime(handlers') /\ AwaitedBy(handlers', lane)
  BY <1>1, FewerRequests, RequestGoesOn DEF PathInv, HandlerMoves
<1>6. Answerable(handlers', recorded')
  BY <1>1 DEF PathInv, Answerable, HandlerMoves
<1>7. WalksWhileReplaying'
  BY <1>1 DEF PathInv, WalksWhileReplaying
<1>8. EventsAccounted'
  <2>1. \A b \in Agents : Emitted(b)' = Emitted(b)
    BY <1>1, SameEmitted
  <2> QED BY <1>1, <2>1 DEF PathInv, EventsAccounted
<1> QED BY <1>1, <1>4, <1>5, <1>6, <1>7, <1>8
        DEF PathInv, OneAtATime, AwaitedBy, Answerable

-----------------------------------------------------------------------------
(* The way of an event.                                                    *)

LEMMA InitPath == EventsInit => PathInv
<1> SUFFICES ASSUME EventsInit PROVE PathInv
  OBVIOUS
<1>1. work \in [Agents -> Work] /\ \A a \in Agents : work[a].next = 1
  <2>1. work \in [Agents -> [file : Files, ending : Endings, next : {1}, over : {FALSE}]]
    BY DEF EventsInit
  <2>2. ASSUME NEW a \in Agents
        PROVE  work[a] \in Work /\ work[a].next = 1
    <3>1. work[a] \in [file : Files, ending : Endings, next : {1}, over : {FALSE}]
      BY <2>1
    <3>2. /\ work[a] = [file |-> work[a].file, ending |-> work[a].ending,
                        next |-> work[a].next, over |-> work[a].over]
          /\ work[a].file \in Files /\ work[a].ending \in Endings
          /\ work[a].next = 1 /\ work[a].over = FALSE
      BY <3>1
    <3>3. work[a].next \in 1 .. 4
      BY <3>2, SMT
    <3>4. work[a].over \in BOOLEAN
      BY <3>2
    <3> QED BY <3>2, <3>3, <3>4 DEF Work
  <2> QED BY <2>1, <2>2
<1>2. PathTypeOK
  <2>1. refuses \subseteq Event
    BY DEF EventsInit, Event, Types
  <2> QED BY <1>1, <2>1, EmptySeq DEF EventsInit, PathTypeOK
<1>3. \A a \in Agents : Emitted(a) = {}
  BY <1>1, SMT DEF Emitted
<1> QED BY <1>2, <1>3
        DEF EventsInit, PathInv, OneAtATime, AwaitedBy, Answerable,
            WalksWhileReplaying, Lanes, EventsAccounted

LEMMA NextPath == PathInv /\ [EventsNext]_eventVars => PathInv'
<1> SUFFICES ASSUME PathInv, [EventsNext]_eventVars PROVE PathInv'
  OBVIOUS
<1>1. CASE UNCHANGED eventVars
  <2>1. /\ UNCHANGED <<work, lane, walk, spool, givenUp, handlers, counter,
                       recorded, refuses, faults>>
    BY <1>1 DEF eventVars
  <2>2. \A a \in Agents : Emitted(a)' = Emitted(a)
    BY <2>1, SameEmitted
  <2> QED BY <2>1, <2>2
          DEF PathInv, PathTypeOK, OneAtATime, AwaitedBy, Answerable,
              WalksWhileReplaying, EventsAccounted
<1>2. ASSUME NEW a \in Agents, Emit(a) PROVE PathInv'
  BY <1>2, EmitKeeps
<1>3. ASSUME NEW a \in Agents, StartReplay(a) PROVE PathInv'
  BY <1>3, StartReplayKeeps
<1>4. ASSUME NEW a \in Agents, ReplayNext(a) PROVE PathInv'
  BY <1>4, ReplayNextKeeps
<1>5. ASSUME NEW a \in Agents, Crash(a) PROVE PathInv'
  BY <1>5, CrashKeeps
<1>6. ASSUME NEW a \in Agents, NEW l \in Lanes, Answering(a, l) PROVE PathInv'
  BY <1>6, AnsweredKeeps, RefusedKeeps DEF Answering
<1>7. ASSUME NEW a \in Agents, NEW l \in Lanes, NEW h \in handlers, Unanswered(a, l, h)
      PROVE  PathInv'
  BY <1>7, UnansweredKeeps
<1>8. CASE Handling
  BY <1>8, HandlingKeeps DEF Handling
<1> QED BY <1>1, <1>2, <1>3, <1>4, <1>5, <1>6, <1>7, <1>8 DEF EventsNext

\* On its way from an agent to the rows of the control plane every event keeps
\* its place: one request per lane, a walk while it is replayed, an entry in the
\* spool while it waits.
THEOREM PathHolds == EventsSpec => []PathInv
BY InitPath, NextPath, PTL DEF EventsSpec

\* Nothing an agent emitted disappears, whatever fails, times out or crashes and
\* however small the spool is: post_event, replay_spooled_events, EventSpool.
THEOREM EventsAlwaysAccounted == EventsSpec => []EventsAccounted
<1>1. PathInv => EventsAccounted
  BY DEF PathInv
<1> QED BY <1>1, PathHolds, PTL

-----------------------------------------------------------------------------
(* The counters.                                                           *)

\* More recorded events of a type are not fewer.
LEMMA MoreRecorded ==
  ASSUME NEW rec2, IsFiniteSet(rec2), NEW rec \in SUBSET rec2, NEW t, NEW e
  PROVE  /\ IsFiniteSet(OfType(rec, t)) /\ IsFiniteSet(OfType(rec2, t))
         /\ Cardinality(OfType(rec, t)) \in Nat /\ Cardinality(OfType(rec2, t)) \in Nat
         /\ Cardinality(OfType(rec, t)) <= Cardinality(OfType(rec2, t))
         /\ Cardinality(OfType(rec, t) \cup {e}) \in Nat
         /\ Cardinality(OfType(rec2, t) \cup {e}) \in Nat
         /\ Cardinality(OfType(rec, t) \cup {e}) <= Cardinality(OfType(rec2, t) \cup {e})
<1> DEFINE x == OfType(rec, t)
           y == OfType(rec2, t)
<1>1. x \in SUBSET y /\ y \in SUBSET rec2
  BY DEF OfType
<1>2. IsFiniteSet(y)
  BY <1>1, FS_Subset
<1> HIDE DEF x, y
<1>3. IsFiniteSet(x) /\ Cardinality(x) <= Cardinality(y)
  BY <1>1, <1>2, FS_Subset
<1>4. IsFiniteSet(y \cup {e}) /\ x \cup {e} \in SUBSET (y \cup {e})
  BY <1>1, <1>2, FS_AddElement
<1>5. /\ IsFiniteSet(x \cup {e})
      /\ Cardinality(x \cup {e}) <= Cardinality(y \cup {e})
  BY <1>4, FS_Subset
<1>6. /\ Cardinality(x) \in Nat /\ Cardinality(y) \in Nat
      /\ Cardinality(x \cup {e}) \in Nat /\ Cardinality(y \cup {e}) \in Nat
  BY <1>2, <1>3, <1>4, <1>5, FS_CardinalityType
<1> QED BY <1>2, <1>3, <1>5, <1>6 DEF x, y

\* What handlers that have read now, had read before or read the state before.
ReadsFollow ==
  \A k \in handlers' :
    k.phase = "read" =>
      \/ \E h \in handlers :
           /\ h.phase = "read" /\ k.event = h.event
           /\ k.count = h.count /\ k.seen = h.seen
      \/ /\ k.count = counter[k.event.type]
         /\ ~k.seen => ~InSeq(k.event, rows)

\* Whatever an agent does, the rows and the counters are not touched.
LEMMA AgentReads ==
  ASSUME PathInv, NEW a \in Agents,
         \/ Emit(a) \/ StartReplay(a) \/ ReplayNext(a) \/ Crash(a)
         \/ \E l \in Lanes : \/ Answering(a, l)
                             \/ \E h \in handlers : Unanswered(a, l, h)
  PROVE  ReadsFollow /\ UNCHANGED <<counter, rows, recorded>>
<1>1. UNCHANGED <<counter, rows, recorded>>
  BY DEF Emit, StartReplay, ReplayNext, Crash, Answering, Answered, Refused, Unanswered
<1>2. handlers \subseteq Handler
  BY DEF PathInv, PathTypeOK
<1>3. \A k \in handlers' :
        \/ k \in handlers
        \/ k.phase = "arrived"
        \/ \E h \in handlers : k = [h EXCEPT !.lane = "late"]
  <2>1. CASE Emit(a)
    BY <2>1 DEF Emit, Request
  <2>2. CASE ReplayNext(a)
    BY <2>2 DEF ReplayNext, Request
  <2>3. CASE StartReplay(a)
    BY <2>3 DEF StartReplay
  <2>4. CASE Crash(a)
    BY <2>4 DEF Crash
  <2>5. ASSUME NEW l \in Lanes, Answering(a, l)
        PROVE  handlers' \subseteq handlers
    BY <2>5 DEF Answering, Answered, Refused
  <2>6. ASSUME NEW l \in Lanes, NEW h \in handlers, Unanswered(a, l, h)
        PROVE  \A k \in handlers' : \/ k \in handlers
                                    \/ k = [h EXCEPT !.lane = "late"]
    BY <2>6 DEF Unanswered, Abandoned
  <2> QED BY <2>1, <2>2, <2>3, <2>4, <2>5, <2>6
<1>4. ASSUME NEW k, NEW h \in handlers, k = [h EXCEPT !.lane = "late"]
      PROVE  /\ k.phase = h.phase /\ k.event = h.event
             /\ k.count = h.count /\ k.seen = h.seen
  BY <1>2, <1>4, LateRequest
<1>5. ReadsFollow
  <2> SUFFICES ASSUME NEW k \in handlers', k.phase = "read"
               PROVE  \E h \in handlers :
                        /\ h.phase = "read" /\ k.event = h.event
                        /\ k.count = h.count /\ k.seen = h.seen
    BY DEF ReadsFollow
  <2> QED BY <1>3, <1>4
<1> QED BY <1>1, <1>5

\* A new read is sound, because an event that has no row was not recorded.
LEMMA ReadsStaySound ==
  ASSUME PathTypeOK, PathTypeOK', CountInv, ReadsFollow,
         recorded \subseteq recorded', IsFiniteSet(recorded')
  PROVE  ReadsSound(handlers', recorded')
<1> SUFFICES ASSUME NEW k \in handlers', k.phase = "read", ~k.seen
             PROVE  k.count + 1
                      <= Cardinality(OfType(recorded', k.event.type) \cup {k.event})
  BY DEF ReadsSound
<1> DEFINE t == k.event.type
           e == k.event
<1>1. k.count \in Nat /\ e \in Event /\ t \in Types
  BY DEF PathTypeOK, Handler, Event
<1> HIDE DEF t, e
<1>2. /\ Cardinality(OfType(recorded, t) \cup {e}) \in Nat
      /\ Cardinality(OfType(recorded', t) \cup {e}) \in Nat
      /\ Cardinality(OfType(recorded, t) \cup {e})
           <= Cardinality(OfType(recorded', t) \cup {e})
      /\ IsFiniteSet(OfType(recorded, t)) /\ Cardinality(OfType(recorded, t)) \in Nat
  BY MoreRecorded
<1>3. k.count + 1 <= Cardinality(OfType(recorded, t) \cup {e})
  <2>1. CASE \E h \in handlers :
               /\ h.phase = "read" /\ k.event = h.event
               /\ k.count = h.count /\ k.seen = h.seen
    BY <2>1 DEF CountInv, ReadsSound, t, e
  <2>2. CASE k.count = counter[t] /\ ~InSeq(e, rows)
    <3>1. k.count <= Cardinality(OfType(recorded, t))
      BY <1>1, <2>2 DEF CountInv, NeverOvercounted, OfType
    <3>2. e \notin OfType(recorded, t)
      BY <2>2 DEF CountInv, OfType
    <3>3. Cardinality(OfType(recorded, t) \cup {e}) = Cardinality(OfType(recorded, t)) + 1
      BY <1>2, <3>2, FS_AddElement
    <3> QED BY <1>1, <1>2, <3>1, <3>3, SMT
  <2> QED BY <2>1, <2>2 DEF ReadsFollow, t, e
<1> QED BY <1>1, <1>2, <1>3, SMT DEF t, e

\* All rows are kept if the limit is negative.
LEMMA NothingPruned ==
  ASSUME EventLimit < 0, NEW s
  PROVE  Pruned(s) = s
BY DEF Pruned

LEMMA RecordCounts ==
  ASSUME EventLimit < 0, PathInv, PathTypeOK', CountInv, NEW h \in handlers, Record(h)
  PROVE  CountInv'
<1> DEFINE e == h.event
           t == h.event.type
<1>1. /\ h.phase = "read" /\ e \in Event /\ t \in Types /\ h.count \in Nat
      /\ counter \in [Types -> Nat] /\ h \in Handler
  BY DEF Record, PathInv, PathTypeOK, Handler, Event
<1>2. /\ rows' = Append(rows, e)
      /\ recorded' = recorded \cup {e}
      /\ counter' = IF h.seen THEN counter ELSE [counter EXCEPT ![t] = h.count + 1]
  BY NothingPruned DEF Record, Counted
<1>3. IsFiniteSet(recorded') /\ recorded \subseteq recorded'
  BY <1>2, FS_AddElement DEF CountInv
<1>4. rows' \in Seq(Event) /\ \A d \in recorded' : InSeq(d, rows')
  <2>1. /\ rows' \in Seq(Event) /\ Len(rows') = Len(rows) + 1
        /\ \A i \in 1 .. Len(rows) : rows'[i] = rows[i]
        /\ rows'[Len(rows) + 1] = e
    BY <1>1, <1>2, AppendProperties DEF CountInv
  <2>2. /\ Len(rows) \in Nat /\ DOMAIN rows = 1 .. Len(rows)
        /\ DOMAIN rows' = 1 .. Len(rows')
    BY <2>1, LenProperties DEF CountInv
  <2>3. InSeq(e, rows')
    BY <2>1, <2>2, SMT DEF InSeq
  <2>4. \A d : InSeq(d, rows) => InSeq(d, rows')
    BY <2>1, <2>2, SMT DEF InSeq
  <2> QED BY <1>2, <2>1, <2>3, <2>4 DEF CountInv
<1>5. ReadsFollow
  <2>1. HandlerMoves(h)
    BY RecordMoves DEF PathInv
  <2>2. \A k \in handlers' : k \in handlers \/ k.phase = "recorded"
    BY <1>1, EndedRequest DEF Record
  <2> QED BY <2>2 DEF ReadsFollow
<1>6. ReadsSound(handlers', recorded')
  BY <1>3, <1>5, ReadsStaySound DEF PathInv
<1>7. NeverOvercounted'
  <2> SUFFICES ASSUME NEW u \in Types
               PROVE  counter'[u] <= Cardinality(OfType(recorded', u))
    BY DEF NeverOvercounted, OfType
  <2>1. /\ Cardinality(OfType(recorded, u)) \in Nat
        /\ Cardinality(OfType(recorded', u)) \in Nat
        /\ Cardinality(OfType(recorded, u)) <= Cardinality(OfType(recorded', u))
    BY <1>3, MoreRecorded
  <2>2. counter[u] \in Nat /\ counter[u] <= Cardinality(OfType(recorded, u))
    BY <1>1 DEF CountInv, NeverOvercounted, OfType
  <2>3. CASE counter'[u] = counter[u]
    BY <2>1, <2>2, <2>3, SMT
  <2>4. CASE ~h.seen /\ u = t
    <3>1. OfType(recorded', t) = OfType(recorded, t) \cup {e}
      BY <1>2 DEF OfType
    <3>2. h.count + 1 <= Cardinality(OfType(recorded, t) \cup {e})
      BY <1>1, <2>4 DEF CountInv, ReadsSound
    <3>3. counter'[u] = h.count + 1
      BY <1>1, <1>2, <2>4
    <3> QED BY <2>4, <3>1, <3>2, <3>3
  <2> QED BY <1>1, <1>2, <2>3, <2>4
<1> QED BY <1>3, <1>4, <1>6, <1>7 DEF CountInv, ReadsSound

LEMMA ReadCounterCounts ==
  ASSUME PathInv, PathTypeOK', CountInv, NEW h \in handlers, ReadCounter(h)
  PROVE  CountInv'
<1>1. UNCHANGED <<counter, rows, recorded>>
  BY DEF ReadCounter
<1>2. ReadsFollow
  <2>1. HandlerMoves(h)
    BY ReadCounterMoves DEF PathInv
  <2> QED BY <2>1 DEF HandlerMoves, ReadsFollow
<1>3. ReadsSound(handlers', recorded')
  BY <1>1, <1>2, ReadsStaySound DEF PathInv, CountInv
<1> QED BY <1>1, <1>3 DEF CountInv, ReadsSound, NeverOvercounted

LEMMA AgentCounts ==
  ASSUME PathTypeOK, PathTypeOK', CountInv, ReadsFollow,
         UNCHANGED <<counter, rows, recorded>>
  PROVE  CountInv'
<1>1. ReadsSound(handlers', recorded')
  BY ReadsStaySound DEF CountInv
<1> QED BY <1>1 DEF CountInv, ReadsSound, NeverOvercounted

LEMMA InitCounts == EventsInit => CountInv
<1> SUFFICES ASSUME EventsInit PROVE CountInv
  OBVIOUS
<1>1. handlers = {} /\ rows = <<>> /\ recorded = {} /\ counter = [t \in Types |-> 0]
  BY DEF EventsInit
<1>2. \A t \in Types : {e \in recorded : e.type = t} = {}
  BY <1>1
<1>3. NeverOvercounted
  BY <1>1, <1>2, FS_EmptySet, SMT DEF NeverOvercounted
<1> QED BY <1>1, <1>3, FS_EmptySet, EmptySeq DEF CountInv, ReadsSound

LEMMA NextCounts ==
  ASSUME EventLimit < 0
  PROVE  PathInv /\ PathInv' /\ CountInv /\ [EventsNext]_eventVars => CountInv'
<1> SUFFICES ASSUME PathInv, PathInv', CountInv, [EventsNext]_eventVars PROVE CountInv'
  OBVIOUS
<1>0. PathTypeOK /\ PathTypeOK'
  BY DEF PathInv
<1>1. CASE UNCHANGED eventVars
  BY <1>1 DEF eventVars, CountInv, ReadsSound, NeverOvercounted
<1>2. ASSUME NEW a \in Agents,
             \/ Emit(a) \/ StartReplay(a) \/ ReplayNext(a) \/ Crash(a)
             \/ \E l \in Lanes : \/ Answering(a, l)
                                 \/ \E h \in handlers : Unanswered(a, l, h)
      PROVE  CountInv'
  BY <1>0, <1>2, AgentReads, AgentCounts
<1>3. CASE Handling
  BY <1>0, <1>3, ReadCounterCounts, RecordCounts DEF Handling
<1> QED BY <1>1, <1>2, <1>3 DEF EventsNext

\* No counter runs ahead of the events, though they come twice and handlers
\* overlap, as long as no row is pruned: update_job_counter_from_event with
\* job_counter_event_already_seen.  With a limit on the rows it is false.
THEOREM CountsAlwaysSound ==
  ASSUME EventLimit < 0
  PROVE  EventsSpec => []CountsSound
<1>1. EventsInit => CountInv
  BY InitCounts
<1>2. PathInv /\ PathInv' /\ CountInv /\ [EventsNext]_eventVars => CountInv'
  BY NextCounts
<1>3. PathInv /\ CountInv => CountsSound
  BY DEF PathInv, PathTypeOK, CountInv, CountsSound, EventsTypeOK
<1> QED BY <1>1, <1>2, <1>3, PathHolds, PTL DEF EventsSpec

=============================================================================
