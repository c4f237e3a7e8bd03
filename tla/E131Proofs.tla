------------------------------ MODULE E131Proofs ------------------------------
(***************************************************************************)
(* Proofs about E131, for any sources, priorities, limits and number of    *)
(* packets, whatever the network does to them: the sources that are merged *)
(* have one priority, their data is in the buffer, and it never goes back  *)
(* to what an older packet brought.                                        *)
(***************************************************************************)
EXTENDS E131, FiniteSetTheorems, TLAPS

\* Priorities are natural numbers wherever they are kept, and a source has one.
PriorityType ==
  /\ active_priority \in Nat
  /\ \A s \in sources : "priority" \in DOMAIN s
  /\ \A p \in net : p.priority \in Nat

IInv == PriorityType /\ OnePriority

-----------------------------------------------------------------------------
\* The outcome of a packet is at one priority.
AtOnePriority(outcome) ==
  /\ outcome.active \in Nat
  /\ \A s \in outcome.sources : "priority" \in DOMAIN s /\ s.priority = outcome.active

LEMMA HeardPriority ==
  \A p : "priority" \in DOMAIN Heard(p) /\ Heard(p).priority = p.priority
BY DEF Heard

\* A new source: it clears the table when it raises the priority.
LEMMA TrackNewPriority ==
  ASSUME NEW p, NEW fresh, NEW active,
         p.priority \in Nat, active \in Nat,
         \A s \in fresh : "priority" \in DOMAIN s /\ s.priority = active
  PROVE  AtOnePriority(TrackNew(p, fresh, active))
<1> DEFINE others == IF p.priority > active THEN {} ELSE fresh
<1>1. CASE p.terminated \/ p.priority < active
  <2>1. TrackNew(p, fresh, active) = Outcome(FALSE, fresh, active)
    BY <1>1 DEF TrackNew
  <2> QED
    BY <2>1 DEF AtOnePriority, Outcome
<1>2. CASE ~(p.terminated \/ p.priority < active)
  <2>1. \A s \in others : "priority" \in DOMAIN s /\ s.priority = p.priority
    BY <1>2
  <2>2. CASE Cardinality(others) = MAX_MERGE_SOURCES
    <3>1. TrackNew(p, fresh, active) = Outcome(FALSE, others, p.priority)
      BY <1>2, <2>2 DEF TrackNew
    <3> QED
      BY <3>1, <2>1 DEF AtOnePriority, Outcome
  <2>3. CASE Cardinality(others) # MAX_MERGE_SOURCES
    <3>1. TrackNew(p, fresh, active) = Outcome(TRUE, others \cup {Heard(p)}, p.priority)
      BY <1>2, <2>3 DEF TrackNew
    <3> QED
      BY <3>1, <2>1, HeardPriority DEF AtOnePriority, Outcome
  <2> QED
    BY <2>2, <2>3
<1> QED
  BY <1>1, <1>2

\* A tracked source: it leaves, stays, or remains alone.
LEMMA TrackKnownPriority ==
  ASSUME NEW p, NEW s, NEW fresh, NEW active,
         p.priority \in Nat, active \in Nat,
         \A t \in fresh : "priority" \in DOMAIN t /\ t.priority = active
  PROVE  AtOnePriority(TrackKnown(p, s, fresh, active))
<1> DEFINE others == fresh \ {s}
<1>1. \A t \in others : "priority" \in DOMAIN t /\ t.priority = active
  OBVIOUS
<1>2. \/ TrackKnown(p, s, fresh, active) = Outcome(FALSE, fresh, active)
      \/ TrackKnown(p, s, fresh, active) =
           Outcome(TRUE, others, IF others = {} THEN 0 ELSE active)
      \/ TrackKnown(p, s, fresh, active) = Outcome(TRUE, others, active)
      \/ /\ TrackKnown(p, s, fresh, active) = Outcome(TRUE, others \cup {Heard(p)}, active)
         /\ p.priority = active
      \/ TrackKnown(p, s, fresh, active) = Outcome(TRUE, {Heard(p)}, p.priority)
  BY DEF TrackKnown
<1>3. AtOnePriority(Outcome(FALSE, fresh, active))
  BY DEF AtOnePriority, Outcome
<1>4. AtOnePriority(Outcome(TRUE, others, IF others = {} THEN 0 ELSE active))
  BY <1>1 DEF AtOnePriority, Outcome
<1>5. AtOnePriority(Outcome(TRUE, others, active))
  BY <1>1 DEF AtOnePriority, Outcome
<1>6. p.priority = active => AtOnePriority(Outcome(TRUE, others \cup {Heard(p)}, active))
  BY <1>1, HeardPriority DEF AtOnePriority, Outcome
<1>7. AtOnePriority(Outcome(TRUE, {Heard(p)}, p.priority))
  BY HeardPriority DEF AtOnePriority, Outcome
<1> QED
  BY <1>2, <1>3, <1>4, <1>5, <1>6, <1>7

\* TrackSourceIfRequired: what expires takes no priority with it, and an empty
\* table resets the active priority.
LEMMA TrackPriority ==
  ASSUME IInv, NEW p \in net
  PROVE  AtOnePriority(TrackSourceIfRequired(p))
<1> DEFINE fresh == Fresh(p)
           active == IF fresh = {} THEN 0 ELSE active_priority
           known == CHOOSE s \in sources : s.cid = p.cid
<1>1. p.priority \in Nat /\ active \in Nat
  BY DEF IInv, PriorityType
<1>2. \A s \in fresh : "priority" \in DOMAIN s /\ s.priority = active
  BY DEF IInv, PriorityType, OnePriority, Fresh
<1>3. \/ TrackSourceIfRequired(p) = TrackKnown(p, known, fresh, active)
      \/ TrackSourceIfRequired(p) = TrackNew(p, fresh, active)
  BY DEF TrackSourceIfRequired
<1> HIDE DEF fresh, active, known
<1>4. AtOnePriority(TrackKnown(p, known, fresh, active))
  BY <1>1, <1>2, TrackKnownPriority
<1>5. AtOnePriority(TrackNew(p, fresh, active))
  BY <1>1, <1>2, TrackNewPriority
<1> QED
  BY <1>3, <1>4, <1>5

-----------------------------------------------------------------------------
LEMMA InitIInv == Init => IInv
BY DEF Init, IInv, PriorityType, OnePriority

\* What is in flight has one of the senders' priorities.
LEMMA SendKeepsIInv ==
  ASSUME IInv, NEW c \in CID, NEW p \in Priority,
         SendDMX(c, p) \/ TerminateStream(c, p)
  PROVE  IInv'
<1>1. p \in Nat
  BY ConstantsAssumption
<1>2. PICK some : /\ \A q \in some : q.priority = p
                  /\ net' \subseteq net \cup some
  <2>1. CASE SendDMX(c, p)
    BY <2>1 DEF SendDMX, Transmit
  <2>2. CASE TerminateStream(c, p)
    BY <2>2 DEF TerminateStream, Transmit
  <2> QED
    BY <2>1, <2>2
<1>3. UNCHANGED receiverVars
  BY DEF SendDMX, TerminateStream, receiverVars
<1> QED
  BY <1>1, <1>2, <1>3 DEF IInv, PriorityType, OnePriority, receiverVars

LEMMA DeliverKeepsIInv ==
  ASSUME IInv, NEW p \in net, NEW again \in BOOLEAN, Deliver(p, again)
  PROVE  IInv'
<1>1. net' \subseteq net
  BY DEF Deliver
<1>2. CASE handler
  <2>1. /\ sources' = TrackSourceIfRequired(p).sources
        /\ active_priority' = TrackSourceIfRequired(p).active
    BY <1>2 DEF Deliver, HandlePDUData
  <2>2. AtOnePriority(TrackSourceIfRequired(p))
    BY TrackPriority
  <2> QED
    BY <1>1, <2>1, <2>2 DEF IInv, PriorityType, OnePriority, AtOnePriority
<1>3. CASE ~handler
  BY <1>1, <1>3 DEF Deliver, IInv, PriorityType, OnePriority
<1> QED
  BY <1>2, <1>3

LEMMA TickKeepsIInv == ASSUME IInv, Tick PROVE IInv'
<1>1. \A t \in sources' : \E s \in sources :
        "priority" \in DOMAIN t /\ t.priority = s.priority
  BY DEF Tick, IInv, PriorityType
<1> QED
  BY <1>1 DEF Tick, IInv, PriorityType, OnePriority

LEMMA NextKeepsIInv == IInv /\ [Next]_vars => IInv'
<1> SUFFICES ASSUME IInv, [Next]_vars PROVE IInv'
  OBVIOUS
<1>1. ASSUME NEW c \in CID, StartStream(c) PROVE IInv'
  BY <1>1 DEF StartStream, receiverVars, IInv, PriorityType, OnePriority
<1>2. ASSUME NEW c \in CID, NEW p \in Priority, SendDMX(c, p) \/ TerminateStream(c, p)
      PROVE  IInv'
  BY <1>2, SendKeepsIInv
<1>3. ASSUME NEW p \in net, NEW again \in BOOLEAN, Deliver(p, again) PROVE IInv'
  BY <1>3, DeliverKeepsIInv
<1>4. CASE Tick
  BY <1>4, TickKeepsIInv
<1>5. CASE RemoveHandler
  BY <1>5 DEF RemoveHandler, IInv, PriorityType, OnePriority
<1>6. CASE SetHandler
  BY <1>6 DEF SetHandler, IInv, PriorityType, OnePriority
<1>7. CASE UNCHANGED vars
  BY <1>7 DEF vars, senderVars, receiverVars, IInv, PriorityType, OnePriority
<1> QED
  BY <1>1, <1>2, <1>3, <1>4, <1>5, <1>6, <1>7 DEF Next

\* All the sources that are merged send at the active priority, for any sources,
\* priorities, expiry time and number of sources merged, and whatever packets
\* are lost, repeated or reordered.
THEOREM OnePriorityHolds == Spec => []OnePriority
<1>1. IInv => OnePriority
  BY DEF IInv
<1> QED
  BY <1>1, InitIInv, NextKeepsIInv, PTL DEF Spec

-----------------------------------------------------------------------------
(* The types of all that the other proofs are about.                        *)

Packet == [cid : CID, sequence : Int, priority : Nat, terminated : BOOLEAN,
           stamp : Nat, stream : Nat]

Source == [cid : CID, sequence : Int, age : Nat, priority : Nat, stamp : Nat,
           stream : Nat]

TypeOK ==
  /\ sequence \in [CID -> Int]
  /\ sent \in [CID -> Nat]
  /\ stream \in [CID -> Nat]
  /\ net \subseteq Packet
  /\ sources \subseteq Source
  /\ active_priority \in Nat

\* A source is tracked once.
TrackedOnce == \A s, t \in sources : s.cid = t.cid => s = t

\* The buffer has the data of all the sources tracked and the port has their
\* priority, unless the handler has been replaced since the last merge.
BufferInUse ==
  /\ Tracked \subseteq buffer \cup behind
  /\ sources # {} => priority = active_priority \/ behind # {}

\* Two numbers that are the same modulo 2^8.
Congruent(a, b) == \E k \in Int : a - b = k * SequenceModulus

\* What is kept of a packet, in the network or for a source: the sequence
\* numbers of a stream count its packets, and an older stream has older packets.
Phase(x) == x.sequence - x.stamp

Streams ==
  \A x, y \in net \cup sources : x.cid = y.cid =>
    /\ x.stream = y.stream => Congruent(Phase(x), Phase(y))
    /\ x.stream < y.stream => x.stamp < y.stamp

\* Everything kept was sent before now, and the stream goes on from there.
Sent ==
  \A x \in net \cup sources :
    /\ x.stamp < sent[x.cid]
    /\ x.stream <= stream[x.cid]
    /\ x.stream = stream[x.cid] => Congruent(Phase(x), sequence[x.cid] - sent[x.cid])

-----------------------------------------------------------------------------
(* Numbers modulo 2^8.                                                      *)

LEMMA Modulus ==
  /\ SequenceModulus \in Nat /\ SequenceModulus > 0
  /\ \A x \in Int : x % SequenceModulus \in 0..(SequenceModulus - 1)
  /\ \A x \in Int : \E k \in Int : x % SequenceModulus = x - k * SequenceModulus
<1>1. SequenceModulus \in Nat /\ SequenceModulus > 0
  BY ConstantsAssumption
<1>2. ASSUME NEW m \in Nat, m > 0, NEW x \in Int
      PROVE  x % m \in 0..(m - 1) /\ \E k \in Int : x % m = x - k * m
  <2>1. x % m \in 0..(m - 1)
    BY <1>2
  <2>2. x = m * (x \div m) + (x % m) /\ x \div m \in Int
    BY <1>2
  <2> QED
    BY <2>1, <2>2
<1> QED
  BY <1>1, <1>2

LEMMA CongruentSelf == \A a \in Int : Congruent(a, a)
<1>1. \A a \in Int : a - a = 0 * SequenceModulus
  BY Modulus
<1> QED
  BY <1>1 DEF Congruent

LEMMA CongruentSymmetric ==
  ASSUME NEW a \in Int, NEW b \in Int, Congruent(a, b)
  PROVE  Congruent(b, a)
<1>1. PICK k \in Int : a - b = k * SequenceModulus
  BY DEF Congruent
<1>2. b - a = (-k) * SequenceModulus /\ -k \in Int
  BY <1>1, Modulus
<1> QED
  BY <1>2 DEF Congruent

LEMMA CongruentTransitive ==
  ASSUME NEW a \in Int, NEW b \in Int, NEW c \in Int, Congruent(a, b), Congruent(b, c)
  PROVE  Congruent(a, c)
<1>1. PICK j \in Int : a - b = j * SequenceModulus
  BY DEF Congruent
<1>2. PICK k \in Int : b - c = k * SequenceModulus
  BY DEF Congruent
<1>3. a - c = (j + k) * SequenceModulus /\ j + k \in Int
  BY <1>1, <1>2, Modulus
<1> QED
  BY <1>3 DEF Congruent

\* A number modulo 2^8, moved.
LEMMA CongruentMod ==
  ASSUME NEW x \in Int, NEW y \in Int
  PROVE  Congruent((x % SequenceModulus) - y, x - y)
<1>1. PICK k \in Int : x % SequenceModulus = x - k * SequenceModulus
  BY Modulus
<1>2. ((x % SequenceModulus) - y) - (x - y) = (-k) * SequenceModulus /\ -k \in Int
  BY <1>1, Modulus
<1> QED
  BY <1>2 DEF Congruent

\* static_cast<int8_t> finds a difference that is small enough.
LEMMA SmallDifference ==
  ASSUME NEW a \in Int, NEW b \in Int, NEW d \in Int, Congruent(a - b, d),
         -(SequenceModulus \div 2) <= d, d < SequenceModulus \div 2
  PROVE  SequenceDiff(a, b) = d
<1> DEFINE M == SequenceModulus
           half == M \div 2
           r == (a - b + half) % M
<1>1. M \in Nat /\ M > 0 /\ half \in Nat /\ 2 * half <= M
  <2>1. \A m \in Nat : m \div 2 \in Nat /\ 2 * (m \div 2) <= m
    OBVIOUS
  <2> QED
    BY <2>1, Modulus
<1>2. r \in 0..(M - 1)
  BY <1>1, Modulus
<1>3. PICK k \in Int : r = (a - b + half) - k * M
  <2>1. a - b + half \in Int
    BY <1>1
  <2>2. \A x \in Int : \E k \in Int : x % M = x - k * M
    BY Modulus
  <2> HIDE DEF M, half
  <2> QED
    BY <2>1, <2>2
<1>4. PICK j \in Int : (a - b) - d = j * M
  BY DEF Congruent
<1>5. SequenceDiff(a, b) = r - half
  BY DEF SequenceDiff
<1>6. -half <= d /\ d < half
  OBVIOUS
<1> HIDE DEF M, half, r
<1>7. r \in Int /\ 0 <= r /\ r < M
  BY <1>1, <1>2
<1>8. 0 <= d + half /\ d + half < M
  BY <1>1, <1>6
<1>9. r - (d + half) = (j - k) * M
  BY <1>1, <1>3, <1>4, <1>7
<1>10. j - k = 0
  <2>1. \A q \in Int : q >= 1 => q * M >= M
    BY <1>1
  <2>2. \A q \in Int : q <= -1 => q * M <= -M
    BY <1>1
  <2>3. j - k \in Int
    OBVIOUS
  <2> QED
    BY <1>1, <1>7, <1>8, <1>9, <2>1, <2>2, <2>3
<1>11. r = d + half
  BY <1>1, <1>7, <1>9, <1>10
<1> QED
  BY <1>1, <1>5, <1>11

-----------------------------------------------------------------------------
(* What becomes of the sources when a packet comes in.                      *)

\* The source, of those tracked, that the packet comes from.
Known(p) == CHOOSE s \in sources : s.cid = p.cid

Active(p) == IF Fresh(p) = {} THEN 0 ELSE active_priority

LEMMA HeardType == \A p \in Packet : Heard(p) \in Source
BY DEF Heard, Packet, Source

\* A packet is ignored, and no more than the sources that expired are gone; or
\* what the caller merges is some of the sources that were, and perhaps that of
\* the packet as it was heard, in the place of its earlier state.
LEMMA TrackOutcome ==
  ASSUME TypeOK, TrackedOnce, NEW p \in net
  PROVE  LET outcome == TrackSourceIfRequired(p)
         IN  /\ outcome.active \in Nat
             /\ \A s \in outcome.sources :
                  \/ s \in sources
                  \/ /\ s = Heard(p)
                     /\ \A t \in sources : t.cid = p.cid => ~IsOld(p, t)
                     /\ \A t \in outcome.sources : t.cid = p.cid => t = s
             /\ \/ outcome.merge
                \/ outcome.sources = Fresh(p) /\ outcome.active = Active(p)
<1> DEFINE fresh == Fresh(p)
           active == Active(p)
           known == Known(p)
           outcome == TrackSourceIfRequired(p)
           others == fresh \ {known}
           raised == IF p.priority > active THEN {} ELSE fresh
<1>1. /\ p.priority \in Nat /\ active \in Nat /\ Heard(p).cid = p.cid
      /\ fresh \subseteq sources
  BY DEF TypeOK, Packet, Active, Heard, Fresh
<1>2. CASE p.cid \in Tracked
  <2>1. known \in sources /\ known.cid = p.cid /\ \A t \in sources : t.cid = p.cid => t = known
    BY <1>2 DEF Tracked, TrackedOnce, Known
  <2>2. outcome = TrackKnown(p, known, fresh, active)
    BY <1>2 DEF TrackSourceIfRequired, Known, Active
  <2> HIDE DEF outcome, known, fresh, active
  <2>3. CASE IsOld(p, known)
    <3>1. outcome = Outcome(FALSE, fresh, active)
      BY <2>2, <2>3 DEF TrackKnown
    <3> QED
      BY <1>1, <3>1 DEF Outcome, outcome, fresh, active
  <2>4. CASE ~IsOld(p, known)
    <3>1. \A t \in sources : t.cid = p.cid => ~IsOld(p, t)
      BY <2>1, <2>4
    <3>2. \/ \E n \in Nat : outcome = Outcome(TRUE, others, n)
          \/ \E n \in Nat : outcome = Outcome(TRUE, others \cup {Heard(p)}, n)
          \/ \E n \in Nat : outcome = Outcome(TRUE, {Heard(p)}, n)
      BY <1>1, <2>2, <2>4 DEF TrackKnown
    <3>3. \A t \in others : t \in sources /\ t.cid # p.cid
      BY <1>1, <2>1
    <3> HIDE DEF others
    <3>4. CASE \E n \in Nat : outcome = Outcome(TRUE, others, n)
      BY <3>3, <3>4 DEF Outcome, outcome
    <3>5. CASE \E n \in Nat : outcome = Outcome(TRUE, others \cup {Heard(p)}, n)
      BY <1>1, <3>1, <3>3, <3>5 DEF Outcome, outcome
    <3>6. CASE \E n \in Nat : outcome = Outcome(TRUE, {Heard(p)}, n)
      BY <3>1, <3>6 DEF Outcome, outcome
    <3> QED
      BY <3>2, <3>4, <3>5, <3>6
  <2> QED
    BY <2>3, <2>4
<1>3. CASE p.cid \notin Tracked
  <2>1. \A t \in sources : t.cid # p.cid
    BY <1>3 DEF Tracked
  <2>2. outcome = TrackNew(p, fresh, active)
    BY <1>3 DEF TrackSourceIfRequired, Active
  <2> HIDE DEF outcome, fresh, active
  <2>3. CASE p.terminated \/ p.priority < active
    <3>1. outcome = Outcome(FALSE, fresh, active)
      BY <2>2, <2>3 DEF TrackNew
    <3> QED
      BY <1>1, <3>1 DEF Outcome, outcome, fresh, active
  <2>4. CASE ~(p.terminated \/ p.priority < active) /\ Cardinality(raised) = MAX_MERGE_SOURCES
    <3>1. raised # {}
      <4>1. Cardinality({}) = 0
        BY FS_EmptySet
      <4> HIDE DEF raised
      <4> QED
        BY <2>4, <4>1, ConstantsAssumption
    <3>2. raised = fresh /\ p.priority = active
      BY <1>1, <2>4, <3>1
    <3>3. outcome = Outcome(FALSE, fresh, active)
      BY <2>2, <2>4, <3>2 DEF TrackNew
    <3> QED
      BY <1>1, <3>3 DEF Outcome, outcome, fresh, active
  <2>5. CASE ~(p.terminated \/ p.priority < active) /\ Cardinality(raised) # MAX_MERGE_SOURCES
    <3>1. outcome = Outcome(TRUE, raised \cup {Heard(p)}, p.priority)
      BY <2>2, <2>5 DEF TrackNew
    <3>2. raised \subseteq sources
      BY <1>1
    <3> HIDE DEF raised
    <3> QED
      BY <1>1, <2>1, <3>1, <3>2 DEF Outcome, outcome
  <2> QED
    BY <2>3, <2>4, <2>5
<1> QED
  BY <1>2, <1>3

LEMMA DeliverFacts ==
  ASSUME TypeOK, TrackedOnce, NEW p \in net, NEW again \in BOOLEAN, Deliver(p, again), handler
  PROVE  /\ active_priority' \in Nat
         /\ \A s \in sources' :
              \/ s \in sources
              \/ /\ s = Heard(p)
                 /\ \A t \in sources : t.cid = p.cid => ~IsOld(p, t)
                 /\ \A t \in sources' : t.cid = p.cid => t = s
         /\ \/ buffer' = {s.cid : s \in sources'} /\ priority' = active_priority'
            \/ /\ sources' = Fresh(p) /\ active_priority' = Active(p)
               /\ UNCHANGED <<buffer, priority, behind>>
<1> DEFINE outcome == TrackSourceIfRequired(p)
<1>1. /\ sources' = outcome.sources /\ active_priority' = outcome.active
      /\ IF outcome.merge
         THEN buffer' = {s.cid : s \in outcome.sources} /\ priority' = outcome.active
         ELSE UNCHANGED <<buffer, priority, behind>>
  BY DEF Deliver, HandlePDUData
<1>2. /\ outcome.active \in Nat
      /\ \A s \in outcome.sources :
           \/ s \in sources
           \/ /\ s = Heard(p)
              /\ \A t \in sources : t.cid = p.cid => ~IsOld(p, t)
              /\ \A t \in outcome.sources : t.cid = p.cid => t = s
      /\ outcome.merge \/ (outcome.sources = Fresh(p) /\ outcome.active = Active(p))
  BY TrackOutcome
<1> HIDE DEF outcome
<1> QED
  BY <1>1, <1>2

\* The clock changes nothing but the ages.
LEMMA TickFacts ==
  ASSUME TypeOK, Tick
  PROVE  /\ sources' \subseteq Source
         /\ \A t \in sources' : \E s \in sources :
              /\ t = [s EXCEPT !.age = IF @ > EXPIRY_INTERVAL THEN @ ELSE @ + 1]
              /\ t.cid = s.cid /\ t.stamp = s.stamp /\ t.stream = s.stream
              /\ t.sequence = s.sequence
         /\ Tracked' = Tracked
         /\ sources # {}
<1> DEFINE Aged(s) == [s EXCEPT !.age = IF @ > EXPIRY_INTERVAL THEN @ ELSE @ + 1]
<1>1. sources' = {Aged(s) : s \in sources} /\ sources # {} /\ sources \subseteq Source
  BY DEF Tick, TypeOK
<1>2. ASSUME NEW s \in Source
      PROVE  /\ Aged(s) \in Source /\ Aged(s).cid = s.cid /\ Aged(s).stamp = s.stamp
             /\ Aged(s).stream = s.stream /\ Aged(s).sequence = s.sequence
  <2>1. s.age \in Nat
    BY DEF Source
  <2>2. (IF s.age > EXPIRY_INTERVAL THEN s.age ELSE s.age + 1) \in Nat
    BY <2>1
  <2> QED
    BY <2>2 DEF Source
<1> HIDE DEF Aged
<1>3. Tracked' = Tracked
  BY <1>1, <1>2 DEF Tracked
<1>4. sources' \subseteq Source
  BY <1>1, <1>2
<1>5. \A t \in sources' : \E s \in sources :
        /\ t = Aged(s) /\ t.cid = s.cid /\ t.stamp = s.stamp /\ t.stream = s.stream
        /\ t.sequence = s.sequence
  BY <1>1, <1>2
<1> QED
  BY <1>1, <1>3, <1>4, <1>5 DEF Aged

\* The terminations are numbered on only where there is a stream.
LEMMA SomeEndings == \A c : (IF c \in m_tx_universes THEN 0..2 ELSE {0}) \subseteq 0..2
OBVIOUS

LEMMA SendType ==
  ASSUME TypeOK, NEW c \in CID, NEW p \in Priority,
         SendDMX(c, p) \/ TerminateStream(c, p)
  PROVE  TypeOK'
<1>1. p \in Nat /\ sequence[c] \in Int /\ sent[c] \in Nat /\ stream[c] \in Nat
  BY ConstantsAssumption DEF TypeOK
<1>2. UNCHANGED receiverVars
  BY DEF SendDMX, TerminateStream
<1>3. ASSUME NEW x \in Int PROVE x % SequenceModulus \in Int
  BY Modulus
<1>4. CASE SendDMX(c, p)
  <2> DEFINE packet == [cid |-> c, sequence |-> sequence[c], priority |-> p,
                        terminated |-> FALSE, stamp |-> sent[c], stream |-> stream[c]]
  <2>1. packet \in Packet
    BY <1>1 DEF Packet
  <2>2. net' \subseteq net \cup {packet}
    BY <1>4 DEF SendDMX, Transmit
  <2>3. (sequence[c] + 1) % SequenceModulus \in Int /\ sent[c] + 1 \in Nat
    BY <1>1, <1>3
  <2> HIDE DEF packet
  <2>4. net' \subseteq Packet
    BY <2>1, <2>2 DEF TypeOK
  <2>5. /\ sequence' \in [CID -> Int] /\ sent' \in [CID -> Nat] /\ stream' = stream
    BY <1>4, <2>3 DEF SendDMX, TypeOK
  <2> QED
    BY <1>2, <2>4, <2>5 DEF TypeOK, receiverVars
<1>5. CASE TerminateStream(c, p)
  <2> DEFINE Ending(i) == [cid |-> c, sequence |-> (sequence[c] + i) % SequenceModulus,
                           priority |-> p, terminated |-> TRUE, stamp |-> sent[c] + i,
                           stream |-> stream[c]]
  <2>1. ASSUME NEW i \in 0..2 PROVE Ending(i) \in Packet
    <3>1. (sequence[c] + i) % SequenceModulus \in Int /\ sent[c] + i \in Nat
      BY <1>1, <1>3
    <3> QED
      BY <1>1, <3>1 DEF Packet
  <2>2. net' \subseteq net \cup {Ending(i) : i \in 0..2}
    BY <1>5, SomeEndings DEF TerminateStream, Transmit
  <2> HIDE DEF Ending
  <2>3. net' \subseteq Packet
    BY <2>1, <2>2 DEF TypeOK
  <2>4. sequence' \in [CID -> Int] /\ sent' \in [CID -> Nat] /\ stream' \in [CID -> Nat]
    BY <1>1, <1>5 DEF TerminateStream, TypeOK
  <2> QED
    BY <1>2, <2>3, <2>4 DEF TypeOK, receiverVars
<1> QED
  BY <1>4, <1>5

LEMMA TypeStep ==
  ASSUME TypeOK, TrackedOnce, [Next]_vars
  PROVE  TypeOK' /\ TrackedOnce'
<1>1. ASSUME NEW c \in CID, StartStream(c) PROVE TypeOK' /\ TrackedOnce'
  BY <1>1 DEF StartStream, receiverVars, TypeOK, TrackedOnce
<1>2. ASSUME NEW c \in CID, NEW p \in Priority, SendDMX(c, p) \/ TerminateStream(c, p)
      PROVE  TypeOK' /\ TrackedOnce'
  <2>1. UNCHANGED receiverVars
    BY <1>2 DEF SendDMX, TerminateStream
  <2> QED
    BY <1>2, <2>1, SendType DEF receiverVars, TrackedOnce
<1>3. ASSUME NEW p \in net, NEW again \in BOOLEAN, Deliver(p, again)
      PROVE  TypeOK' /\ TrackedOnce'
  <2>1. net' \subseteq net /\ UNCHANGED senderVars
    BY <1>3 DEF Deliver
  <2>2. CASE handler
    <3>1. Heard(p) \in Source /\ Heard(p).cid = p.cid
      BY HeardType DEF TypeOK, Heard
    <3>2. /\ active_priority' \in Nat
          /\ \A s \in sources' :
               \/ s \in sources
               \/ s = Heard(p) /\ \A t \in sources' : t.cid = p.cid => t = s
      BY <1>3, <2>2, DeliverFacts
    <3>3. TypeOK'
      BY <2>1, <3>1, <3>2 DEF TypeOK, senderVars
    <3>4. TrackedOnce'
      BY <3>1, <3>2 DEF TrackedOnce
    <3> QED
      BY <3>3, <3>4
  <2>3. CASE ~handler
    BY <1>3, <2>1, <2>3 DEF Deliver, TypeOK, TrackedOnce, senderVars
  <2> QED
    BY <2>2, <2>3
<1>4. CASE Tick
  BY <1>4, TickFacts DEF Tick, TypeOK, TrackedOnce, senderVars
<1>5. CASE RemoveHandler \/ SetHandler \/ UNCHANGED vars
  BY <1>5 DEF RemoveHandler, SetHandler, vars, TypeOK, TrackedOnce, senderVars, receiverVars
<1> QED
  BY <1>1, <1>2, <1>3, <1>4, <1>5 DEF Next

-----------------------------------------------------------------------------
(* The buffer.                                                              *)

BufferStep ==
  /\ Tracked' \subseteq buffer' \cup behind'
  /\ sources' # {} => priority' = active_priority' \/ behind' # {}
  /\ handler' => \A s \in sources :
       s.cid \in buffer' \ Tracked' => s.age > EXPIRY_INTERVAL

\* A packet is ignored, or the data of all the sources is merged anew.
LEMMA DeliverBuffer ==
  ASSUME TypeOK, TrackedOnce, BufferInUse, NEW p \in net, NEW again \in BOOLEAN,
         Deliver(p, again)
  PROVE  BufferStep
<1>1. CASE ~handler
  BY <1>1 DEF Deliver, BufferStep, BufferInUse, Tracked
<1>2. CASE handler /\ buffer' = {s.cid : s \in sources'} /\ priority' = active_priority'
  BY <1>2 DEF BufferStep, Tracked
<1>3. CASE /\ handler /\ sources' = Fresh(p) /\ active_priority' = Active(p)
           /\ UNCHANGED <<buffer, priority, behind>>
  <2>1. Tracked' \subseteq buffer' \cup behind'
    BY <1>3 DEF BufferInUse, Tracked, Fresh
  <2>2. sources' # {} => priority' = active_priority' \/ behind' # {}
    BY <1>3 DEF BufferInUse, Active, Fresh
  <2>3. ASSUME NEW s \in sources, s.cid \notin Tracked' PROVE s.age > EXPIRY_INTERVAL
    <3>1. s \notin Fresh(p)
      BY <1>3, <2>3 DEF Tracked
    <3>2. ~(s.age <= EXPIRY_INTERVAL)
      BY <3>1 DEF Fresh
    <3>3. s.age \in Nat /\ EXPIRY_INTERVAL \in Nat
      BY ConstantsAssumption DEF TypeOK, Source
    <3> QED
      BY <3>2, <3>3
  <2> QED
    BY <2>1, <2>2, <2>3 DEF BufferStep
<1> QED
  BY <1>1, <1>2, <1>3, DeliverFacts

LEMMA BufferStepHolds ==
  ASSUME TypeOK, TrackedOnce, BufferInUse, [Next]_vars
  PROVE  BufferStep /\ BufferInUse'
<1>1. ASSUME UNCHANGED <<sources, active_priority, buffer, priority, behind>> PROVE BufferStep
  BY <1>1 DEF BufferStep, BufferInUse, Tracked
<1>2. BufferStep
  <2>1. ASSUME NEW c \in CID, StartStream(c) PROVE BufferStep
    BY <1>1, <2>1 DEF StartStream, receiverVars
  <2>2. ASSUME NEW c \in CID, NEW p \in Priority, SendDMX(c, p) \/ TerminateStream(c, p)
        PROVE  BufferStep
    BY <1>1, <2>2 DEF SendDMX, TerminateStream, receiverVars
  <2>3. CASE Tick
    BY <2>3, TickFacts DEF Tick, BufferStep, BufferInUse, Tracked
  <2>4. CASE RemoveHandler
    BY <2>4 DEF RemoveHandler, BufferStep, Tracked
  <2>5. CASE SetHandler
    <3>1. CASE UNCHANGED <<buffer, priority, behind>>
      BY <1>1, <2>5, <3>1 DEF SetHandler
    <3>2. CASE behind' = Tracked
      <4>1. sources' = sources /\ Tracked' = Tracked
        BY <2>5 DEF SetHandler, Tracked
      <4>2. sources # {} => Tracked # {}
        BY DEF Tracked
      <4>3. \A s \in sources : s.cid \in Tracked
        BY DEF Tracked
      <4> QED
        BY <3>2, <4>1, <4>2, <4>3 DEF BufferStep
    <3> QED
      BY <2>5, <3>1, <3>2 DEF SetHandler
  <2>6. CASE UNCHANGED vars
    BY <1>1, <2>6 DEF vars, receiverVars
  <2> QED
    BY <2>1, <2>2, <2>3, <2>4, <2>5, <2>6, DeliverBuffer DEF Next
<1> QED
  BY <1>2 DEF BufferStep, BufferInUse

\* The receiver's invariant: a source is tracked once and its data is in use.
ReceiverInv == TypeOK /\ TrackedOnce /\ BufferInUse

LEMMA ReceiverInvHolds == Spec => []ReceiverInv
<1>1. Init => ReceiverInv
  <2>1. Init => TypeOK
    BY Modulus DEF Init, TypeOK
  <2> QED
    BY <2>1 DEF Init, ReceiverInv, TrackedOnce, BufferInUse, Tracked
<1>2. ReceiverInv /\ [Next]_vars => ReceiverInv'
  BY TypeStep, BufferStepHolds DEF ReceiverInv
<1> QED
  BY <1>1, <1>2, PTL DEF Spec

\* "We need to trigger a merge here else the buffer will be stale": for any
\* sources and limits, what the port has is the data and the priority of the
\* sources tracked, from the first merge after the handler was replaced on, and a
\* source leaves its data behind only when it has expired.
THEOREM BufferHolds == Spec => BufferFollowsSources
<1>1. ReceiverInv /\ [Next]_vars => BufferStep
  BY BufferStepHolds DEF ReceiverInv
<1> QED
  BY <1>1, ReceiverInvHolds, PTL DEF Spec, BufferFollowsSources, BufferStep

-----------------------------------------------------------------------------
(* The sequence numbers.                                                    *)

Kept == net \cup sources

LEMMA KeptType ==
  ASSUME TypeOK, NEW x \in Kept
  PROVE  /\ x.cid \in CID /\ x.sequence \in Int /\ x.stamp \in Nat /\ x.stream \in Nat
         /\ Phase(x) \in Int
         /\ sent[x.cid] \in Nat /\ stream[x.cid] \in Nat /\ sequence[x.cid] \in Int
<1>1. x.cid \in CID /\ x.sequence \in Int /\ x.stamp \in Nat /\ x.stream \in Nat
  BY DEF TypeOK, Kept, Packet, Source
<1> QED
  BY <1>1 DEF TypeOK, Phase

\* What is kept was kept before, for a packet or a source.
LEMMA KeptBefore ==
  ASSUME Streams, Sent, UNCHANGED <<sequence, sent, stream>>,
         \A x \in Kept' : \E y \in Kept :
           /\ x.cid = y.cid /\ x.sequence = y.sequence
           /\ x.stamp = y.stamp /\ x.stream = y.stream
  PROVE  Streams' /\ Sent'
<1>1. Streams'
  <2> SUFFICES ASSUME NEW x \in Kept', NEW y \in Kept', x.cid = y.cid
               PROVE  /\ x.stream = y.stream => Congruent(Phase(x), Phase(y))
                      /\ x.stream < y.stream => x.stamp < y.stamp
    BY DEF Streams, Kept
  <2>1. PICK v \in Kept : /\ x.cid = v.cid /\ x.sequence = v.sequence
                          /\ x.stamp = v.stamp /\ x.stream = v.stream
    OBVIOUS
  <2>2. PICK w \in Kept : /\ y.cid = w.cid /\ y.sequence = w.sequence
                          /\ y.stamp = w.stamp /\ y.stream = w.stream
    OBVIOUS
  <2>3. Phase(x) = Phase(v) /\ Phase(y) = Phase(w)
    BY <2>1, <2>2 DEF Phase
  <2>4. /\ v.stream = w.stream => Congruent(Phase(v), Phase(w))
        /\ v.stream < w.stream => v.stamp < w.stamp
    BY <2>1, <2>2 DEF Streams, Kept
  <2> QED
    BY <2>1, <2>2, <2>3, <2>4
<1>2. Sent'
  <2> SUFFICES ASSUME NEW x \in Kept'
               PROVE  /\ x.stamp < sent[x.cid]
                      /\ x.stream <= stream[x.cid]
                      /\ x.stream = stream[x.cid] =>
                           Congruent(Phase(x), sequence[x.cid] - sent[x.cid])
    BY DEF Sent, Kept
  <2>1. PICK v \in Kept : /\ x.cid = v.cid /\ x.sequence = v.sequence
                          /\ x.stamp = v.stamp /\ x.stream = v.stream
    OBVIOUS
  <2>2. Phase(x) = Phase(v)
    BY <2>1 DEF Phase
  <2>3. /\ v.stamp < sent[v.cid]
        /\ v.stream <= stream[v.cid]
        /\ v.stream = stream[v.cid] => Congruent(Phase(v), sequence[v.cid] - sent[v.cid])
    BY DEF Sent, Kept
  <2> QED
    BY <2>1, <2>2, <2>3
<1> QED
  BY <1>1, <1>2

\* A node numbers its packets: what is new has the node's phase, counts on from
\* what was sent, and is of the stream that was the latest.
LEMMA SendNumbers ==
  ASSUME TypeOK, TypeOK', Streams, Sent, NEW c \in CID, NEW n \in Nat,
         \A x \in Kept' :
           \/ x \in Kept
           \/ /\ x.cid = c /\ x.stream = stream[c]
              /\ sent[c] <= x.stamp /\ x.stamp < sent[c] + n
              /\ Congruent(Phase(x), sequence[c] - sent[c]),
         sent' = [sent EXCEPT ![c] = @ + n],
         \A d \in CID \ {c} : stream'[d] = stream[d] /\ sequence'[d] = sequence[d],
         \/ /\ stream'[c] = stream[c]
            /\ Congruent(sequence'[c] - sent'[c], sequence[c] - sent[c])
         \/ stream'[c] = stream[c] + 1
  PROVE  Streams' /\ Sent'
<1> DEFINE phase == sequence[c] - sent[c]
           IsNew(x) == /\ x.cid = c /\ x.stream = stream[c]
                       /\ sent[c] <= x.stamp /\ x.stamp < sent[c] + n
                       /\ Congruent(Phase(x), phase)
<1>1. /\ sent[c] \in Nat /\ stream[c] \in Nat /\ phase \in Int
      /\ sent'[c] = sent[c] + n /\ \A d \in CID \ {c} : sent'[d] = sent[d]
      /\ sequence'[c] - sent'[c] \in Int
  BY DEF TypeOK
<1>2. ASSUME NEW x \in Kept'
      PROVE  /\ x.cid \in CID /\ x.stamp \in Nat /\ x.stream \in Nat /\ Phase(x) \in Int
             /\ x \in Kept \/ IsNew(x)
  <2>1. x \in net' \/ x \in sources'
    BY DEF Kept
  <2>2. x.cid \in CID /\ x.sequence \in Int /\ x.stamp \in Nat /\ x.stream \in Nat
    BY <2>1 DEF TypeOK, Packet, Source
  <2> QED
    BY <2>2 DEF Phase
<1>3. ASSUME NEW x \in Kept
      PROVE  /\ x.stamp < sent[x.cid] /\ x.stream <= stream[x.cid]
             /\ x.stream = stream[x.cid] =>
                  Congruent(Phase(x), sequence[x.cid] - sent[x.cid])
  BY DEF Sent, Kept
<1> HIDE DEF phase
<1>4. Streams'
  <2> SUFFICES ASSUME NEW x \in Kept', NEW y \in Kept', x.cid = y.cid
               PROVE  /\ x.stream = y.stream => Congruent(Phase(x), Phase(y))
                      /\ x.stream < y.stream => x.stamp < y.stamp
    BY DEF Streams, Kept
  <2>0. /\ x.stamp \in Nat /\ x.stream \in Nat /\ Phase(x) \in Int
        /\ y.stamp \in Nat /\ y.stream \in Nat /\ Phase(y) \in Int
    BY <1>2
  <2>1. CASE x \in Kept /\ y \in Kept
    BY <2>1 DEF Streams, Kept
  <2>2. CASE x \in Kept /\ IsNew(y)
    <3>1. x.stamp < y.stamp
      BY <1>1, <1>3, <2>0, <2>2
    <3>2. x.stream = y.stream => Congruent(Phase(x), phase)
      BY <1>3, <2>2 DEF phase
    <3>3. Congruent(phase, Phase(y))
      BY <1>1, <2>0, <2>2, CongruentSymmetric
    <3> QED
      BY <1>1, <2>0, <3>1, <3>2, <3>3, CongruentTransitive
  <2>3. CASE IsNew(x) /\ y \in Kept
    <3>1. ~(x.stream < y.stream)
      <4>1. y.stream <= stream[c] /\ x.stream = stream[c]
        BY <1>3, <2>3
      <4> QED
        BY <1>1, <2>0, <4>1
    <3>2. x.stream = y.stream => Congruent(Phase(y), phase)
      BY <1>3, <2>3 DEF phase
    <3>3. x.stream = y.stream => Congruent(phase, Phase(y))
      BY <1>1, <2>0, <3>2, CongruentSymmetric
    <3> QED
      BY <1>1, <2>0, <2>3, <3>1, <3>3, CongruentTransitive
  <2>4. CASE IsNew(x) /\ IsNew(y)
    <3>1. Congruent(phase, Phase(y))
      BY <1>1, <2>0, <2>4, CongruentSymmetric
    <3>2. Congruent(Phase(x), Phase(y))
      BY <1>1, <2>0, <2>4, <3>1, CongruentTransitive
    <3>3. ~(x.stream < y.stream)
      <4>1. x.stream = y.stream
        BY <2>4
      <4> QED
        BY <2>0, <4>1
    <3> QED
      BY <3>2, <3>3
  <2> QED
    BY <1>2, <2>1, <2>2, <2>3, <2>4
<1>5. Sent'
  <2> SUFFICES ASSUME NEW x \in Kept'
               PROVE  /\ x.stamp < sent'[x.cid]
                      /\ x.stream <= stream'[x.cid]
                      /\ x.stream = stream'[x.cid] =>
                           Congruent(Phase(x), sequence'[x.cid] - sent'[x.cid])
    BY DEF Sent, Kept
  <2>0. x.cid \in CID /\ x.stamp \in Nat /\ x.stream \in Nat /\ Phase(x) \in Int
    BY <1>2
  <2>1. CASE x.cid # c
    BY <1>1, <1>2, <1>3, <2>0, <2>1
  <2>2. CASE x.cid = c
    <3>1. x.stamp < sent'[c]
      BY <1>1, <1>2, <1>3, <2>0, <2>2
    <3>2. x.stream <= stream[c] /\ (x.stream = stream[c] => Congruent(Phase(x), phase))
      BY <1>1, <1>2, <1>3, <2>0, <2>2 DEF phase
    <3>3. CASE stream'[c] = stream[c] /\ Congruent(sequence'[c] - sent'[c], phase)
      <4>1. Congruent(phase, sequence'[c] - sent'[c])
        BY <1>1, <3>3, CongruentSymmetric
      <4>2. x.stream = stream[c] => Congruent(Phase(x), sequence'[c] - sent'[c])
        BY <1>1, <2>0, <3>2, <4>1, CongruentTransitive
      <4> QED
        BY <2>2, <3>1, <3>2, <3>3, <4>2
    <3>4. CASE stream'[c] = stream[c] + 1
      BY <1>1, <2>0, <2>2, <3>1, <3>2, <3>4
    <3> QED
      BY <3>3, <3>4 DEF phase
  <2> QED
    BY <2>1, <2>2
<1> QED
  BY <1>4, <1>5

LEMMA SendStreams ==
  ASSUME TypeOK, TypeOK', Streams, Sent, NEW c \in CID, NEW p \in Priority,
         SendDMX(c, p) \/ TerminateStream(c, p)
  PROVE  Streams' /\ Sent'
<1>1. sequence[c] \in Int /\ sent[c] \in Nat /\ stream[c] \in Nat
  BY DEF TypeOK
<1>2. sources' = sources
  BY DEF SendDMX, TerminateStream, receiverVars
<1>3. CASE SendDMX(c, p)
  <2> DEFINE packet == [cid |-> c, sequence |-> sequence[c], priority |-> p,
                        terminated |-> FALSE, stamp |-> sent[c], stream |-> stream[c]]
  <2>1. net' \subseteq net \cup {packet}
    BY <1>3 DEF SendDMX, Transmit
  <2>2. Congruent(sequence[c] - sent[c], sequence[c] - sent[c])
    BY <1>1, CongruentSelf
  <2>3. /\ packet.cid = c /\ packet.stream = stream[c] /\ packet.stamp = sent[c]
        /\ Phase(packet) = sequence[c] - sent[c]
    BY DEF Phase
  <2> HIDE DEF packet
  <2>4. \A x \in Kept' :
          \/ x \in Kept
          \/ /\ x.cid = c /\ x.stream = stream[c]
             /\ sent[c] <= x.stamp /\ x.stamp < sent[c] + 1
             /\ Congruent(Phase(x), sequence[c] - sent[c])
    BY <1>1, <1>2, <2>1, <2>2, <2>3 DEF Kept
  <2>5. /\ sequence' = [sequence EXCEPT ![c] = (@ + 1) % SequenceModulus]
        /\ sent' = [sent EXCEPT ![c] = @ + 1] /\ stream' = stream
    BY <1>3 DEF SendDMX
  <2>6. /\ sequence'[c] = (sequence[c] + 1) % SequenceModulus /\ sent'[c] = sent[c] + 1
        /\ \A d \in CID \ {c} : sequence'[d] = sequence[d]
    BY <2>5 DEF TypeOK
  <2>7. Congruent(sequence'[c] - sent'[c], sequence[c] - sent[c])
    <3>1. /\ sequence[c] + 1 \in Int /\ sent[c] + 1 \in Int
          /\ (sequence[c] + 1) - (sent[c] + 1) = sequence[c] - sent[c]
      BY <1>1
    <3>2. Congruent(((sequence[c] + 1) % SequenceModulus) - (sent[c] + 1),
                    (sequence[c] + 1) - (sent[c] + 1))
      BY <3>1, CongruentMod
    <3> QED
      BY <2>6, <3>1, <3>2
  <2> QED
    BY <2>4, <2>5, <2>6, <2>7, SendNumbers
<1>4. CASE TerminateStream(c, p)
  <2> DEFINE Ending(i) == [cid |-> c, sequence |-> (sequence[c] + i) % SequenceModulus,
                           priority |-> p, terminated |-> TRUE, stamp |-> sent[c] + i,
                           stream |-> stream[c]]
  <2>1. net' \subseteq net \cup {Ending(i) : i \in 0..2}
    BY <1>4, SomeEndings DEF TerminateStream, Transmit
  <2>2. ASSUME NEW i \in 0..2
        PROVE  /\ Ending(i).cid = c /\ Ending(i).stream = stream[c]
               /\ sent[c] <= Ending(i).stamp /\ Ending(i).stamp < sent[c] + 3
               /\ Congruent(Phase(Ending(i)), sequence[c] - sent[c])
    <3>1. /\ sequence[c] + i \in Int /\ sent[c] + i \in Int
          /\ (sequence[c] + i) - (sent[c] + i) = sequence[c] - sent[c]
          /\ sent[c] <= sent[c] + i /\ sent[c] + i < sent[c] + 3
      BY <1>1
    <3>2. Congruent(((sequence[c] + i) % SequenceModulus) - (sent[c] + i),
                    (sequence[c] + i) - (sent[c] + i))
      BY <3>1, CongruentMod
    <3>3. Phase(Ending(i)) = ((sequence[c] + i) % SequenceModulus) - (sent[c] + i)
      BY DEF Phase
    <3>4. Ending(i).cid = c /\ Ending(i).stream = stream[c] /\ Ending(i).stamp = sent[c] + i
      OBVIOUS
    <3> HIDE DEF Ending
    <3> QED
      BY <3>1, <3>2, <3>3, <3>4
  <2> HIDE DEF Ending
  <2>3. \A x \in Kept' :
          \/ x \in Kept
          \/ /\ x.cid = c /\ x.stream = stream[c]
             /\ sent[c] <= x.stamp /\ x.stamp < sent[c] + 3
             /\ Congruent(Phase(x), sequence[c] - sent[c])
    BY <1>2, <2>1, <2>2 DEF Kept
  <2>4. /\ sent' = [sent EXCEPT ![c] = @ + 3]
        /\ sequence' = [sequence EXCEPT ![c] = 0]
        /\ stream' = [stream EXCEPT ![c] = @ + 1]
    BY <1>4 DEF TerminateStream
  <2>5. /\ stream'[c] = stream[c] + 1
        /\ \A d \in CID \ {c} : stream'[d] = stream[d] /\ sequence'[d] = sequence[d]
    BY <2>4 DEF TypeOK
  <2> QED
    BY <2>3, <2>4, <2>5, SendNumbers
<1> QED
  BY <1>3, <1>4

LEMMA StreamsStep ==
  ASSUME TypeOK, TypeOK', TrackedOnce, Streams, Sent, [Next]_vars
  PROVE  Streams' /\ Sent'
<1>1. ASSUME UNCHANGED <<sequence, sent, stream>>, net' \subseteq net, sources' \subseteq sources
      PROVE  Streams' /\ Sent'
  <2>1. \A x \in Kept' : x \in Kept
    BY <1>1 DEF Kept
  <2> QED
    BY <1>1, <2>1, KeptBefore
<1>2. ASSUME NEW c \in CID, StartStream(c) PROVE Streams' /\ Sent'
  BY <1>1, <1>2 DEF StartStream, receiverVars
<1>3. ASSUME NEW p \in net, NEW again \in BOOLEAN, Deliver(p, again)
      PROVE  Streams' /\ Sent'
  <2>1. net' \subseteq net /\ UNCHANGED <<sequence, sent, stream>>
    BY <1>3 DEF Deliver, senderVars
  <2>2. CASE handler
    <3>1. \A s \in sources' : s \in sources \/ s = Heard(p)
      BY <1>3, <2>2, DeliverFacts
    <3>2. /\ Heard(p).cid = p.cid /\ Heard(p).sequence = p.sequence
          /\ Heard(p).stamp = p.stamp /\ Heard(p).stream = p.stream
      BY DEF Heard
    <3>3. \A x \in Kept' : x \in Kept \/ x = Heard(p)
      BY <2>1, <3>1 DEF Kept
    <3>4. p \in Kept
      BY DEF Kept
    <3> QED
      BY <2>1, <3>2, <3>3, <3>4, KeptBefore
  <2>3. CASE ~handler
    BY <1>1, <1>3, <2>1, <2>3 DEF Deliver
  <2> QED
    BY <2>2, <2>3
<1>4. CASE Tick
  <2>1. net' = net /\ UNCHANGED <<sequence, sent, stream>>
    BY <1>4 DEF Tick, senderVars
  <2>2. \A x \in Kept' : \E y \in Kept :
          /\ x.cid = y.cid /\ x.sequence = y.sequence
          /\ x.stamp = y.stamp /\ x.stream = y.stream
    BY <1>4, <2>1, TickFacts DEF Kept
  <2> QED
    BY <2>1, <2>2, KeptBefore
<1>5. CASE RemoveHandler \/ SetHandler \/ UNCHANGED vars
  BY <1>1, <1>5 DEF RemoveHandler, SetHandler, vars, senderVars, receiverVars
<1> QED
  BY <1>2, <1>3, <1>4, <1>5, SendStreams DEF Next

\* A packet that is older than the data in use, but not by too much, is old by
\* its sequence number too.
LEMMA OldIsIgnored ==
  ASSUME TypeOK, Streams, NEW p \in net, NEW s \in sources, s.cid = p.cid,
         ~IsOld(p, s)
  PROVE  \/ p.stamp >= s.stamp
         \/ p.stream < s.stream
         \/ s.stamp - p.stamp >= -SEQUENCE_DIFF_THRESHOLD
<1>1. p \in Kept /\ s \in Kept
  BY DEF Kept
<1>2. /\ p.stamp \in Nat /\ p.stream \in Nat /\ p.sequence \in Int
      /\ s.stamp \in Nat /\ s.stream \in Nat /\ s.sequence \in Int
  BY <1>1, KeptType
<1>3. CASE p.stream < s.stream
  BY <1>3
<1>4. CASE s.stream < p.stream
  <2>1. s.stamp < p.stamp
    BY <1>1, <1>4 DEF Streams, Kept
  <2> QED
    BY <1>2, <2>1
<1>5. CASE s.stream = p.stream
  <2> DEFINE d == p.stamp - s.stamp
             threshold == SEQUENCE_DIFF_THRESHOLD
             half == SequenceModulus \div 2
  <2> SUFFICES ASSUME d < 0, d > threshold PROVE FALSE
    <3>1. d \in Int /\ threshold \in Int
      BY <1>2, ConstantsAssumption
    <3> QED
      BY <1>2, <3>1
  <2>1. d \in Int /\ threshold \in Int /\ -threshold <= half /\ half \in Nat
    <3>1. \A m \in Nat : m \div 2 \in Nat
      OBVIOUS
    <3> QED
      BY <1>2, <3>1, ConstantsAssumption, Modulus
  <2>2. Congruent(p.sequence - s.sequence, d)
    <3>1. Congruent(Phase(p), Phase(s))
      BY <1>1, <1>5 DEF Streams, Kept
    <3>2. Phase(p) - Phase(s) = (p.sequence - s.sequence) - d
      BY <1>2 DEF Phase
    <3> QED
      BY <3>1, <3>2 DEF Congruent
  <2>3. -half <= d /\ d < half
    <3> HIDE DEF d, half, threshold
    <3> QED
      BY <2>1
  <2> HIDE DEF d
  <2>4. SequenceDiff(p.sequence, s.sequence) = d
    BY <1>2, <2>1, <2>2, <2>3, SmallDifference
  <2>5. IsOld(p, s)
    BY <2>1, <2>4 DEF IsOld
  <2> QED
    BY <2>5
<1> QED
  BY <1>2, <1>3, <1>4, <1>5

OlderStep ==
  \A s \in sources, t \in sources' :
    s.cid = t.cid =>
      \/ t.stamp >= s.stamp
      \/ t.stream < s.stream
      \/ s.stamp - t.stamp >= -SEQUENCE_DIFF_THRESHOLD

LEMMA OlderStepHolds ==
  ASSUME TypeOK, TrackedOnce, Streams, [Next]_vars
  PROVE  OlderStep
<1> SUFFICES ASSUME NEW s \in sources, NEW t \in sources', s.cid = t.cid
             PROVE  \/ t.stamp >= s.stamp
                    \/ t.stream < s.stream
                    \/ s.stamp - t.stamp >= -SEQUENCE_DIFF_THRESHOLD
  BY DEF OlderStep
<1>1. s.stamp \in Nat
  BY DEF TypeOK, Source
<1>2. CASE t \in sources
  BY <1>1, <1>2 DEF TrackedOnce
<1>3. CASE Tick
  <2>1. PICK r \in sources : t.cid = r.cid /\ t.stamp = r.stamp
    BY <1>3, TickFacts
  <2> QED
    BY <1>1, <2>1 DEF TrackedOnce
<1>4. ASSUME NEW p \in net, NEW again \in BOOLEAN, Deliver(p, again), t \notin sources
      PROVE  \/ t.stamp >= s.stamp
             \/ t.stream < s.stream
             \/ s.stamp - t.stamp >= -SEQUENCE_DIFF_THRESHOLD
  <2>1. handler
    BY <1>4 DEF Deliver
  <2>2. t = Heard(p) /\ \A r \in sources : r.cid = p.cid => ~IsOld(p, r)
    BY <1>4, <2>1, DeliverFacts
  <2>3. t.cid = p.cid /\ t.stamp = p.stamp /\ t.stream = p.stream
    BY <2>2 DEF Heard
  <2> QED
    BY <2>2, <2>3, OldIsIgnored
<1>5. sources' \subseteq sources \/ Tick \/ \E p \in net, again \in BOOLEAN : Deliver(p, again)
  BY DEF Next, StartStream, SendDMX, TerminateStream, RemoveHandler, SetHandler, vars,
         receiverVars
<1> QED
  BY <1>2, <1>3, <1>4, <1>5

\* "Old packet received, ignoring": for any sources and any number of packets
\* lost, repeated and reordered, across every wrap of the sequence numbers, the
\* data of a source never goes back by less than the threshold, except to what is
\* left of an earlier stream.
THEOREM NeverOlderHolds == Spec => NeverOlder
<1>1. Init => Streams /\ Sent
  BY DEF Init, Streams, Sent
<1>2. ReceiverInv /\ ReceiverInv' /\ Streams /\ Sent /\ [Next]_vars => (Streams /\ Sent)'
  BY StreamsStep DEF ReceiverInv
<1>3. ReceiverInv /\ Streams /\ [Next]_vars => OlderStep
  BY OlderStepHolds DEF ReceiverInv
<1> QED
  BY <1>1, <1>2, <1>3, ReceiverInvHolds, PTL DEF Spec, NeverOlder, OlderStep
=============================================================================
