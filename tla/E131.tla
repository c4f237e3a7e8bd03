--------------------------------- MODULE E131 ---------------------------------
(***************************************************************************)
(* E1.31 (streaming ACN) over an unreliable network, for one universe:     *)
(* nodes that send DMX with a priority and an 8-bit sequence number and    *)
(* terminate their stream (libs/acn/E131Node.cpp), and the receiver that   *)
(* tracks the sources at the active priority and merges them               *)
(* (libs/acn/DMPE131Inflator.cpp).                                         *)
(*                                                                         *)
(* The network loses, duplicates and reorders packets.  A packet that      *)
(* HandlePDUData turns away before it tracks the source (preview data, no  *)
(* handler, malformed, priority or start code out of range) changes        *)
(* nothing, as if it were lost.                                            *)
(*                                                                         *)
(* In the place of its slots, a packet carries the number of packets its  *)
(* source had sent before it, and which stream of the source it belongs    *)
(* to; the receiver's copy of them shows how old the data in use is.       *)
(***************************************************************************)
EXTENDS Integers, FiniteSetsExt

CONSTANTS
  CID,                      \* the sources
  Priority,                 \* the priorities they send at
  SequenceModulus,          \* 2^8
  SEQUENCE_DIFF_THRESHOLD,
  MAX_MERGE_SOURCES,
  EXPIRY_INTERVAL,          \* in ticks of the clock
  SOURCE_PRIORITY_DEFAULT,  \* the priority of a port before it is set
  MaxSent,                  \* bound: packets with data that are sent
  MaxStreams,               \* bound: streams that are terminated
  MaxInFlight               \* bound: packets in the network

ASSUME ConstantsAssumption ==
  /\ Priority \subseteq Nat
  /\ SequenceModulus \in Nat \ {0} /\ SequenceModulus % 2 = 0
  /\ SEQUENCE_DIFF_THRESHOLD \in Int
  /\ -SEQUENCE_DIFF_THRESHOLD <= SequenceModulus \div 2
  /\ MAX_MERGE_SOURCES \in Nat \ {0}
  /\ EXPIRY_INTERVAL \in Nat
  /\ MaxSent \in Nat /\ MaxStreams \in Nat
  /\ MaxInFlight \in Nat \ {0}

VARIABLES
  m_tx_universes,    \* the sources that have a stream
  sequence,          \* the next sequence number of each source, 0 with no stream
  sent,              \* how many packets each source has sent
  stream,            \* how many streams each source has terminated
  net,               \* the packets in flight
  handler,           \* the receiver has a handler for the universe
  sources,           \* the sources it tracks
  active_priority,
  buffer,            \* the sources whose data the buffer holds
  priority,          \* what *priority was set to
  behind             \* history: the sources tracked when the handler was replaced,
                     \* until the data is merged again

senderVars == <<m_tx_universes, sequence, sent, stream>>
receiverVars == <<handler, sources, active_priority, buffer, priority, behind>>
vars == <<senderVars, net, receiverVars>>

Sequence == 0..(SequenceModulus - 1)

\* Some nodes have been sending for a while, and their numbers are about to
\* wrap; the others have no stream yet.
Init ==
  /\ m_tx_universes \in SUBSET CID
  /\ sequence = [c \in CID |-> IF c \in m_tx_universes THEN SequenceModulus - 1 ELSE 0]
  /\ sent = [c \in CID |-> 0]
  /\ stream = [c \in CID |-> 0]
  /\ net = {}
  /\ handler = TRUE
  /\ sources = {}
  /\ active_priority = 0
  /\ buffer = {}
  /\ priority = SOURCE_PRIORITY_DEFAULT
  /\ behind = {}

-----------------------------------------------------------------------------
(* The sending nodes.                                                       *)

\* The packets of some, or none, are in flight with those that were.
Transmit(some) ==
  \E arrive \in SUBSET some :
    /\ net' = net \cup arrive
    /\ Cardinality(net') <= MaxInFlight

\* How many of a kind there have been at all sources.
Total(count) == MapThenSumSet(LAMBDA c : count[c], CID)

\* A stream is set up before the first packet, with sequence number 0.
StartStream(c) ==
  /\ c \notin m_tx_universes
  /\ m_tx_universes' = m_tx_universes \cup {c}
  /\ UNCHANGED <<sequence, sent, stream, net, receiverVars>>

\* SendDMX sets the stream up if that has not been done; a packet that could not
\* be sent leaves the number as it is, as if there had been no call.
SendDMX(c, p) ==
  /\ Total(sent) < MaxSent + 3 * Total(stream)
  /\ m_tx_universes' = m_tx_universes \cup {c}
  /\ sequence' = [sequence EXCEPT ![c] = (@ + 1) % SequenceModulus]
  /\ sent' = [sent EXCEPT ![c] = @ + 1]
  /\ Transmit({[cid |-> c, sequence |-> sequence[c], priority |-> p,
                terminated |-> FALSE, stamp |-> sent[c], stream |-> stream[c]]})
  /\ UNCHANGED <<stream, receiverVars>>

\* TerminateStream: the termination is sent three times, and the stream is
\* forgotten.  If there was none, the three are sent all the same, and numbered 0.
TerminateStream(c, p) ==
  /\ Total(stream) < MaxStreams
  /\ m_tx_universes' = m_tx_universes \ {c}
  /\ sequence' = [sequence EXCEPT ![c] = 0]
  /\ sent' = [sent EXCEPT ![c] = @ + 3]
  /\ stream' = [stream EXCEPT ![c] = @ + 1]
  /\ Transmit({[cid |-> c, sequence |-> (sequence[c] + i) % SequenceModulus,
                priority |-> p, terminated |-> TRUE, stamp |-> sent[c] + i,
                stream |-> stream[c]] : i \in IF c \in m_tx_universes THEN 0..2 ELSE {0}})
  /\ UNCHANGED receiverVars

-----------------------------------------------------------------------------
(* TrackSourceIfRequired: what becomes of the sources, of the active        *)
(* priority, and whether the caller merges.                                 *)

Tracked == {s.cid : s \in sources}

\* Sources that have not been heard for a while are dropped, but not the one
\* that the packet comes from.
Fresh(p) == {s \in sources : s.cid = p.cid \/ s.age <= EXPIRY_INTERVAL}

Outcome(merge, some, active) == [merge |-> merge, sources |-> some, active |-> active]

\* The source of p as it is tracked from now on.
Heard(p) == [cid |-> p.cid, sequence |-> p.sequence, age |-> 0, priority |-> p.priority,
             stamp |-> p.stamp, stream |-> p.stream]

\* Mutant: the sources at the old priority stay when a new one raises it.
TrackNewKeep(p, fresh, active) ==
  IF p.terminated \/ p.priority < active THEN Outcome(FALSE, fresh, active)
  ELSE IF Cardinality(fresh) = MAX_MERGE_SOURCES THEN Outcome(FALSE, fresh, p.priority)
  ELSE Outcome(TRUE, fresh \cup {Heard(p)}, p.priority)

\* An untracked source.
TrackNew(p, fresh, active) ==
  LET others == IF p.priority > active THEN {} ELSE fresh
  IN  IF p.terminated \/ p.priority < active THEN Outcome(FALSE, fresh, active)
      ELSE IF Cardinality(others) = MAX_MERGE_SOURCES
      THEN Outcome(FALSE, others, p.priority)
      ELSE Outcome(TRUE, others \cup {Heard(p)}, p.priority)

\* Mutant: the difference is not taken modulo 2^8.
SequenceDiffPlain(a, b) == a - b

\* static_cast<int8_t>(a - b)
SequenceDiff(a, b) ==
  LET half == SequenceModulus \div 2
  IN  ((a - b + half) % SequenceModulus) - half

\* "Old packet received, ignoring".
IsOld(p, s) ==
  LET diff == SequenceDiff(p.sequence, s.sequence)
  IN  diff <= 0 /\ diff > SEQUENCE_DIFF_THRESHOLD

\* Mutant: a termination does not make the caller merge.
TrackKnownQuiet(p, s, fresh, active) ==
  LET others == fresh \ {s}
  IN  IF IsOld(p, s) THEN Outcome(FALSE, fresh, active)
      ELSE IF p.terminated
      THEN Outcome(FALSE, others, IF others = {} THEN 0 ELSE active)
      ELSE IF p.priority < active /\ others # {} THEN Outcome(TRUE, others, active)
      ELSE IF p.priority = active THEN Outcome(TRUE, others \cup {Heard(p)}, active)
      ELSE Outcome(TRUE, {Heard(p)}, p.priority)

\* A tracked source, s.
TrackKnown(p, s, fresh, active) ==
  LET others == fresh \ {s}
  IN  IF IsOld(p, s) THEN Outcome(FALSE, fresh, active)
      ELSE IF p.terminated
      THEN Outcome(TRUE, others, IF others = {} THEN 0 ELSE active)
      ELSE IF p.priority < active /\ others # {} THEN Outcome(TRUE, others, active)
      ELSE IF p.priority = active THEN Outcome(TRUE, others \cup {Heard(p)}, active)
      ELSE Outcome(TRUE, {Heard(p)}, p.priority)

TrackSourceIfRequired(p) ==
  LET fresh == Fresh(p)
      active == IF fresh = {} THEN 0 ELSE active_priority
  IN  IF p.cid \in Tracked
      THEN TrackKnown(p, CHOOSE s \in sources : s.cid = p.cid, fresh, active)
      ELSE TrackNew(p, fresh, active)

\* HandlePDUData: the buffer gets the data of the sources tracked, or is reset.
HandlePDUData(p) ==
  LET outcome == TrackSourceIfRequired(p)
  IN  /\ sources' = outcome.sources
      /\ active_priority' = outcome.active
      /\ IF outcome.merge
         THEN /\ buffer' = {s.cid : s \in outcome.sources}
              /\ priority' = outcome.active
              /\ behind' = {}
         ELSE UNCHANGED <<buffer, priority, behind>>

-----------------------------------------------------------------------------
\* The network delivers p; again: it will deliver it once more.
Deliver(p, again) ==
  /\ p \in net
  /\ net' = IF again THEN net ELSE net \ {p}
  /\ IF handler THEN HandlePDUData(p)
     ELSE UNCHANGED <<sources, active_priority, buffer, priority, behind>>
  /\ UNCHANGED <<senderVars, handler>>

\* The clock moves on.
Tick ==
  /\ \E s \in sources : s.age <= EXPIRY_INTERVAL
  /\ sources' = {[s EXCEPT !.age = IF @ > EXPIRY_INTERVAL THEN @ ELSE @ + 1] : s \in sources}
  /\ UNCHANGED <<senderVars, net, handler, active_priority, buffer, priority, behind>>

\* RemoveHandler forgets the sources; the buffer and the priority belong to the
\* port and keep their values.
RemoveHandler ==
  /\ handler
  /\ handler' = FALSE
  /\ sources' = {}
  /\ active_priority' = 0
  /\ behind' = {}
  /\ UNCHANGED <<senderVars, net, buffer, priority>>

\* SetHandler, for the port that had the universe before, or for another, whose
\* buffer has nothing yet.  One that replaces a handler takes over its sources,
\* and has none of their data until the next merge.
SetHandler ==
  /\ handler' = TRUE
  /\ \/ ~handler /\ UNCHANGED <<buffer, priority, behind>>
     \/ buffer' = {} /\ priority' = SOURCE_PRIORITY_DEFAULT /\ behind' = Tracked
  /\ UNCHANGED <<senderVars, net, sources, active_priority>>

Next ==
  \/ \E c \in CID : StartStream(c)
  \/ \E c \in CID, p \in Priority : SendDMX(c, p) \/ TerminateStream(c, p)
  \/ \E p \in net, again \in BOOLEAN : Deliver(p, again)
  \/ Tick
  \/ RemoveHandler
  \/ SetHandler

Spec == Init /\ [][Next]_vars

-----------------------------------------------------------------------------
\* All the sources that are merged send at the active priority, whatever
\* priorities they change to, however packets are lost, repeated or reordered, and
\* whichever sources expire, end or come to a full table.
OnePriority == \A s \in sources : s.priority = active_priority

\* "Old packet received, ignoring": the data of a source that stays tracked never
\* goes back in time, past the wrap of the sequence numbers too, but for a packet
\* that is so late that it passes for a new start of the source.  (A source that
\* starts anew sends from 0 again: what is left of its earlier stream may come in.)
NeverOlder ==
  [][\A s \in sources, t \in sources' :
       s.cid = t.cid =>
         \/ t.stamp >= s.stamp
         \/ t.stream < s.stream
         \/ s.stamp - t.stamp >= -SEQUENCE_DIFF_THRESHOLD]_vars

\* "We need to trigger a merge here else the buffer will be stale": the buffer and
\* the priority handed to the port are always those of the sources tracked, but
\* for a port that has just taken the universe over from another one, which has
\* them from the next merge on; and no step takes a source away and leaves its
\* data in the buffer unless the source had expired.
BufferFollowsSources ==
  [][/\ Tracked' \subseteq buffer' \cup behind'
     /\ sources' # {} => priority' = active_priority' \/ behind' # {}
     /\ handler' => \A s \in sources :
          s.cid \in buffer' \ Tracked' => s.age > EXPIRY_INTERVAL]_vars
=============================================================================
