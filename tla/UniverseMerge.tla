----------------------------- MODULE UniverseMerge -----------------------------
(***************************************************************************)
(* How a universe merges the DMX data of its input ports and source        *)
(* clients (Universe::MergeAll, olad/plugin_api/Universe.cpp): the active  *)
(* sources of the highest priority, latest-takes-precedence or             *)
(* highest-takes-precedence.  A frame is a short sequence of slot values.  *)
(* SetDMX, which nothing but the tests call, is left out.                  *)
(*                                                                         *)
(* A source's data is stamped with the time the event loop woke up         *)
(* (WakeUpTime), while MergeAll reads the clock: when the handlers of one  *)
(* wake-up take long, data may have timed out when it is merged.           *)
(***************************************************************************)
EXTENDS Integers, Sequences, FiniteSets, SequencesExt

CONSTANTS
  Port,              \* input ports
  Clients,           \* sequence of the clients, in the order of the map
  Frame,             \* the frames a source may send, <<>> is one without slots
  Priority,          \* the priorities a source may have
  Timeout,           \* TIMEOUT_INTERVAL, in ticks
  MaxTime            \* bound: the clock

Client == Range(Clients)
Source == Port \cup Client
SOURCE_PRIORITY_MIN == 0
NoSource == "none"
NotSet == [data |-> <<>>, timestamp |-> 0, priority |-> SOURCE_PRIORITY_MIN]

ASSUME ConstantsAssumption ==
  /\ Port \cap Client = {}
  /\ NoSource \notin Source
  /\ Clients \in Seq(Client) /\ IsInjective(Clients)
  /\ Frame \subseteq Seq(Nat)
  /\ Priority \subseteq Nat
  /\ Timeout \in Nat
  /\ MaxTime \in Nat

VARIABLES
  m_input_ports,       \* sequence
  m_source_clients,    \* set, iterated in the order of Clients
  m_dmx_source,        \* the DmxSource of each port, and Client::m_data_map
  m_merge_mode,
  m_active_priority,
  m_buffer,
  written,             \* what UpdateDependants wrote last to ports and sinks
  now,                 \* the monotonic clock
  wake_up,             \* the clock when the event loop woke up
  changed              \* history: the source that the last step updated

sourceVars == <<m_input_ports, m_source_clients, m_dmx_source, m_merge_mode>>
outputVars == <<m_active_priority, m_buffer, written>>
timeVars == <<now, wake_up>>
vars == <<sourceVars, outputVars, timeVars, changed>>

Init ==
  /\ m_input_ports = <<>>
  /\ m_source_clients = {}
  /\ m_dmx_source = [s \in Source |-> NotSet]
  /\ m_merge_mode = "LTP"
  /\ m_active_priority = SOURCE_PRIORITY_MIN
  /\ m_buffer = <<>>
  /\ written = <<>>
  /\ now = 1
  /\ wake_up = 1
  /\ changed = NoSource

-----------------------------------------------------------------------------
(* The merge.                                                               *)

\* DmxBuffer::HTPMerge: the higher value of each slot both have, then the
\* slots only one of them has.
HTPMerge(buffer, other) ==
  [i \in 1..(IF Len(buffer) > Len(other) THEN Len(buffer) ELSE Len(other)) |->
     IF i > Len(buffer) THEN other[i]
     ELSE IF i > Len(other) THEN buffer[i]
     ELSE IF buffer[i] > other[i] THEN buffer[i] ELSE other[i]]

IsSet(source) == source.timestamp # 0

IsActive(source) == now < source.timestamp + Timeout

\* Mutant: a higher priority does not discard the sources found before.
ConsiderNoClear(found, s, data, c) ==
  LET source == data[s]
  IN  IF ~IsSet(source) \/ ~IsActive(source) \/ source.data = <<>> THEN found
      ELSE IF source.priority < found.priority THEN found
      ELSE [priority |-> source.priority, sources |-> Append(found.sources, source),
            effective |-> found.effective \/ s = c]

\* MergeAll's two loops: the state after source s, with the data of the
\* sources, when the source that changed is c.
Consider(found, s, data, c) ==
  LET source == data[s]
      raised == IF source.priority > found.priority
                THEN [priority |-> source.priority, sources |-> <<>>, effective |-> FALSE]
                ELSE found
  IN  IF ~IsSet(source) \/ ~IsActive(source) \/ source.data = <<>> THEN found
      ELSE IF source.priority # raised.priority THEN raised
      ELSE [raised EXCEPT !.sources = Append(@, source),
                          !.effective = @ \/ s = c]

\* The ports in their order, then the clients in theirs.
MergeOrder == m_input_ports \o Clients

NoneFound == [priority |-> SOURCE_PRIORITY_MIN, sources |-> <<>>, effective |-> FALSE]

\* What is found after each source; a client that is not of the universe is
\* not in the map.
ActiveSources(clients, data, c) ==
  LET after[n \in 0..Len(MergeOrder)] ==
        IF n = 0 THEN NoneFound
        ELSE IF MergeOrder[n] \in Client \ clients THEN after[n - 1]
        ELSE Consider(after[n - 1], MergeOrder[n], data, c)
  IN  after[Len(MergeOrder)]

HTPMergeSources(sources) ==
  LET after[n \in 0..Len(sources)] ==
        IF n = 0 THEN <<>> ELSE HTPMerge(after[n - 1], sources[n].data)
  IN  after[Len(sources)]

\* Mutant: the changed source must be newer than every active one.
MergedStrict(sources, source) ==
  IF Len(sources) = 1 THEN sources[1].data
  ELSE IF m_merge_mode = "HTP" THEN HTPMergeSources(sources)
  ELSE IF \E i \in DOMAIN sources : source.timestamp <= sources[i].timestamp THEN m_buffer
  ELSE source.data

\* The data of one source, or the merge of several; the buffer is left alone
\* when, in LTP mode, the changed source is older than another.
Merged(sources, source) ==
  IF Len(sources) = 1 THEN sources[1].data
  ELSE IF m_merge_mode = "HTP" THEN HTPMergeSources(sources)
  ELSE IF \E i \in DOMAIN sources : source.timestamp < sources[i].timestamp THEN m_buffer
  ELSE source.data

\* Mutant: an update goes out also when its source is not one of the highest
\* priority.
MergeAllNoSkip(s, clients, data) ==
  LET found == ActiveSources(clients, data, s)
  IN  /\ m_active_priority' = found.priority
      /\ m_buffer' = IF found.sources = <<>> THEN m_buffer ELSE Merged(found.sources, data[s])
      /\ written' = <<m_buffer', m_active_priority'>>

\* MergeAll and UpdateDependants, which runs unless MergeAll returned false.
MergeAll(s, clients, data) ==
  LET found == ActiveSources(clients, data, s)
      stale == /\ m_merge_mode = "LTP" /\ Len(found.sources) > 1
               /\ \E i \in DOMAIN found.sources :
                    data[s].timestamp < found.sources[i].timestamp
  IN  /\ m_active_priority' = found.priority
      /\ m_buffer' = IF found.effective THEN Merged(found.sources, data[s]) ELSE m_buffer
      /\ written' = IF found.effective /\ ~stale
                    THEN <<m_buffer', m_active_priority'>> ELSE written

-----------------------------------------------------------------------------
(* The sources.                                                             *)

NewData(s, frame, priority) ==
  [m_dmx_source EXCEPT ![s] =
     [data |-> frame, timestamp |-> wake_up, priority |-> priority]]

\* BasicInputPort::DmxChanged and PortDataChanged.
DmxChanged(p, frame, priority) ==
  /\ p \in Range(m_input_ports)
  /\ m_dmx_source' = NewData(p, frame, priority)
  /\ MergeAll(p, m_source_clients, m_dmx_source')
  /\ changed' = p
  /\ UNCHANGED <<m_input_ports, m_source_clients, m_merge_mode, timeVars>>

\* Client::DMXReceived and SourceClientDataChanged.
SourceClientDataChanged(c, frame, priority) ==
  /\ m_dmx_source' = NewData(c, frame, priority)
  /\ m_source_clients' = m_source_clients \cup {c}
  /\ MergeAll(c, m_source_clients', m_dmx_source')
  /\ changed' = c
  /\ UNCHANGED <<m_input_ports, m_merge_mode, timeVars>>

SetMergeMode(mode) ==
  /\ m_merge_mode' = mode
  /\ changed' = NoSource
  /\ UNCHANGED <<m_input_ports, m_source_clients, m_dmx_source, outputVars, timeVars>>

AddPort(p) ==
  /\ p \notin Range(m_input_ports)
  /\ m_input_ports' = Append(m_input_ports, p)
  /\ changed' = NoSource
  /\ UNCHANGED <<m_source_clients, m_dmx_source, m_merge_mode, outputVars, timeVars>>

RemovePort(p) ==
  /\ \E i \in DOMAIN m_input_ports :
       m_input_ports[i] = p /\ m_input_ports' = RemoveAt(m_input_ports, i)
  /\ changed' = NoSource
  /\ UNCHANGED <<m_source_clients, m_dmx_source, m_merge_mode, outputVars, timeVars>>

\* Also CleanStaleSourceClients: the client keeps its data.
RemoveSourceClient(c) ==
  /\ c \in m_source_clients
  /\ m_source_clients' = m_source_clients \ {c}
  /\ changed' = NoSource
  /\ UNCHANGED <<m_input_ports, m_dmx_source, m_merge_mode, outputVars, timeVars>>

\* The clock advances, during a wake-up or until the next one.
Tick ==
  /\ now < MaxTime
  /\ now' = now + 1
  /\ wake_up' \in {wake_up, now'}
  /\ changed' = NoSource
  /\ UNCHANGED <<sourceVars, outputVars>>

Next ==
  \/ \E p \in Port, frame \in Frame, priority \in Priority : DmxChanged(p, frame, priority)
  \/ \E c \in Client, frame \in Frame, priority \in Priority :
       SourceClientDataChanged(c, frame, priority)
  \/ \E mode \in {"LTP", "HTP"} : SetMergeMode(mode)
  \/ \E p \in Port : AddPort(p) \/ RemovePort(p)
  \/ \E c \in Client : RemoveSourceClient(c)
  \/ Tick

Spec == Init /\ [][Next]_vars

-----------------------------------------------------------------------------
(* Properties.                                                              *)

\* What the merge is meant to compute, without an order: the sources that
\* count, and the highest value of each slot among them.
Alive ==
  {s \in Range(m_input_ports) \cup m_source_clients :
     IsSet(m_dmx_source[s]) /\ IsActive(m_dmx_source[s]) /\ m_dmx_source[s].data # <<>>}

Contributors ==
  {s \in Alive : \A t \in Alive : m_dmx_source[t].priority <= m_dmx_source[s].priority}

Slots(s) == DOMAIN m_dmx_source[s].data

IsSlotwiseMax(frame, some) ==
  /\ DOMAIN frame = UNION {Slots(s) : s \in some}
  /\ \A i \in DOMAIN frame :
       /\ \E s \in some : i \in Slots(s) /\ frame[i] = m_dmx_source[s].data[i]
       /\ \A s \in some : i \in Slots(s) => m_dmx_source[s].data[i] <= frame[i]

\* In HTP mode, an update of a source that counts makes the output, slot by
\* slot, the highest value among all the sources that count, whatever the order
\* in which ports and clients were added.
HTPIsSlotwiseMax ==
  [][m_merge_mode' = "HTP" /\ changed' \in Contributors'
       => IsSlotwiseMax(m_buffer, Contributors)']_vars

\* In LTP mode, an update of a source that counts always takes over the output:
\* MergeAll's check that the changed source is the newest never holds it back,
\* since all sources are stamped with the wake-up time.  What is written carries
\* its priority, not one of earlier sources that are silent by now.
LTPLatestWins ==
  [][m_merge_mode' = "LTP" /\ changed' \in Contributors'
       => /\ m_buffer' = m_dmx_source'[changed'].data
          /\ m_active_priority' = m_dmx_source'[changed'].priority
          /\ written' = <<m_buffer', m_active_priority'>>]_vars

\* An update of a source of a lower priority, or one that has timed out when it
\* is merged, changes neither the output nor what was written.
LowPriorityHasNoEffect ==
  [][changed' # NoSource /\ changed' \notin Contributors'
       => UNCHANGED <<m_buffer, written>>]_vars
=============================================================================
