----------------------------- MODULE UniverseStore -----------------------------
(***************************************************************************)
(* Universes and everything that keeps a pointer to one: the store that    *)
(* creates and garbage collects them (olad/plugin_api/UniverseStore.cpp),  *)
(* the ports patched to them (PortManager.cpp, Port.cpp, Device.cpp,       *)
(* PortBroker.cpp), the clients that send or receive DMX                   *)
(* (OlaServerServiceImpl.cpp, OlaServer.cpp) and the RDM discovery runs    *)
(* whose callbacks are bound to a universe and a port (Universe.cpp).      *)
(*                                                                         *)
(* Everything runs in olad's event loop, one handler at a time; what is    *)
(* concurrent is the discovery a port runs, whose callback comes back      *)
(* after any number of other events.  Universe objects are numbered in     *)
(* the order of their creation and never reused, so that a pointer to a    *)
(* deleted one can be told from a pointer to its successor.  What is       *)
(* written through a pointer to a deleted object lands in that object and  *)
(* is seen by nobody.                                                      *)
(***************************************************************************)
EXTENDS Naturals, Sequences, FiniteSets, SequencesExt

CONSTANTS
  Universe,          \* universe ids
  InputPort, OutputPort,
  Client,
  UID,
  NoPort,            \* m_output_uids: not mapped
  AllowLooping, AllowMultiPortPatching,  \* of the one device that has the ports
  ChosenModes,       \* bound: the merge modes that clients choose
  MaxObjects,        \* bound: universe objects created
  MaxRuns            \* bound: discovery runs started

ASSUME ConstantsAssumption ==
  /\ InputPort \cap OutputPort = {}
  /\ NoPort \notin InputPort \cup OutputPort
  /\ ChosenModes \subseteq {"LTP", "HTP"}
  /\ {AllowLooping, AllowMultiPortPatching} \subseteq BOOLEAN
  /\ MaxObjects \in Nat
  /\ MaxRuns \in Nat

Port == InputPort \cup OutputPort
Object == 1..MaxObjects
NULL == 0
Mode == {"LTP", "HTP"}

VARIABLES
  m_universe_map,         \* UniverseStore: id -> universe object or NULL
  uni,                    \* the members of each universe object
  created,                \* universe objects created
  deleted,                \* universe objects deleted
  m_deletion_candidates,
  m_preferences,          \* saved merge mode of each universe, "" if none
  m_universe,             \* Port::m_universe
  m_ports,                \* PortBroker: the ports it knows
  ports,                  \* the ports that have not been deleted
  m_clients,              \* ClientBroker: the connected clients
  runs,                   \* the discovery runs of the universes
  scanning,               \* ports whose discover-on-patch is outstanding
  chosen,                 \* history: merge mode last chosen for a universe
  seen,                   \* history: the UIDs a port reported last to the
                          \* universe that lists it
  refused,                \* history: the patched ports that have refused a
                          \* universe since
  stray,                  \* history: the universes that an UNREGISTER created
                          \* and nothing has used since
  departed,               \* history: <<run, port>>, the port has left the
                          \* universe of the run without having answered it
  stale                   \* history: <<object, port>>, the port's last report
                          \* to the universe came while it was not patched to it

storeVars == <<m_universe_map, created, deleted, m_preferences>>
portVars == <<m_universe, m_ports, ports, refused>>
discoveryVars == <<runs, scanning, seen, departed, stale>>
vars == <<storeVars, portVars, discoveryVars, uni, m_deletion_candidates,
          m_clients, chosen, stray>>

\* RestoreUniverseSettings: LTP unless the preferences say HTP.
RestoredMode(u) == IF m_preferences[u] = "HTP" THEN "HTP" ELSE "LTP"

\* The constructor: no ports, no clients, no UIDs.
NewUniverse(u) ==
  [id |-> u, ports |-> {}, sources |-> [c \in Client |-> "absent"],
   sinks |-> {}, uids |-> [x \in UID |-> NoPort],
   mode |-> RestoredMode(u)]

Init ==
  /\ m_universe_map = [u \in Universe |-> NULL]
  /\ uni = <<>>
  /\ created = 0
  /\ deleted = {}
  /\ m_deletion_candidates = {}
  /\ m_preferences = [u \in Universe |-> ""]
  /\ m_universe = [p \in Port |-> NULL]
  /\ m_ports = {}
  /\ ports = Port
  /\ m_clients = Client
  /\ runs = <<>>
  /\ scanning = {}
  /\ chosen = [u \in Universe |-> "LTP"]
  /\ seen = [p \in OutputPort |-> {}]
  /\ refused = {}
  /\ stray = {}
  /\ departed = {}
  /\ stale = {}

-----------------------------------------------------------------------------
(* Universe and UniverseStore.                                              *)

Clients(o) == {c \in Client : o.sources[c] # "absent"}

\* Mutant: the ports do not keep a universe.
IsActiveClientsOnly(o) == Clients(o) # {} \/ o.sinks # {}

IsActive(o) == o.ports # {} \/ Clients(o) # {} \/ o.sinks # {}

\* The objects of the map, and GetUniverseOrCreate: the object of u, the
\* objects with it, and what the store keeps.
Listed == {m_universe_map[u] : u \in Universe} \ {NULL}

ObjectOf(u) == IF m_universe_map[u] # NULL THEN m_universe_map[u] ELSE created + 1

WithUniverse(objects, u) ==
  IF m_universe_map[u] # NULL THEN objects ELSE Append(objects, NewUniverse(u))

GetUniverseOrCreate(u) ==
  /\ ObjectOf(u) <= MaxObjects
  /\ m_universe_map' = [m_universe_map EXCEPT ![u] = ObjectOf(u)]
  /\ created' = IF m_universe_map[u] # NULL THEN created ELSE created + 1
  /\ UNCHANGED <<deleted, m_preferences>>

\* AddUniverseGarbageCollection, called by every removal from a universe that
\* leaves it inactive: the candidates once the objects are as given.
Removals(objects) ==
  {o \in DOMAIN uni : ~IsActive(objects[o])
                      /\ \/ uni[o].ports # objects[o].ports
                         \/ Clients(uni[o]) # Clients(objects[o])
                         \/ uni[o].sinks # objects[o].sinks}

\* GenericRemovePort, with the UIDs that mapped to the ports.
RemovePorts(o, some) ==
  [o EXCEPT !.ports = @ \ some,
            !.uids = [x \in UID |-> IF @[x] \in some THEN NoPort ELSE @[x]]]

\* Each of some ports is taken out of the universe it points to.
Unpatched(some) ==
  [o \in DOMAIN uni |->
     LET here == {p \in some \cap uni[o].ports : m_universe[p] = o}
     IN  IF here = {} THEN uni[o] ELSE RemovePorts(uni[o], here)]

\* Mutant: UIDs that the port no longer has stay mapped to it.
NewUIDListKeep(o, p, found) ==
  [o EXCEPT !.uids = [x \in UID |->
     IF x \in found /\ @[x] = NoPort THEN p ELSE @[x]]]

\* NewUIDList: a UID that another port has already is left with it.
NewUIDList(o, p, found) ==
  [o EXCEPT !.uids = [x \in UID |->
     IF x \in found THEN (IF @[x] = NoPort THEN p ELSE @[x])
     ELSE IF @[x] = p THEN NoPort ELSE @[x]]]

-----------------------------------------------------------------------------
(* PortManager, Port and Device.                                            *)

\* A port of the device, of one of the kinds, points to universe u.
PatchedTo(some, u) ==
  \E q \in some \cap ports : m_universe[q] # NULL /\ uni[m_universe[q]].id = u

Same(p) == IF p \in InputPort THEN InputPort ELSE OutputPort
Opposite(p) == IF p \in InputPort THEN OutputPort ELSE InputPort

\* GenericPatchPort goes on to patch p.
MayPatch(p, u) ==
  /\ ~(m_universe[p] # NULL /\ uni[m_universe[p]].id = u)
  /\ AllowLooping \/ ~PatchedTo(Opposite(p), u)
  /\ AllowMultiPortPatching \/ ~PatchedTo(Same(p), u)

\* Some ports leave the universes that list them, and take their UIDs along,
\* answered or not.
Leaving(some) ==
  {<<m_universe[p], p>> : p \in {q \in some :
     m_universe[q] # NULL /\ q \in uni[m_universe[q]].ports}}

Leave(some) ==
  /\ stale' = stale \ Leaving(some)
  /\ departed' = departed \cup {e \in (DOMAIN runs) \X OutputPort :
                         /\ e[2] \in runs[e[1]].waiting
                         /\ <<runs[e[1]].obj, e[2]>> \in Leaving(some)}

\* BasicOutputPort::SetUniverse: m_discover_on_patch.
DiscoverOnPatch(p) ==
  /\ scanning' = IF p \in OutputPort THEN scanning \cup {p} ELSE scanning
  /\ seen' = IF p \in OutputPort THEN [seen EXCEPT ![p] = {}] ELSE seen
  /\ UNCHANGED runs

\* Mutant: the port is added to its new universe, not removed from the old.
GenericPatchPortNoUnpatch(p, u, accepts) ==
  /\ p \in ports
  /\ MayPatch(p, u)
  /\ GetUniverseOrCreate(u)
  /\ uni' = [WithUniverse(uni, u) EXCEPT ![ObjectOf(u)].ports = @ \cup {p}]
  /\ m_universe' = [m_universe EXCEPT ![p] = ObjectOf(u)]
  /\ m_ports' = m_ports \cup {p}
  /\ DiscoverOnPatch(p)
  /\ Leave({})
  /\ stray' = stray \ {ObjectOf(u)}
  /\ refused' = refused \ {p}
  /\ UNCHANGED <<m_deletion_candidates, ports, m_clients, chosen>>

\* GenericPatchPort with SetUniverse(), which the port accepts or refuses: it
\* has left its old universe by then, and still points to it.
GenericPatchPort(p, u, accepts) ==
  /\ p \in ports
  /\ MayPatch(p, u)
  /\ GetUniverseOrCreate(u)
  /\ LET o == ObjectOf(u)
         left == Unpatched({p})
         objects == WithUniverse(left, u)
     IN  \/ /\ accepts
            /\ uni' = [objects EXCEPT ![o].ports = @ \cup {p}]
            /\ m_deletion_candidates' = m_deletion_candidates \cup Removals(left)
            /\ m_universe' = [m_universe EXCEPT ![p] = o]
            /\ m_ports' = m_ports \cup {p}
            /\ refused' = refused \ {p}
            /\ DiscoverOnPatch(p)
         \/ /\ ~accepts
            /\ uni' = objects
            /\ m_deletion_candidates' = m_deletion_candidates \cup Removals(left)
                 \cup (IF IsActive(objects[o]) THEN {} ELSE {o})
            /\ m_ports' = IF m_universe[p] # NULL THEN m_ports \ {p} ELSE m_ports
            /\ refused' = IF m_universe[p] # NULL THEN refused \cup {p} ELSE refused
            /\ UNCHANGED <<m_universe, runs, scanning, seen>>
  /\ Leave({p})
  /\ stray' = stray \ {ObjectOf(u)}
  /\ UNCHANGED <<ports, m_clients, chosen>>

\* GenericUnPatchPort with SetUniverse(NULL), which starts a discovery too.
GenericUnPatchPort(p) ==
  /\ p \in ports
  /\ m_universe[p] # NULL
  /\ uni' = Unpatched({p})
  /\ m_deletion_candidates' = m_deletion_candidates \cup Removals(uni')
  /\ m_universe' = [m_universe EXCEPT ![p] = NULL]
  /\ m_ports' = m_ports \ {p}
  /\ refused' = refused \ {p}
  /\ DiscoverOnPatch(p)
  /\ Leave({p})
  /\ UNCHANGED <<storeVars, ports, m_clients, chosen, stray>>

\* The PatchPort request of a client.
PatchPort(p) ==
  \/ \E u \in Universe, accepts \in BOOLEAN : GenericPatchPort(p, u, accepts)
  \/ GenericUnPatchPort(p)

\* Device::Stop: every port leaves its universe and is deleted.  The broker is
\* not told, and what waits for the port's discoveries is not cancelled; only
\* such a discovery reads the pointer of a deleted port again.
StopDevice ==
  /\ ports # {}
  /\ uni' = Unpatched(ports)
  /\ m_deletion_candidates' = m_deletion_candidates \cup Removals(uni')
  /\ ports' = {}
  /\ refused' = {}
  /\ Leave(ports)
  /\ m_universe' = [p \in Port |-> IF p \in scanning THEN m_universe[p] ELSE NULL]
  /\ UNCHANGED <<storeVars, m_ports, runs, scanning, seen, m_clients,
                 chosen, stray>>

-----------------------------------------------------------------------------
(* The clients.                                                             *)

AddSinkClient(c, u) ==
  /\ uni' = [WithUniverse(uni, u) EXCEPT ![ObjectOf(u)].sinks = @ \cup {c}]
  /\ UNCHANGED m_deletion_candidates

RemoveSinkClient(c, u) ==
  /\ uni' = [WithUniverse(uni, u) EXCEPT ![ObjectOf(u)].sinks = @ \ {c}]
  /\ m_deletion_candidates' = m_deletion_candidates \cup Removals(uni')

\* REGISTER or UNREGISTER: both get or create the universe.
RegisterForDmx(c, u) ==
  /\ c \in m_clients
  /\ GetUniverseOrCreate(u)
  /\ \/ /\ AddSinkClient(c, u)
        /\ stray' = stray \ {ObjectOf(u)}
     \/ /\ RemoveSinkClient(c, u)
        /\ stray' = IF m_universe_map[u] = NULL THEN stray \cup {ObjectOf(u)} ELSE stray
  /\ UNCHANGED <<portVars, discoveryVars, m_clients, chosen>>

\* AddSourceClient: the stale flag is cleared.
AddSourceClient(o, c) == [o EXCEPT !.sources[c] = "fresh"]

\* UpdateDmxData and StreamDmxData, with SourceClientDataChanged.
UpdateDmxData(c, u) ==
  /\ c \in m_clients
  /\ m_universe_map[u] # NULL
  /\ uni' = [uni EXCEPT ![m_universe_map[u]] = AddSourceClient(@, c)]
  /\ stray' = stray \ {m_universe_map[u]}
  /\ UNCHANGED <<storeVars, m_deletion_candidates, portVars, discoveryVars,
                 m_clients, chosen>>

SetMergeMode(u, mode) ==
  /\ m_universe_map[u] # NULL
  /\ uni' = [uni EXCEPT ![m_universe_map[u]].mode = mode]
  /\ chosen' = [chosen EXCEPT ![u] = mode]
  /\ UNCHANGED <<storeVars, m_deletion_candidates, portVars, discoveryVars, m_clients,
                 stray>>

\* Mutant: the client stays a sink of its universes.
ClientRemovedSourceOnly(c) ==
  /\ c \in m_clients
  /\ m_clients' = m_clients \ {c}
  /\ uni' = [o \in DOMAIN uni |->
       IF o \in Listed THEN [uni[o] EXCEPT !.sources[c] = "absent"] ELSE uni[o]]
  /\ m_deletion_candidates' = m_deletion_candidates \cup Removals(uni')
  /\ UNCHANGED <<storeVars, portVars, discoveryVars, chosen, stray>>

\* OlaServer::ClientRemoved.
ClientRemoved(c) ==
  /\ c \in m_clients
  /\ m_clients' = m_clients \ {c}
  /\ uni' = [o \in DOMAIN uni |->
       IF o \in Listed
       THEN [uni[o] EXCEPT !.sources[c] = "absent", !.sinks = @ \ {c}]
       ELSE uni[o]]
  /\ m_deletion_candidates' = m_deletion_candidates \cup Removals(uni')
  /\ UNCHANGED <<storeVars, portVars, discoveryVars, chosen, stray>>

-----------------------------------------------------------------------------
(* Discovery.                                                               *)

\* RunRDMDiscovery on object o: its MultiCallback counts the output ports that
\* o has now.  Without any, it runs at once.
Run(o) ==
  LET waiting == uni[o].ports \cap OutputPort
  IN  [obj |-> o, waiting |-> waiting, answers |-> IF waiting = {} THEN 1 ELSE 0]

RunRDMDiscovery(o) ==
  /\ Len(runs) < MaxRuns
  /\ runs' = Append(runs, Run(o))
  /\ UNCHANGED <<storeVars, uni, m_deletion_candidates, portVars, scanning, seen,
                 departed, stale, m_clients, chosen, stray>>

\* A client asks for discovery on a universe.
ForceDiscovery(u) ==
  /\ m_clients # {}
  /\ m_universe_map[u] # NULL
  /\ RunRDMDiscovery(m_universe_map[u])

\* An input port asks for it, on behalf of a controller on the network.
TriggerRDMDiscovery(p) ==
  /\ p \in InputPort \cap ports
  /\ m_universe[p] # NULL
  /\ RunRDMDiscovery(m_universe[p])

\* Mutant: the MultiCallback counts one port too many.
AnswerOneMore(run, p) == [run EXCEPT !.waiting = @ \ {p}]

\* The MultiCallback counts p: the run completes with its last port.
Answer(run, p) ==
  [run EXCEPT !.waiting = @ \ {p},
              !.answers = IF run.waiting = {p} THEN @ + 1 ELSE @]

\* NewUIDList(p, found) is called on object o.
Report(o, p, found) ==
  /\ uni' = [uni EXCEPT ![o] = NewUIDList(@, p, found)]
  /\ \/ /\ p \in uni[o].ports
        /\ seen' = [seen EXCEPT ![p] = found]
        /\ stale' = stale \ {<<o, p>>}
     \/ /\ p \notin uni[o].ports
        /\ stale' = stale \cup {<<o, p>>}
        /\ UNCHANGED seen

\* Port p ends the discovery of run i, having found some UIDs, wherever p and
\* the universe of the run are by now.
PortDiscoveryComplete(i, p, found) ==
  /\ p \in runs[i].waiting
  /\ Report(runs[i].obj, p, found)
  /\ runs' = [runs EXCEPT ![i] = Answer(@, p)]
  /\ departed' = departed \ {<<i, p>>}
  /\ UNCHANGED <<storeVars, m_deletion_candidates, portVars, scanning, m_clients,
                 chosen, stray>>

\* Port p ends the discovery it started when it was patched or unpatched.  A
\* deleted port still finds its universe, or nothing.
UpdateUIDs(p, found) ==
  /\ p \in scanning
  /\ scanning' = scanning \ {p}
  /\ \/ /\ m_universe[p] # NULL
        /\ Report(m_universe[p], p, found)
     \/ /\ m_universe[p] = NULL \/ p \notin ports
        /\ UNCHANGED <<uni, seen, stale>>
  /\ UNCHANGED <<storeVars, m_deletion_candidates, portVars, runs, departed, m_clients,
                 chosen, stray>>

-----------------------------------------------------------------------------
(* OlaServer::RunHousekeeping, every ten seconds.                           *)

Garbage == {o \in m_deletion_candidates : ~IsActive(uni[o])}

\* Mutant: a stale client is not removed.
CleanStaleSourceClientsKeep(o) ==
  [o EXCEPT !.sources = [c \in Client |->
     IF @[c] = "absent" THEN "absent" ELSE "stale"]]

\* CleanStaleSourceClients: fresh becomes stale, stale is removed.
CleanStaleSourceClients(o) ==
  [o EXCEPT !.sources = [c \in Client |->
     IF @[c] = "fresh" THEN "stale" ELSE "absent"]]

\* SaveUniverseSettings: the value saved for the merge mode.
SavedMode(o) == IF o.mode = "HTP" THEN "HTP" ELSE "LTP"

\* Mutant: the settings are not saved.
GarbageCollectUniversesNoSave ==
  /\ m_universe_map' = [u \in Universe |->
       IF m_universe_map[u] \in Garbage THEN NULL ELSE m_universe_map[u]]
  /\ deleted' = deleted \cup Garbage
  /\ UNCHANGED <<created, m_preferences>>

\* GarbageCollectUniverses: what is inactive is saved and deleted.
GarbageCollectUniverses ==
  /\ m_universe_map' = [u \in Universe |->
       IF \E o \in Garbage : uni[o].id = u THEN NULL ELSE m_universe_map[u]]
  /\ deleted' = deleted \cup Garbage
  /\ m_preferences' = [u \in Universe |->
       IF \E o \in Garbage : uni[o].id = u
       THEN SavedMode(uni[CHOOSE o \in Garbage : uni[o].id = u]) ELSE m_preferences[u]]
  /\ UNCHANGED created

\* The objects once the stale clients of those that remain are swept.
Swept ==
  [o \in DOMAIN uni |->
     IF o \in Listed \ Garbage THEN CleanStaleSourceClients(uni[o]) ELSE uni[o]]

\* Mutant: the candidates are not cleared.
RunHousekeepingKeepCandidates(due) ==
  /\ GarbageCollectUniverses
  /\ uni' = Swept
  /\ m_deletion_candidates' = m_deletion_candidates \cup Removals(Swept)
  /\ \A o \in due : o \in Listed \ Garbage /\ IsActive(Swept[o])
  /\ Len(runs) + Cardinality(due) <= MaxRuns
  /\ runs' = runs \o [i \in 1..Cardinality(due) |-> Run(SetToSeq(due)[i])]
  /\ UNCHANGED <<portVars, scanning, seen, departed, stale, m_clients, chosen, stray>>

\* Collect, sweep the stale clients, and run discovery on the active universes
\* whose interval is over (due).
RunHousekeeping(due) ==
  /\ GarbageCollectUniverses
  /\ uni' = Swept
  /\ m_deletion_candidates' = Removals(Swept)
  /\ \A o \in due : o \in Listed \ Garbage /\ IsActive(Swept[o])
  /\ Len(runs) + Cardinality(due) <= MaxRuns
  /\ runs' = runs \o [i \in 1..Cardinality(due) |-> Run(SetToSeq(due)[i])]
  /\ UNCHANGED <<portVars, scanning, seen, departed, stale, m_clients, chosen, stray>>

-----------------------------------------------------------------------------
Next ==
  \/ \E p \in Port : PatchPort(p)
  \/ StopDevice
  \/ \E c \in Client, u \in Universe : RegisterForDmx(c, u)
  \/ \E c \in Client, u \in Universe : UpdateDmxData(c, u)
  \/ \E u \in Universe, mode \in ChosenModes : SetMergeMode(u, mode)
  \/ \E c \in Client : ClientRemoved(c)
  \/ \E u \in Universe : ForceDiscovery(u)
  \/ \E p \in InputPort : TriggerRDMDiscovery(p)
  \/ \E i \in DOMAIN runs, p \in OutputPort, found \in SUBSET UID :
       PortDiscoveryComplete(i, p, found)
  \/ \E p \in OutputPort, found \in SUBSET UID : UpdateUIDs(p, found)
  \/ \E due \in SUBSET Listed : RunHousekeeping(due)

Spec == Init /\ [][Next]_vars

\* The housekeeping timer goes on firing, and a port that has not been deleted
\* ends every discovery it was asked for.
FairSpec ==
  /\ Spec
  /\ WF_vars(RunHousekeeping({}))
  /\ \A i \in 1..MaxRuns, p \in OutputPort :
       WF_vars(/\ i \in DOMAIN runs /\ p \in ports
               /\ \E found \in SUBSET UID : PortDiscoveryComplete(i, p, found))

-----------------------------------------------------------------------------
(* Properties.                                                              *)

\* A port points to a universe exactly when the store has that universe and it
\* lists the port, whatever is patched, deleted and collected.  The one way to
\* break this is a port that refuses another universe: it has left the one it
\* still points to, until it is patched or unpatched again.  Universes list no
\* deleted port.
PatchedBothWays ==
  /\ \A p \in ports \ refused : m_universe[p] # NULL => m_universe[p] \in Listed
  /\ \A o \in Listed :
       /\ uni[o].ports \subseteq ports \ refused
       /\ \A p \in ports \ refused : m_universe[p] = o <=> p \in uni[o].ports

\* GarbageCollectUniverses dereferences and deletes each candidate: it is a live
\* universe, in the map under its own id, so that none is deleted twice and none
\* takes a namesake out of the map.
CandidatesListed ==
  \A o \in m_deletion_candidates : m_universe_map[uni[o].id] = o

\* The UID table that SendRDMRequest routes by maps a UID to a port only while
\* that port is patched to the universe and has the UID in its latest report.
\* The one way to break this is an answer that comes after the port has left
\* the universe: it stays until the port reports to the universe again.
RoutesAreCurrent ==
  \A o \in Listed, x \in UID :
    LET p == uni[o].uids[x]
    IN  \/ p = NoPort
        \/ p \in uni[o].ports /\ x \in seen[p]
        \/ <<o, p>> \in stale

\* The callbacks of a discovery run are bound to the universe, and nothing
\* cancels them.  What keeps the collector from a universe that still waits for
\* them is that its ports are patched to it: it deletes such a universe only
\* once every port that has still to answer has left it since it was asked.
NoCallbackToDeleted ==
  \A i \in DOMAIN runs : runs[i].obj \in deleted =>
    \A p \in runs[i].waiting : <<i, p>> \in departed

\* No universe keeps a pointer to a client that has gone: Client objects are
\* deleted by ClientRemoved while universes of any age still send to their sinks.
RemovedClientsForgotten ==
  \A o \in Listed : Clients(uni[o]) \cup uni[o].sinks \subseteq m_clients

\* The merge mode chosen for a universe survives its collection and
\* re-creation, by way of the preferences.
SettingsSurvive ==
  \A u \in Universe :
    IF m_universe_map[u] # NULL THEN uni[m_universe_map[u]].mode = chosen[u]
    ELSE m_preferences[u] = chosen[u] \/ (m_preferences[u] = "" /\ chosen[u] = "LTP")

\* Every discovery run is answered, whatever is patched meanwhile, unless a port
\* it waits for or its universe is deleted first.
DiscoveriesAnswered ==
  \A i \in 1..MaxRuns :
    Len(runs) >= i
      ~> /\ Len(runs) >= i
         /\ \/ runs[i].answers = 1
            \/ ~(runs[i].waiting \subseteq ports)
            \/ runs[i].obj \in deleted

\* A universe that has no ports and no sinks, and no source client that has sent
\* since the last sweep, is used again or is deleted by the housekeeping: no
\* removal forgets to list it as a candidate, and a client that has gone quiet
\* does not keep it.  Universes that only an UNREGISTER has named are the
\* exception.
Used(o) ==
  \/ uni[o].ports # {}
  \/ uni[o].sinks # {}
  \/ \E c \in Client : uni[o].sources[c] = "fresh"

UnusedCollected ==
  \A o \in Object :
    (o <= created /\ ~Used(o) /\ o \notin stray)
      ~> (o \in deleted \/ (o <= created /\ Used(o)))
=============================================================================
