-------------------------- MODULE UniverseStoreProofs --------------------------
(***************************************************************************)
(* What holds of the universes, the ports, the clients and the discovery   *)
(* runs for any number of each.  Each theorem rests on the ones before it: *)
(* types, then the store's map and the objects it lists, then what the     *)
(* objects point to and what points to them.                               *)
(***************************************************************************)
EXTENDS UniverseStore, FiniteSetTheorems, SequenceTheorems, TLAPS

UniverseType ==
  [id : Universe, ports : SUBSET Port,
   sources : [Client -> {"absent", "fresh", "stale"}], sinks : SUBSET Client,
   uids : [UID -> OutputPort \cup {NoPort}], mode : Mode]

RunType == [obj : Nat, waiting : SUBSET OutputPort, answers : Nat]

TypeOK ==
  /\ created \in Nat
  /\ uni \in [1..created -> UniverseType]
  /\ m_universe_map \in [Universe -> 0..created]
  /\ deleted \subseteq 1..created
  /\ m_deletion_candidates \subseteq 1..created
  /\ m_preferences \in [Universe -> Mode \cup {""}]
  /\ m_universe \in [Port -> 0..created]
  /\ ports \subseteq Port
  /\ m_clients \subseteq Client
  /\ runs \in Seq(RunType)
  /\ \A i \in DOMAIN runs : runs[i].obj \in 1..created
  /\ scanning \subseteq OutputPort
  /\ chosen \in [Universe -> Mode]
  /\ seen \in [OutputPort -> SUBSET UID]

\* The map has each universe under its own id, and an object is in the map or
\* nothing holds it: what is deleted is in neither.
StoreInv ==
  /\ \A u \in Universe : m_universe_map[u] # NULL => uni[m_universe_map[u]].id = u
  /\ \A o \in DOMAIN uni : IsActive(uni[o]) => o \in Listed
  /\ deleted \cap Listed = {}
  /\ m_deletion_candidates \subseteq Listed

\* A universe lists a port only if the port points to it and has not refused
\* another one since.
PortsPointBack ==
  \A o \in DOMAIN uni : \A p \in uni[o].ports : p \in ports \ refused /\ m_universe[p] = o

\* The converse holds unless the port has refused a universe.
PointersListed ==
  \A p \in ports \ refused : m_universe[p] # NULL => p \in uni[m_universe[p]].ports

PortsInv == PortsPointBack /\ PointersListed

\* A universe, of any age, has only connected clients.
ClientsConnected ==
  \A o \in DOMAIN uni : Clients(uni[o]) \cup uni[o].sinks \subseteq m_clients

\* A port that has still to answer a run is in the universe of the run, or has
\* left it since.
WaitingStay ==
  \A i \in DOMAIN runs : \A p \in runs[i].waiting :
    p \in uni[runs[i].obj].ports \/ <<i, p>> \in departed

\* A route of object o to port q for UID x.
RouteOK(o, q, x) ==
  (q \in uni[o].ports /\ x \in seen[q]) \/ <<o, q>> \in stale

RoutesCurrent ==
  \A o \in DOMAIN uni, x \in UID :
    uni[o].uids[x] # NoPort => RouteOK(o, uni[o].uids[x], x)

-----------------------------------------------------------------------------
(* The operators that the actions are built from.                           *)

LEMMA PortFacts ==
  /\ Port = InputPort \cup OutputPort
  /\ NoPort \notin Port
  /\ InputPort \cap OutputPort = {}
BY ConstantsAssumption DEF Port

\* The parts of TypeOK that arithmetic is about.
LEMMA Numbers ==
  ASSUME TypeOK
  PROVE  /\ created \in Nat
         /\ uni \in [1..created -> UniverseType]
         /\ m_universe_map \in [Universe -> 0..created]
         /\ m_universe \in [Port -> 0..created]
BY DEF TypeOK

\* GetUniverseOrCreate gives an object that exists afterwards.
LEMMA ObjectOfFacts ==
  ASSUME TypeOK, NEW u \in Universe, GetUniverseOrCreate(u)
  PROVE  /\ created' \in Nat
         /\ created' \in {created, created + 1}
         /\ ObjectOf(u) \in 1..created'
         /\ m_universe_map' \in [Universe -> 0..created']
         /\ m_universe_map' = [m_universe_map EXCEPT ![u] = ObjectOf(u)]
         /\ m_universe_map[u] # NULL => ObjectOf(u) = m_universe_map[u] /\ created' = created
         /\ m_universe_map[u] = NULL => ObjectOf(u) = created + 1 /\ created' = created + 1
         /\ deleted' = deleted /\ m_preferences' = m_preferences
<1>1. /\ created \in Nat
      /\ m_universe_map \in [Universe -> 0..created]
  BY DEF TypeOK
<1>2. /\ m_universe_map' = [m_universe_map EXCEPT ![u] = ObjectOf(u)]
      /\ created' = IF m_universe_map[u] # NULL THEN created ELSE created + 1
      /\ deleted' = deleted /\ m_preferences' = m_preferences
  BY DEF GetUniverseOrCreate
<1>3. CASE m_universe_map[u] # NULL
  BY <1>1, <1>2, <1>3 DEF ObjectOf, NULL
<1>4. CASE m_universe_map[u] = NULL
  BY <1>1, <1>2, <1>4 DEF ObjectOf, NULL
<1> QED
  BY <1>3, <1>4

LEMMA NewUniverseType ==
  ASSUME TypeOK, NEW u \in Universe
  PROVE  /\ NewUniverse(u) \in UniverseType
         /\ NewUniverse(u).id = u
         /\ NewUniverse(u).ports = {}
         /\ NewUniverse(u).sinks = {}
         /\ NewUniverse(u).mode = RestoredMode(u)
         /\ \A c \in Client : NewUniverse(u).sources[c] = "absent"
         /\ \A x \in UID : NewUniverse(u).uids[x] = NoPort
BY DEF TypeOK, NewUniverse, UniverseType, RestoredMode, Mode

\* The objects that there were are where they were.
LEMMA WithUniverseFacts ==
  ASSUME TypeOK, NEW u \in Universe, GetUniverseOrCreate(u),
         NEW objects \in [1..created -> UniverseType]
  PROVE  /\ WithUniverse(objects, u) \in [1..created' -> UniverseType]
         /\ \A o \in 1..created : WithUniverse(objects, u)[o] = objects[o]
         /\ m_universe_map[u] = NULL
              => WithUniverse(objects, u)[created + 1] = NewUniverse(u)
<1>1. CASE m_universe_map[u] # NULL
  BY <1>1, ObjectOfFacts DEF WithUniverse, TypeOK
<1>2. CASE m_universe_map[u] = NULL
  <2>1. WithUniverse(objects, u) = Append(objects, NewUniverse(u))
    BY <1>2 DEF WithUniverse
  <2> HIDE DEF UniverseType
  <2>0. created \in Nat
    BY DEF TypeOK
  <2>2. objects \in Seq(UniverseType) /\ Len(objects) = created
    BY <2>0
  <2>3. NewUniverse(u) \in UniverseType
    BY NewUniverseType
  <2>4. created' = created + 1 /\ created \in Nat
    BY <1>2, ObjectOfFacts DEF TypeOK
  <2>5. /\ Append(objects, NewUniverse(u)) \in Seq(UniverseType)
        /\ Len(Append(objects, NewUniverse(u))) = created + 1
        /\ \A i \in 1..created : Append(objects, NewUniverse(u))[i] = objects[i]
        /\ Append(objects, NewUniverse(u))[created + 1] = NewUniverse(u)
    BY <2>2, <2>3, AppendProperties
  <2> QED
    BY <2>1, <2>4, <2>5, LenProperties
<1> QED
  BY <1>1, <1>2

\* A port list shrinks, and the UIDs of the ports that left go with them.
LEMMA RemovePortsFacts ==
  ASSUME NEW o \in UniverseType, NEW some
  PROVE  /\ RemovePorts(o, some) \in UniverseType
         /\ RemovePorts(o, some).ports = o.ports \ some
         /\ RemovePorts(o, some).id = o.id
         /\ RemovePorts(o, some).sources = o.sources
         /\ RemovePorts(o, some).sinks = o.sinks
         /\ RemovePorts(o, some).mode = o.mode
         /\ \A x \in UID : RemovePorts(o, some).uids[x] =
              IF o.uids[x] \in some THEN NoPort ELSE o.uids[x]
BY DEF RemovePorts, UniverseType

LEMMA UnpatchedFacts ==
  ASSUME TypeOK, NEW some
  PROVE  /\ Unpatched(some) \in [1..created -> UniverseType]
         /\ \A o \in 1..created :
              LET here == {p \in some \cap uni[o].ports : m_universe[p] = o}
              IN  /\ Unpatched(some)[o].ports = uni[o].ports \ here
                  /\ Unpatched(some)[o].id = uni[o].id
                  /\ Unpatched(some)[o].sources = uni[o].sources
                  /\ Unpatched(some)[o].sinks = uni[o].sinks
                  /\ Unpatched(some)[o].mode = uni[o].mode
                  /\ \A x \in UID : Unpatched(some)[o].uids[x] =
                       IF uni[o].uids[x] \in here THEN NoPort ELSE uni[o].uids[x]
<1> DEFINE here(o) == {p \in some \cap uni[o].ports : m_universe[p] = o}
<1>1. uni \in [1..created -> UniverseType]
  BY DEF TypeOK
<1>2. Unpatched(some) = [o \in 1..created |->
         IF here(o) = {} THEN uni[o] ELSE RemovePorts(uni[o], here(o))]
  BY <1>1 DEF Unpatched
<1>3. ASSUME NEW o \in 1..created
      PROVE  /\ Unpatched(some)[o] \in UniverseType
             /\ Unpatched(some)[o].ports = uni[o].ports \ here(o)
             /\ Unpatched(some)[o].id = uni[o].id
             /\ Unpatched(some)[o].sources = uni[o].sources
             /\ Unpatched(some)[o].sinks = uni[o].sinks
             /\ Unpatched(some)[o].mode = uni[o].mode
             /\ \A x \in UID : Unpatched(some)[o].uids[x] =
                  IF uni[o].uids[x] \in here(o) THEN NoPort ELSE uni[o].uids[x]
  <2>1. uni[o] \in UniverseType
    BY <1>1
  <2> HIDE DEF here
  <2>2. CASE here(o) = {}
    BY <1>2, <2>1, <2>2
  <2>3. CASE here(o) # {}
    <3>1. Unpatched(some)[o] = RemovePorts(uni[o], here(o))
      BY <1>2, <2>3
    <3> QED
      BY <3>1, <2>1, RemovePortsFacts
  <2> QED
    BY <2>2, <2>3
<1> QED
  BY <1>2, <1>3

LEMMA NewUIDListFacts ==
  ASSUME NEW o \in UniverseType, NEW p \in OutputPort, NEW found
  PROVE  /\ NewUIDList(o, p, found) \in UniverseType
         /\ NewUIDList(o, p, found).ports = o.ports
         /\ NewUIDList(o, p, found).id = o.id
         /\ NewUIDList(o, p, found).sources = o.sources
         /\ NewUIDList(o, p, found).sinks = o.sinks
         /\ NewUIDList(o, p, found).mode = o.mode
         /\ \A x \in UID : NewUIDList(o, p, found).uids[x] =
              IF x \in found THEN (IF o.uids[x] = NoPort THEN p ELSE o.uids[x])
              ELSE IF o.uids[x] = p THEN NoPort ELSE o.uids[x]
BY DEF NewUIDList, UniverseType

LEMMA CleanFacts ==
  ASSUME NEW o \in UniverseType
  PROVE  /\ CleanStaleSourceClients(o) \in UniverseType
         /\ CleanStaleSourceClients(o).ports = o.ports
         /\ CleanStaleSourceClients(o).id = o.id
         /\ CleanStaleSourceClients(o).sinks = o.sinks
         /\ CleanStaleSourceClients(o).mode = o.mode
         /\ CleanStaleSourceClients(o).uids = o.uids
         /\ \A c \in Client : CleanStaleSourceClients(o).sources[c] # "absent"
                                => o.sources[c] # "absent"
BY DEF CleanStaleSourceClients, UniverseType

LEMMA SweptFacts ==
  ASSUME TypeOK
  PROVE  /\ Swept \in [1..created -> UniverseType]
         /\ \A o \in 1..created :
              /\ Swept[o].ports = uni[o].ports
              /\ Swept[o].id = uni[o].id
              /\ Swept[o].sinks = uni[o].sinks
              /\ Swept[o].mode = uni[o].mode
              /\ Swept[o].uids = uni[o].uids
              /\ Clients(Swept[o]) \subseteq Clients(uni[o])
<1>1. uni \in [1..created -> UniverseType]
  BY DEF TypeOK
<1>2. ASSUME NEW o \in 1..created
      PROVE  /\ Swept[o] \in UniverseType
             /\ Swept[o].ports = uni[o].ports
             /\ Swept[o].id = uni[o].id
             /\ Swept[o].sinks = uni[o].sinks
             /\ Swept[o].mode = uni[o].mode
             /\ Swept[o].uids = uni[o].uids
             /\ Clients(Swept[o]) \subseteq Clients(uni[o])
  <2>1. uni[o] \in UniverseType
    BY <1>1
  <2>2. Swept[o] \in {uni[o], CleanStaleSourceClients(uni[o])}
    BY <1>1 DEF Swept
  <2> QED
    BY <2>1, <2>2, CleanFacts DEF Clients
<1> QED
  BY <1>1, <1>2 DEF Swept

\* SetToSeq lists the elements of a finite set.
LEMMA SetToSeqElements ==
  ASSUME NEW S, IsFiniteSet(S), NEW i \in 1..Cardinality(S)
  PROVE  SetToSeq(S)[i] \in S
<1>1. PICK f \in [1..Cardinality(S) -> S] : IsInjective(f)
  BY FS_CardinalityType DEF ExistsBijection, Bijection, Injection, IsInjective
<1>2. SetToSeq(S) \in [1..Cardinality(S) -> S]
  BY <1>1 DEF SetToSeq
<1> QED
  BY <1>2

-----------------------------------------------------------------------------
(* Types.                                                                   *)

\* What a step has to show of the objects and of what points to them.
LEMMA GrownType ==
  ASSUME TypeOK, NEW n \in Nat, created <= n
  PROVE  /\ deleted \subseteq 1..n
         /\ m_deletion_candidates \subseteq 1..n
         /\ m_universe \in [Port -> 0..n]
         /\ \A i \in DOMAIN runs : runs[i].obj \in 1..n
<1>1. 1..created \subseteq 1..n /\ 0..created \subseteq 0..n
  BY Numbers
<1> QED
  BY <1>1 DEF TypeOK

LEMMA RemovalsType ==
  ASSUME TypeOK, NEW objects
  PROVE  Removals(objects) \subseteq 1..created
BY DEF Removals, TypeOK

LEMMA DiscoverOnPatchType ==
  ASSUME TypeOK, NEW p \in Port, DiscoverOnPatch(p)
  PROVE  /\ scanning' \subseteq OutputPort
         /\ seen' \in [OutputPort -> SUBSET UID]
         /\ runs' = runs
<1>1. scanning \subseteq OutputPort /\ seen \in [OutputPort -> SUBSET UID]
  BY DEF TypeOK
<1>2. CASE p \in OutputPort
  BY <1>1, <1>2 DEF DiscoverOnPatch
<1>3. CASE p \notin OutputPort
  BY <1>1, <1>3 DEF DiscoverOnPatch
<1> QED
  BY <1>2, <1>3

LEMMA PatchType ==
  ASSUME TypeOK, NEW p \in Port, NEW u \in Universe, NEW accepts \in BOOLEAN,
         GenericPatchPort(p, u, accepts)
  PROVE  TypeOK'
<1> DEFINE o == ObjectOf(u)
           left == Unpatched({p})
           objects == WithUniverse(left, u)
<1>1. GetUniverseOrCreate(u)
  BY DEF GenericPatchPort
<1>2. /\ created' \in Nat /\ created \in Nat /\ created <= created'
      /\ o \in 1..created'
      /\ m_universe_map' \in [Universe -> 0..created']
      /\ deleted' = deleted /\ m_preferences' = m_preferences
  BY <1>1, ObjectOfFacts, Numbers
<1>3. objects \in [1..created' -> UniverseType]
  BY <1>1, UnpatchedFacts, WithUniverseFacts
<1>4. Removals(left) \subseteq 1..created
  BY RemovalsType
<1>5. /\ deleted \subseteq 1..created'
      /\ m_deletion_candidates \subseteq 1..created'
      /\ m_universe \in [Port -> 0..created']
      /\ \A i \in DOMAIN runs : runs[i].obj \in 1..created'
      /\ 1..created \subseteq 1..created'
  BY <1>2, GrownType
<1>6. ports' = ports /\ m_clients' = m_clients /\ chosen' = chosen
  BY DEF GenericPatchPort
<1>7. /\ ports \subseteq Port
      /\ m_clients \subseteq Client
      /\ chosen \in [Universe -> Mode]
      /\ m_preferences \in [Universe -> Mode \cup {""}]
      /\ runs \in Seq(RunType)
      /\ scanning \subseteq OutputPort
      /\ seen \in [OutputPort -> SUBSET UID]
  BY DEF TypeOK
<1>8. CASE accepts
  <2>1. /\ uni' = [objects EXCEPT ![o].ports = @ \cup {p}]
        /\ m_deletion_candidates' = m_deletion_candidates \cup Removals(left)
        /\ m_universe' = [m_universe EXCEPT ![p] = o]
        /\ DiscoverOnPatch(p)
    BY <1>8 DEF GenericPatchPort
  <2> HIDE DEF o, left, objects
  <2>2. uni' \in [1..created' -> UniverseType]
    <3>1. objects[o] \in UniverseType
      BY <1>2, <1>3
    <3>2. [objects[o] EXCEPT !.ports = @ \cup {p}] \in UniverseType
      BY <3>1 DEF UniverseType
    <3> QED
      BY <2>1, <3>2, <1>2, <1>3
  <2>3. m_universe' \in [Port -> 0..created']
    BY <2>1, <1>2, <1>5
  <2>4. m_deletion_candidates' \subseteq 1..created'
    BY <2>1, <1>4, <1>5
  <2>5. /\ scanning' \subseteq OutputPort
        /\ seen' \in [OutputPort -> SUBSET UID]
        /\ runs' = runs
    BY <2>1, DiscoverOnPatchType
  <2> QED
    BY <1>2, <1>5, <1>6, <1>7, <2>2, <2>3, <2>4, <2>5 DEF TypeOK
<1>9. CASE ~accepts
  <2>1. /\ uni' = objects
        /\ m_deletion_candidates' = m_deletion_candidates \cup Removals(left)
             \cup (IF IsActive(objects[o]) THEN {} ELSE {o})
        /\ m_universe' = m_universe
        /\ runs' = runs /\ scanning' = scanning /\ seen' = seen
    BY <1>9 DEF GenericPatchPort, discoveryVars
  <2> HIDE DEF o, left, objects
  <2>2. m_deletion_candidates' \subseteq 1..created'
    BY <2>1, <1>2, <1>4, <1>5
  <2> QED
    BY <1>2, <1>3, <1>5, <1>6, <1>7, <2>1, <2>2 DEF TypeOK
<1> QED
  BY <1>8, <1>9

LEMMA UnPatchType ==
  ASSUME TypeOK, NEW p \in Port, GenericUnPatchPort(p)
  PROVE  TypeOK'
<1>1. uni' \in [1..created -> UniverseType]
  BY UnpatchedFacts DEF GenericUnPatchPort
<1>2. m_deletion_candidates' \subseteq 1..created
  BY RemovalsType DEF GenericUnPatchPort, TypeOK
<1>3. m_universe' \in [Port -> 0..created]
  BY Numbers DEF GenericUnPatchPort, NULL
<1>4. /\ scanning' \subseteq OutputPort
      /\ seen' \in [OutputPort -> SUBSET UID]
      /\ runs' = runs
  BY DiscoverOnPatchType DEF GenericUnPatchPort
<1> QED
  BY <1>1, <1>2, <1>3, <1>4 DEF GenericUnPatchPort, TypeOK, storeVars

LEMMA StopType ==
  ASSUME TypeOK, StopDevice
  PROVE  TypeOK'
<1>1. uni' \in [1..created -> UniverseType]
  BY UnpatchedFacts DEF StopDevice
<1>2. m_deletion_candidates' \subseteq 1..created
  BY RemovalsType DEF StopDevice, TypeOK
<1>3. m_universe' \in [Port -> 0..created]
  BY Numbers DEF StopDevice, NULL
<1> QED
  BY <1>1, <1>2, <1>3 DEF StopDevice, TypeOK, storeVars

LEMMA RegisterType ==
  ASSUME TypeOK, NEW c \in Client, NEW u \in Universe, RegisterForDmx(c, u)
  PROVE  TypeOK'
<1> DEFINE o == ObjectOf(u)
           objects == WithUniverse(uni, u)
<1>1. GetUniverseOrCreate(u)
  BY DEF RegisterForDmx
<1>2. /\ created' \in Nat /\ created \in Nat /\ created <= created'
      /\ o \in 1..created'
      /\ m_universe_map' \in [Universe -> 0..created']
      /\ deleted' = deleted /\ m_preferences' = m_preferences
  BY <1>1, ObjectOfFacts, Numbers
<1>3. objects \in [1..created' -> UniverseType]
  BY <1>1, WithUniverseFacts DEF TypeOK
<1>4. \/ /\ uni' = [objects EXCEPT ![o].sinks = @ \cup {c}]
         /\ m_deletion_candidates' = m_deletion_candidates
      \/ /\ uni' = [objects EXCEPT ![o].sinks = @ \ {c}]
         /\ m_deletion_candidates' = m_deletion_candidates \cup Removals(uni')
  BY DEF RegisterForDmx, AddSinkClient, RemoveSinkClient
<1> HIDE DEF o, objects
<1>5. uni' \in [1..created' -> UniverseType]
  <2>1. objects[o] \in UniverseType
    BY <1>2, <1>3
  <2>2. /\ [objects[o] EXCEPT !.sinks = @ \cup {c}] \in UniverseType
        /\ [objects[o] EXCEPT !.sinks = @ \ {c}] \in UniverseType
    BY <2>1 DEF UniverseType
  <2> QED
    BY <1>2, <1>3, <1>4, <2>2
<1>6. /\ deleted \subseteq 1..created'
      /\ m_deletion_candidates \subseteq 1..created'
      /\ m_universe \in [Port -> 0..created']
      /\ \A i \in DOMAIN runs : runs[i].obj \in 1..created'
      /\ 1..created \subseteq 1..created'
  BY <1>2, GrownType
<1>7. m_deletion_candidates' \subseteq 1..created'
  BY <1>4, <1>6, RemovalsType
<1> QED
  BY <1>2, <1>5, <1>6, <1>7 DEF RegisterForDmx, TypeOK, portVars, discoveryVars

LEMMA UpdateType ==
  ASSUME TypeOK, NEW c \in Client, NEW u \in Universe, UpdateDmxData(c, u)
  PROVE  TypeOK'
<1> DEFINE o == m_universe_map[u]
<1>1. o \in 1..created
  BY Numbers DEF UpdateDmxData, NULL
<1>2. uni[o] \in UniverseType
  BY <1>1, Numbers
<1>3. AddSourceClient(uni[o], c) \in UniverseType
  BY <1>2 DEF AddSourceClient, UniverseType
<1>4. uni' = [uni EXCEPT ![o] = AddSourceClient(uni[o], c)]
  BY DEF UpdateDmxData
<1> HIDE DEF o
<1>5. uni' \in [1..created -> UniverseType]
  BY <1>1, <1>3, <1>4 DEF TypeOK
<1> QED
  BY <1>5 DEF UpdateDmxData, TypeOK, storeVars, portVars, discoveryVars

LEMMA SetModeType ==
  ASSUME TypeOK, NEW u \in Universe, NEW mode \in ChosenModes, SetMergeMode(u, mode)
  PROVE  TypeOK'
<1> DEFINE o == m_universe_map[u]
<1>0. mode \in Mode
  BY ConstantsAssumption DEF Mode
<1>1. o \in 1..created
  BY Numbers DEF SetMergeMode, NULL
<1>2. uni[o] \in UniverseType
  BY <1>1, Numbers
<1>3. [uni[o] EXCEPT !.mode = mode] \in UniverseType
  BY <1>0, <1>2 DEF UniverseType
<1>4. uni' = [uni EXCEPT ![o] = [uni[o] EXCEPT !.mode = mode]]
  BY DEF SetMergeMode
<1> HIDE DEF o
<1>5. uni' \in [1..created -> UniverseType]
  BY <1>1, <1>3, <1>4 DEF TypeOK
<1>6. chosen' \in [Universe -> Mode]
  BY <1>0 DEF SetMergeMode, TypeOK
<1> QED
  BY <1>5, <1>6 DEF SetMergeMode, TypeOK, storeVars, portVars, discoveryVars

\* The objects once a client has gone.
LEMMA ClientRemovedFacts ==
  ASSUME TypeOK, NEW c \in Client, ClientRemoved(c)
  PROVE  /\ uni' \in [1..created -> UniverseType]
         /\ \A o \in 1..created :
              /\ uni'[o].id = uni[o].id
              /\ uni'[o].ports = uni[o].ports
              /\ uni'[o].mode = uni[o].mode
              /\ uni'[o].uids = uni[o].uids
              /\ o \in Listed => /\ uni'[o].sinks = uni[o].sinks \ {c}
                                 /\ Clients(uni'[o]) = Clients(uni[o]) \ {c}
              /\ o \notin Listed => uni'[o] = uni[o]
<1> DEFINE gone(o) == [uni[o] EXCEPT !.sources[c] = "absent", !.sinks = @ \ {c}]
<1>1. /\ uni \in [1..created -> UniverseType]
      /\ uni' = [o \in 1..created |-> IF o \in Listed THEN gone(o) ELSE uni[o]]
  BY DEF TypeOK, ClientRemoved
<1>2. ASSUME NEW o \in 1..created
      PROVE  /\ gone(o) \in UniverseType
             /\ gone(o).id = uni[o].id
             /\ gone(o).ports = uni[o].ports
             /\ gone(o).mode = uni[o].mode
             /\ gone(o).uids = uni[o].uids
             /\ gone(o).sinks = uni[o].sinks \ {c}
             /\ Clients(gone(o)) = Clients(uni[o]) \ {c}
  <2>1. uni[o] \in UniverseType
    BY <1>1
  <2>2. /\ gone(o) \in UniverseType
        /\ gone(o).id = uni[o].id
        /\ gone(o).ports = uni[o].ports
        /\ gone(o).mode = uni[o].mode
        /\ gone(o).uids = uni[o].uids
        /\ gone(o).sinks = uni[o].sinks \ {c}
        /\ gone(o).sources = [uni[o].sources EXCEPT ![c] = "absent"]
    BY <2>1 DEF UniverseType
  <2> HIDE DEF gone
  <2> QED
    BY <2>1, <2>2 DEF UniverseType, Clients
<1> HIDE DEF gone
<1> QED
  BY <1>1, <1>2

LEMMA ClientRemovedType ==
  ASSUME TypeOK, NEW c \in Client, ClientRemoved(c)
  PROVE  TypeOK'
<1>1. uni' \in [1..created -> UniverseType]
  BY ClientRemovedFacts
<1>2. m_deletion_candidates' \subseteq 1..created
  BY RemovalsType DEF ClientRemoved, TypeOK
<1> QED
  BY <1>1, <1>2 DEF ClientRemoved, TypeOK, storeVars, portVars, discoveryVars

LEMMA RunFacts ==
  ASSUME TypeOK, NEW o \in 1..created
  PROVE  /\ Run(o) \in RunType
         /\ Run(o).obj = o
         /\ Run(o).waiting = uni[o].ports \cap OutputPort
<1>1. uni[o].ports \cap OutputPort \subseteq OutputPort /\ o \in Nat
  BY Numbers
<1> QED
  BY <1>1 DEF Run, RunType

LEMMA RunsAppended ==
  ASSUME TypeOK, NEW o \in 1..created, runs' = Append(runs, Run(o))
  PROVE  /\ runs' \in Seq(RunType)
         /\ Len(runs') = Len(runs) + 1
         /\ DOMAIN runs' = 1..Len(runs) + 1
         /\ DOMAIN runs = 1..Len(runs)
         /\ Len(runs) \in Nat
         /\ \A i \in DOMAIN runs : runs'[i] = runs[i]
         /\ runs'[Len(runs) + 1] = Run(o)
<1>1. runs \in Seq(RunType)
  BY DEF TypeOK
<1>2. Run(o) \in RunType
  BY RunFacts
<1> QED
  BY <1>1, <1>2, AppendProperties, LenProperties

LEMMA RunDiscoveryType ==
  ASSUME TypeOK, NEW o \in 1..created, RunRDMDiscovery(o)
  PROVE  TypeOK'
<1>1. runs' = Append(runs, Run(o))
  BY DEF RunRDMDiscovery
<1>2. /\ runs' \in Seq(RunType)
      /\ DOMAIN runs' = 1..Len(runs) + 1
      /\ DOMAIN runs = 1..Len(runs)
      /\ Len(runs) \in Nat
      /\ \A i \in DOMAIN runs : runs'[i] = runs[i]
      /\ runs'[Len(runs) + 1] = Run(o)
  BY <1>1, RunsAppended
<1>3. \A i \in DOMAIN runs' : runs'[i].obj \in 1..created
  <2> TAKE i \in DOMAIN runs'
  <2>1. i \in DOMAIN runs \/ i = Len(runs) + 1
    BY <1>2
  <2>2. CASE i \in DOMAIN runs
    BY <1>2, <2>2 DEF TypeOK
  <2>3. CASE i = Len(runs) + 1
    BY <1>2, <2>3, RunFacts
  <2> QED
    BY <2>1, <2>2, <2>3
<1> QED
  BY <1>2, <1>3 DEF RunRDMDiscovery, TypeOK, storeVars, portVars

\* A port's report changes the UID table of one object.
LEMMA ReportFacts ==
  ASSUME TypeOK, NEW o \in 1..created, NEW p \in OutputPort, NEW found,
         uni' = [uni EXCEPT ![o] = NewUIDList(@, p, found)]
  PROVE  /\ uni' \in [1..created -> UniverseType]
         /\ uni'[o] = NewUIDList(uni[o], p, found)
         /\ \A q \in 1..created : q # o => uni'[q] = uni[q]
         /\ \A q \in 1..created :
              /\ uni'[q].ports = uni[q].ports
              /\ uni'[q].id = uni[q].id
              /\ uni'[q].sources = uni[q].sources
              /\ uni'[q].sinks = uni[q].sinks
              /\ uni'[q].mode = uni[q].mode
<1>1. uni \in [1..created -> UniverseType] /\ uni[o] \in UniverseType
  BY Numbers
<1>2. NewUIDList(uni[o], p, found) \in UniverseType
  BY <1>1, NewUIDListFacts
<1>3. /\ uni' \in [1..created -> UniverseType]
      /\ uni'[o] = NewUIDList(uni[o], p, found)
      /\ \A q \in 1..created : q # o => uni'[q] = uni[q]
  BY <1>1, <1>2
<1> QED
  BY <1>1, <1>3, NewUIDListFacts

LEMMA AnswerFacts ==
  ASSUME NEW run \in RunType, NEW p
  PROVE  /\ Answer(run, p) \in RunType
         /\ Answer(run, p).obj = run.obj
         /\ Answer(run, p).waiting = run.waiting \ {p}
<1>1. run.answers + 1 \in Nat /\ run.answers \in Nat
  BY DEF RunType
<1> DEFINE n == IF run.waiting = {p} THEN run.answers + 1 ELSE run.answers
<1>2. n \in Nat
  BY <1>1
<1>3. Answer(run, p) = [run EXCEPT !.waiting = run.waiting \ {p}, !.answers = n]
  BY DEF Answer
<1> HIDE DEF n
<1> QED
  BY <1>2, <1>3 DEF RunType

\* The runs once port p has answered run i.
LEMMA RunsAnswered ==
  ASSUME TypeOK, NEW i \in DOMAIN runs, NEW p,
         runs' = [runs EXCEPT ![i] = Answer(@, p)]
  PROVE  /\ runs' \in Seq(RunType)
         /\ DOMAIN runs' = DOMAIN runs
         /\ \A j \in DOMAIN runs : runs'[j].obj = runs[j].obj
         /\ \A j \in DOMAIN runs : runs'[j].waiting \subseteq runs[j].waiting
         /\ p \notin runs'[i].waiting
<1>1. /\ runs \in Seq(RunType)
      /\ DOMAIN runs = 1..Len(runs)
      /\ runs[i] \in RunType
  BY LenProperties, ElementOfSeq DEF TypeOK
<1>2. Answer(runs[i], p) \in RunType
  BY <1>1, AnswerFacts
<1>3. /\ runs' \in Seq(RunType)
      /\ Len(runs') = Len(runs)
      /\ \A j \in 1..Len(runs) : runs'[j] = IF j = i THEN Answer(runs[i], p) ELSE runs[j]
  BY <1>1, <1>2, ExceptSeq
<1>4. DOMAIN runs' = 1..Len(runs')
  BY <1>3, LenProperties
<1> QED
  BY <1>1, <1>3, <1>4, AnswerFacts

LEMMA CompleteType ==
  ASSUME TypeOK, NEW i \in DOMAIN runs, NEW p \in OutputPort, NEW found \in SUBSET UID,
         PortDiscoveryComplete(i, p, found)
  PROVE  TypeOK'
<1>1. runs[i].obj \in 1..created
  BY DEF TypeOK
<1>2. uni' \in [1..created -> UniverseType]
  BY <1>1, ReportFacts DEF PortDiscoveryComplete, Report
<1>3. /\ runs' \in Seq(RunType)
      /\ \A j \in DOMAIN runs' : runs'[j].obj \in 1..created
  <2>1. runs' = [runs EXCEPT ![i] = Answer(@, p)]
    BY DEF PortDiscoveryComplete
  <2>2. /\ runs' \in Seq(RunType)
        /\ DOMAIN runs' = DOMAIN runs
        /\ \A j \in DOMAIN runs : runs'[j].obj = runs[j].obj
    BY <2>1, RunsAnswered
  <2> QED
    BY <2>2 DEF TypeOK
<1>4. seen' \in [OutputPort -> SUBSET UID]
  BY DEF PortDiscoveryComplete, Report, TypeOK
<1> QED
  BY <1>2, <1>3, <1>4 DEF PortDiscoveryComplete, TypeOK, storeVars, portVars

\* The discovery of a patched or deleted port ends.
LEMMA UpdateUIDsCases ==
  ASSUME TypeOK, NEW p \in OutputPort, NEW found, UpdateUIDs(p, found)
  PROVE  \/ uni' = uni /\ seen' = seen /\ stale' = stale
         \/ m_universe[p] \in 1..created /\ Report(m_universe[p], p, found)
<1>1. \/ uni' = uni /\ seen' = seen /\ stale' = stale
      \/ m_universe[p] # NULL /\ Report(m_universe[p], p, found)
  BY DEF UpdateUIDs
<1>2. m_universe[p] # NULL => m_universe[p] \in 1..created
  BY Numbers, PortFacts DEF NULL
<1> QED
  BY <1>1, <1>2

LEMMA UpdateUIDsType ==
  ASSUME TypeOK, NEW p \in OutputPort, NEW found \in SUBSET UID, UpdateUIDs(p, found)
  PROVE  TypeOK'
<1>1. scanning' \subseteq OutputPort
  BY DEF UpdateUIDs, TypeOK
<1>2. CASE uni' = uni /\ seen' = seen /\ stale' = stale
  BY <1>1, <1>2 DEF UpdateUIDs, TypeOK, storeVars, portVars
<1>3. CASE m_universe[p] \in 1..created /\ Report(m_universe[p], p, found)
  <2>1. uni' \in [1..created -> UniverseType]
    BY <1>3, ReportFacts DEF Report
  <2>2. seen' \in [OutputPort -> SUBSET UID]
    BY <1>3 DEF Report, TypeOK
  <2> QED
    BY <1>1, <2>1, <2>2 DEF UpdateUIDs, TypeOK, storeVars, portVars
<1> QED
  BY <1>2, <1>3, UpdateUIDsCases

LEMMA ListedObjects ==
  ASSUME TypeOK
  PROVE  Listed \subseteq 1..created
BY Numbers DEF Listed, NULL

\* The runs that the housekeeping starts come after those there were.
LEMMA RunsStarted ==
  ASSUME TypeOK, NEW due \in SUBSET Listed, RunHousekeeping(due)
  PROVE  /\ runs' \in Seq(RunType)
         /\ DOMAIN runs \subseteq DOMAIN runs'
         /\ \A i \in DOMAIN runs : runs'[i] = runs[i]
         /\ \A i \in DOMAIN runs' \ DOMAIN runs :
              \E o \in due : runs'[i] = Run(o)
<1> DEFINE n == Cardinality(due)
           e(i) == Run(SetToSeq(due)[i])
           started == [i \in 1..n |-> e(i)]
<1>1. due \subseteq 1..created
  BY ListedObjects
<1>2. IsFiniteSet(due) /\ n \in Nat
  <2>1. IsFiniteSet(1..created)
    BY Numbers, FS_Interval
  <2> QED
    BY <1>1, <2>1, FS_Subset, FS_CardinalityType
<1>3. \A i \in 1..n : SetToSeq(due)[i] \in due
  BY <1>2, SetToSeqElements
<1>4. \A i \in 1..n : e(i) \in RunType
  BY <1>1, <1>3, RunFacts
<1>5. runs' = runs \o started
  BY DEF RunHousekeeping
<1> HIDE DEF n
<1>6. started \in Seq(RunType) /\ Len(started) = n
  <2> HIDE DEF e
  <2> QED
    BY <1>2, <1>4
<1>7. /\ runs \in Seq(RunType)
      /\ DOMAIN runs = 1..Len(runs)
      /\ Len(runs) \in Nat
  BY LenProperties DEF TypeOK
<1>8. \A i \in 1..n : started[i] = Run(SetToSeq(due)[i])
  OBVIOUS
<1> HIDE DEF started, e
<1>9. /\ runs' \in Seq(RunType)
      /\ Len(runs') = Len(runs) + n
      /\ \A i \in 1..Len(runs) + n : runs'[i] =
           IF i <= Len(runs) THEN runs[i] ELSE started[i - Len(runs)]
  BY <1>5, <1>6, <1>7, ConcatProperties
<1>10. DOMAIN runs' = 1..Len(runs) + n
  BY <1>9, LenProperties
<1>11. DOMAIN runs \subseteq DOMAIN runs' /\ \A i \in DOMAIN runs : runs'[i] = runs[i]
  BY <1>2, <1>7, <1>9, <1>10
<1>12. ASSUME NEW i \in DOMAIN runs' \ DOMAIN runs
       PROVE  \E o \in due : runs'[i] = Run(o)
  <2>1. i - Len(runs) \in 1..n /\ runs'[i] = started[i - Len(runs)]
    BY <1>2, <1>7, <1>9, <1>10
  <2> QED
    BY <2>1, <1>3, <1>8
<1> QED
  BY <1>9, <1>11, <1>12

LEMMA HousekeepingType ==
  ASSUME TypeOK, NEW due \in SUBSET Listed, RunHousekeeping(due)
  PROVE  TypeOK'
<1>1. uni' \in [1..created -> UniverseType]
  BY SweptFacts DEF RunHousekeeping
<1>2. m_deletion_candidates' \subseteq 1..created
  BY RemovalsType DEF RunHousekeeping
<1>3. Garbage \subseteq 1..created
  BY DEF Garbage, TypeOK
<1>4. /\ m_universe_map' \in [Universe -> 0..created]
      /\ deleted' \subseteq 1..created
      /\ created' = created
  <2>1. \A u \in Universe : m_universe_map[u] \in 0..created /\ NULL \in 0..created
    BY Numbers DEF NULL
  <2>2. m_universe_map' = [u \in Universe |->
       IF \E o \in Garbage : uni[o].id = u THEN NULL ELSE m_universe_map[u]]
    BY DEF RunHousekeeping, GarbageCollectUniverses
  <2> HIDE DEF NULL
  <2> QED
    BY <1>3, <2>1, <2>2 DEF RunHousekeeping, GarbageCollectUniverses, TypeOK
<1>5. m_preferences' \in [Universe -> Mode \cup {""}]
  <2>1. m_preferences \in [Universe -> Mode \cup {""}]
    BY DEF TypeOK
  <2>2. \A o : SavedMode(o) \in Mode
    BY DEF SavedMode, Mode
  <2> QED
    BY <2>1, <2>2 DEF RunHousekeeping, GarbageCollectUniverses
<1>6. /\ runs' \in Seq(RunType)
      /\ \A i \in DOMAIN runs' : runs'[i].obj \in 1..created
  <2>1. /\ runs' \in Seq(RunType)
        /\ DOMAIN runs \subseteq DOMAIN runs'
        /\ \A i \in DOMAIN runs : runs'[i] = runs[i]
        /\ \A i \in DOMAIN runs' \ DOMAIN runs :
             \E o \in due : runs'[i] = Run(o)
    BY RunsStarted
  <2>2. \A i \in DOMAIN runs : runs[i].obj \in 1..created
    BY DEF TypeOK
  <2>3. due \subseteq 1..created
    BY ListedObjects
  <2>4. \A o \in due : Run(o).obj \in 1..created
    BY <2>3, RunFacts
  <2> QED
    BY <2>1, <2>2, <2>4
<1>7. UNCHANGED <<m_universe, ports, scanning, seen, m_clients, chosen>>
  BY DEF RunHousekeeping, portVars
<1> QED
  BY <1>1, <1>2, <1>4, <1>5, <1>6, <1>7 DEF TypeOK

LEMMA TypeInit == Init => TypeOK
<1> SUFFICES ASSUME Init PROVE TypeOK
  OBVIOUS
<1>1. created = 0 /\ uni = << >> /\ created \in Nat
  BY DEF Init
<1>2. uni \in [1..created -> UniverseType]
  BY <1>1
<1>3. NULL \in 0..created
  BY <1>1 DEF NULL
<1>4. runs \in Seq(RunType) /\ DOMAIN runs = {}
  <2>1. runs = << >>
    BY DEF Init
  <2> QED
    BY <2>1
<1>5. /\ m_universe_map \in [Universe -> 0..created]
      /\ m_universe \in [Port -> 0..created]
  <2>1. /\ m_universe_map = [u \in Universe |-> NULL]
        /\ m_universe = [p \in Port |-> NULL]
    BY DEF Init
  <2> QED
    BY <1>3, <2>1
<1>6. /\ deleted \subseteq 1..created
      /\ m_deletion_candidates \subseteq 1..created
      /\ m_preferences \in [Universe -> Mode \cup {""}]
      /\ ports \subseteq Port
      /\ m_clients \subseteq Client
      /\ scanning \subseteq OutputPort
      /\ chosen \in [Universe -> Mode]
      /\ seen \in [OutputPort -> SUBSET UID]
  BY <1>1 DEF Init, Mode
<1> QED
  BY <1>1, <1>2, <1>4, <1>5, <1>6 DEF TypeOK

\* The discoveries are run on objects that exist.
LEMMA ForcedObject ==
  ASSUME TypeOK, NEW u \in Universe, ForceDiscovery(u)
  PROVE  m_universe_map[u] \in 1..created /\ RunRDMDiscovery(m_universe_map[u])
BY Numbers DEF ForceDiscovery, NULL

LEMMA TriggeredObject ==
  ASSUME TypeOK, NEW p \in InputPort, TriggerRDMDiscovery(p)
  PROVE  m_universe[p] \in 1..created /\ RunRDMDiscovery(m_universe[p])
BY Numbers, PortFacts DEF TriggerRDMDiscovery, NULL

LEMMA TypeNext == TypeOK /\ [Next]_vars => TypeOK'
<1> SUFFICES ASSUME TypeOK, [Next]_vars PROVE TypeOK'
  OBVIOUS
<1>1. ASSUME NEW p \in Port, PatchPort(p) PROVE TypeOK'
  BY <1>1, PatchType, UnPatchType DEF PatchPort
<1>2. CASE StopDevice
  BY <1>2, StopType
<1>3. ASSUME NEW c \in Client, NEW u \in Universe, RegisterForDmx(c, u) PROVE TypeOK'
  BY <1>3, RegisterType
<1>4. ASSUME NEW c \in Client, NEW u \in Universe, UpdateDmxData(c, u) PROVE TypeOK'
  BY <1>4, UpdateType
<1>5. ASSUME NEW u \in Universe, NEW mode \in ChosenModes, SetMergeMode(u, mode) PROVE TypeOK'
  BY <1>5, SetModeType
<1>6. ASSUME NEW c \in Client, ClientRemoved(c) PROVE TypeOK'
  BY <1>6, ClientRemovedType
<1>7. ASSUME NEW u \in Universe, ForceDiscovery(u) PROVE TypeOK'
  BY <1>7, ForcedObject, RunDiscoveryType
<1>8. ASSUME NEW p \in InputPort, TriggerRDMDiscovery(p) PROVE TypeOK'
  BY <1>8, TriggeredObject, RunDiscoveryType
<1>9. ASSUME NEW i \in DOMAIN runs, NEW p \in OutputPort, NEW found \in SUBSET UID,
             PortDiscoveryComplete(i, p, found)
      PROVE  TypeOK'
  BY <1>9, CompleteType
<1>10. ASSUME NEW p \in OutputPort, NEW found \in SUBSET UID, UpdateUIDs(p, found)
       PROVE  TypeOK'
  BY <1>10, UpdateUIDsType
<1>11. ASSUME NEW due \in SUBSET Listed, RunHousekeeping(due) PROVE TypeOK'
  BY <1>11, HousekeepingType
<1>12. CASE UNCHANGED vars
  BY <1>12 DEF vars, storeVars, portVars, discoveryVars, TypeOK
<1> QED
  BY <1>1, <1>2, <1>3, <1>4, <1>5, <1>6, <1>7, <1>8, <1>9, <1>10, <1>11, <1>12 DEF Next

\* Every pointer that the store, the ports and the discovery runs keep is NULL or
\* the number of an object that was created, whatever the events and their order.
THEOREM TypeCorrect == Spec => []TypeOK
BY TypeInit, TypeNext, PTL DEF Spec

-----------------------------------------------------------------------------
(* The store: what the map lists, what is deleted, what is a candidate.     *)

\* Object a has no port, client or sink that b has not.
Within(a, b) ==
  /\ a.ports \subseteq b.ports
  /\ Clients(a) \subseteq Clients(b)
  /\ a.sinks \subseteq b.sinks

LEMMA WithinActive ==
  ASSUME NEW a, NEW b, Within(a, b), IsActive(a)
  PROVE  IsActive(b)
BY DEF Within, IsActive

LEMMA ListedOwn ==
  ASSUME TypeOK, StoreInv, NEW o \in Listed
  PROVE  /\ o \in 1..created
         /\ uni[o].id \in Universe
         /\ m_universe_map[uni[o].id] = o
<1>1. PICK u \in Universe : o = m_universe_map[u] /\ o # NULL
  BY DEF Listed
<1>2. uni[o].id = u
  BY <1>1 DEF StoreInv
<1> QED
  BY <1>1, <1>2, ListedObjects

\* Only a listed object can be left with less than it had.
LEMMA RemovalsListed ==
  ASSUME TypeOK, StoreInv, NEW objects,
         \A o \in 1..created : Within(objects[o], uni[o])
  PROVE  Removals(objects) \subseteq Listed
<1> SUFFICES ASSUME NEW o \in Removals(objects) PROVE o \in Listed
  OBVIOUS
<1>1. o \in DOMAIN uni /\ o \in 1..created
  BY Numbers DEF Removals
<1>2. IsActive(uni[o])
  BY <1>1 DEF Removals, Within, IsActive
<1> QED
  BY <1>1, <1>2 DEF StoreInv

\* A step of the ports, the clients or the discoveries.
LEMMA StoreKept ==
  ASSUME TypeOK, StoreInv, UNCHANGED storeVars,
         uni' \in [1..created -> UniverseType],
         \A o \in 1..created : uni'[o].id = uni[o].id,
         \A o \in 1..created : Within(uni'[o], uni[o]) \/ o \in Listed,
         m_deletion_candidates' \subseteq Listed
  PROVE  StoreInv'
<1>1. /\ m_universe_map' = m_universe_map
      /\ deleted' = deleted
      /\ Listed' = Listed
  BY DEF storeVars, Listed
<1>2. \A u \in Universe : m_universe_map'[u] # NULL => uni'[m_universe_map'[u]].id = u
  <2> SUFFICES ASSUME NEW u \in Universe, m_universe_map[u] # NULL
               PROVE  uni'[m_universe_map[u]].id = u
    BY <1>1
  <2>1. m_universe_map[u] \in Listed
    BY DEF Listed
  <2> QED
    BY <2>1, ListedObjects DEF StoreInv
<1>3. DOMAIN uni' = 1..created /\ DOMAIN uni = 1..created
  BY Numbers
<1>4. \A o \in DOMAIN uni' : IsActive(uni'[o]) => o \in Listed'
  <2> SUFFICES ASSUME NEW o \in 1..created, IsActive(uni'[o]) PROVE o \in Listed
    BY <1>1, <1>3
  <2>1. CASE Within(uni'[o], uni[o])
    BY <2>1, <1>3, WithinActive DEF StoreInv
  <2> QED
    BY <2>1
<1> QED
  BY <1>1, <1>2, <1>4 DEF StoreInv

\* GetUniverseOrCreate lists its object, which was listed or is new.
LEMMA ListedGrown ==
  ASSUME TypeOK, StoreInv, NEW u \in Universe, GetUniverseOrCreate(u)
  PROVE  /\ Listed' = Listed \cup {ObjectOf(u)}
         /\ m_universe_map[u] # NULL => ObjectOf(u) \in Listed
         /\ ObjectOf(u) \notin deleted
         /\ ObjectOf(u) # NULL
<1>1. /\ m_universe_map' = [m_universe_map EXCEPT ![u] = ObjectOf(u)]
      /\ m_universe_map[u] # NULL => ObjectOf(u) = m_universe_map[u]
      /\ m_universe_map[u] = NULL => ObjectOf(u) = created + 1
      /\ created \in Nat
  BY ObjectOfFacts, Numbers
<1>2. ObjectOf(u) # NULL
  BY <1>1 DEF NULL
<1>3. m_universe_map \in [Universe -> 0..created] /\ DOMAIN m_universe_map = Universe
  BY Numbers
<1>4. m_universe_map[u] # NULL => ObjectOf(u) \in Listed
  BY <1>1 DEF Listed
<1>5. Listed' = Listed \cup {ObjectOf(u)}
  <2>1. Listed' = {m_universe_map'[v] : v \in Universe} \ {NULL}
    BY DEF Listed
  <2>2. \A v \in Universe : m_universe_map'[v] = IF v = u THEN ObjectOf(u) ELSE m_universe_map[v]
    BY <1>1, <1>3
  <2> QED
    BY <2>1, <2>2, <1>1, <1>2 DEF Listed
<1>6. ObjectOf(u) \notin deleted
  <2>1. CASE m_universe_map[u] # NULL
    BY <1>4, <2>1 DEF StoreInv
  <2>2. CASE m_universe_map[u] = NULL
    <3>1. deleted \subseteq 1..created
      BY DEF TypeOK
    <3>2. created + 1 \notin 1..created
      BY <1>1
    <3> QED
      BY <1>1, <2>2, <3>1, <3>2
  <2> QED
    BY <2>1, <2>2
<1> QED
  BY <1>2, <1>4, <1>5, <1>6

\* A step that gets or creates the universe u.
LEMMA StoreGrown ==
  ASSUME TypeOK, StoreInv, NEW u \in Universe, GetUniverseOrCreate(u),
         uni' \in [1..created' -> UniverseType],
         \A o \in 1..created : uni'[o].id = uni[o].id,
         m_universe_map[u] = NULL => uni'[created + 1].id = u,
         \A o \in 1..created : Within(uni'[o], uni[o]) \/ o = ObjectOf(u),
         m_deletion_candidates' \subseteq Listed \cup {ObjectOf(u)}
  PROVE  StoreInv'
<1>1. /\ Listed' = Listed \cup {ObjectOf(u)}
      /\ ObjectOf(u) \notin deleted
      /\ m_universe_map[u] # NULL => ObjectOf(u) \in Listed
  BY ListedGrown
<1>2. /\ m_universe_map' = [m_universe_map EXCEPT ![u] = ObjectOf(u)]
      /\ m_universe_map \in [Universe -> 0..created]
      /\ deleted' = deleted
      /\ created \in Nat
      /\ created' \in {created, created + 1}
      /\ m_universe_map[u] # NULL => ObjectOf(u) = m_universe_map[u] /\ created' = created
      /\ m_universe_map[u] = NULL => ObjectOf(u) = created + 1 /\ created' = created + 1
  BY ObjectOfFacts, Numbers
<1>3. uni'[ObjectOf(u)].id = u
  <2>1. CASE m_universe_map[u] # NULL
    BY <1>1, <1>2, <2>1, ListedObjects DEF StoreInv
  <2>2. CASE m_universe_map[u] = NULL
    BY <1>2, <2>2
  <2> QED
    BY <2>1, <2>2
<1>4. \A v \in Universe : m_universe_map'[v] # NULL => uni'[m_universe_map'[v]].id = v
  <2> SUFFICES ASSUME NEW v \in Universe, m_universe_map'[v] # NULL
               PROVE  uni'[m_universe_map'[v]].id = v
    OBVIOUS
  <2>1. CASE v = u
    BY <1>2, <1>3, <2>1
  <2>2. CASE v # u
    <3>1. m_universe_map'[v] = m_universe_map[v]
      BY <1>2, <2>2
    <3>2. m_universe_map[v] \in Listed
      BY <3>1 DEF Listed
    <3> QED
      BY <3>1, <3>2, ListedObjects DEF StoreInv
  <2> QED
    BY <2>1, <2>2
<1>5. \A o \in DOMAIN uni' : IsActive(uni'[o]) => o \in Listed'
  <2> SUFFICES ASSUME NEW o \in 1..created', IsActive(uni'[o]) PROVE o \in Listed'
    OBVIOUS
  <2>1. o \in 1..created \/ o = ObjectOf(u)
    BY <1>2
  <2>2. CASE o \in 1..created /\ Within(uni'[o], uni[o])
    <3>1. IsActive(uni[o])
      BY <2>2, WithinActive
    <3>2. o \in DOMAIN uni
      BY <2>2, Numbers
    <3> QED
      BY <1>1, <3>1, <3>2 DEF StoreInv
  <2> QED
    BY <1>1, <2>1, <2>2
<1> QED
  BY <1>1, <1>2, <1>4, <1>5 DEF StoreInv

LEMMA UnpatchedWithin ==
  ASSUME TypeOK, NEW some
  PROVE  \A o \in 1..created : Within(Unpatched(some)[o], uni[o])
BY UnpatchedFacts DEF Within, Clients

\* The objects once p has left its universe.
Left(p) == Unpatched({p})

LEMMA LeftFacts ==
  ASSUME TypeOK, NEW p
  PROVE  /\ Left(p) \in [1..created -> UniverseType]
         /\ \A o \in 1..created :
              /\ Left(p)[o].id = uni[o].id
              /\ Left(p)[o].sources = uni[o].sources
              /\ Left(p)[o].sinks = uni[o].sinks
              /\ Left(p)[o].mode = uni[o].mode
              /\ Within(Left(p)[o], uni[o])
         /\ \A o \in 1..created : \A q : q \in Left(p)[o].ports <=>
              q \in uni[o].ports /\ (q # p \/ m_universe[p] # o)
         /\ \A o \in 1..created : \A x \in UID : Left(p)[o].uids[x] =
              IF p \in uni[o].ports /\ m_universe[p] = o /\ uni[o].uids[x] = p
              THEN NoPort ELSE uni[o].uids[x]
<1>1. Left(p) \in [1..created -> UniverseType]
  BY UnpatchedFacts DEF Left
<1>2. ASSUME NEW o \in 1..created
      PROVE  /\ Left(p)[o].id = uni[o].id
             /\ Left(p)[o].sources = uni[o].sources
             /\ Left(p)[o].sinks = uni[o].sinks
             /\ Left(p)[o].mode = uni[o].mode
             /\ Within(Left(p)[o], uni[o])
  BY UnpatchedFacts, UnpatchedWithin DEF Left
<1>3. ASSUME NEW o \in 1..created
      PROVE  /\ \A q : q \in Left(p)[o].ports <=>
                  q \in uni[o].ports /\ (q # p \/ m_universe[p] # o)
             /\ \A x \in UID : Left(p)[o].uids[x] =
                  IF p \in uni[o].ports /\ m_universe[p] = o /\ uni[o].uids[x] = p
                  THEN NoPort ELSE uni[o].uids[x]
  <2> DEFINE here == {q \in {p} \cap uni[o].ports : m_universe[q] = o}
  <2>1. /\ Left(p)[o].ports = uni[o].ports \ here
        /\ \A x \in UID : Left(p)[o].uids[x] =
             IF uni[o].uids[x] \in here THEN NoPort ELSE uni[o].uids[x]
    BY UnpatchedFacts DEF Left
  <2>2. \A q : q \in here <=> q = p /\ p \in uni[o].ports /\ m_universe[p] = o
    OBVIOUS
  <2> HIDE DEF here
  <2>3. \A q : q \in Left(p)[o].ports <=>
          q \in uni[o].ports /\ (q # p \/ m_universe[p] # o)
    BY <2>1, <2>2
  <2>4. \A x \in UID : Left(p)[o].uids[x] =
          IF p \in uni[o].ports /\ m_universe[p] = o /\ uni[o].uids[x] = p
          THEN NoPort ELSE uni[o].uids[x]
    BY <2>1, <2>2
  <2> QED
    BY <2>3, <2>4
<1> QED
  BY <1>1, <1>2, <1>3

\* The objects of a patch: as they were without p, but for the one p is added to.
LEMMA PatchedObjects ==
  ASSUME TypeOK, NEW p \in Port, NEW u \in Universe, NEW accepts \in BOOLEAN,
         GenericPatchPort(p, u, accepts)
  PROVE  /\ GetUniverseOrCreate(u)
         /\ uni' \in [1..created' -> UniverseType]
         /\ \A o \in 1..created :
              /\ uni'[o].id = uni[o].id
              /\ uni'[o].sources = uni[o].sources
              /\ uni'[o].sinks = uni[o].sinks
              /\ uni'[o].mode = uni[o].mode
              /\ \A x \in UID : uni'[o].uids[x] =
                   IF p \in uni[o].ports /\ m_universe[p] = o /\ uni[o].uids[x] = p
                   THEN NoPort ELSE uni[o].uids[x]
              /\ \A q : q \in uni'[o].ports <=>
                   \/ q \in uni[o].ports /\ (q # p \/ m_universe[p] # o)
                   \/ q = p /\ o = ObjectOf(u) /\ accepts
         /\ m_universe_map[u] = NULL =>
              LET o == created + 1
              IN  /\ uni'[o].id = u
                  /\ uni'[o].sources = NewUniverse(u).sources
                  /\ uni'[o].sinks = {}
                  /\ uni'[o].mode = RestoredMode(u)
                  /\ \A x \in UID : uni'[o].uids[x] = NoPort
                  /\ \A q : q \in uni'[o].ports <=> q = p /\ accepts
<1> DEFINE left == Left(p)
           objects == WithUniverse(left, u)
           o == ObjectOf(u)
<1>1. GetUniverseOrCreate(u)
  BY DEF GenericPatchPort
<1>2. /\ left \in [1..created -> UniverseType]
      /\ objects \in [1..created' -> UniverseType]
      /\ \A q \in 1..created : objects[q] = left[q]
      /\ m_universe_map[u] = NULL => objects[created + 1] = NewUniverse(u)
  BY <1>1, LeftFacts, WithUniverseFacts
<1>3. /\ o \in 1..created'
      /\ created' \in {created, created + 1}
      /\ created \in Nat
      /\ m_universe_map[u] # NULL => created' = created
      /\ m_universe_map[u] = NULL => o = created + 1 /\ created' = created + 1
  BY <1>1, ObjectOfFacts, Numbers
<1>4. /\ accepts => uni' = [objects EXCEPT ![o].ports = @ \cup {p}]
      /\ ~accepts => uni' = objects
  BY DEF GenericPatchPort, Left
<1> HIDE DEF left, objects, o
<1>5. ASSUME NEW q \in 1..created'
      PROVE  /\ uni'[q] \in UniverseType
             /\ uni'[q].id = objects[q].id
             /\ uni'[q].sources = objects[q].sources
             /\ uni'[q].sinks = objects[q].sinks
             /\ uni'[q].mode = objects[q].mode
             /\ uni'[q].uids = objects[q].uids
             /\ \A r : r \in uni'[q].ports <=>
                  r \in objects[q].ports \/ (r = p /\ q = o /\ accepts)
  <2>1. objects[q] \in UniverseType
    BY <1>2
  <2>2. CASE accepts /\ q = o
    <3>1. uni'[q] = [objects[q] EXCEPT !.ports = @ \cup {p}]
      BY <1>2, <1>4, <2>2
    <3> QED
      BY <2>1, <2>2, <3>1 DEF UniverseType
  <2>3. CASE ~(accepts /\ q = o)
    <3>1. uni'[q] = objects[q]
      BY <1>2, <1>4, <2>3
    <3> QED
      BY <2>1, <2>3, <3>1
  <2> QED
    BY <2>2, <2>3
<1>6. uni' \in [1..created' -> UniverseType]
  <2>1. CASE accepts
    <3>1. [objects[o] EXCEPT !.ports = @ \cup {p}] \in UniverseType
      BY <1>2, <1>3 DEF UniverseType
    <3> QED
      BY <1>2, <1>3, <1>4, <2>1, <3>1
  <2>2. CASE ~accepts
    BY <1>2, <1>4, <2>2
  <2> QED
    BY <2>1, <2>2
<1>7. \A q \in 1..created : q \in 1..created'
  BY <1>3
<1>8. ASSUME NEW q \in 1..created
      PROVE  /\ uni'[q].id = uni[q].id
             /\ uni'[q].sources = uni[q].sources
             /\ uni'[q].sinks = uni[q].sinks
             /\ uni'[q].mode = uni[q].mode
             /\ \A x \in UID : uni'[q].uids[x] =
                  IF p \in uni[q].ports /\ m_universe[p] = q /\ uni[q].uids[x] = p
                  THEN NoPort ELSE uni[q].uids[x]
             /\ \A r : r \in uni'[q].ports <=>
                  \/ r \in uni[q].ports /\ (r # p \/ m_universe[p] # q)
                  \/ r = p /\ q = o /\ accepts
  <2>1. /\ left[q].id = uni[q].id
        /\ left[q].sources = uni[q].sources
        /\ left[q].sinks = uni[q].sinks
        /\ left[q].mode = uni[q].mode
    BY LeftFacts DEF left
  <2>2. \A r : r \in left[q].ports <=>
          r \in uni[q].ports /\ (r # p \/ m_universe[p] # q)
    BY LeftFacts DEF left
  <2>3. \A x \in UID : left[q].uids[x] =
          IF p \in uni[q].ports /\ m_universe[p] = q /\ uni[q].uids[x] = p
          THEN NoPort ELSE uni[q].uids[x]
    BY LeftFacts DEF left
  <2>4. objects[q] = left[q] /\ q \in 1..created'
    BY <1>2, <1>7
  <2>5. /\ uni'[q].id = left[q].id
        /\ uni'[q].sources = left[q].sources
        /\ uni'[q].sinks = left[q].sinks
        /\ uni'[q].mode = left[q].mode
        /\ uni'[q].uids = left[q].uids
    BY <1>5, <2>4
  <2>6. \A r : r \in uni'[q].ports <=>
          r \in left[q].ports \/ (r = p /\ q = o /\ accepts)
    BY <1>5, <2>4
  <2> QED
    BY <2>1, <2>2, <2>3, <2>5, <2>6
<1>9. ASSUME m_universe_map[u] = NULL
      PROVE  /\ uni'[created + 1].id = u
             /\ uni'[created + 1].sources = NewUniverse(u).sources
             /\ uni'[created + 1].sinks = {}
             /\ uni'[created + 1].mode = RestoredMode(u)
             /\ \A x \in UID : uni'[created + 1].uids[x] = NoPort
             /\ \A q : q \in uni'[created + 1].ports <=> q = p /\ accepts
  <2>1. created + 1 \in 1..created' /\ o = created + 1
    BY <1>3, <1>9
  <2>2. objects[created + 1] = NewUniverse(u)
    BY <1>2, <1>9
  <2>3. /\ uni'[o].id = NewUniverse(u).id
        /\ uni'[o].sources = NewUniverse(u).sources
        /\ uni'[o].sinks = NewUniverse(u).sinks
        /\ uni'[o].mode = NewUniverse(u).mode
        /\ uni'[o].uids = NewUniverse(u).uids
        /\ \A q : q \in uni'[o].ports <=>
             q \in NewUniverse(u).ports \/ (q = p /\ accepts)
    BY <1>5, <2>1, <2>2
  <2>4. /\ NewUniverse(u).id = u
        /\ NewUniverse(u).ports = {}
        /\ NewUniverse(u).sinks = {}
        /\ NewUniverse(u).mode = RestoredMode(u)
        /\ \A x \in UID : NewUniverse(u).uids[x] = NoPort
    BY NewUniverseType
  <2> QED
    BY <2>1, <2>3, <2>4
<1> QED
  BY <1>1, <1>6, <1>8, <1>9 DEF left, o

\* The objects of a registration: one has a sink more or less.
LEMMA RegisteredObjects ==
  ASSUME TypeOK, NEW c \in Client, NEW u \in Universe, RegisterForDmx(c, u)
  PROVE  /\ GetUniverseOrCreate(u)
         /\ uni' \in [1..created' -> UniverseType]
         /\ \A o \in 1..created :
              /\ uni'[o].id = uni[o].id
              /\ uni'[o].sources = uni[o].sources
              /\ uni'[o].mode = uni[o].mode
              /\ uni'[o].uids = uni[o].uids
              /\ uni'[o].ports = uni[o].ports
              /\ o # ObjectOf(u) => uni'[o].sinks = uni[o].sinks
              /\ uni'[o].sinks \subseteq uni[o].sinks \cup {c}
         /\ m_universe_map[u] = NULL =>
              LET o == created + 1
              IN  /\ uni'[o].id = u
                  /\ uni'[o].sources = NewUniverse(u).sources
                  /\ uni'[o].sinks \subseteq {c}
                  /\ uni'[o].mode = RestoredMode(u)
                  /\ \A x \in UID : uni'[o].uids[x] = NoPort
                  /\ uni'[o].ports = {}
         /\ \/ m_deletion_candidates' = m_deletion_candidates
            \/ /\ m_deletion_candidates' = m_deletion_candidates \cup Removals(uni')
               /\ \A o \in 1..created : uni'[o].sinks \subseteq uni[o].sinks
<1> DEFINE objects == WithUniverse(uni, u)
           o == ObjectOf(u)
<1>1. GetUniverseOrCreate(u)
  BY DEF RegisterForDmx
<1>2. /\ objects \in [1..created' -> UniverseType]
      /\ \A q \in 1..created : objects[q] = uni[q]
      /\ m_universe_map[u] = NULL => objects[created + 1] = NewUniverse(u)
  BY <1>1, Numbers, WithUniverseFacts
<1>3. /\ o \in 1..created'
      /\ created' \in {created, created + 1}
      /\ created \in Nat
      /\ m_universe_map[u] = NULL => o = created + 1 /\ created' = created + 1
  BY <1>1, ObjectOfFacts, Numbers
<1>4. PICK sinks \in SUBSET Client :
         /\ uni' = [objects EXCEPT ![o].sinks = sinks]
         /\ sinks \subseteq objects[o].sinks \cup {c}
         /\ \/ m_deletion_candidates' = m_deletion_candidates
            \/ /\ m_deletion_candidates' = m_deletion_candidates \cup Removals(uni')
               /\ sinks \subseteq objects[o].sinks
  <2>1. objects[o].sinks \subseteq Client
    BY <1>2, <1>3 DEF UniverseType
  <2>2. \/ /\ uni' = [objects EXCEPT ![o].sinks = objects[o].sinks \cup {c}]
           /\ m_deletion_candidates' = m_deletion_candidates
        \/ /\ uni' = [objects EXCEPT ![o].sinks = objects[o].sinks \ {c}]
           /\ m_deletion_candidates' = m_deletion_candidates \cup Removals(uni')
    BY DEF RegisterForDmx, AddSinkClient, RemoveSinkClient
  <2> HIDE DEF objects, o
  <2>3. CASE /\ uni' = [objects EXCEPT ![o].sinks = objects[o].sinks \cup {c}]
             /\ m_deletion_candidates' = m_deletion_candidates
    <3> USE <2>1
    <3> WITNESS objects[o].sinks \cup {c} \in SUBSET Client
    <3> QED
      BY <2>3
  <2>4. CASE /\ uni' = [objects EXCEPT ![o].sinks = objects[o].sinks \ {c}]
             /\ m_deletion_candidates' = m_deletion_candidates \cup Removals(uni')
    <3> USE <2>1
    <3> WITNESS objects[o].sinks \ {c} \in SUBSET Client
    <3> QED
      BY <2>4
  <2> QED
    BY <2>2, <2>3, <2>4
<1> HIDE DEF objects, o
<1>5. [objects[o] EXCEPT !.sinks = sinks] \in UniverseType
  BY <1>2, <1>3 DEF UniverseType
<1>6. ASSUME NEW q \in 1..created'
      PROVE  /\ uni'[q].id = objects[q].id
             /\ uni'[q].sources = objects[q].sources
             /\ uni'[q].sinks = IF q = o THEN sinks ELSE objects[q].sinks
             /\ uni'[q].mode = objects[q].mode
             /\ uni'[q].uids = objects[q].uids
             /\ uni'[q].ports = objects[q].ports
  <2>1. objects[q] \in UniverseType
    BY <1>2
  <2>2. CASE q = o
    <3>1. uni'[q] = [objects[q] EXCEPT !.sinks = sinks]
      BY <1>2, <1>4, <2>2
    <3> QED
      BY <2>1, <2>2, <3>1 DEF UniverseType
  <2>3. CASE q # o
    <3>1. uni'[q] = objects[q]
      BY <1>2, <1>4, <2>3
    <3> QED
      BY <2>1, <2>3, <3>1
  <2> QED
    BY <2>2, <2>3
<1>7. uni' \in [1..created' -> UniverseType]
  BY <1>2, <1>3, <1>4, <1>5
<1>8. \A q \in 1..created : q \in 1..created'
  BY <1>3
<1>9. ASSUME NEW q \in 1..created
      PROVE  /\ uni'[q].id = uni[q].id
             /\ uni'[q].sources = uni[q].sources
             /\ uni'[q].mode = uni[q].mode
             /\ uni'[q].uids = uni[q].uids
             /\ uni'[q].ports = uni[q].ports
             /\ q # o => uni'[q].sinks = uni[q].sinks
             /\ uni'[q].sinks \subseteq uni[q].sinks \cup {c}
             /\ sinks \subseteq objects[o].sinks => uni'[q].sinks \subseteq uni[q].sinks
  BY <1>2, <1>4, <1>6, <1>8
<1>10. ASSUME m_universe_map[u] = NULL
       PROVE  /\ uni'[created + 1].id = u
              /\ uni'[created + 1].sources = NewUniverse(u).sources
              /\ uni'[created + 1].sinks \subseteq {c}
              /\ uni'[created + 1].mode = RestoredMode(u)
              /\ \A x \in UID : uni'[created + 1].uids[x] = NoPort
              /\ uni'[created + 1].ports = {}
  <2>1. o \in 1..created' /\ o = created + 1
    BY <1>3, <1>10
  <2>2. objects[o] = NewUniverse(u)
    BY <1>2, <1>10, <2>1
  <2>3. /\ uni'[o].id = NewUniverse(u).id
        /\ uni'[o].sources = NewUniverse(u).sources
        /\ uni'[o].sinks \subseteq NewUniverse(u).sinks \cup {c}
        /\ uni'[o].mode = NewUniverse(u).mode
        /\ uni'[o].uids = NewUniverse(u).uids
        /\ uni'[o].ports = NewUniverse(u).ports
    BY <1>4, <1>6, <2>1, <2>2
  <2>4. /\ NewUniverse(u).id = u
        /\ NewUniverse(u).ports = {}
        /\ NewUniverse(u).sinks = {}
        /\ NewUniverse(u).mode = RestoredMode(u)
        /\ \A x \in UID : NewUniverse(u).uids[x] = NoPort
    BY NewUniverseType
  <2> QED
    BY <2>1, <2>3, <2>4
<1> QED
  BY <1>1, <1>4, <1>7, <1>9, <1>10 DEF o

\* UpdateDmxData makes the client a source of one listed object.
LEMMA UpdatedObjects ==
  ASSUME TypeOK, NEW c \in Client, NEW u \in Universe, UpdateDmxData(c, u)
  PROVE  /\ uni' \in [1..created -> UniverseType]
         /\ m_universe_map[u] \in Listed
         /\ c \in m_clients
         /\ \A o \in 1..created :
              /\ uni'[o].id = uni[o].id
              /\ uni'[o].sinks = uni[o].sinks
              /\ uni'[o].mode = uni[o].mode
              /\ uni'[o].uids = uni[o].uids
              /\ uni'[o].ports = uni[o].ports
              /\ o # m_universe_map[u] => uni'[o] = uni[o]
              /\ Clients(uni'[o]) \subseteq Clients(uni[o]) \cup {c}
<1>1. m_universe_map[u] \in Listed /\ c \in m_clients
  BY DEF UpdateDmxData, Listed
<1>2. m_universe_map[u] \in 1..created
  BY <1>1, ListedObjects
<1>3. /\ uni \in [1..created -> UniverseType]
      /\ uni' = [uni EXCEPT ![m_universe_map[u]] = AddSourceClient(uni[m_universe_map[u]], c)]
  BY Numbers DEF UpdateDmxData
<1>4. ASSUME NEW o \in UniverseType
      PROVE  /\ AddSourceClient(o, c) \in UniverseType
             /\ AddSourceClient(o, c).id = o.id
             /\ AddSourceClient(o, c).sinks = o.sinks
             /\ AddSourceClient(o, c).mode = o.mode
             /\ AddSourceClient(o, c).uids = o.uids
             /\ AddSourceClient(o, c).ports = o.ports
             /\ Clients(AddSourceClient(o, c)) \subseteq Clients(o) \cup {c}
  <2>1. /\ AddSourceClient(o, c) \in UniverseType
        /\ AddSourceClient(o, c).id = o.id
        /\ AddSourceClient(o, c).sinks = o.sinks
        /\ AddSourceClient(o, c).mode = o.mode
        /\ AddSourceClient(o, c).uids = o.uids
        /\ AddSourceClient(o, c).ports = o.ports
        /\ AddSourceClient(o, c).sources = [o.sources EXCEPT ![c] = "fresh"]
    BY DEF AddSourceClient, UniverseType
  <2>2. o.sources \in [Client -> {"absent", "fresh", "stale"}]
    BY DEF UniverseType
  <2> QED
    BY <2>1, <2>2 DEF Clients
<1> QED
  BY <1>1, <1>2, <1>3, <1>4

LEMMA ModedObjects ==
  ASSUME TypeOK, NEW u \in Universe, NEW mode \in ChosenModes, SetMergeMode(u, mode)
  PROVE  /\ uni' \in [1..created -> UniverseType]
         /\ m_universe_map[u] \in Listed
         /\ uni'[m_universe_map[u]].mode = mode
         /\ \A o \in 1..created :
              /\ uni'[o].id = uni[o].id
              /\ uni'[o].sources = uni[o].sources
              /\ uni'[o].sinks = uni[o].sinks
              /\ uni'[o].uids = uni[o].uids
              /\ uni'[o].ports = uni[o].ports
              /\ o # m_universe_map[u] => uni'[o] = uni[o]
<1>0. mode \in Mode
  BY ConstantsAssumption DEF Mode
<1>1. m_universe_map[u] \in Listed
  BY DEF SetMergeMode, Listed
<1>2. m_universe_map[u] \in 1..created
  BY <1>1, ListedObjects
<1>3. /\ uni \in [1..created -> UniverseType]
      /\ uni' = [uni EXCEPT ![m_universe_map[u]] = [uni[m_universe_map[u]] EXCEPT !.mode = mode]]
  BY Numbers DEF SetMergeMode
<1>4. ASSUME NEW o \in UniverseType
      PROVE  /\ [o EXCEPT !.mode = mode] \in UniverseType
             /\ [o EXCEPT !.mode = mode].id = o.id
             /\ [o EXCEPT !.mode = mode].sources = o.sources
             /\ [o EXCEPT !.mode = mode].sinks = o.sinks
             /\ [o EXCEPT !.mode = mode].uids = o.uids
             /\ [o EXCEPT !.mode = mode].ports = o.ports
             /\ [o EXCEPT !.mode = mode].mode = mode
  BY <1>0 DEF UniverseType
<1> QED
  BY <1>1, <1>2, <1>3, <1>4

LEMMA PatchStore ==
  ASSUME TypeOK, StoreInv, NEW p \in Port, NEW u \in Universe, NEW accepts \in BOOLEAN,
         GenericPatchPort(p, u, accepts)
  PROVE  StoreInv'
<1>1. GetUniverseOrCreate(u) /\ uni' \in [1..created' -> UniverseType]
  BY PatchedObjects
<1>2. /\ \A o \in 1..created : uni'[o].id = uni[o].id
      /\ m_universe_map[u] = NULL => uni'[created + 1].id = u
  BY PatchedObjects
<1>3. \A o \in 1..created : Within(uni'[o], uni[o]) \/ o = ObjectOf(u)
  <2> SUFFICES ASSUME NEW o \in 1..created, o # ObjectOf(u)
               PROVE  Within(uni'[o], uni[o])
    OBVIOUS
  <2>1. \A q \in 1..created :
          /\ uni'[q].sources = uni[q].sources
          /\ uni'[q].sinks = uni[q].sinks
          /\ \A r : r \in uni'[q].ports <=>
               \/ r \in uni[q].ports /\ (r # p \/ m_universe[p] # q)
               \/ r = p /\ q = ObjectOf(u) /\ accepts
    BY PatchedObjects
  <2>2. uni'[o].ports \subseteq uni[o].ports
    BY <2>1
  <2> QED
    BY <2>1, <2>2 DEF Within, Clients
<1>4. Removals(Left(p)) \subseteq Listed
  BY LeftFacts, RemovalsListed
<1>5. m_deletion_candidates' \subseteq Listed \cup {ObjectOf(u)}
  <2>1. m_deletion_candidates' \subseteq
          m_deletion_candidates \cup Removals(Left(p)) \cup {ObjectOf(u)}
    <3> DEFINE o == ObjectOf(u)
               left == Left(p)
               objects == WithUniverse(left, u)
    <3>1. \/ m_deletion_candidates' = m_deletion_candidates \cup Removals(left)
          \/ m_deletion_candidates' = m_deletion_candidates \cup Removals(left)
                 \cup (IF IsActive(objects[o]) THEN {} ELSE {o})
      BY DEF GenericPatchPort, Left
    <3> HIDE DEF o, left, objects
    <3>2. (IF IsActive(objects[o]) THEN {} ELSE {o}) \subseteq {o}
      OBVIOUS
    <3>3. m_deletion_candidates' \subseteq m_deletion_candidates \cup Removals(left) \cup {o}
      BY <3>1, <3>2
    <3> QED
      BY <3>3 DEF o, left
  <2> QED
    BY <2>1, <1>4 DEF StoreInv
<1> QED
  BY <1>1, <1>2, <1>3, <1>5, StoreGrown

LEMMA UnPatchStore ==
  ASSUME TypeOK, StoreInv, NEW some, uni' = Unpatched(some), UNCHANGED storeVars,
         m_deletion_candidates' = m_deletion_candidates \cup Removals(uni')
  PROVE  StoreInv'
<1>1. /\ uni' \in [1..created -> UniverseType]
      /\ \A o \in 1..created : uni'[o].id = uni[o].id
      /\ \A o \in 1..created : Within(uni'[o], uni[o])
  BY UnpatchedFacts, UnpatchedWithin
<1>2. m_deletion_candidates' \subseteq Listed
  BY <1>1, RemovalsListed DEF StoreInv
<1> QED
  BY <1>1, <1>2, StoreKept

LEMMA RegisterStore ==
  ASSUME TypeOK, StoreInv, NEW c \in Client, NEW u \in Universe, RegisterForDmx(c, u)
  PROVE  StoreInv'
<1>1. /\ GetUniverseOrCreate(u) /\ uni' \in [1..created' -> UniverseType]
      /\ \A o \in 1..created : uni'[o].id = uni[o].id
      /\ m_universe_map[u] = NULL => uni'[created + 1].id = u
  BY RegisteredObjects
<1>2. \A o \in 1..created :
        /\ uni'[o].ports = uni[o].ports
        /\ Clients(uni'[o]) = Clients(uni[o])
        /\ o # ObjectOf(u) => uni'[o].sinks = uni[o].sinks
  BY RegisteredObjects DEF Clients
<1>3. \A o \in 1..created : Within(uni'[o], uni[o]) \/ o = ObjectOf(u)
  BY <1>2 DEF Within
<1>4. m_deletion_candidates' \subseteq Listed
  <2>1. CASE m_deletion_candidates' = m_deletion_candidates
    BY <2>1 DEF StoreInv
  <2>2. CASE /\ m_deletion_candidates' = m_deletion_candidates \cup Removals(uni')
             /\ \A o \in 1..created : uni'[o].sinks \subseteq uni[o].sinks
    <3>1. \A o \in 1..created : Within(uni'[o], uni[o])
      BY <1>2, <2>2 DEF Within
    <3> QED
      BY <2>2, <3>1, RemovalsListed DEF StoreInv
  <2> QED
    BY <2>1, <2>2, RegisteredObjects
<1> QED
  BY <1>1, <1>3, <1>4, StoreGrown

LEMMA ClientRemovedStore ==
  ASSUME TypeOK, StoreInv, NEW c \in Client, ClientRemoved(c)
  PROVE  StoreInv'
<1>1. /\ uni' \in [1..created -> UniverseType]
      /\ \A o \in 1..created : uni'[o].id = uni[o].id
      /\ \A o \in 1..created : Within(uni'[o], uni[o])
  BY ClientRemovedFacts DEF Within
<1>2. m_deletion_candidates' \subseteq Listed
  <2>1. m_deletion_candidates' = m_deletion_candidates \cup Removals(uni')
    BY DEF ClientRemoved
  <2> QED
    BY <1>1, <2>1, RemovalsListed DEF StoreInv
<1>3. UNCHANGED storeVars
  BY DEF ClientRemoved
<1> QED
  BY <1>1, <1>2, <1>3, StoreKept

\* What a collection takes out of the map is exactly what it deletes.
LEMMA CollectedListed ==
  ASSUME TypeOK, StoreInv, GarbageCollectUniverses
  PROVE  /\ Garbage \subseteq Listed
         /\ Listed' = Listed \ Garbage
         /\ \A u \in Universe : (\E o \in Garbage : uni[o].id = u)
              => m_universe_map[u] \in Garbage
         /\ \A u \in Universe : m_universe_map'[u] \in {NULL, m_universe_map[u]}
<1>1. Garbage \subseteq Listed
  BY DEF Garbage, StoreInv
<1>2. \A o \in Garbage : m_universe_map[uni[o].id] = o
  BY <1>1, ListedOwn
<1>3. \A u \in Universe : (\E o \in Garbage : uni[o].id = u) <=> m_universe_map[u] \in Garbage
  <2> SUFFICES ASSUME NEW u \in Universe
               PROVE  (\E o \in Garbage : uni[o].id = u) <=> m_universe_map[u] \in Garbage
    OBVIOUS
  <2>1. ASSUME NEW o \in Garbage, uni[o].id = u PROVE m_universe_map[u] \in Garbage
    BY <1>2, <2>1
  <2>2. ASSUME m_universe_map[u] \in Garbage PROVE \E o \in Garbage : uni[o].id = u
    <3>1. m_universe_map[u] # NULL
      BY <1>1, <2>2 DEF Listed
    <3>2. uni[m_universe_map[u]].id = u
      BY <3>1 DEF StoreInv
    <3> QED
      BY <2>2, <3>2
  <2> QED
    BY <2>1, <2>2
<1>4. \A u \in Universe : m_universe_map'[u] =
        IF m_universe_map[u] \in Garbage THEN NULL ELSE m_universe_map[u]
  BY <1>3 DEF GarbageCollectUniverses
<1>5. Listed' = {m_universe_map'[u] : u \in Universe} \ {NULL}
  BY DEF Listed
<1>6. Listed' = Listed \ Garbage
  BY <1>4, <1>5 DEF Listed
<1> QED
  BY <1>1, <1>3, <1>4, <1>6

LEMMA HousekeepingStore ==
  ASSUME TypeOK, StoreInv, NEW due \in SUBSET Listed, RunHousekeeping(due)
  PROVE  StoreInv'
<1>1. /\ uni' = Swept
      /\ m_deletion_candidates' = Removals(Swept)
      /\ GarbageCollectUniverses
      /\ deleted' = deleted \cup Garbage
  BY DEF RunHousekeeping, GarbageCollectUniverses
<1>2. /\ Garbage \subseteq Listed
      /\ Listed' = Listed \ Garbage
      /\ \A u \in Universe : m_universe_map'[u] \in {NULL, m_universe_map[u]}
  BY <1>1, CollectedListed
<1>3. /\ DOMAIN Swept = 1..created
      /\ DOMAIN uni = 1..created
      /\ \A o \in 1..created : Swept[o].id = uni[o].id
      /\ \A o \in 1..created : Within(Swept[o], uni[o])
  BY Numbers, SweptFacts DEF Within
<1>4. \A u \in Universe : m_universe_map'[u] # NULL => uni'[m_universe_map'[u]].id = u
  <2> SUFFICES ASSUME NEW u \in Universe, m_universe_map'[u] # NULL
               PROVE  uni'[m_universe_map'[u]].id = u
    OBVIOUS
  <2>1. m_universe_map'[u] = m_universe_map[u] /\ m_universe_map[u] # NULL
    BY <1>2
  <2>2. m_universe_map[u] \in 1..created
    BY <2>1, ListedObjects DEF Listed
  <2> QED
    BY <1>1, <1>3, <2>1, <2>2 DEF StoreInv
<1>5. \A o \in DOMAIN uni' : IsActive(uni'[o]) => o \in Listed'
  <2> SUFFICES ASSUME NEW o \in 1..created, IsActive(Swept[o]) PROVE o \in Listed'
    BY <1>1, <1>3
  <2>1. IsActive(uni[o])
    BY <1>3, WithinActive
  <2> QED
    BY <1>2, <1>3, <2>1 DEF StoreInv, Garbage
<1>6. deleted' \cap Listed' = {}
  BY <1>1, <1>2 DEF StoreInv
<1>7. m_deletion_candidates' \subseteq Listed'
  <2>1. Removals(Swept) \subseteq Listed
    BY <1>3, RemovalsListed
  <2>2. \A o \in Garbage : o \notin Removals(Swept)
    <3> SUFFICES ASSUME NEW o \in Garbage PROVE o \notin Removals(Swept)
      OBVIOUS
    <3>1. o \in DOMAIN uni
      BY <1>2, <1>3, ListedObjects
    <3>2. Swept[o] = uni[o]
      BY <3>1 DEF Swept
    <3> QED
      BY <3>2 DEF Removals
  <2> QED
    BY <1>1, <1>2, <2>1, <2>2
<1> QED
  BY <1>4, <1>5, <1>6, <1>7 DEF StoreInv

\* A step of one listed object, or of its UID table.
LEMMA ListedStepStore ==
  ASSUME TypeOK, StoreInv, UNCHANGED <<storeVars, m_deletion_candidates>>,
         uni' \in [1..created -> UniverseType],
         \A o \in 1..created : uni'[o].id = uni[o].id,
         \A o \in 1..created : Within(uni'[o], uni[o]) \/ o \in Listed
  PROVE  StoreInv'
<1>1. m_deletion_candidates' \subseteq Listed
  BY DEF StoreInv
<1> QED
  BY <1>1, StoreKept

LEMMA SameObjectsStore ==
  ASSUME TypeOK, StoreInv, UNCHANGED <<storeVars, m_deletion_candidates, uni>>
  PROVE  StoreInv'
BY DEF StoreInv, storeVars, Listed

LEMMA StoreInit == Init => StoreInv
<1> SUFFICES ASSUME Init PROVE StoreInv
  OBVIOUS
<1>1. /\ \A u \in Universe : m_universe_map[u] = NULL
      /\ uni = << >> /\ deleted = {} /\ m_deletion_candidates = {}
  BY DEF Init
<1>2. DOMAIN uni = {}
  BY <1>1
<1> QED
  BY <1>1, <1>2 DEF StoreInv

LEMMA ReportStore ==
  ASSUME TypeOK, StoreInv, NEW o \in 1..created, NEW p \in OutputPort, NEW found,
         uni' = [uni EXCEPT ![o] = NewUIDList(@, p, found)],
         UNCHANGED <<storeVars, m_deletion_candidates>>
  PROVE  StoreInv'
<1>1. /\ uni' \in [1..created -> UniverseType]
      /\ \A q \in 1..created : uni'[q].id = uni[q].id
      /\ \A q \in 1..created : Within(uni'[q], uni[q])
  BY ReportFacts DEF Within, Clients
<1> QED
  BY <1>1, ListedStepStore

LEMMA StoreNext == TypeOK /\ StoreInv /\ [Next]_vars => StoreInv'
<1> SUFFICES ASSUME TypeOK, StoreInv, [Next]_vars PROVE StoreInv'
  OBVIOUS
<1>1. ASSUME NEW p \in Port, PatchPort(p) PROVE StoreInv'
  <2>1. ASSUME NEW u \in Universe, NEW accepts \in BOOLEAN,
         GenericPatchPort(p, u, accepts) PROVE StoreInv'
    BY <2>1, PatchStore
  <2>2. CASE GenericUnPatchPort(p)
    BY <2>2, UnPatchStore DEF GenericUnPatchPort
  <2> QED
    BY <1>1, <2>1, <2>2 DEF PatchPort
<1>2. CASE StopDevice
  BY <1>2, UnPatchStore DEF StopDevice
<1>3. ASSUME NEW c \in Client, NEW u \in Universe, RegisterForDmx(c, u) PROVE StoreInv'
  BY <1>3, RegisterStore
<1>4. ASSUME NEW c \in Client, NEW u \in Universe, UpdateDmxData(c, u) PROVE StoreInv'
  <2>1. /\ uni' \in [1..created -> UniverseType]
        /\ \A o \in 1..created : uni'[o].id = uni[o].id
        /\ \A o \in 1..created : Within(uni'[o], uni[o]) \/ o \in Listed
    BY <1>4, UpdatedObjects DEF Within
  <2>2. UNCHANGED <<storeVars, m_deletion_candidates>>
    BY <1>4 DEF UpdateDmxData
  <2> QED
    BY <2>1, <2>2, ListedStepStore
<1>5. ASSUME NEW u \in Universe, NEW mode \in ChosenModes, SetMergeMode(u, mode) PROVE StoreInv'
  <2>1. /\ uni' \in [1..created -> UniverseType]
        /\ \A o \in 1..created : uni'[o].id = uni[o].id
        /\ \A o \in 1..created : Within(uni'[o], uni[o])
    BY <1>5, ModedObjects DEF Within, Clients
  <2>2. UNCHANGED <<storeVars, m_deletion_candidates>>
    BY <1>5 DEF SetMergeMode
  <2> QED
    BY <2>1, <2>2, ListedStepStore
<1>6. ASSUME NEW c \in Client, ClientRemoved(c) PROVE StoreInv'
  BY <1>6, ClientRemovedStore
<1>7. ASSUME NEW o, RunRDMDiscovery(o) PROVE StoreInv'
  BY <1>7, SameObjectsStore DEF RunRDMDiscovery
<1>8. ASSUME NEW i \in DOMAIN runs, NEW p \in OutputPort, NEW found \in SUBSET UID,
             PortDiscoveryComplete(i, p, found)
      PROVE  StoreInv'
  <2>1. runs[i].obj \in 1..created
    BY DEF TypeOK
  <2> QED
    BY <1>8, <2>1, ReportStore DEF PortDiscoveryComplete, Report
<1>9. ASSUME NEW p \in OutputPort, NEW found \in SUBSET UID, UpdateUIDs(p, found)
      PROVE  StoreInv'
  <2>1. CASE uni' = uni /\ seen' = seen /\ stale' = stale
    BY <1>9, <2>1, SameObjectsStore DEF UpdateUIDs
  <2>2. CASE m_universe[p] \in 1..created /\ Report(m_universe[p], p, found)
    BY <1>9, <2>2, ReportStore DEF UpdateUIDs, Report
  <2> QED
    BY <1>9, <2>1, <2>2, UpdateUIDsCases
<1>10. ASSUME NEW due \in SUBSET Listed, RunHousekeeping(due) PROVE StoreInv'
  BY <1>10, HousekeepingStore
<1>11. CASE UNCHANGED vars
  BY <1>11, SameObjectsStore DEF vars
<1> QED
  BY <1>1, <1>2, <1>3, <1>4, <1>5, <1>6, <1>7, <1>8, <1>9, <1>10, <1>11
     DEF Next, ForceDiscovery, TriggerRDMDiscovery

LEMMA StoreCorrect == Spec => [](TypeOK /\ StoreInv)
BY TypeInit, TypeNext, StoreInit, StoreNext, PTL DEF Spec

\* GarbageCollectUniverses never deletes a universe twice, nor one whose
\* namesake is in the map: however ports, clients and the timer interleave, each
\* candidate is the object that the map has under the candidate's own id.
THEOREM CandidatesHold == Spec => []CandidatesListed
<1>1. TypeOK /\ StoreInv => CandidatesListed
  BY ListedOwn DEF CandidatesListed, StoreInv
<1> QED
  BY <1>1, StoreCorrect, PTL

-----------------------------------------------------------------------------
(* The ports.                                                               *)

\* No port moves: each object has the ports it had, and a new one has none.
KeepsPorts ==
  /\ UNCHANGED portVars
  /\ \A o \in 1..created : uni'[o].ports = uni[o].ports
  /\ \A o \in DOMAIN uni' : o \in 1..created \/ uni'[o].ports = {}

LEMMA RegisterKeepsPorts ==
  ASSUME TypeOK, NEW c \in Client, NEW u \in Universe, RegisterForDmx(c, u)
  PROVE  KeepsPorts
<1>1. /\ UNCHANGED portVars
      /\ GetUniverseOrCreate(u)
  BY DEF RegisterForDmx
<1>2. /\ \A o \in 1..created : uni'[o].ports = uni[o].ports
      /\ uni' \in [1..created' -> UniverseType]
      /\ m_universe_map[u] = NULL => uni'[created + 1].ports = {}
  BY RegisteredObjects
<1>3. \A o \in 1..created' : o \in 1..created \/ (o = created + 1 /\ m_universe_map[u] = NULL)
  BY <1>1, ObjectOfFacts, Numbers
<1> QED
  BY <1>1, <1>2, <1>3 DEF KeepsPorts

\* Ports move only when they are patched, unpatched or deleted.
LEMMA OthersKeepPorts ==
  ASSUME TypeOK, [Next]_vars
  PROVE  \/ \E p \in Port : PatchPort(p)
         \/ StopDevice
         \/ KeepsPorts
<1> USE DEF KeepsPorts
<1>0. DOMAIN uni = 1..created
  BY Numbers
<1>1. ASSUME NEW c \in Client, NEW u \in Universe, RegisterForDmx(c, u) PROVE KeepsPorts
  BY <1>1, RegisterKeepsPorts
<1>2. ASSUME NEW c \in Client, NEW u \in Universe, UpdateDmxData(c, u) PROVE KeepsPorts
  <2>1. /\ uni' \in [1..created -> UniverseType]
        /\ \A o \in 1..created : uni'[o].ports = uni[o].ports
    BY <1>2, UpdatedObjects
  <2> QED
    BY <1>2, <2>1 DEF UpdateDmxData
<1>3. ASSUME NEW u \in Universe, NEW mode \in ChosenModes, SetMergeMode(u, mode) PROVE KeepsPorts
  <2>1. /\ uni' \in [1..created -> UniverseType]
        /\ \A o \in 1..created : uni'[o].ports = uni[o].ports
    BY <1>3, ModedObjects
  <2> QED
    BY <1>3, <2>1 DEF SetMergeMode
<1>4. ASSUME NEW c \in Client, ClientRemoved(c) PROVE KeepsPorts
  <2>1. /\ uni' \in [1..created -> UniverseType]
        /\ \A o \in 1..created : uni'[o].ports = uni[o].ports
    BY <1>4, ClientRemovedFacts
  <2> QED
    BY <1>4, <2>1 DEF ClientRemoved
<1>5. ASSUME NEW o, RunRDMDiscovery(o) PROVE KeepsPorts
  <2>1. uni' = uni /\ UNCHANGED portVars
    BY <1>5 DEF RunRDMDiscovery
  <2> QED
    BY <1>0, <2>1
<1>6. ASSUME NEW i \in DOMAIN runs, NEW p \in OutputPort, NEW found \in SUBSET UID,
             PortDiscoveryComplete(i, p, found)
      PROVE  KeepsPorts
  <2>1. runs[i].obj \in 1..created
    BY DEF TypeOK
  <2>2. /\ uni' \in [1..created -> UniverseType]
        /\ \A o \in 1..created : uni'[o].ports = uni[o].ports
    BY <1>6, <2>1, ReportFacts DEF PortDiscoveryComplete, Report
  <2> QED
    BY <1>6, <2>2 DEF PortDiscoveryComplete
<1>7. ASSUME NEW p \in OutputPort, NEW found \in SUBSET UID, UpdateUIDs(p, found)
      PROVE  KeepsPorts
  <2>0. UNCHANGED portVars
    BY <1>7 DEF UpdateUIDs
  <2>1. CASE uni' = uni /\ seen' = seen /\ stale' = stale
    BY <1>0, <2>0, <2>1
  <2>2. CASE m_universe[p] \in 1..created /\ Report(m_universe[p], p, found)
    <3>1. /\ uni' \in [1..created -> UniverseType]
          /\ \A o \in 1..created : uni'[o].ports = uni[o].ports
      BY <2>2, ReportFacts DEF Report
    <3> QED
      BY <2>0, <3>1
  <2> QED
    BY <1>7, <2>1, <2>2, UpdateUIDsCases
<1>8. ASSUME NEW due \in SUBSET Listed, RunHousekeeping(due) PROVE KeepsPorts
  <2>1. /\ uni' \in [1..created -> UniverseType]
        /\ \A o \in 1..created : uni'[o].ports = uni[o].ports
    BY <1>8, SweptFacts DEF RunHousekeeping
  <2> QED
    BY <1>8, <2>1 DEF RunHousekeeping
<1>9. CASE UNCHANGED vars
  <2>1. uni' = uni /\ UNCHANGED portVars
    BY <1>9 DEF vars
  <2> QED
    BY <1>0, <2>1
<1> QED
  BY <1>1, <1>2, <1>3, <1>4, <1>5, <1>6, <1>7, <1>8, <1>9
     DEF Next, ForceDiscovery, TriggerRDMDiscovery

LEMMA KeptPorts ==
  ASSUME TypeOK, PortsInv, KeepsPorts
  PROVE  PortsInv'
<1>1. m_universe' = m_universe /\ ports' = ports /\ refused' = refused
  BY DEF KeepsPorts, portVars
<1>2. PortsPointBack'
  <2> SUFFICES ASSUME NEW o \in DOMAIN uni', NEW p \in uni'[o].ports
               PROVE  p \in ports \ refused /\ m_universe[p] = o
    BY <1>1 DEF PortsPointBack
  <2>1. o \in 1..created
    BY DEF KeepsPorts
  <2>2. p \in uni[o].ports /\ o \in DOMAIN uni
    BY <2>1, Numbers DEF KeepsPorts
  <2> QED
    BY <2>2 DEF PortsInv, PortsPointBack
<1>3. PointersListed'
  <2> SUFFICES ASSUME NEW p \in ports \ refused, m_universe[p] # NULL
               PROVE  p \in uni'[m_universe[p]].ports
    BY <1>1 DEF PointersListed
  <2>1. m_universe[p] \in 1..created
    <3>1. p \in Port
      BY DEF TypeOK
    <3> QED
      BY <3>1, Numbers DEF NULL
  <2>2. p \in uni[m_universe[p]].ports
    BY DEF PortsInv, PointersListed
  <2> QED
    BY <2>1, <2>2 DEF KeepsPorts
<1> QED
  BY <1>2, <1>3 DEF PortsInv

\* Ports that leave are in no universe, the others are where they were.
LEMMA UnpatchedPorts ==
  ASSUME TypeOK, PortsInv, NEW some
  PROVE  \A o \in 1..created : \A q : q \in Unpatched(some)[o].ports <=>
           q \in uni[o].ports /\ q \notin some
<1> SUFFICES ASSUME NEW o \in 1..created
             PROVE  \A q : q \in Unpatched(some)[o].ports <=>
                      q \in uni[o].ports /\ q \notin some
  OBVIOUS
<1> DEFINE here == {p \in some \cap uni[o].ports : m_universe[p] = o}
<1>1. Unpatched(some)[o].ports = uni[o].ports \ here
  BY UnpatchedFacts
<1>2. \A q \in uni[o].ports : m_universe[q] = o
  BY Numbers DEF PortsInv, PortsPointBack
<1>3. \A q : q \in here <=> q \in some /\ q \in uni[o].ports
  BY <1>2
<1> HIDE DEF here
<1> QED
  BY <1>1, <1>3

LEMMA PatchPorts ==
  ASSUME TypeOK, PortsInv, NEW p \in Port, NEW u \in Universe, NEW accepts \in BOOLEAN,
         GenericPatchPort(p, u, accepts)
  PROVE  PortsInv'
<1>1. /\ uni' \in [1..created' -> UniverseType]
      /\ GetUniverseOrCreate(u)
  BY PatchedObjects
<1>2. \A o \in 1..created : \A q : q \in uni'[o].ports <=>
        \/ q \in uni[o].ports /\ (q # p \/ m_universe[p] # o)
        \/ q = p /\ o = ObjectOf(u) /\ accepts
  BY PatchedObjects
<1>3. m_universe_map[u] = NULL =>
        \A q : q \in uni'[created + 1].ports <=> q = p /\ accepts
  BY PatchedObjects
<1>4. /\ \A o \in 1..created' : o \in 1..created \/
           (o = created + 1 /\ m_universe_map[u] = NULL /\ o = ObjectOf(u))
      /\ ObjectOf(u) \in 1..created'
  BY <1>1, ObjectOfFacts, Numbers
<1>5. /\ p \in ports
      /\ ports' = ports
      /\ ~accepts => /\ m_universe' = m_universe
                     /\ refused' \subseteq refused \cup {p}
                     /\ refused \subseteq refused'
                     /\ m_universe[p] # NULL => p \in refused'
      /\ accepts => /\ m_universe' = [m_universe EXCEPT ![p] = ObjectOf(u)]
                    /\ refused' = refused \ {p}
  <2>1. CASE accepts
    BY <2>1 DEF GenericPatchPort
  <2>2. CASE ~accepts
    <3>1. /\ p \in ports /\ ports' = ports /\ m_universe' = m_universe
          /\ refused' = IF m_universe[p] # NULL THEN refused \cup {p} ELSE refused
      BY <2>2 DEF GenericPatchPort
    <3> QED
      BY <2>2, <3>1
  <2> QED
    BY <2>1, <2>2
<1>6. \A o \in 1..created : \A q \in uni[o].ports :
        q \in ports /\ q \notin refused /\ m_universe[q] = o
  BY Numbers DEF PortsInv, PortsPointBack
<1>7. m_universe \in [Port -> 0..created] /\ ports \subseteq Port
  BY Numbers DEF TypeOK
<1>8. PortsPointBack'
  <2> SUFFICES ASSUME NEW o \in 1..created', NEW q \in uni'[o].ports
               PROVE  q \in ports' /\ q \notin refused' /\ m_universe'[q] = o
    BY <1>1 DEF PortsPointBack
  <2>1. CASE q = p /\ o = ObjectOf(u) /\ accepts
    BY <1>5, <1>7, <2>1
  <2>2. CASE ~(q = p /\ o = ObjectOf(u) /\ accepts)
    <3>1. o \in 1..created
      BY <1>3, <1>4, <2>2
    <3>2. q \in uni[o].ports /\ (q # p \/ m_universe[p] # o)
      BY <1>2, <2>2, <3>1
    <3>3. q \in ports /\ q \notin refused /\ m_universe[q] = o /\ q # p
      BY <1>6, <3>1, <3>2
    <3>4. q \notin refused' /\ m_universe'[q] = m_universe[q]
      <4>1. CASE accepts
        BY <1>5, <1>7, <3>3, <4>1
      <4>2. CASE ~accepts
        BY <1>5, <3>3, <4>2
      <4> QED
        BY <4>1, <4>2
    <3> QED
      BY <1>5, <3>3, <3>4
  <2> QED
    BY <2>1, <2>2
<1>9. PointersListed'
  <2> SUFFICES ASSUME NEW q \in ports, q \notin refused', m_universe'[q] # NULL
               PROVE  q \in uni'[m_universe'[q]].ports
    BY <1>5 DEF PointersListed
  <2>1. CASE q = p
    <3>1. accepts
      BY <1>5, <2>1
    <3>2. m_universe'[q] = ObjectOf(u)
      BY <1>5, <1>7, <2>1, <3>1
    <3> QED
      BY <1>2, <1>3, <1>4, <2>1, <3>1, <3>2
  <2>2. CASE q # p
    <3>1. m_universe'[q] = m_universe[q] /\ q \notin refused
      <4>1. CASE accepts
        BY <1>5, <1>7, <2>2, <4>1
      <4>2. CASE ~accepts
        BY <1>5, <2>2, <4>2
      <4> QED
        BY <4>1, <4>2
    <3>2. m_universe[q] \in 1..created
      BY <1>7, <3>1 DEF NULL
    <3>3. q \in uni[m_universe[q]].ports
      BY <3>1 DEF PortsInv, PointersListed
    <3> QED
      BY <1>2, <2>2, <3>1, <3>2, <3>3
  <2> QED
    BY <2>1, <2>2
<1> QED
  BY <1>8, <1>9 DEF PortsInv

LEMMA UnPatchPorts ==
  ASSUME TypeOK, PortsInv, NEW p \in Port, GenericUnPatchPort(p)
  PROVE  PortsInv'
<1>1. uni' \in [1..created -> UniverseType]
  BY UnpatchedFacts DEF GenericUnPatchPort
<1>2. \A o \in 1..created : \A q : q \in uni'[o].ports <=> q \in uni[o].ports /\ q # p
  BY UnpatchedPorts DEF GenericUnPatchPort
<1>3. /\ m_universe' = [m_universe EXCEPT ![p] = NULL]
      /\ refused' = refused \ {p}
      /\ ports' = ports /\ ports \subseteq Port
      /\ m_universe \in [Port -> 0..created]
  BY Numbers DEF GenericUnPatchPort, TypeOK
<1>4. PortsPointBack'
  <2> SUFFICES ASSUME NEW o \in 1..created, NEW q \in uni'[o].ports
               PROVE  q \in ports' \ refused' /\ m_universe'[q] = o
    BY <1>1 DEF PortsPointBack
  <2>1. q \in uni[o].ports /\ q # p
    BY <1>2
  <2>2. q \in ports \ refused /\ m_universe[q] = o
    BY <2>1, Numbers DEF PortsInv, PortsPointBack
  <2> QED
    BY <1>3, <2>1, <2>2
<1>5. PointersListed'
  <2> SUFFICES ASSUME NEW q \in ports \ refused', m_universe'[q] # NULL
               PROVE  q \in uni'[m_universe'[q]].ports
    BY <1>3 DEF PointersListed
  <2>1. q # p /\ q \notin refused /\ m_universe'[q] = m_universe[q]
    BY <1>3
  <2>2. m_universe[q] \in 1..created
    BY <1>3, <2>1 DEF NULL
  <2>3. q \in uni[m_universe[q]].ports
    BY <2>1 DEF PortsInv, PointersListed
  <2> QED
    BY <1>2, <2>1, <2>2, <2>3
<1> QED
  BY <1>4, <1>5 DEF PortsInv

LEMMA StopPorts ==
  ASSUME TypeOK, PortsInv, StopDevice
  PROVE  PortsInv'
<1>1. uni' \in [1..created -> UniverseType]
  BY UnpatchedFacts DEF StopDevice
<1>2. \A o \in 1..created : \A q : q \in uni'[o].ports <=> q \in uni[o].ports /\ q \notin ports
  BY UnpatchedPorts DEF StopDevice
<1>3. \A o \in 1..created : \A q : q \notin uni'[o].ports
  BY <1>2, Numbers DEF PortsInv, PortsPointBack
<1>4. ports' = {}
  BY DEF StopDevice
<1> QED
  BY <1>1, <1>3, <1>4 DEF PortsInv, PortsPointBack, PointersListed

LEMMA PortsInit == Init => PortsInv
<1> SUFFICES ASSUME Init PROVE PortsInv
  OBVIOUS
<1>1. uni = << >> /\ \A p \in Port : m_universe[p] = NULL /\ ports = Port
  BY DEF Init
<1>2. DOMAIN uni = {} /\ \A p \in ports : m_universe[p] = NULL
  <2>1. ports = Port
    BY DEF Init
  <2> QED
    BY <1>1, <2>1
<1> QED
  BY <1>2 DEF PortsInv, PortsPointBack, PointersListed

LEMMA PortsNext == TypeOK /\ PortsInv /\ [Next]_vars => PortsInv'
<1> SUFFICES ASSUME TypeOK, PortsInv, [Next]_vars PROVE PortsInv'
  OBVIOUS
<1>1. ASSUME NEW p \in Port, PatchPort(p) PROVE PortsInv'
  BY <1>1, PatchPorts, UnPatchPorts DEF PatchPort
<1>2. CASE StopDevice
  BY <1>2, StopPorts
<1>3. CASE KeepsPorts
  BY <1>3, KeptPorts
<1> QED
  BY <1>1, <1>2, <1>3, OthersKeepPorts

LEMMA PortsCorrect == Spec => [](TypeOK /\ StoreInv /\ PortsInv)
BY StoreCorrect, PortsInit, PortsNext, PTL DEF Spec

\* The pointers that PortManager keeps between ports and universes agree in both
\* directions whatever is patched, unpatched, refused, stopped and collected, and
\* none leads to a collected universe, but for a port that refused a universe
\* after GenericPatchPort had taken it out of its own.
THEOREM PatchingHolds == Spec => []PatchedBothWays
<1>1. TypeOK /\ StoreInv /\ PortsInv => PatchedBothWays
  <2> SUFFICES ASSUME TypeOK, StoreInv, PortsInv PROVE PatchedBothWays
    OBVIOUS
  <2>1. \A o \in Listed : o \in 1..created /\ o \in DOMAIN uni /\ o # NULL
    BY ListedObjects, Numbers DEF Listed
  <2>2. \A o \in Listed : \A p \in uni[o].ports : p \in ports \ refused /\ m_universe[p] = o
    BY <2>1 DEF PortsInv, PortsPointBack
  <2>3. \A p \in ports \ refused : m_universe[p] # NULL => p \in uni[m_universe[p]].ports
    BY DEF PortsInv, PointersListed
  <2>4. ASSUME NEW p \in ports \ refused, m_universe[p] # NULL
        PROVE  m_universe[p] \in Listed
    <3>1. p \in Port
      BY DEF TypeOK
    <3>2. m_universe[p] \in DOMAIN uni
      BY <2>4, <3>1, Numbers DEF NULL
    <3>3. IsActive(uni[m_universe[p]])
      BY <2>3, <2>4 DEF IsActive
    <3> QED
      BY <3>2, <3>3 DEF StoreInv
  <2> QED
    BY <2>1, <2>2, <2>3, <2>4 DEF PatchedBothWays
<1> QED
  BY <1>1, PortsCorrect, PTL

-----------------------------------------------------------------------------
(* The clients.                                                             *)

LEMMA NoMoreClients ==
  ASSUME TypeOK, ClientsConnected, m_clients' = m_clients,
         uni' \in [1..created -> UniverseType],
         \A o \in 1..created : Within(uni'[o], uni[o])
  PROVE  ClientsConnected'
<1>1. DOMAIN uni' = 1..created /\ DOMAIN uni = 1..created
  BY Numbers
<1> QED
  BY <1>1 DEF ClientsConnected, Within

LEMMA SameClients ==
  ASSUME ClientsConnected, m_clients' = m_clients, uni' = uni
  PROVE  ClientsConnected'
BY DEF ClientsConnected

LEMMA NewUniverseClients ==
  ASSUME TypeOK, NEW u \in Universe, NEW o, o.sources = NewUniverse(u).sources
  PROVE  Clients(o) = {}
BY NewUniverseType DEF Clients

LEMMA PatchClients ==
  ASSUME TypeOK, ClientsConnected, NEW p \in Port, NEW u \in Universe,
         NEW accepts \in BOOLEAN, GenericPatchPort(p, u, accepts)
  PROVE  ClientsConnected'
<1>1. /\ uni' \in [1..created' -> UniverseType]
      /\ GetUniverseOrCreate(u)
      /\ \A o \in 1..created : uni'[o].sources = uni[o].sources /\ uni'[o].sinks = uni[o].sinks
      /\ m_universe_map[u] = NULL =>
           /\ uni'[created + 1].sources = NewUniverse(u).sources
           /\ uni'[created + 1].sinks = {}
  BY PatchedObjects
<1>2. \A o \in 1..created' : o \in 1..created \/ (o = created + 1 /\ m_universe_map[u] = NULL)
  BY <1>1, ObjectOfFacts, Numbers
<1>3. m_clients' = m_clients
  BY DEF GenericPatchPort
<1> SUFFICES ASSUME NEW o \in 1..created'
             PROVE  Clients(uni'[o]) \cup uni'[o].sinks \subseteq m_clients
  BY <1>1, <1>3 DEF ClientsConnected
<1>4. CASE o \in 1..created
  BY <1>1, <1>4, Numbers DEF ClientsConnected, Clients
<1>5. CASE o = created + 1 /\ m_universe_map[u] = NULL
  BY <1>1, <1>5, NewUniverseClients
<1> QED
  BY <1>2, <1>4, <1>5

LEMMA RegisterClients ==
  ASSUME TypeOK, ClientsConnected, NEW c \in Client, NEW u \in Universe,
         RegisterForDmx(c, u)
  PROVE  ClientsConnected'
<1>1. /\ uni' \in [1..created' -> UniverseType]
      /\ GetUniverseOrCreate(u)
      /\ \A o \in 1..created : /\ uni'[o].sources = uni[o].sources
                               /\ uni'[o].sinks \subseteq uni[o].sinks \cup {c}
      /\ m_universe_map[u] = NULL =>
           /\ uni'[created + 1].sources = NewUniverse(u).sources
           /\ uni'[created + 1].sinks \subseteq {c}
  BY RegisteredObjects
<1>2. \A o \in 1..created' : o \in 1..created \/ (o = created + 1 /\ m_universe_map[u] = NULL)
  BY <1>1, ObjectOfFacts, Numbers
<1>3. m_clients' = m_clients /\ c \in m_clients
  BY DEF RegisterForDmx
<1> SUFFICES ASSUME NEW o \in 1..created'
             PROVE  Clients(uni'[o]) \cup uni'[o].sinks \subseteq m_clients
  BY <1>1, <1>3 DEF ClientsConnected
<1>4. CASE o \in 1..created
  <2>1. Clients(uni[o]) \cup uni[o].sinks \subseteq m_clients
    BY <1>4, Numbers DEF ClientsConnected
  <2>2. Clients(uni'[o]) = Clients(uni[o])
    BY <1>1, <1>4 DEF Clients
  <2> QED
    BY <1>1, <1>3, <1>4, <2>1, <2>2
<1>5. CASE o = created + 1 /\ m_universe_map[u] = NULL
  <2>1. Clients(uni'[o]) = {}
    BY <1>1, <1>5, NewUniverseClients
  <2> QED
    BY <1>1, <1>3, <1>5, <2>1
<1> QED
  BY <1>2, <1>4, <1>5

LEMMA ClientsInit == Init => ClientsConnected
<1> SUFFICES ASSUME Init PROVE ClientsConnected
  OBVIOUS
<1>1. uni = << >>
  BY DEF Init
<1>2. DOMAIN uni = {}
  BY <1>1
<1> QED
  BY <1>2 DEF ClientsConnected

LEMMA ClientsNext == TypeOK /\ StoreInv /\ ClientsConnected /\ [Next]_vars => ClientsConnected'
<1> SUFFICES ASSUME TypeOK, StoreInv, ClientsConnected, [Next]_vars PROVE ClientsConnected'
  OBVIOUS
<1>1. ASSUME NEW p \in Port, PatchPort(p) PROVE ClientsConnected'
  <2>1. ASSUME NEW u \in Universe, NEW accepts \in BOOLEAN,
         GenericPatchPort(p, u, accepts) PROVE ClientsConnected'
    BY <2>1, PatchClients
  <2>2. CASE GenericUnPatchPort(p)
    BY <2>2, UnpatchedFacts, UnpatchedWithin, NoMoreClients DEF GenericUnPatchPort
  <2> QED
    BY <1>1, <2>1, <2>2 DEF PatchPort
<1>2. CASE StopDevice
  BY <1>2, UnpatchedFacts, UnpatchedWithin, NoMoreClients DEF StopDevice
<1>3. ASSUME NEW c \in Client, NEW u \in Universe, RegisterForDmx(c, u) PROVE ClientsConnected'
  BY <1>3, RegisterClients
<1>4. ASSUME NEW c \in Client, NEW u \in Universe, UpdateDmxData(c, u) PROVE ClientsConnected'
  <2>1. m_clients' = m_clients
    BY <1>4 DEF UpdateDmxData
  <2>2. /\ DOMAIN uni' = 1..created
        /\ c \in m_clients
        /\ \A o \in 1..created : /\ uni'[o].sinks = uni[o].sinks
                                 /\ Clients(uni'[o]) \subseteq Clients(uni[o]) \cup {c}
    BY <1>4, UpdatedObjects
  <2> QED
    BY <2>1, <2>2, Numbers DEF ClientsConnected
<1>5. ASSUME NEW u \in Universe, NEW mode \in ChosenModes, SetMergeMode(u, mode)
      PROVE  ClientsConnected'
  <2>1. m_clients' = m_clients
    BY <1>5 DEF SetMergeMode
  <2>2. /\ uni' \in [1..created -> UniverseType]
        /\ \A o \in 1..created : Within(uni'[o], uni[o])
    BY <1>5, ModedObjects DEF Within, Clients
  <2> QED
    BY <2>1, <2>2, NoMoreClients
<1>6. ASSUME NEW c \in Client, ClientRemoved(c) PROVE ClientsConnected'
  <2>1. m_clients' = m_clients \ {c}
    BY <1>6 DEF ClientRemoved
  <2>2. /\ DOMAIN uni' = 1..created
        /\ \A o \in 1..created :
             /\ o \in Listed => /\ uni'[o].sinks = uni[o].sinks \ {c}
                                /\ Clients(uni'[o]) = Clients(uni[o]) \ {c}
             /\ o \notin Listed => uni'[o] = uni[o]
    BY <1>6, ClientRemovedFacts
  <2>3. \A o \in 1..created : o \notin Listed => Clients(uni[o]) = {} /\ uni[o].sinks = {}
    BY Numbers DEF StoreInv, IsActive
  <2>4. \A o \in 1..created : Clients(uni[o]) \cup uni[o].sinks \subseteq m_clients
    BY Numbers DEF ClientsConnected
  <2>5. ASSUME NEW o \in 1..created
        PROVE  Clients(uni'[o]) \cup uni'[o].sinks \subseteq m_clients'
    <3>1. CASE o \in Listed
      BY <2>1, <2>2, <2>4, <3>1
    <3>2. CASE o \notin Listed
      BY <2>2, <2>3, <3>2
    <3> QED
      BY <3>1, <3>2
  <2> QED
    BY <2>2, <2>5 DEF ClientsConnected
<1>7. ASSUME NEW o, RunRDMDiscovery(o) PROVE ClientsConnected'
  BY <1>7, SameClients DEF RunRDMDiscovery
<1>8. ASSUME NEW i \in DOMAIN runs, NEW p \in OutputPort, NEW found \in SUBSET UID,
             PortDiscoveryComplete(i, p, found)
      PROVE  ClientsConnected'
  <2>1. runs[i].obj \in 1..created
    BY DEF TypeOK
  <2>2. m_clients' = m_clients
    BY <1>8 DEF PortDiscoveryComplete
  <2>3. /\ uni' \in [1..created -> UniverseType]
        /\ \A o \in 1..created : Within(uni'[o], uni[o])
    BY <1>8, <2>1, ReportFacts DEF PortDiscoveryComplete, Report, Within, Clients
  <2> QED
    BY <2>2, <2>3, NoMoreClients
<1>9. ASSUME NEW p \in OutputPort, NEW found \in SUBSET UID, UpdateUIDs(p, found)
      PROVE  ClientsConnected'
  <2>0. m_clients' = m_clients
    BY <1>9 DEF UpdateUIDs
  <2>1. CASE uni' = uni /\ seen' = seen /\ stale' = stale
    BY <2>0, <2>1, SameClients
  <2>2. CASE m_universe[p] \in 1..created /\ Report(m_universe[p], p, found)
    <3>1. /\ uni' \in [1..created -> UniverseType]
          /\ \A o \in 1..created : Within(uni'[o], uni[o])
      BY <2>2, ReportFacts DEF Report, Within, Clients
    <3> QED
      BY <2>0, <3>1, NoMoreClients
  <2> QED
    BY <1>9, <2>1, <2>2, UpdateUIDsCases
<1>10. ASSUME NEW due \in SUBSET Listed, RunHousekeeping(due) PROVE ClientsConnected'
  <2>1. /\ uni' \in [1..created -> UniverseType]
        /\ \A o \in 1..created : Within(uni'[o], uni[o])
    BY <1>10, SweptFacts DEF RunHousekeeping, Within
  <2>2. m_clients' = m_clients
    BY <1>10 DEF RunHousekeeping
  <2> QED
    BY <2>1, <2>2, NoMoreClients
<1>11. CASE UNCHANGED vars
  BY <1>11, SameClients DEF vars
<1> QED
  BY <1>1, <1>2, <1>3, <1>4, <1>5, <1>6, <1>7, <1>8, <1>9, <1>10, <1>11
     DEF Next, ForceDiscovery, TriggerRDMDiscovery

\* ClientRemoved walks the map only: that no universe keeps a deleted client
\* needs the universes outside the map to have none, which StoreInv gives.
THEOREM ClientsForgotten == Spec => []RemovedClientsForgotten
<1>1. Spec => [](TypeOK /\ StoreInv /\ ClientsConnected)
  BY StoreCorrect, ClientsInit, ClientsNext, PTL DEF Spec
<1>2. TypeOK /\ StoreInv /\ ClientsConnected => RemovedClientsForgotten
  BY ListedObjects, Numbers DEF RemovedClientsForgotten, ClientsConnected
<1> QED
  BY <1>1, <1>2, PTL

-----------------------------------------------------------------------------
(* The settings.                                                            *)

LEMMA ListedModes ==
  ASSUME TypeOK, NEW u \in Universe, m_universe_map[u] # NULL
  PROVE  m_universe_map[u] \in 1..created /\ uni[m_universe_map[u]].mode \in Mode
<1>1. m_universe_map[u] \in 1..created
  BY Numbers DEF NULL
<1> QED
  BY <1>1, Numbers DEF UniverseType

LEMMA SameModes ==
  ASSUME TypeOK, SettingsSurvive, UNCHANGED <<storeVars, chosen>>,
         \A o \in 1..created : uni'[o].mode = uni[o].mode
  PROVE  SettingsSurvive'
<1>1. /\ m_universe_map' = m_universe_map
      /\ m_preferences' = m_preferences
      /\ chosen' = chosen
  BY DEF storeVars
<1>2. \A u \in Universe : m_universe_map[u] # NULL =>
        uni'[m_universe_map[u]].mode = uni[m_universe_map[u]].mode
  BY ListedModes
<1> QED
  BY <1>1, <1>2 DEF SettingsSurvive

\* What was saved is restored.
LEMMA RestoredChosen ==
  ASSUME TypeOK, SettingsSurvive, NEW u \in Universe, m_universe_map[u] = NULL
  PROVE  RestoredMode(u) = chosen[u]
<1>1. chosen[u] \in {"LTP", "HTP"}
  BY DEF TypeOK, Mode
<1>2. m_preferences[u] = chosen[u] \/ (m_preferences[u] = "" /\ chosen[u] = "LTP")
  BY DEF SettingsSurvive
<1> QED
  BY <1>1, <1>2 DEF RestoredMode

LEMMA GrownSettings ==
  ASSUME TypeOK, SettingsSurvive, NEW u \in Universe, GetUniverseOrCreate(u),
         \A o \in 1..created : uni'[o].mode = uni[o].mode,
         m_universe_map[u] = NULL => uni'[created + 1].mode = RestoredMode(u),
         chosen' = chosen
  PROVE  SettingsSurvive'
<1>1. /\ m_universe_map' = [m_universe_map EXCEPT ![u] = ObjectOf(u)]
      /\ m_universe_map \in [Universe -> 0..created]
      /\ m_preferences' = m_preferences
      /\ m_universe_map[u] # NULL => ObjectOf(u) = m_universe_map[u]
      /\ m_universe_map[u] = NULL => ObjectOf(u) = created + 1
      /\ created \in Nat
  BY ObjectOfFacts, Numbers
<1>2. ASSUME NEW v \in Universe, m_universe_map[v] # NULL
      PROVE  /\ m_universe_map'[v] = m_universe_map[v]
             /\ uni'[m_universe_map[v]].mode = chosen[v]
  <2>1. m_universe_map'[v] = m_universe_map[v]
    BY <1>1, <1>2
  <2>2. uni[m_universe_map[v]].mode = chosen[v]
    BY <1>2 DEF SettingsSurvive
  <2> QED
    BY <1>2, <2>1, <2>2, ListedModes
<1>3. ASSUME NEW v \in Universe, m_universe_map[v] = NULL, v # u
      PROVE  m_universe_map'[v] = NULL
  BY <1>1, <1>3
<1>4. ASSUME m_universe_map[u] = NULL
      PROVE  m_universe_map'[u] = created + 1 /\ uni'[created + 1].mode = chosen[u]
  BY <1>1, <1>4, RestoredChosen
<1>5. created + 1 # NULL
  BY <1>1 DEF NULL
<1> SUFFICES ASSUME NEW v \in Universe
             PROVE  IF m_universe_map'[v] # NULL
                    THEN uni'[m_universe_map'[v]].mode = chosen[v]
                    ELSE \/ m_preferences[v] = chosen[v]
                         \/ m_preferences[v] = "" /\ chosen[v] = "LTP"
  BY <1>1 DEF SettingsSurvive
<1>6. CASE m_universe_map[v] # NULL
  BY <1>2, <1>6
<1>7. CASE m_universe_map[v] = NULL /\ v # u
  BY <1>3, <1>7 DEF SettingsSurvive
<1>8. CASE m_universe_map[v] = NULL /\ v = u
  BY <1>4, <1>5, <1>8
<1> QED
  BY <1>6, <1>7, <1>8

LEMMA SetModeSettings ==
  ASSUME TypeOK, StoreInv, SettingsSurvive, NEW u \in Universe,
         NEW mode \in ChosenModes, SetMergeMode(u, mode)
  PROVE  SettingsSurvive'
<1>1. /\ m_universe_map' = m_universe_map
      /\ m_preferences' = m_preferences
      /\ chosen' = [chosen EXCEPT ![u] = mode]
      /\ m_universe_map[u] # NULL
      /\ chosen \in [Universe -> Mode]
  BY DEF SetMergeMode, storeVars, TypeOK
<1>2. /\ uni'[m_universe_map[u]].mode = mode
      /\ \A o \in 1..created : o # m_universe_map[u] => uni'[o] = uni[o]
  BY ModedObjects
<1> SUFFICES ASSUME NEW v \in Universe
             PROVE  IF m_universe_map[v] # NULL
                    THEN uni'[m_universe_map[v]].mode = chosen'[v]
                    ELSE \/ m_preferences[v] = chosen'[v]
                         \/ m_preferences[v] = "" /\ chosen'[v] = "LTP"
  BY <1>1 DEF SettingsSurvive
<1>3. CASE v = u
  BY <1>1, <1>2, <1>3
<1>4. CASE v # u
  <2>1. chosen'[v] = chosen[v]
    BY <1>1, <1>4
  <2>2. CASE m_universe_map[v] # NULL
    <3>1. m_universe_map[v] # m_universe_map[u]
      BY <1>1, <1>4, <2>2 DEF StoreInv
    <3>2. uni'[m_universe_map[v]] = uni[m_universe_map[v]]
      BY <1>2, <2>2, <3>1, ListedModes
    <3> QED
      BY <2>1, <2>2, <3>2 DEF SettingsSurvive
  <2>3. CASE m_universe_map[v] = NULL
    BY <2>1, <2>3 DEF SettingsSurvive
  <2> QED
    BY <2>2, <2>3
<1> QED
  BY <1>3, <1>4

LEMMA HousekeepingSettings ==
  ASSUME TypeOK, StoreInv, SettingsSurvive, NEW due \in SUBSET Listed, RunHousekeeping(due)
  PROVE  SettingsSurvive'
<1>1. /\ GarbageCollectUniverses
      /\ uni' = Swept
      /\ chosen' = chosen
  BY DEF RunHousekeeping
<1>2. Garbage \subseteq Listed
  BY <1>1, CollectedListed
<1> SUFFICES ASSUME NEW u \in Universe
             PROVE  IF m_universe_map'[u] # NULL
                    THEN uni'[m_universe_map'[u]].mode = chosen[u]
                    ELSE \/ m_preferences'[u] = chosen[u]
                         \/ m_preferences'[u] = "" /\ chosen[u] = "LTP"
  BY <1>1 DEF SettingsSurvive
<1>3. CASE \E o \in Garbage : uni[o].id = u
  <2> DEFINE g == CHOOSE o \in Garbage : uni[o].id = u
  <2>1. g \in Garbage /\ uni[g].id = u
    BY <1>3
  <2>2. m_universe_map'[u] = NULL /\ m_preferences'[u] = SavedMode(uni[g])
    BY <1>1, <1>3 DEF GarbageCollectUniverses
  <2> HIDE DEF g
  <2>3. m_universe_map[u] = g /\ g # NULL
    BY <1>2, <2>1, ListedOwn DEF Listed
  <2>4. uni[g].mode = chosen[u] /\ uni[g].mode \in Mode
    BY <2>3, ListedModes DEF SettingsSurvive
  <2>5. SavedMode(uni[g]) = chosen[u]
    BY <2>4 DEF SavedMode, Mode
  <2> QED
    BY <2>2, <2>5
<1>4. CASE ~ \E o \in Garbage : uni[o].id = u
  <2>1. m_universe_map'[u] = m_universe_map[u] /\ m_preferences'[u] = m_preferences[u]
    BY <1>1, <1>4 DEF GarbageCollectUniverses
  <2>2. CASE m_universe_map[u] # NULL
    <3>1. uni'[m_universe_map[u]].mode = uni[m_universe_map[u]].mode
      BY <1>1, <2>2, ListedModes, SweptFacts
    <3> QED
      BY <2>1, <2>2, <3>1 DEF SettingsSurvive
  <2>3. CASE m_universe_map[u] = NULL
    BY <2>1, <2>3 DEF SettingsSurvive
  <2> QED
    BY <2>2, <2>3
<1> QED
  BY <1>3, <1>4

LEMMA SettingsInit == Init => SettingsSurvive
BY ZenonT(30) DEF Init, SettingsSurvive

LEMMA SettingsNext == TypeOK /\ StoreInv /\ SettingsSurvive /\ [Next]_vars => SettingsSurvive'
<1> SUFFICES ASSUME TypeOK, StoreInv, SettingsSurvive, [Next]_vars PROVE SettingsSurvive'
  OBVIOUS
<1>1. ASSUME NEW p \in Port, PatchPort(p) PROVE SettingsSurvive'
  <2>1. ASSUME NEW u \in Universe, NEW accepts \in BOOLEAN,
         GenericPatchPort(p, u, accepts) PROVE SettingsSurvive'
    <3>1. /\ GetUniverseOrCreate(u)
          /\ \A o \in 1..created : uni'[o].mode = uni[o].mode
          /\ m_universe_map[u] = NULL => uni'[created + 1].mode = RestoredMode(u)
      BY <2>1, PatchedObjects
    <3>2. chosen' = chosen
      BY <2>1 DEF GenericPatchPort
    <3> QED
      BY <3>1, <3>2, GrownSettings
  <2>2. CASE GenericUnPatchPort(p)
    BY <2>2, UnpatchedFacts, SameModes DEF GenericUnPatchPort
  <2> QED
    BY <1>1, <2>1, <2>2 DEF PatchPort
<1>2. CASE StopDevice
  BY <1>2, UnpatchedFacts, SameModes DEF StopDevice
<1>3. ASSUME NEW c \in Client, NEW u \in Universe, RegisterForDmx(c, u) PROVE SettingsSurvive'
  <2>1. /\ GetUniverseOrCreate(u)
        /\ \A o \in 1..created : uni'[o].mode = uni[o].mode
        /\ m_universe_map[u] = NULL => uni'[created + 1].mode = RestoredMode(u)
    BY <1>3, RegisteredObjects
  <2>2. chosen' = chosen
    BY <1>3 DEF RegisterForDmx
  <2> QED
    BY <2>1, <2>2, GrownSettings
<1>4. ASSUME NEW c \in Client, NEW u \in Universe, UpdateDmxData(c, u) PROVE SettingsSurvive'
  <2>1. \A o \in 1..created : uni'[o].mode = uni[o].mode
    BY <1>4, UpdatedObjects
  <2> QED
    BY <1>4, <2>1, SameModes DEF UpdateDmxData
<1>5. ASSUME NEW u \in Universe, NEW mode \in ChosenModes, SetMergeMode(u, mode)
      PROVE  SettingsSurvive'
  BY <1>5, SetModeSettings
<1>6. ASSUME NEW c \in Client, ClientRemoved(c) PROVE SettingsSurvive'
  <2>1. \A o \in 1..created : uni'[o].mode = uni[o].mode
    BY <1>6, ClientRemovedFacts
  <2> QED
    BY <1>6, <2>1, SameModes DEF ClientRemoved
<1>7. ASSUME NEW o, RunRDMDiscovery(o) PROVE SettingsSurvive'
  BY <1>7, SameModes DEF RunRDMDiscovery
<1>8. ASSUME NEW i \in DOMAIN runs, NEW p \in OutputPort, NEW found \in SUBSET UID,
             PortDiscoveryComplete(i, p, found)
      PROVE  SettingsSurvive'
  <2>1. runs[i].obj \in 1..created
    BY DEF TypeOK
  <2>2. \A o \in 1..created : uni'[o].mode = uni[o].mode
    BY <1>8, <2>1, ReportFacts DEF PortDiscoveryComplete, Report
  <2> QED
    BY <1>8, <2>2, SameModes DEF PortDiscoveryComplete
<1>9. ASSUME NEW p \in OutputPort, NEW found \in SUBSET UID, UpdateUIDs(p, found)
      PROVE  SettingsSurvive'
  <2>1. \A o \in 1..created : uni'[o].mode = uni[o].mode
    <3>1. CASE uni' = uni /\ seen' = seen /\ stale' = stale
      BY <3>1
    <3>2. CASE m_universe[p] \in 1..created /\ Report(m_universe[p], p, found)
      BY <3>2, ReportFacts DEF Report
    <3> QED
      BY <1>9, <3>1, <3>2, UpdateUIDsCases
  <2> QED
    BY <1>9, <2>1, SameModes DEF UpdateUIDs
<1>10. ASSUME NEW due \in SUBSET Listed, RunHousekeeping(due) PROVE SettingsSurvive'
  BY <1>10, HousekeepingSettings
<1>11. CASE UNCHANGED vars
  BY <1>11, SameModes DEF vars
<1> QED
  BY <1>1, <1>2, <1>3, <1>4, <1>5, <1>6, <1>7, <1>8, <1>9, <1>10, <1>11
     DEF Next, ForceDiscovery, TriggerRDMDiscovery

\* A universe that is collected and created again comes back with the merge mode
\* that was last chosen for it, any number of times.
THEOREM SettingsKept == Spec => []SettingsSurvive
BY StoreCorrect, SettingsInit, SettingsNext, PTL DEF Spec

-----------------------------------------------------------------------------
(* Discovery, wherever the ports are by the time it ends.                   *)

\* What leaves, and what the two histories make of it.
LEMMA LeaveFacts ==
  ASSUME TypeOK, NEW some, Leave(some)
  PROVE  /\ \A o \in 1..created : \A q :
              q \in some /\ q \in uni[o].ports /\ m_universe[q] = o
                => <<o, q>> \in Leaving(some)
         /\ \A o, q : <<o, q>> \in Leaving(some)
              => q \in some /\ m_universe[q] = o /\ q \in uni[o].ports
         /\ \A o, q : <<o, q>> \in stale /\ <<o, q>> \notin Leaving(some)
              => <<o, q>> \in stale'
         /\ departed \subseteq departed'
         /\ \A i \in DOMAIN runs : \A q \in OutputPort :
              q \in runs[i].waiting /\ <<runs[i].obj, q>> \in Leaving(some)
                => <<i, q>> \in departed'
<1>1. \A o \in 1..created : \A q :
        q \in some /\ q \in uni[o].ports /\ m_universe[q] = o => <<o, q>> \in Leaving(some)
  <2> SUFFICES ASSUME NEW o \in 1..created, NEW q, q \in some, q \in uni[o].ports,
                      m_universe[q] = o
               PROVE  <<o, q>> \in Leaving(some)
    OBVIOUS
  <2>1. o # NULL
    BY Numbers DEF NULL
  <2> QED
    BY <2>1 DEF Leaving
<1>2. \A o, q : <<o, q>> \in Leaving(some)
        => q \in some /\ m_universe[q] = o /\ q \in uni[o].ports
  BY DEF Leaving
<1>3. stale' = stale \ Leaving(some)
  BY DEF Leave
<1>4. departed' = departed \cup {e \in (DOMAIN runs) \X OutputPort :
                         /\ e[2] \in runs[e[1]].waiting
                         /\ <<runs[e[1]].obj, e[2]>> \in Leaving(some)}
  BY DEF Leave
<1>5. \A i \in DOMAIN runs : \A q \in OutputPort :
        q \in runs[i].waiting /\ <<runs[i].obj, q>> \in Leaving(some)
          => <<i, q>> \in departed'
  BY <1>4
<1> QED
  BY <1>1, <1>2, <1>3, <1>4, <1>5

\* A step that moves no port starts runs on the ports that an object has, and
\* ends discoveries.
LEMMA RunsStep ==
  ASSUME TypeOK, WaitingStay, [Next]_vars, KeepsPorts,
         ~ \E p \in Port : PatchPort(p), ~StopDevice
  PROVE  \A i \in DOMAIN runs' :
           /\ runs'[i].obj \in 1..created
           /\ \A p \in runs'[i].waiting :
                p \in uni[runs'[i].obj].ports \/ <<i, p>> \in departed'
<1>0. \A i \in DOMAIN runs :
        /\ runs[i].obj \in 1..created
        /\ \A p \in runs[i].waiting :
             p \in uni[runs[i].obj].ports \/ <<i, p>> \in departed
  BY DEF TypeOK, WaitingStay
<1> DEFINE P == \A i \in DOMAIN runs' :
                  /\ runs'[i].obj \in 1..created
                  /\ \A p \in runs'[i].waiting :
                       p \in uni[runs'[i].obj].ports \/ <<i, p>> \in departed'
<1>1. ASSUME UNCHANGED <<runs, departed>> PROVE P
  BY <1>0, <1>1
<1>2. ASSUME NEW o \in 1..created, RunRDMDiscovery(o) PROVE P
  <2>1. runs' = Append(runs, Run(o)) /\ departed' = departed
    BY <1>2 DEF RunRDMDiscovery
  <2>2. /\ DOMAIN runs' = 1..Len(runs) + 1
        /\ DOMAIN runs = 1..Len(runs)
        /\ Len(runs) \in Nat
        /\ \A i \in DOMAIN runs : runs'[i] = runs[i]
        /\ runs'[Len(runs) + 1] = Run(o)
    BY <2>1, RunsAppended
  <2>3. \A i \in DOMAIN runs' : i \in DOMAIN runs \/ i = Len(runs) + 1
    BY <2>2
  <2>4. Run(o).obj = o /\ Run(o).waiting \subseteq uni[o].ports
    BY RunFacts
  <2> QED
    BY <1>0, <2>1, <2>2, <2>3, <2>4
<1>3. ASSUME NEW i \in DOMAIN runs, NEW p \in OutputPort, NEW found \in SUBSET UID,
             PortDiscoveryComplete(i, p, found)
      PROVE  P
  <2>1. runs' = [runs EXCEPT ![i] = Answer(@, p)] /\ departed' = departed \ {<<i, p>>}
    BY <1>3 DEF PortDiscoveryComplete
  <2>2. /\ DOMAIN runs' = DOMAIN runs
        /\ \A j \in DOMAIN runs : runs'[j].obj = runs[j].obj
        /\ \A j \in DOMAIN runs : runs'[j].waiting \subseteq runs[j].waiting
        /\ p \notin runs'[i].waiting
    BY <2>1, RunsAnswered
  <2> SUFFICES ASSUME NEW j \in DOMAIN runs, NEW q \in runs'[j].waiting
               PROVE  q \in uni[runs[j].obj].ports \/ <<j, q>> \in departed'
    BY <1>0, <2>2
  <2>3. q \in uni[runs[j].obj].ports \/ <<j, q>> \in departed
    BY <1>0, <2>2
  <2>4. ~(j = i /\ q = p)
    BY <2>2
  <2>5. <<j, q>> # <<i, p>>
    BY <2>4
  <2> QED
    BY <2>1, <2>3, <2>5
<1>4. ASSUME NEW p \in OutputPort, NEW found \in SUBSET UID, UpdateUIDs(p, found) PROVE P
  <2>1. UNCHANGED <<runs, departed>>
    BY <1>4 DEF UpdateUIDs
  <2> QED
    BY <1>1, <2>1
<1>5. ASSUME NEW due \in SUBSET Listed, RunHousekeeping(due) PROVE P
  <2>1. departed' = departed
    BY <1>5 DEF RunHousekeeping
  <2>2. /\ \A i \in DOMAIN runs : runs'[i] = runs[i]
        /\ \A i \in DOMAIN runs' \ DOMAIN runs : \E o \in due : runs'[i] = Run(o)
    BY <1>5, RunsStarted
  <2>3. \A o \in due : /\ Run(o).obj \in 1..created
                       /\ Run(o).waiting \subseteq uni[Run(o).obj].ports
    BY ListedObjects, RunFacts
  <2> QED
    BY <1>0, <2>1, <2>2, <2>3
<1>6. ASSUME NEW c \in Client, NEW u \in Universe,
             RegisterForDmx(c, u) \/ UpdateDmxData(c, u)
      PROVE  UNCHANGED <<runs, departed>>
  BY <1>6 DEF RegisterForDmx, UpdateDmxData, discoveryVars
<1>7. ASSUME NEW u \in Universe, NEW mode \in ChosenModes, SetMergeMode(u, mode)
      PROVE  UNCHANGED <<runs, departed>>
  BY <1>7 DEF SetMergeMode, discoveryVars
<1>8. ASSUME NEW c \in Client, ClientRemoved(c) PROVE UNCHANGED <<runs, departed>>
  BY <1>8 DEF ClientRemoved, discoveryVars
<1>9. ASSUME UNCHANGED vars PROVE UNCHANGED <<runs, departed>>
  BY <1>9 DEF vars, discoveryVars
<1>10. ASSUME NEW u \in Universe, ForceDiscovery(u) PROVE P
  BY <1>2, <1>10, ForcedObject
<1>11. ASSUME NEW p \in InputPort, TriggerRDMDiscovery(p) PROVE P
  BY <1>2, <1>11, TriggeredObject
<1> HIDE DEF P
<1>12. P
  BY <1>1, <1>3, <1>4, <1>5, <1>6, <1>7, <1>8, <1>9, <1>10, <1>11 DEF Next
<1> QED
  BY <1>12 DEF P

LEMMA KeptWaiting ==
  ASSUME TypeOK, WaitingStay, [Next]_vars, KeepsPorts,
         ~ \E p \in Port : PatchPort(p), ~StopDevice
  PROVE  WaitingStay'
<1>1. \A i \in DOMAIN runs' :
        /\ runs'[i].obj \in 1..created
        /\ \A p \in runs'[i].waiting :
             p \in uni[runs'[i].obj].ports \/ <<i, p>> \in departed'
  BY RunsStep
<1>2. \A o \in 1..created : uni'[o].ports = uni[o].ports
  BY DEF KeepsPorts
<1> QED
  BY <1>1, <1>2 DEF WaitingStay

\* Some ports leave their universes, and the history says so.
LEMMA MovedWaiting ==
  ASSUME TypeOK, WaitingStay, NEW some, Leave(some), runs' = runs,
         \A o \in 1..created : \A q \in uni[o].ports :
           q \in uni'[o].ports \/ (q \in some /\ m_universe[q] = o)
  PROVE  WaitingStay'
<1> SUFFICES ASSUME NEW i \in DOMAIN runs, NEW q \in runs[i].waiting
             PROVE  q \in uni'[runs[i].obj].ports \/ <<i, q>> \in departed'
  BY DEF WaitingStay
<1>1. runs[i].obj \in 1..created
  BY DEF TypeOK
<1>2. q \in OutputPort
  <2>1. runs \in Seq(RunType)
    BY DEF TypeOK
  <2> HIDE DEF RunType
  <2>2. runs[i] \in RunType
    BY <2>1
  <2> QED
    BY <2>2 DEF RunType
<1>3. CASE <<i, q>> \in departed
  BY <1>3, LeaveFacts
<1>4. CASE q \in uni[runs[i].obj].ports
  <2>1. CASE q \in uni'[runs[i].obj].ports
    BY <2>1
  <2>2. CASE q \in some /\ m_universe[q] = runs[i].obj
    <3>1. <<runs[i].obj, q>> \in Leaving(some)
      BY <1>1, <1>4, <2>2, LeaveFacts
    <3> QED
      BY <1>2, <3>1, LeaveFacts
  <2> QED
    BY <1>1, <1>4, <2>1, <2>2
<1> QED
  BY <1>3, <1>4 DEF WaitingStay

LEMMA PatchWaiting ==
  ASSUME TypeOK, WaitingStay, NEW p \in Port, NEW u \in Universe, NEW accepts \in BOOLEAN,
         GenericPatchPort(p, u, accepts)
  PROVE  WaitingStay'
<1>1. \A o \in 1..created : \A q : q \in uni'[o].ports <=>
        \/ q \in uni[o].ports /\ (q # p \/ m_universe[p] # o)
        \/ q = p /\ o = ObjectOf(u) /\ accepts
  BY PatchedObjects
<1>2. \A o \in 1..created : \A q \in uni[o].ports :
        q \in uni'[o].ports \/ (q \in {p} /\ m_universe[q] = o)
  BY <1>1
<1>3. Leave({p}) /\ runs' = runs
  BY DEF GenericPatchPort, DiscoverOnPatch
<1> QED
  BY <1>2, <1>3, MovedWaiting

LEMMA UnpatchedWaiting ==
  ASSUME TypeOK, PortsInv, WaitingStay, NEW some, Leave(some), uni' = Unpatched(some),
         runs' = runs
  PROVE  WaitingStay'
<1>1. \A o \in 1..created : \A q : q \in uni'[o].ports <=> q \in uni[o].ports /\ q \notin some
  BY UnpatchedPorts
<1>2. \A o \in 1..created : \A q \in uni[o].ports : m_universe[q] = o
  BY Numbers DEF PortsInv, PortsPointBack
<1>3. \A o \in 1..created : \A q \in uni[o].ports :
        q \in uni'[o].ports \/ (q \in some /\ m_universe[q] = o)
  BY <1>1, <1>2
<1> QED
  BY <1>3, MovedWaiting

LEMMA WaitingInit == Init => WaitingStay
<1> SUFFICES ASSUME Init PROVE WaitingStay
  OBVIOUS
<1>1. runs = << >>
  BY DEF Init
<1>2. DOMAIN runs = {}
  BY <1>1
<1> QED
  BY <1>2 DEF WaitingStay

LEMMA WaitingNext == TypeOK /\ PortsInv /\ WaitingStay /\ [Next]_vars => WaitingStay'
<1> SUFFICES ASSUME TypeOK, PortsInv, WaitingStay, [Next]_vars PROVE WaitingStay'
  OBVIOUS
<1>1. ASSUME NEW p \in Port, PatchPort(p) PROVE WaitingStay'
  <2>1. ASSUME NEW u \in Universe, NEW accepts \in BOOLEAN, GenericPatchPort(p, u, accepts)
        PROVE  WaitingStay'
    BY <2>1, PatchWaiting
  <2>2. CASE GenericUnPatchPort(p)
    BY <2>2, UnpatchedWaiting DEF GenericUnPatchPort, DiscoverOnPatch
  <2> QED
    BY <1>1, <2>1, <2>2 DEF PatchPort
<1>2. CASE StopDevice
  BY <1>2, UnpatchedWaiting DEF StopDevice
<1>3. CASE KeepsPorts /\ ~StopDevice /\ ~ \E p \in Port : PatchPort(p)
  BY <1>3, KeptWaiting
<1> QED
  BY <1>1, <1>2, <1>3, OthersKeepPorts

LEMMA WaitingCorrect == Spec => [](TypeOK /\ StoreInv /\ PortsInv /\ WaitingStay)
BY PortsCorrect, WaitingInit, WaitingNext, PTL DEF Spec

\* PortDiscoveryComplete is bound to a universe that RunRDMDiscovery does not
\* keep alive: its ports do.  Whatever is patched, stopped and collected, the
\* universe is there for the answer of every port that has not left it since the
\* discovery began; only a port that has left can answer into a deleted one.
THEOREM CallbacksHold == Spec => []NoCallbackToDeleted
<1>1. TypeOK /\ StoreInv /\ WaitingStay => NoCallbackToDeleted
  <2> SUFFICES ASSUME TypeOK, StoreInv, WaitingStay,
                      NEW i \in DOMAIN runs, runs[i].obj \in deleted,
                      NEW p \in runs[i].waiting, <<i, p>> \notin departed
               PROVE  FALSE
    BY DEF NoCallbackToDeleted
  <2>1. runs[i].obj \in DOMAIN uni
    BY DEF TypeOK
  <2>2. IsActive(uni[runs[i].obj])
    BY DEF WaitingStay, IsActive
  <2> QED
    BY <2>1, <2>2 DEF StoreInv
<1> QED
  BY <1>1, WaitingCorrect, PTL

\* An object whose UID table and ports stay.
LEMMA SameRoutes ==
  ASSUME TypeOK, RoutesCurrent, seen' = seen, stale' = stale,
         \A o \in 1..created : uni'[o].ports = uni[o].ports /\ uni'[o].uids = uni[o].uids,
         \A o \in DOMAIN uni' : o \in 1..created \/ \A x \in UID : uni'[o].uids[x] = NoPort
  PROVE  RoutesCurrent'
<1> SUFFICES ASSUME NEW o \in DOMAIN uni', NEW x \in UID, uni'[o].uids[x] # NoPort
             PROVE  RouteOK(o, uni[o].uids[x], x)'
  BY DEF RoutesCurrent
<1>1. o \in 1..created /\ o \in DOMAIN uni
  BY Numbers
<1>2. uni'[o].ports = uni[o].ports /\ uni'[o].uids = uni[o].uids
  BY <1>1
<1>3. RouteOK(o, uni[o].uids[x], x)
  BY <1>1, <1>2 DEF RoutesCurrent
<1> QED
  BY <1>2, <1>3 DEF RouteOK

\* The routes of an object, one at a time.
LEMMA RouteFacts ==
  ASSUME TypeOK, PortsInv, RoutesCurrent, NEW o \in 1..created, NEW x \in UID,
         uni[o].uids[x] # NoPort
  PROVE  /\ uni[o].uids[x] \in OutputPort
         /\ \/ /\ uni[o].uids[x] \in uni[o].ports
               /\ m_universe[uni[o].uids[x]] = o
               /\ x \in seen[uni[o].uids[x]]
            \/ <<o, uni[o].uids[x]>> \in stale
<1>1. o \in DOMAIN uni /\ uni[o] \in UniverseType
  BY Numbers
<1>2. uni[o].uids[x] \in OutputPort \cup {NoPort}
  BY <1>1 DEF UniverseType
<1>3. RouteOK(o, uni[o].uids[x], x)
  BY <1>1 DEF RoutesCurrent
<1> QED
  BY <1>1, <1>2, <1>3 DEF PortsInv, PortsPointBack, RouteOK

LEMMA PatchRoutes ==
  ASSUME TypeOK, PortsInv, RoutesCurrent, NEW p \in Port, NEW u \in Universe,
         NEW accepts \in BOOLEAN, GenericPatchPort(p, u, accepts)
  PROVE  RoutesCurrent'
<1>1. /\ uni' \in [1..created' -> UniverseType]
      /\ GetUniverseOrCreate(u)
  BY PatchedObjects
<1>2. \A o \in 1..created : \A q : q \in uni'[o].ports <=>
        \/ q \in uni[o].ports /\ (q # p \/ m_universe[p] # o)
        \/ q = p /\ o = ObjectOf(u) /\ accepts
  BY PatchedObjects
<1>3. \A o \in 1..created : \A x \in UID : uni'[o].uids[x] =
        IF p \in uni[o].ports /\ m_universe[p] = o /\ uni[o].uids[x] = p
        THEN NoPort ELSE uni[o].uids[x]
  BY PatchedObjects
<1>4. m_universe_map[u] = NULL => \A x \in UID : uni'[created + 1].uids[x] = NoPort
  BY PatchedObjects
<1>5. \A o \in 1..created' : o \in 1..created \/
        (o = created + 1 /\ m_universe_map[u] = NULL)
  BY <1>1, ObjectOfFacts, Numbers
<1>6. Leave({p}) /\ (seen' = seen \/ seen' = [seen EXCEPT ![p] = {}])
  BY DEF GenericPatchPort, DiscoverOnPatch
<1>7. seen \in [OutputPort -> SUBSET UID]
  BY DEF TypeOK
<1> SUFFICES ASSUME NEW o \in 1..created', NEW x \in UID, uni'[o].uids[x] # NoPort
             PROVE  RouteOK(o, uni[o].uids[x], x)'
  BY <1>1 DEF RoutesCurrent
<1>8. o \in 1..created
  BY <1>4, <1>5
<1>9. /\ uni'[o].uids[x] = uni[o].uids[x]
      /\ ~(p \in uni[o].ports /\ m_universe[p] = o /\ uni[o].uids[x] = p)
  BY <1>3, <1>8
<1> DEFINE q == uni[o].uids[x]
<1>10. /\ q \in OutputPort
       /\ \/ q \in uni[o].ports /\ m_universe[q] = o /\ x \in seen[q]
          \/ <<o, q>> \in stale
  BY <1>8, <1>9, RouteFacts
<1>11. CASE q \in uni[o].ports /\ m_universe[q] = o /\ x \in seen[q]
  <2>1. q # p
    BY <1>9, <1>11
  <2> HIDE DEF q
  <2>2. q \in uni'[o].ports /\ seen'[q] = seen[q]
    BY <1>2, <1>6, <1>7, <1>8, <1>10, <1>11, <2>1
  <2> QED
    BY <1>9, <1>11, <2>2 DEF q, RouteOK
<1>12. CASE <<o, q>> \in stale
  <2>1. <<o, q>> \notin Leaving({p})
    BY <1>6, <1>9, LeaveFacts
  <2>2. <<o, q>> \in stale'
    BY <1>6, <1>12, <2>1, LeaveFacts
  <2> QED
    BY <1>9, <2>2 DEF RouteOK
<1> QED
  BY <1>10, <1>11, <1>12

\* Some ports leave, and of the others the latest reports stay.
LEMMA UnpatchedRoutes ==
  ASSUME TypeOK, PortsInv, RoutesCurrent, NEW some, uni' = Unpatched(some), Leave(some),
         \A q \in OutputPort : q \notin some => seen'[q] = seen[q]
  PROVE  RoutesCurrent'
<1>1. uni' \in [1..created -> UniverseType]
  BY UnpatchedFacts
<1>2. \A o \in 1..created : \A q : q \in uni'[o].ports <=> q \in uni[o].ports /\ q \notin some
  BY UnpatchedPorts
<1> SUFFICES ASSUME NEW o \in 1..created, NEW x \in UID, uni'[o].uids[x] # NoPort
             PROVE  RouteOK(o, uni[o].uids[x], x)'
  BY <1>1 DEF RoutesCurrent
<1> DEFINE here == {p \in some \cap uni[o].ports : m_universe[p] = o}
           q == uni[o].uids[x]
<1>3. uni'[o].uids[x] = IF q \in here THEN NoPort ELSE q
  BY UnpatchedFacts
<1>4. q \notin here /\ uni'[o].uids[x] = q /\ q # NoPort
  BY <1>3
<1>5. /\ q \in OutputPort
      /\ \/ q \in uni[o].ports /\ m_universe[q] = o /\ x \in seen[q]
         \/ <<o, q>> \in stale
  BY <1>4, RouteFacts
<1>6. CASE q \in uni[o].ports /\ m_universe[q] = o /\ x \in seen[q]
  <2>1. q \notin some
    BY <1>4, <1>6
  <2> HIDE DEF q, here
  <2> QED
    BY <1>2, <1>4, <1>5, <1>6, <2>1 DEF RouteOK
<1>7. CASE <<o, q>> \in stale
  <2>1. <<o, q>> \notin Leaving(some)
    BY <1>4, LeaveFacts
  <2>2. <<o, q>> \in stale'
    BY <1>7, <2>1, LeaveFacts
  <2> QED
    BY <1>4, <2>2 DEF RouteOK
<1> QED
  BY <1>5, <1>6, <1>7

\* A port reports to an object, which lists it or not.
LEMMA ReportRoutes ==
  ASSUME TypeOK, PortsInv, RoutesCurrent, NEW o \in 1..created, NEW p \in OutputPort,
         NEW found \in SUBSET UID, Report(o, p, found)
  PROVE  RoutesCurrent'
<1>0. uni' = [uni EXCEPT ![o] = NewUIDList(@, p, found)]
  BY DEF Report
<1>1. /\ uni' \in [1..created -> UniverseType]
      /\ uni'[o] = NewUIDList(uni[o], p, found)
      /\ \A r \in 1..created : r # o => uni'[r] = uni[r]
      /\ \A r \in 1..created : uni'[r].ports = uni[r].ports
  BY <1>0, ReportFacts
<1>2. seen \in [OutputPort -> SUBSET UID]
  BY DEF TypeOK
<1>3. uni[o] \in UniverseType
  BY Numbers
<1>4. \/ /\ p \in uni[o].ports /\ m_universe[p] = o
         /\ seen' = [seen EXCEPT ![p] = found]
         /\ stale' = stale \ {<<o, p>>}
      \/ seen' = seen /\ stale' = stale \cup {<<o, p>>}
  BY Numbers DEF Report, PortsInv, PortsPointBack
<1> SUFFICES ASSUME NEW r \in 1..created, NEW x \in UID, uni'[r].uids[x] # NoPort
             PROVE  RouteOK(r, uni[r].uids[x], x)'
  BY <1>1 DEF RoutesCurrent
<1> DEFINE q == uni[r].uids[x]
\* A route that the report does not touch.
<1>5. ASSUME q # NoPort, r # o \/ q # p, uni'[r].uids[x] = q
      PROVE  RouteOK(r, uni[r].uids[x], x)'
  <2>1. /\ q \in OutputPort
        /\ \/ q \in uni[r].ports /\ m_universe[q] = r /\ x \in seen[q]
           \/ <<r, q>> \in stale
    BY <1>5, RouteFacts
  <2> HIDE DEF q
  <2>2. CASE <<r, q>> \in stale
    <3>1. <<r, q>> # <<o, p>>
      BY <1>5
    <3>2. <<r, q>> \in stale'
      BY <1>4, <2>2, <3>1
    <3> QED
      BY <1>5, <3>2 DEF RouteOK
  <2>3. CASE q \in uni[r].ports /\ m_universe[q] = r /\ x \in seen[q]
    <3>1. seen'[q] = seen[q]
      <4>1. CASE seen' = seen
        BY <4>1
      <4>2. CASE m_universe[p] = o /\ seen' = [seen EXCEPT ![p] = found]
        <5>1. q # p
          BY <1>5, <2>3, <4>2
        <5> QED
          BY <1>2, <2>1, <4>2, <5>1
      <4> QED
        BY <1>4, <4>1, <4>2
    <3> QED
      BY <1>1, <1>5, <2>3, <3>1 DEF RouteOK
  <2> QED
    BY <2>1, <2>2, <2>3
<1>6. CASE r # o
  BY <1>1, <1>5, <1>6
<1>7. CASE r = o
  <2>1. uni'[r].uids[x] = IF x \in found THEN (IF q = NoPort THEN p ELSE q)
                          ELSE IF q = p THEN NoPort ELSE q
    BY <1>1, <1>3, <1>7, NewUIDListFacts
  <2> HIDE DEF q
  <2>2. CASE uni'[r].uids[x] = p /\ x \in found
    <3>1. (p \in uni'[o].ports /\ x \in seen'[p]) \/ <<o, p>> \in stale'
      BY <1>1, <1>2, <1>4, <2>2
    <3> QED
      BY <1>7, <2>2, <3>1 DEF RouteOK
  <2>3. CASE uni'[r].uids[x] # p \/ x \notin found
    <3>1. uni'[r].uids[x] = q /\ q # NoPort /\ q # p
      BY <2>1, <2>3
    <3> QED
      BY <1>5, <3>1
  <2> QED
    BY <2>2, <2>3
<1> QED
  BY <1>6, <1>7

LEMMA RoutesInit == Init => RoutesCurrent
<1> SUFFICES ASSUME Init PROVE RoutesCurrent
  OBVIOUS
<1>1. uni = << >>
  BY DEF Init
<1>2. DOMAIN uni = {}
  BY <1>1
<1> QED
  BY <1>2 DEF RoutesCurrent

LEMMA RoutesNext ==
  TypeOK /\ PortsInv /\ RoutesCurrent /\ [Next]_vars => RoutesCurrent'
<1> SUFFICES ASSUME TypeOK, PortsInv, RoutesCurrent, [Next]_vars
             PROVE  RoutesCurrent'
  OBVIOUS
<1>0. DOMAIN uni = 1..created
  BY Numbers
<1>1. ASSUME NEW p \in Port, PatchPort(p) PROVE RoutesCurrent'
  <2>1. ASSUME NEW u \in Universe, NEW accepts \in BOOLEAN,
         GenericPatchPort(p, u, accepts) PROVE RoutesCurrent'
    BY <2>1, PatchRoutes
  <2>2. CASE GenericUnPatchPort(p)
    <3>1. uni' = Unpatched({p}) /\ Leave({p})
      BY <2>2 DEF GenericUnPatchPort
    <3>2. seen' = seen \/ seen' = [seen EXCEPT ![p] = {}]
      BY <2>2 DEF GenericUnPatchPort, DiscoverOnPatch
    <3>3. \A q \in OutputPort : q \notin {p} => seen'[q] = seen[q]
      BY <3>2 DEF TypeOK
    <3> QED
      BY <3>1, <3>3, UnpatchedRoutes
  <2> QED
    BY <1>1, <2>1, <2>2 DEF PatchPort
<1>2. CASE StopDevice
  BY <1>2, UnpatchedRoutes DEF StopDevice
<1>3. ASSUME NEW c \in Client, NEW u \in Universe, RegisterForDmx(c, u) PROVE RoutesCurrent'
  <2>1. /\ GetUniverseOrCreate(u)
        /\ seen' = seen /\ stale' = stale
    BY <1>3 DEF RegisterForDmx, discoveryVars
  <2>2. /\ uni' \in [1..created' -> UniverseType]
        /\ \A o \in 1..created : uni'[o].ports = uni[o].ports /\ uni'[o].uids = uni[o].uids
        /\ m_universe_map[u] = NULL => \A x \in UID : uni'[created + 1].uids[x] = NoPort
    BY <1>3, RegisteredObjects
  <2>3. \A o \in 1..created' : o \in 1..created \/
          (o = created + 1 /\ m_universe_map[u] = NULL)
    BY <2>1, ObjectOfFacts, Numbers
  <2>4. \A o \in DOMAIN uni' : o \in 1..created \/ \A x \in UID : uni'[o].uids[x] = NoPort
    BY <2>2, <2>3
  <2> QED
    BY <2>1, <2>2, <2>4, SameRoutes
<1>4. ASSUME NEW c \in Client, NEW u \in Universe, UpdateDmxData(c, u) PROVE RoutesCurrent'
  <2>1. /\ DOMAIN uni' = 1..created
        /\ \A o \in 1..created : uni'[o].ports = uni[o].ports /\ uni'[o].uids = uni[o].uids
    BY <1>4, UpdatedObjects
  <2>2. seen' = seen /\ stale' = stale
    BY <1>4 DEF UpdateDmxData, discoveryVars
  <2> QED
    BY <2>1, <2>2, SameRoutes
<1>5. ASSUME NEW u \in Universe, NEW mode \in ChosenModes, SetMergeMode(u, mode)
      PROVE  RoutesCurrent'
  <2>1. /\ DOMAIN uni' = 1..created
        /\ \A o \in 1..created : uni'[o].ports = uni[o].ports /\ uni'[o].uids = uni[o].uids
    BY <1>5, ModedObjects
  <2>2. seen' = seen /\ stale' = stale
    BY <1>5 DEF SetMergeMode, discoveryVars
  <2> QED
    BY <2>1, <2>2, SameRoutes
<1>6. ASSUME NEW c \in Client, ClientRemoved(c) PROVE RoutesCurrent'
  <2>1. /\ DOMAIN uni' = 1..created
        /\ \A o \in 1..created : uni'[o].ports = uni[o].ports /\ uni'[o].uids = uni[o].uids
    BY <1>6, ClientRemovedFacts
  <2>2. seen' = seen /\ stale' = stale
    BY <1>6 DEF ClientRemoved, discoveryVars
  <2> QED
    BY <2>1, <2>2, SameRoutes
<1>7. ASSUME NEW o, RunRDMDiscovery(o) PROVE RoutesCurrent'
  BY <1>0, <1>7, SameRoutes DEF RunRDMDiscovery
<1>8. ASSUME NEW i \in DOMAIN runs, NEW p \in OutputPort, NEW found \in SUBSET UID,
             PortDiscoveryComplete(i, p, found)
      PROVE  RoutesCurrent'
  <2>1. runs[i].obj \in 1..created /\ Report(runs[i].obj, p, found)
    BY <1>8 DEF TypeOK, PortDiscoveryComplete
  <2> QED
    BY <2>1, ReportRoutes
<1>9. ASSUME NEW p \in OutputPort, NEW found \in SUBSET UID, UpdateUIDs(p, found)
      PROVE  RoutesCurrent'
  <2>1. CASE uni' = uni /\ seen' = seen /\ stale' = stale
    BY <1>0, <2>1, SameRoutes
  <2>2. CASE m_universe[p] \in 1..created /\ Report(m_universe[p], p, found)
    BY <2>2, ReportRoutes
  <2> QED
    BY <1>9, <2>1, <2>2, UpdateUIDsCases
<1>10. ASSUME NEW due \in SUBSET Listed, RunHousekeeping(due) PROVE RoutesCurrent'
  <2>1. /\ DOMAIN uni' = 1..created
        /\ \A o \in 1..created : uni'[o].ports = uni[o].ports /\ uni'[o].uids = uni[o].uids
    BY <1>10, SweptFacts DEF RunHousekeeping
  <2>2. seen' = seen /\ stale' = stale
    BY <1>10 DEF RunHousekeeping
  <2> QED
    BY <2>1, <2>2, SameRoutes
<1>11. CASE UNCHANGED vars
  BY <1>0, <1>11, SameRoutes DEF vars, discoveryVars
<1> QED
  BY <1>1, <1>2, <1>3, <1>4, <1>5, <1>6, <1>7, <1>8, <1>9, <1>10, <1>11
     DEF Next, ForceDiscovery, TriggerRDMDiscovery

\* SendRDMRequest routes by a table that NewUIDList fills from reports that come
\* late and that GenericRemovePort prunes.  Whatever is patched, refused, stopped
\* and collected while discoveries run, a route leads to a port of this universe
\* that has the UID, unless the port's last report came after it had left.
THEOREM RoutesHold == Spec => []RoutesAreCurrent
<1>1. TypeOK /\ RoutesCurrent => RoutesAreCurrent
  BY ListedObjects, Numbers DEF RoutesCurrent, RoutesAreCurrent, RouteOK
<1> QED
  BY <1>1, PortsCorrect, RoutesInit, RoutesNext, PTL DEF Spec
=============================================================================
