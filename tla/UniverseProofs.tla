---------------------------- MODULE UniverseProofs ----------------------------
(***************************************************************************)
(* Proofs about a universe: of UniverseMerge, for any ports, clients,      *)
(* frames, priorities and timeout, and of UniverseBroadcast, for any       *)
(* finite set of output ports.                                             *)
(***************************************************************************)
EXTENDS UniverseMerge, UniverseBroadcast, SequenceTheorems, FiniteSetTheorems,
        WellFoundedInduction, TLAPS

-----------------------------------------------------------------------------
(* The loops of the merge are recursive functions of the number of turns.   *)

\* Induction on the natural numbers, for a set.
LEMMA Induction ==
  ASSUME NEW S, 0 \in S, \A n \in Nat : n \in S => n + 1 \in S
  PROVE  \A n \in Nat : n \in S
<1> DEFINE T == Nat \ S
           R == OpToRel(<, Nat)
<1>1. SUFFICES ASSUME T # {} PROVE FALSE
  OBVIOUS
<1>2. IsWellFoundedOn(R, Nat)
  BY NatLessThanWellFounded
<1>3. T \subseteq Nat
  OBVIOUS
<1> HIDE DEF T, R
<1>4. PICK m \in T : \A k \in T : ~ (<<k, m>> \in R)
  BY <1>1, <1>2, <1>3, WFMin
<1>5. m \in Nat /\ m \notin S
  BY <1>4 DEF T
<1>6. m # 0 /\ m - 1 \in Nat /\ m - 1 + 1 = m
  BY <1>5
<1>7. m - 1 \in T
  BY <1>5, <1>6 DEF T
<1>8. <<m - 1, m>> \in R
  BY <1>5, <1>6 DEF R, OpToRel
<1> QED
  BY <1>4, <1>7, <1>8

\* f gives the state after each turn of a loop of m turns, whose turn n takes x
\* to step[n][x].
IsLoop(f, S, m, base, step) ==
  /\ f \in [0..m -> S]
  /\ f[0] = base
  /\ \A n \in 1..m : f[n] = step[n][f[n - 1]]

\* Every such loop has one.
LEMMA LoopExists ==
  ASSUME NEW S, NEW N \in Nat, NEW base \in S, NEW step \in [1..N -> [S -> S]]
  PROVE  \E f : IsLoop(f, S, N, base, step)
<1> USE DEF IsLoop
<1> DEFINE Loop(f, m) == IsLoop(f, S, m, base, step)
           T == {m \in Nat : m <= N => \E f : Loop(f, m)}
<1>1. 0 \in T
  <2> DEFINE f == [n \in 0..0 |-> base]
  <2>1. f \in [0..0 -> S] /\ f[0] = base /\ 1..0 = {}
    OBVIOUS
  <2>2. Loop(f, 0)
    BY <2>1
  <2> QED
    BY <2>2
<1>2. ASSUME NEW m \in Nat, m \in T PROVE m + 1 \in T
  <2>1. SUFFICES ASSUME m + 1 <= N PROVE \E f : Loop(f, m + 1)
    OBVIOUS
  <2>2. PICK f : Loop(f, m)
    BY <1>2, <2>1
  <2> DEFINE x == step[m + 1][f[m]]
             g == [n \in 0..(m + 1) |-> IF n = m + 1 THEN x ELSE f[n]]
  <2>3. x \in S
    BY <2>1, <2>2
  <2> HIDE DEF x
  <2>4. g \in [0..(m + 1) -> S]
    BY <2>2, <2>3
  <2>5. g[0] = base
    BY <2>2
  <2>6. ASSUME NEW n \in 1..(m + 1) PROVE g[n] = step[n][g[n - 1]]
    <3>1. CASE n = m + 1
      BY <3>1 DEF x
    <3>2. CASE n \in 1..m
      BY <2>2, <3>2
    <3> QED
      BY <3>1, <3>2
  <2> HIDE DEF g
  <2>7. Loop(g, m + 1)
    BY <2>4, <2>5, <2>6
  <2> QED
    BY <2>7
<1>3. N \in T
  <2> HIDE DEF T
  <2> QED
    BY <1>1, <1>2, Induction
<1>4. PICK f : Loop(f, N)
  BY <1>3
<1> QED
  BY <1>4

\* What a turn makes of what was found before.
Turn(found, n, clients, data, c) ==
  IF MergeOrder[n] \in Client \ clients THEN found
  ELSE Consider(found, MergeOrder[n], data, c)

LEMMA ActiveSourcesIsChosen ==
  ASSUME NEW clients, NEW data, NEW c
  PROVE  ActiveSources(clients, data, c) =
           (CHOOSE f : f = [n \in 0..Len(MergeOrder) |->
                              IF n = 0 THEN NoneFound
                              ELSE Turn(f[n - 1], n, clients, data, c)])[Len(MergeOrder)]
BY DEF ActiveSources, Turn

LEMMA HTPMergeSourcesIsChosen ==
  ASSUME NEW sources
  PROVE  HTPMergeSources(sources) =
           (CHOOSE f : f = [n \in 0..Len(sources) |->
                              IF n = 0 THEN <<>>
                              ELSE HTPMerge(f[n - 1], sources[n].data)])[Len(sources)]
BY DEF HTPMergeSources

-----------------------------------------------------------------------------
(* What the loops of MergeAll find.                                         *)

SourceData == [data : Frame \cup {<<>>}, timestamp : Nat, priority : Nat]
Found == [priority : Nat, sources : Seq(SourceData), effective : BOOLEAN]

\* A source that MergeAll does not pass over.
Counts(s, data) == IsSet(data[s]) /\ IsActive(data[s]) /\ data[s].data # <<>>

\* found has the highest priority among some, the data of all that have it, and
\* whether c is one of them.
IsFound(found, some, data, c) ==
  /\ \A s \in some : Counts(s, data) => data[s].priority <= found.priority
  /\ \/ \E s \in some : Counts(s, data) /\ data[s].priority = found.priority
     \/ found.priority = SOURCE_PRIORITY_MIN /\ \A s \in some : ~Counts(s, data)
  /\ \A k \in 1..Len(found.sources) : \E s \in some :
       /\ Counts(s, data) /\ data[s].priority = found.priority
       /\ found.sources[k] = data[s]
  /\ \A s \in some :
       Counts(s, data) /\ data[s].priority = found.priority =>
         \E k \in 1..Len(found.sources) : found.sources[k] = data[s]
  /\ found.effective <=>
       c \in some /\ Counts(c, data) /\ data[c].priority = found.priority

LEMMA NothingFound ==
  ASSUME NEW data, NEW c
  PROVE  NoneFound \in Found /\ IsFound(NoneFound, {}, data, c)
BY DEF NoneFound, SOURCE_PRIORITY_MIN, Found, IsFound

\* One turn takes one more source into account.
LEMMA ConsiderFinds ==
  ASSUME NEW data \in [Source -> SourceData], NEW s \in Source, NEW c,
         NEW some \in SUBSET Source, NEW found \in Found, IsFound(found, some, data, c)
  PROVE  /\ Consider(found, s, data, c) \in Found
         /\ IsFound(Consider(found, s, data, c), some \cup {s}, data, c)
<1> DEFINE source == data[s]
           new == Consider(found, s, data, c)
<1>1. source \in SourceData /\ source.priority \in Nat
  BY DEF SourceData
<1>2. /\ found.priority \in Nat /\ found.sources \in Seq(SourceData)
      /\ found.effective \in BOOLEAN
  BY DEF Found
<1>3. \A t \in Source : data[t].priority \in Nat
  BY DEF SourceData
<1>4. CASE ~Counts(s, data)
  <2>1. new = found
    BY <1>4 DEF Consider, Counts
  <2> QED
    BY <1>4, <2>1 DEF IsFound
<1>5. CASE Counts(s, data) /\ source.priority < found.priority
  <2>1. new = found
    BY <1>1, <1>2, <1>5 DEF Consider, Counts
  <2> HIDE DEF new
  <2>2. data[s].priority <= found.priority /\ data[s].priority # found.priority
    BY <1>1, <1>2, <1>5
  <2>3. \E t \in some \cup {s} : Counts(t, data) /\ data[t].priority = found.priority
    <3>1. found.priority # SOURCE_PRIORITY_MIN
      BY <1>1, <1>5 DEF SOURCE_PRIORITY_MIN
    <3> QED
      BY <3>1 DEF IsFound
  <2>4. IsFound(found, some \cup {s}, data, c)
    BY <2>2, <2>3, Zenon DEF IsFound
  <2> QED
    BY <2>1, <2>4 DEF new
<1>6. CASE Counts(s, data) /\ source.priority = found.priority
  <2> DEFINE more == Append(found.sources, source)
  <2>1. new = [found EXCEPT !.sources = more, !.effective = @ \/ s = c]
    <3>1. ~(data[s].priority > found.priority)
      BY <1>1, <1>2, <1>6
    <3> QED
      BY <1>6, <3>1, Zenon DEF Consider, Counts
  <2>2. /\ more \in Seq(SourceData) /\ Len(more) = Len(found.sources) + 1
        /\ Len(found.sources) \in Nat
        /\ \A k \in 1..Len(found.sources) : more[k] = found.sources[k]
        /\ more[Len(found.sources) + 1] = source
    BY <1>1, <1>2
  <2> HIDE DEF more, new
  <2>3. /\ new.priority = found.priority /\ new.sources = more
        /\ new.effective = (found.effective \/ s = c)
    BY <2>1 DEF Found
  <2>4. new \in Found
    BY <1>2, <2>1, <2>2 DEF Found
  <2>5. ASSUME NEW k \in 1..Len(new.sources)
        PROVE  \E t \in some \cup {s} :
                 /\ Counts(t, data) /\ data[t].priority = new.priority
                 /\ new.sources[k] = data[t]
    <3>1. CASE k = Len(found.sources) + 1
      BY <1>6, <2>2, <2>3, <3>1
    <3>2. CASE k \in 1..Len(found.sources)
      BY <2>2, <2>3, <3>2 DEF IsFound
    <3> QED
      BY <2>2, <2>3, <3>1, <3>2
  <2>6. ASSUME NEW t \in some \cup {s}, Counts(t, data), data[t].priority = new.priority
        PROVE  \E k \in 1..Len(new.sources) : new.sources[k] = data[t]
    <3>1. CASE t = s
      <4>1. Len(found.sources) + 1 \in 1..Len(new.sources)
        BY <2>2, <2>3
      <4> QED
        BY <2>2, <2>3, <3>1, <4>1
    <3>2. CASE t \in some
      <4>1. PICK k \in 1..Len(found.sources) : found.sources[k] = data[t]
        BY <2>3, <2>6, <3>2 DEF IsFound
      <4>2. k \in 1..Len(new.sources)
        BY <2>2, <2>3
      <4> QED
        BY <2>2, <2>3, <4>1, <4>2
    <3> QED
      BY <3>1, <3>2
  <2>7. /\ \A t \in some \cup {s} : Counts(t, data) => data[t].priority <= new.priority
        /\ \E t \in some \cup {s} : Counts(t, data) /\ data[t].priority = new.priority
        /\ new.effective <=>
             c \in some \cup {s} /\ Counts(c, data) /\ data[c].priority = new.priority
    <3>1. data[s].priority <= new.priority /\ data[s].priority = new.priority
      BY <1>2, <1>6, <2>3
    <3> QED
      BY <1>6, <2>3, <3>1, Zenon DEF IsFound
  <2> QED
    BY <2>4, <2>5, <2>6, <2>7 DEF IsFound, new
<1>7. CASE Counts(s, data) /\ source.priority > found.priority
  <2> DEFINE raised == [priority |-> source.priority, sources |-> <<>>, effective |-> FALSE]
  <2>1. new = [priority |-> source.priority, sources |-> <<source>>, effective |-> s = c]
    <3>1. Consider(found, s, data, c) =
            [raised EXCEPT !.sources = Append(@, source), !.effective = @ \/ s = c]
      BY <1>7, Zenon DEF Consider, Counts
    <3>2. Append(<<>>, source) = <<source>>
      BY <1>1
    <3>3. (FALSE \/ s = c) = (s = c)
      OBVIOUS
    <3> QED
      BY <3>1, <3>2, <3>3
  <2>2. <<source>> \in Seq(SourceData) /\ Len(<<source>>) = 1 /\ <<source>>[1] = source
    BY <1>1
  <2>3. new \in Found
    BY <1>1, <2>1, <2>2 DEF Found
  <2> HIDE DEF new
  <2>4. /\ new.priority = source.priority /\ Len(new.sources) = 1
        /\ new.sources[1] = source /\ new.effective = (s = c)
    BY <2>1, <2>2
  <2>5. ASSUME NEW t \in some \cup {s}, Counts(t, data)
        PROVE  /\ data[t].priority <= new.priority
               /\ data[t].priority = new.priority => t = s
    <3>1. t \in some => data[t].priority <= found.priority
      BY <2>5 DEF IsFound
    <3> QED
      BY <1>1, <1>2, <1>3, <1>7, <2>4, <3>1
  <2>6. s \in some \cup {s} /\ Counts(s, data) /\ data[s].priority = new.priority
    BY <1>7, <2>4
  <2>7. 1..Len(new.sources) = {1}
    BY <2>4
  <2> QED
    BY <2>3, <2>4, <2>5, <2>6, <2>7 DEF IsFound, new
<1> QED
  BY <1>1, <1>2, <1>4, <1>5, <1>6, <1>7

\* The sources of the universe.
Members(clients) == Range(m_input_ports) \cup clients

\* MergeAll's loops over ports and clients find the highest active priority and
\* all the sources that have it.
LEMMA ActiveSourcesFinds ==
  ASSUME m_input_ports \in Seq(Port), NEW clients \in SUBSET Client,
         NEW data \in [Source -> SourceData], NEW c
  PROVE  /\ ActiveSources(clients, data, c) \in Found
         /\ IsFound(ActiveSources(clients, data, c), Members(clients), data, c)
<1> DEFINE N == Len(MergeOrder)
           Some(n) == {MergeOrder[k] : k \in 1..n} \ (Client \ clients)
           Good(f, n) == f[n] \in Found /\ IsFound(f[n], Some(n), data, c)
<1>1. /\ MergeOrder \in Seq(Source) /\ N \in Nat
      /\ N = Len(m_input_ports) + Len(Clients)
      /\ \A k \in 1..Len(m_input_ports) : MergeOrder[k] = m_input_ports[k]
      /\ \A k \in 1..Len(Clients) : MergeOrder[Len(m_input_ports) + k] = Clients[k]
  <2>1. Clients \in Seq(Client)
    BY ConstantsAssumption
  <2>2. m_input_ports \in Seq(Source) /\ Clients \in Seq(Source)
    BY <2>1 DEF Source
  <2> QED
    BY <2>2 DEF MergeOrder
<1>2. ASSUME NEW n \in 1..N, NEW x \in Found, IsFound(x, Some(n - 1), data, c)
      PROVE  /\ Turn(x, n, clients, data, c) \in Found
             /\ IsFound(Turn(x, n, clients, data, c), Some(n), data, c)
  <2>1. 1..n = 1..(n - 1) \cup {n} /\ MergeOrder[n] \in Source
    BY <1>1
  <2>2. Some(n - 1) \in SUBSET Source
    BY <1>1
  <2>3. CASE MergeOrder[n] \in Client \ clients
    <3>1. Some(n) = Some(n - 1)
      BY <2>1, <2>3
    <3> QED
      BY <1>2, <2>3, <3>1 DEF Turn
  <2>4. CASE MergeOrder[n] \notin Client \ clients
    <3>1. Some(n) = Some(n - 1) \cup {MergeOrder[n]}
      BY <2>1, <2>4
    <3> HIDE DEF Some
    <3> QED
      BY <1>2, <2>1, <2>2, <2>4, <3>1, ConsiderFinds, SMTT(30) DEF Turn
  <2> QED
    BY <2>3, <2>4
<1>3. ASSUME NEW f, f[0] = NoneFound,
             \A n \in 1..N : Good(f, n - 1) => f[n] = Turn(f[n - 1], n, clients, data, c)
      PROVE  \A n \in 0..N : Good(f, n)
  <2> DEFINE S == {n \in Nat : n <= N => Good(f, n)}
  <2>1. 0 \in S
    <3>1. Some(0) = {}
      OBVIOUS
    <3> HIDE DEF Some
    <3> QED
      BY <1>3, <3>1, NothingFound
  <2>2. ASSUME NEW n \in Nat, n \in S PROVE n + 1 \in S
    <3>1. SUFFICES ASSUME n + 1 <= N PROVE Good(f, n + 1)
      OBVIOUS
    <3>2. n + 1 \in 1..N /\ n + 1 - 1 = n /\ n <= N
      BY <1>1, <3>1
    <3>3. Good(f, n)
      BY <2>2, <3>2
    <3> HIDE DEF Some
    <3>4. f[n + 1] = Turn(f[n], n + 1, clients, data, c)
      BY <1>3, <3>2, <3>3
    <3> QED
      BY <1>2, <3>2, <3>3, <3>4
  <2> HIDE DEF S
  <2>3. \A n \in Nat : n \in S
    BY <2>1, <2>2, Induction
  <2>4. ASSUME NEW n \in 0..N PROVE Good(f, n)
    <3>1. n \in Nat /\ n <= N /\ n \in S
      BY <1>1, <2>3
    <3> HIDE DEF Good
    <3> QED
      BY <3>1 DEF S
  <2> QED
    BY <2>4
<1> DEFINE Equation(f) == f = [n \in 0..N |-> IF n = 0 THEN NoneFound
                                           ELSE Turn(f[n - 1], n, clients, data, c)]
<1>4. \E f : Equation(f)
  <2> DEFINE step == [n \in 1..N |-> [x \in Found |->
                        IF Turn(x, n, clients, data, c) \in Found
                        THEN Turn(x, n, clients, data, c) ELSE NoneFound]]
  <2>1. NoneFound \in Found
    BY NothingFound
  <2>2. step \in [1..N -> [Found -> Found]]
    BY <2>1
  <2>3. \A n \in 1..N : \A x \in Found :
          step[n][x] = IF Turn(x, n, clients, data, c) \in Found
                       THEN Turn(x, n, clients, data, c) ELSE NoneFound
    OBVIOUS
  <2> HIDE DEF step, Good, N
  <2>4. PICK f : IsLoop(f, Found, N, NoneFound, step)
    <3>1. N \in Nat
      BY <1>1
    <3> QED
      BY <2>1, <2>2, <3>1, LoopExists
  <2>5. /\ f \in [0..N -> Found] /\ f[0] = NoneFound
        /\ \A n \in 1..N : f[n] = step[n][f[n - 1]]
    BY <2>4 DEF IsLoop
  <2>6. \A n \in 1..N : n - 1 \in 0..N
    BY <1>1
  <2>7. ASSUME NEW n \in 1..N, Good(f, n - 1)
        PROVE  f[n] = Turn(f[n - 1], n, clients, data, c)
    <3>1. f[n - 1] \in Found /\ IsFound(f[n - 1], Some(n - 1), data, c)
      BY <2>7 DEF Good
    <3> HIDE DEF Some
    <3>2. Turn(f[n - 1], n, clients, data, c) \in Found
      BY <1>2, <3>1
    <3> QED
      BY <2>3, <2>5, <3>1, <3>2
  <2>8. \A n \in 0..N : Good(f, n)
    BY <1>3, <2>5, <2>7
  <2>9. \A n \in 0..N : n # 0 => n \in 1..N
    BY <1>1
  <2>10. \A n \in 0..N : f[n] = IF n = 0 THEN NoneFound
                                ELSE Turn(f[n - 1], n, clients, data, c)
    BY <2>5, <2>6, <2>7, <2>8, <2>9
  <2>11. f = [n \in 0..N |-> IF n = 0 THEN NoneFound ELSE Turn(f[n - 1], n, clients, data, c)]
    BY <2>5, <2>10
  <2> QED
    BY <2>11
<1> DEFINE g == CHOOSE f : Equation(f)
<1>5. Equation(g)
  BY <1>4
<1>6. ActiveSources(clients, data, c) = g[N]
  BY ActiveSourcesIsChosen
<1> HIDE DEF g, N
<1>7. g[0] = NoneFound /\ \A n \in 1..N : g[n] = Turn(g[n - 1], n, clients, data, c)
  <2>1. 0 \in 0..N /\ \A n \in 1..N : n \in 0..N /\ n # 0
    BY <1>1
  <2> QED
    BY <1>5, <2>1
<1>8. Good(g, N)
  <2> HIDE DEF Good
  <2> QED
    BY <1>1, <1>3, <1>7, SMTT(30)
<1>9. Some(N) = Members(clients)
  <2>1. Range(Clients) = Client /\ Port \cap Client = {}
    BY ConstantsAssumption DEF Client
  <2>2. /\ DOMAIN m_input_ports = 1..Len(m_input_ports) /\ Len(m_input_ports) \in Nat
        /\ DOMAIN Clients = 1..Len(Clients) /\ Len(Clients) \in Nat
        /\ \A k \in 1..Len(m_input_ports) : m_input_ports[k] \in Port
    BY ConstantsAssumption
  <2>3. ASSUME NEW s \in Some(N) PROVE s \in Members(clients)
    <3>1. PICK k \in 1..N : s = MergeOrder[k]
      OBVIOUS
    <3>2. CASE k \in 1..Len(m_input_ports)
      BY <1>1, <2>2, <3>1, <3>2 DEF Members, Range
    <3>3. CASE k - Len(m_input_ports) \in 1..Len(Clients)
      <4>1. k = Len(m_input_ports) + (k - Len(m_input_ports))
        BY <2>2
      <4>2. s = Clients[k - Len(m_input_ports)]
        BY <1>1, <3>1, <3>3, <4>1
      <4>3. s \in Client
        BY <2>1, <2>2, <3>3, <4>2 DEF Range
      <4> QED
        BY <4>3 DEF Members
    <3> QED
      BY <1>1, <2>2, <3>2, <3>3
  <2>4. ASSUME NEW s \in Range(m_input_ports) PROVE s \in Some(N)
    <3>1. PICK k \in 1..Len(m_input_ports) : s = m_input_ports[k]
      BY <2>2 DEF Range
    <3>2. k \in 1..N /\ s = MergeOrder[k] /\ s \in Port
      BY <1>1, <2>2, <3>1
    <3> QED
      BY <2>1, <3>2
  <2>5. ASSUME NEW s \in clients PROVE s \in Some(N)
    <3>1. PICK k \in 1..Len(Clients) : s = Clients[k]
      BY <2>1, <2>2 DEF Range
    <3>2. Len(m_input_ports) + k \in 1..N /\ s = MergeOrder[Len(m_input_ports) + k]
      BY <1>1, <2>2, <3>1
    <3> QED
      BY <3>2
  <2> QED
    BY <2>3, <2>4, <2>5 DEF Members
<1> QED
  BY <1>6, <1>8, <1>9

-----------------------------------------------------------------------------
(* What HTPMergeSources computes.                                           *)

LEMMA HTPMergeIsMax ==
  ASSUME NEW buffer \in Seq(Nat), NEW other \in Seq(Nat)
  PROVE  /\ HTPMerge(buffer, other) \in Seq(Nat)
         /\ Len(buffer) <= Len(HTPMerge(buffer, other))
         /\ Len(other) <= Len(HTPMerge(buffer, other))
         /\ \A i \in 1..Len(HTPMerge(buffer, other)) :
              \/ i \in 1..Len(buffer) /\ HTPMerge(buffer, other)[i] = buffer[i]
              \/ i \in 1..Len(other) /\ HTPMerge(buffer, other)[i] = other[i]
         /\ \A i \in 1..Len(buffer) : buffer[i] <= HTPMerge(buffer, other)[i]
         /\ \A i \in 1..Len(other) : other[i] <= HTPMerge(buffer, other)[i]
<1> DEFINE m == IF Len(buffer) > Len(other) THEN Len(buffer) ELSE Len(other)
           merged == HTPMerge(buffer, other)
<1>1. /\ m \in Nat /\ Len(buffer) \in Nat /\ Len(other) \in Nat
      /\ Len(buffer) <= m /\ Len(other) <= m
      /\ \A i \in 1..Len(buffer) : buffer[i] \in Nat
      /\ \A i \in 1..Len(other) : other[i] \in Nat
      /\ \A i \in 1..m : i \in 1..Len(buffer) \/ i \in 1..Len(other)
  OBVIOUS
<1>2. merged = [i \in 1..m |-> IF i > Len(buffer) THEN other[i]
                               ELSE IF i > Len(other) THEN buffer[i]
                               ELSE IF buffer[i] > other[i] THEN buffer[i] ELSE other[i]]
  BY DEF HTPMerge
<1> HIDE DEF m, merged
<1>3. ASSUME NEW i \in 1..m
      PROVE  /\ \/ i \in 1..Len(buffer) /\ merged[i] = buffer[i]
                \/ i \in 1..Len(other) /\ merged[i] = other[i]
             /\ i \in 1..Len(buffer) => buffer[i] <= merged[i]
             /\ i \in 1..Len(other) => other[i] <= merged[i]
  BY <1>1, <1>2
<1>4. \A i \in 1..m : merged[i] \in Nat
  BY <1>1, <1>3
<1>5. merged \in [1..m -> Nat]
  BY <1>2, <1>4
<1>6. merged \in Seq(Nat) /\ Len(merged) = m
  BY <1>1, <1>5
<1> QED
  BY <1>1, <1>3, <1>6 DEF merged

\* buffer holds, slot by slot, the highest value of the first n sources.
IsMaxOf(buffer, sources, n) ==
  /\ buffer \in Seq(Nat)
  /\ \A i \in 1..Len(buffer) :
       \E k \in 1..n : i \in 1..Len(sources[k].data) /\ buffer[i] = sources[k].data[i]
  /\ \A k \in 1..n : /\ Len(sources[k].data) <= Len(buffer)
                     /\ \A i \in 1..Len(sources[k].data) : sources[k].data[i] <= buffer[i]

LEMMA BelowIsTransitive ==
  ASSUME NEW a \in Seq(Nat), NEW b \in Seq(Nat), NEW c \in Seq(Nat),
         Len(a) <= Len(b), \A i \in 1..Len(a) : a[i] <= b[i],
         Len(b) <= Len(c), \A i \in 1..Len(b) : b[i] <= c[i]
  PROVE  Len(a) <= Len(c) /\ \A i \in 1..Len(a) : a[i] <= c[i]
<1>1. Len(a) \in Nat /\ Len(b) \in Nat /\ Len(c) \in Nat /\ Len(a) <= Len(c)
  OBVIOUS
<1>2. ASSUME NEW i \in 1..Len(a) PROVE a[i] <= c[i]
  <2>1. i \in 1..Len(b) /\ i \in 1..Len(c)
    BY <1>1
  <2>2. a[i] \in Nat /\ b[i] \in Nat /\ c[i] \in Nat
    BY <2>1, SMTT(30)
  <2>3. a[i] <= b[i] /\ b[i] <= c[i]
    BY <2>1
  <2>4. \A x, y, z \in Nat : x <= y /\ y <= z => x <= z
    OBVIOUS
  <2> QED
    BY <2>2, <2>3, <2>4, Zenon
<1> QED
  BY <1>1, <1>2

LEMMA HTPTurn ==
  ASSUME NEW sources \in Seq(SourceData), NEW n \in 1..Len(sources), NEW buffer,
         IsMaxOf(buffer, sources, n - 1)
  PROVE  IsMaxOf(HTPMerge(buffer, sources[n].data), sources, n)
<1> DEFINE other == sources[n].data
           merged == HTPMerge(buffer, other)
<1>1. \A k \in 1..n : sources[k].data \in Seq(Nat)
  <2>1. \A k \in 1..n : sources[k] \in SourceData
    OBVIOUS
  <2>2. Frame \cup {<<>>} \subseteq Seq(Nat)
    <3>1. Frame \subseteq Seq(Nat)
      BY ConstantsAssumption, Zenon
    <3>2. <<>> \in Seq(Nat)
      OBVIOUS
    <3> QED
      BY <3>1, <3>2, Zenon
  <2> QED
    BY <2>1, <2>2 DEF SourceData
<1>2. 1..n = 1..(n - 1) \cup {n} /\ n \in 1..n
  OBVIOUS
<1>3. buffer \in Seq(Nat) /\ other \in Seq(Nat)
  BY <1>1, <1>2 DEF IsMaxOf
<1>4. /\ merged \in Seq(Nat)
      /\ Len(buffer) <= Len(merged) /\ Len(other) <= Len(merged)
      /\ \A i \in 1..Len(merged) :
           \/ i \in 1..Len(buffer) /\ merged[i] = buffer[i]
           \/ i \in 1..Len(other) /\ merged[i] = other[i]
      /\ \A i \in 1..Len(buffer) : buffer[i] <= merged[i]
      /\ \A i \in 1..Len(other) : other[i] <= merged[i]
  BY <1>3, HTPMergeIsMax
<1> HIDE DEF merged
<1>5. ASSUME NEW i \in 1..Len(merged)
      PROVE  \E k \in 1..n : i \in 1..Len(sources[k].data) /\ merged[i] = sources[k].data[i]
  BY <1>2, <1>4 DEF IsMaxOf
<1>6. ASSUME NEW k \in 1..n
      PROVE  /\ Len(sources[k].data) <= Len(merged)
             /\ \A i \in 1..Len(sources[k].data) : sources[k].data[i] <= merged[i]
  <2>1. CASE k = n
    BY <1>4, <2>1
  <2>2. CASE k \in 1..(n - 1)
    <3>1. /\ Len(sources[k].data) <= Len(buffer)
          /\ \A i \in 1..Len(sources[k].data) : sources[k].data[i] <= buffer[i]
          /\ sources[k].data \in Seq(Nat)
      BY <1>1, <2>2 DEF IsMaxOf
    <3> QED
      BY <1>3, <1>4, <3>1, BelowIsTransitive
  <2> QED
    BY <1>2, <2>1, <2>2
<1> QED
  BY <1>4, <1>5, <1>6 DEF IsMaxOf, merged

\* Merging the sources in turn gives the highest value of each slot.
LEMMA HTPMergeSourcesIsMax ==
  ASSUME NEW sources \in Seq(SourceData)
  PROVE  IsMaxOf(HTPMergeSources(sources), sources, Len(sources))
<1> DEFINE N == Len(sources)
           Good(f, n) == IsMaxOf(f[n], sources, n)
           Equation(f) == f = [n \in 0..N |-> IF n = 0 THEN <<>>
                                              ELSE HTPMerge(f[n - 1], sources[n].data)]
<1>1. N \in Nat
  OBVIOUS
<1>2. ASSUME NEW f, f[0] = <<>>,
             \A n \in 1..N : Good(f, n - 1) => f[n] = HTPMerge(f[n - 1], sources[n].data)
      PROVE  \A n \in 0..N : Good(f, n)
  <2> DEFINE S == {n \in Nat : n <= N => Good(f, n)}
  <2>1. 0 \in S
    <3>1. <<>> \in Seq(Nat) /\ Len(<<>>) = 0 /\ 1..0 = {}
      OBVIOUS
    <3> QED
      BY <1>2, <3>1 DEF IsMaxOf
  <2>2. ASSUME NEW n \in Nat, n \in S PROVE n + 1 \in S
    <3>1. SUFFICES ASSUME n + 1 <= N PROVE Good(f, n + 1)
      OBVIOUS
    <3>2. n + 1 \in 1..N /\ n + 1 - 1 = n /\ n <= N
      BY <1>1, <3>1
    <3>3. Good(f, n)
      BY <2>2, <3>2
    <3>4. f[n + 1] = HTPMerge(f[n], sources[n + 1].data)
      BY <1>2, <3>2, <3>3
    <3> QED
      BY <3>2, <3>3, <3>4, HTPTurn
  <2> HIDE DEF S
  <2>3. \A n \in Nat : n \in S
    BY <2>1, <2>2, Induction
  <2>4. ASSUME NEW n \in 0..N PROVE Good(f, n)
    <3>1. n \in Nat /\ n <= N /\ n \in S
      BY <1>1, <2>3
    <3> HIDE DEF Good
    <3> QED
      BY <3>1 DEF S
  <2> QED
    BY <2>4
<1>3. \E f : Equation(f)
  <2> DEFINE merge(x, n) == HTPMerge(x, sources[n].data)
             step == [n \in 1..N |-> [x \in Seq(Nat) |->
                        IF merge(x, n) \in Seq(Nat) THEN merge(x, n) ELSE <<>>]]
  <2>1. <<>> \in Seq(Nat)
    OBVIOUS
  <2>2. step \in [1..N -> [Seq(Nat) -> Seq(Nat)]]
    BY <2>1
  <2>3. \A n \in 1..N : \A x \in Seq(Nat) :
          step[n][x] = IF merge(x, n) \in Seq(Nat) THEN merge(x, n) ELSE <<>>
    OBVIOUS
  <2> HIDE DEF step, Good, N
  <2>4. PICK f : IsLoop(f, Seq(Nat), N, <<>>, step)
    BY <1>1, <2>1, <2>2, LoopExists
  <2>5. /\ f \in [0..N -> Seq(Nat)] /\ f[0] = <<>>
        /\ \A n \in 1..N : f[n] = step[n][f[n - 1]]
    BY <2>4 DEF IsLoop
  <2>6. \A n \in 1..N : n - 1 \in 0..N
    BY <1>1
  <2>7. ASSUME NEW n \in 1..N, Good(f, n - 1) PROVE f[n] = merge(f[n - 1], n)
    <3>1. IsMaxOf(f[n - 1], sources, n - 1)
      BY <2>7 DEF Good
    <3>2. IsMaxOf(merge(f[n - 1], n), sources, n)
      BY <3>1, HTPTurn DEF N
    <3>3. f[n - 1] \in Seq(Nat) /\ merge(f[n - 1], n) \in Seq(Nat)
      BY <3>1, <3>2 DEF IsMaxOf
    <3> HIDE DEF merge
    <3> QED
      BY <2>3, <2>5, <3>3
  <2>8. \A n \in 0..N : Good(f, n)
    BY <1>2, <2>5, <2>7
  <2>9. \A n \in 0..N : n # 0 => n \in 1..N
    BY <1>1
  <2>10. \A n \in 0..N : f[n] = IF n = 0 THEN <<>> ELSE HTPMerge(f[n - 1], sources[n].data)
    BY <2>5, <2>6, <2>7, <2>8, <2>9
  <2>11. f = [n \in 0..N |-> IF n = 0 THEN <<>> ELSE HTPMerge(f[n - 1], sources[n].data)]
    BY <2>5, <2>10
  <2> QED
    BY <2>11
<1> DEFINE g == CHOOSE f : Equation(f)
<1>4. Equation(g)
  BY <1>3
<1>5. HTPMergeSources(sources) = g[N]
  BY HTPMergeSourcesIsChosen
<1> HIDE DEF g, N
<1>6. g[0] = <<>> /\ \A n \in 1..N : g[n] = HTPMerge(g[n - 1], sources[n].data)
  <2>1. 0 \in 0..N /\ \A n \in 1..N : n \in 0..N /\ n # 0
    BY <1>1
  <2> QED
    BY <1>4, <2>1
<1>7. Good(g, N)
  <2> HIDE DEF Good
  <2> QED
    BY <1>1, <1>2, <1>6
<1> QED
  BY <1>5, <1>7 DEF N

-----------------------------------------------------------------------------
(* The state of the sources, and what an update does.                       *)

\* No data is stamped later than the wake-up that handles the update.
MergeInv ==
  /\ m_input_ports \in Seq(Port)
  /\ m_source_clients \in SUBSET Client
  /\ m_dmx_source \in [Source -> SourceData]
  /\ m_merge_mode \in {"LTP", "HTP"}
  /\ now \in Nat /\ wake_up \in Nat /\ wake_up <= now
  /\ \A s \in Source : m_dmx_source[s].timestamp <= wake_up

\* A step in which a source of the universe has new data.
Update ==
  /\ changed' \in Members(m_source_clients')
  /\ m_source_clients' \in SUBSET Client
  /\ m_dmx_source' \in [Source -> SourceData]
  /\ m_dmx_source'[changed'].timestamp = wake_up
  /\ \A s \in Source : m_dmx_source'[s].timestamp <= wake_up
  /\ MergeAll(changed', m_source_clients', m_dmx_source')
  /\ UNCHANGED <<m_input_ports, m_merge_mode, now, wake_up>>

LEMMA NewDataIsStamped ==
  ASSUME MergeInv, NEW s \in Source, NEW frame \in Frame, NEW priority \in Priority
  PROVE  /\ NewData(s, frame, priority) \in [Source -> SourceData]
         /\ NewData(s, frame, priority)[s].timestamp = wake_up
         /\ \A t \in Source : NewData(s, frame, priority)[t].timestamp <= wake_up
<1> DEFINE new == [data |-> frame, timestamp |-> wake_up, priority |-> priority]
<1>1. priority \in Nat /\ wake_up \in Nat /\ m_dmx_source \in [Source -> SourceData]
  <2>1. Priority \subseteq Nat
    BY ConstantsAssumption, Zenon
  <2> QED
    BY <2>1 DEF MergeInv
<1>2. new \in SourceData /\ new.timestamp = wake_up
  BY <1>1 DEF SourceData
<1>3. NewData(s, frame, priority) = [m_dmx_source EXCEPT ![s] = new]
  BY DEF NewData
<1> HIDE DEF new
<1>4. ASSUME NEW t \in Source PROVE NewData(s, frame, priority)[t].timestamp <= wake_up
  <2>1. m_dmx_source[t].timestamp <= wake_up
    BY DEF MergeInv
  <2>2. NewData(s, frame, priority)[t] = IF t = s THEN new ELSE m_dmx_source[t]
    BY <1>1, <1>3
  <2> QED
    BY <1>1, <1>2, <2>1, <2>2
<1> QED
  BY <1>1, <1>2, <1>3, <1>4

LEMMA DmxChangedUpdates ==
  ASSUME MergeInv, NEW p \in Port, NEW frame \in Frame, NEW priority \in Priority,
         DmxChanged(p, frame, priority)
  PROVE  Update
<1>1. p \in Source
  BY DEF Source
<1>2. /\ m_dmx_source' = NewData(p, frame, priority) /\ changed' = p
      /\ MergeAll(changed', m_source_clients', m_dmx_source')
      /\ p \in Range(m_input_ports)
      /\ m_source_clients' = m_source_clients
      /\ UNCHANGED <<m_input_ports, m_merge_mode, now, wake_up>>
  BY Zenon DEF DmxChanged, timeVars
<1>3. m_source_clients' \in SUBSET Client /\ changed' \in Members(m_source_clients')
  BY <1>2 DEF MergeInv, Members
<1> QED
  BY <1>1, <1>2, <1>3, NewDataIsStamped DEF Update

LEMMA SourceClientDataChangedUpdates ==
  ASSUME MergeInv, NEW c \in Client, NEW frame \in Frame, NEW priority \in Priority,
         SourceClientDataChanged(c, frame, priority)
  PROVE  Update
<1>1. c \in Source
  BY DEF Source
<1>2. /\ m_dmx_source' = NewData(c, frame, priority) /\ changed' = c
      /\ MergeAll(changed', m_source_clients', m_dmx_source')
      /\ m_source_clients' = m_source_clients \cup {c}
      /\ UNCHANGED <<m_input_ports, m_merge_mode, now, wake_up>>
  BY Zenon DEF SourceClientDataChanged, timeVars
<1>3. m_source_clients' \in SUBSET Client /\ changed' \in Members(m_source_clients')
  BY <1>2 DEF MergeInv, Members
<1> QED
  BY <1>1, <1>2, <1>3, NewDataIsStamped DEF Update

\* Every step is an update or changes no source's data.
LEMMA MergeSteps ==
  ASSUME MergeInv, [Next]_vars
  PROVE  MergeInv' /\ (Update \/ changed' = NoSource \/ UNCHANGED vars)
<1> USE DEF MergeInv
<1>1. ASSUME Update PROVE MergeInv'
  BY <1>1 DEF Update
<1>2. CASE \E p \in Port, frame \in Frame, priority \in Priority :
             DmxChanged(p, frame, priority)
  BY <1>1, <1>2, DmxChangedUpdates
<1>3. CASE \E c \in Client, frame \in Frame, priority \in Priority :
             SourceClientDataChanged(c, frame, priority)
  BY <1>1, <1>3, SourceClientDataChangedUpdates
<1>4. CASE \E mode \in {"LTP", "HTP"} : SetMergeMode(mode)
  BY <1>4 DEF SetMergeMode, timeVars
<1>5. ASSUME NEW p \in Port, AddPort(p) PROVE MergeInv' /\ changed' = NoSource
  <2>1. m_input_ports' \in Seq(Port)
    BY <1>5 DEF AddPort
  <2> QED
    BY <1>5, <2>1 DEF AddPort, timeVars
<1>6. ASSUME NEW p \in Port, RemovePort(p) PROVE MergeInv' /\ changed' = NoSource
  <2>1. PICK i \in DOMAIN m_input_ports : m_input_ports' = RemoveAt(m_input_ports, i)
    BY <1>6 DEF RemovePort
  <2>2. i \in 1..Len(m_input_ports) /\ m_input_ports \in Seq(Port)
    OBVIOUS
  <2>3. /\ SubSeq(m_input_ports, 1, i - 1) \in Seq(Port)
        /\ SubSeq(m_input_ports, i + 1, Len(m_input_ports)) \in Seq(Port)
    BY <2>2
  <2>4. m_input_ports' \in Seq(Port)
    BY <2>1, <2>3 DEF RemoveAt
  <2> QED
    BY <1>6, <2>4 DEF RemovePort, timeVars
<1>7. CASE \E c \in Client : RemoveSourceClient(c)
  BY <1>7 DEF RemoveSourceClient, timeVars
<1>8. CASE Tick
  <2>1. /\ now' \in Nat /\ wake_up' \in Nat /\ wake_up <= wake_up' /\ wake_up' <= now'
        /\ changed' = NoSource
        /\ UNCHANGED <<m_input_ports, m_source_clients, m_dmx_source, m_merge_mode>>
    BY <1>8 DEF Tick, sourceVars
  <2>2. ASSUME NEW s \in Source PROVE m_dmx_source'[s].timestamp <= wake_up'
    <3>1. m_dmx_source[s].timestamp \in Nat /\ m_dmx_source[s].timestamp <= wake_up
      BY DEF SourceData
    <3> QED
      BY <2>1, <3>1
  <2> QED
    BY <2>1, <2>2
<1>9. CASE UNCHANGED vars
  BY <1>9 DEF vars, sourceVars, timeVars
<1> HIDE DEF MergeInv
<1>10. CASE Next
  BY <1>2, <1>3, <1>4, <1>5, <1>6, <1>7, <1>8, <1>10, DmxChangedUpdates,
     SourceClientDataChangedUpdates DEF Next, SetMergeMode, RemoveSourceClient, Tick
<1> QED
  BY <1>9, <1>10

\* The sources have their types, and no data is stamped after the wake-up.
THEOREM MergeInvHolds == Spec => []MergeInv
<1>1. Init => MergeInv
  <2> SUFFICES ASSUME Init PROVE MergeInv
    OBVIOUS
  <2>1. NotSet \in SourceData /\ NotSet.timestamp = 0
    BY DEF NotSet, SourceData, SOURCE_PRIORITY_MIN
  <2> QED
    BY <2>1 DEF Init, MergeInv
<1>2. MergeInv /\ [Next]_vars => MergeInv'
  BY MergeSteps
<1> QED
  BY <1>1, <1>2, PTL DEF Spec

\* What an update finds is what the properties call the contributors, and their
\* data is what it merges.
LEMMA UpdateFinds ==
  ASSUME MergeInv, Update, NEW found,
         found = ActiveSources(m_source_clients', m_dmx_source', changed')
  PROVE  /\ found \in Found
         /\ found.effective <=> changed' \in Contributors'
         /\ \A s \in Contributors' : /\ s \in Source
                                     /\ m_dmx_source'[s].priority = found.priority
                                     /\ \E k \in 1..Len(found.sources) :
                                          found.sources[k] = m_dmx_source'[s]
         /\ \A k \in 1..Len(found.sources) :
              \E s \in Contributors' : found.sources[k] = m_dmx_source'[s]
<1> DEFINE data == m_dmx_source'
           some == Members(m_source_clients')
<1>1. /\ m_input_ports \in Seq(Port) /\ m_source_clients' \in SUBSET Client
      /\ data \in [Source -> SourceData]
  BY DEF MergeInv, Update
<1>2. found \in Found /\ IsFound(found, some, data, changed')
  BY <1>1, ActiveSourcesFinds
<1>3. some \subseteq Source
  BY <1>1 DEF Members, Source, Range
<1>4. \A s \in some : Counts(s, data) <=> s \in Alive'
  <2>1. some = (Range(m_input_ports) \cup m_source_clients)'
    BY DEF Update, Members
  <2>2. now' = now
    BY DEF Update
  <2> QED
    BY <2>1, <2>2 DEF Alive, Counts, IsSet, IsActive
<1>5. Alive' \subseteq some
  BY DEF Alive, Update, Members
<1>6. /\ found.priority \in Nat
      /\ \A s \in some : data[s].priority \in Nat
  BY <1>1, <1>2, <1>3 DEF Found, SourceData
<1>7. ASSUME NEW s
      PROVE  s \in Contributors' <=>
               s \in some /\ Counts(s, data) /\ data[s].priority = found.priority
  <2>1. s \in Contributors' <=>
          s \in Alive' /\ \A t \in Alive' : data[t].priority <= data[s].priority
    BY DEF Contributors
  <2>2. \A t \in Alive' : data[t].priority <= found.priority
    BY <1>2, <1>4, <1>5 DEF IsFound
  <2>3. ASSUME s \in Contributors'
        PROVE  s \in some /\ Counts(s, data) /\ data[s].priority = found.priority
    <3>1. s \in Alive' /\ s \in some /\ Counts(s, data)
      BY <1>4, <1>5, <2>1, <2>3
    <3>2. PICK t \in some : Counts(t, data) /\ data[t].priority = found.priority
      BY <1>2, <3>1 DEF IsFound
    <3>3. found.priority <= data[s].priority /\ data[s].priority <= found.priority
      BY <1>4, <2>1, <2>2, <2>3, <3>1, <3>2
    <3> QED
      BY <1>6, <3>1, <3>3
  <2> QED
    BY <1>4, <2>1, <2>2, <2>3
<1> HIDE DEF data, some
<1> QED
  BY <1>2, <1>3, <1>7, SMTT(30) DEF IsFound, data

\* The changed source is never older than the data of another.
LEMMA NeverStale ==
  ASSUME MergeInv, Update, NEW found,
         found = ActiveSources(m_source_clients', m_dmx_source', changed')
  PROVE  \A i \in DOMAIN found.sources :
           ~(m_dmx_source'[changed'].timestamp < found.sources[i].timestamp)
<1>1. TAKE i \in DOMAIN found.sources
<1>2. i \in 1..Len(found.sources)
  BY UpdateFinds DEF Found
<1>3. PICK s \in Source : found.sources[i] = m_dmx_source'[s]
  BY <1>2, UpdateFinds
<1>4. /\ m_dmx_source'[s].timestamp \in Nat /\ m_dmx_source'[s].timestamp <= wake_up
      /\ m_dmx_source'[changed'].timestamp = wake_up /\ wake_up \in Nat
  BY DEF Update, MergeInv, SourceData
<1> QED
  BY <1>3, <1>4

\* What an update of a contributor writes.
LEMMA UpdateWrites ==
  ASSUME MergeInv, Update, changed' \in Contributors', NEW found,
         found = ActiveSources(m_source_clients', m_dmx_source', changed')
  PROVE  /\ m_active_priority' = found.priority
         /\ m_buffer' = Merged(found.sources, m_dmx_source'[changed'])
         /\ written' = <<m_buffer', m_active_priority'>>
<1>1. found.effective = TRUE
  BY UpdateFinds DEF Found
<1>2. MergeAll(changed', m_source_clients', m_dmx_source')
  BY DEF Update
<1> QED
  BY <1>1, <1>2, NeverStale, Zenon DEF MergeAll

\* With a single source that counts, that is the changed one.
LEMMA SingleSource ==
  ASSUME MergeInv, Update, changed' \in Contributors', NEW found,
         found = ActiveSources(m_source_clients', m_dmx_source', changed'),
         Len(found.sources) = 1
  PROVE  found.sources[1] = m_dmx_source'[changed']
<1>1. PICK k \in 1..Len(found.sources) : found.sources[k] = m_dmx_source'[changed']
  BY UpdateFinds
<1>2. k = 1
  BY <1>1
<1> QED
  BY <1>1, <1>2

LEMMA NoSourceIsNoContributor ==
  ASSUME MergeInv', changed' = NoSource PROVE changed' \notin Contributors'
<1>1. Contributors' \subseteq Source
  <2>1. Contributors' \subseteq Range(m_input_ports') \cup m_source_clients'
    BY DEF Contributors, Alive
  <2>2. m_input_ports' \in Seq(Port) /\ m_source_clients' \subseteq Client
    BY DEF MergeInv
  <2> QED
    BY <2>1, <2>2 DEF Range, Source
<1> QED
  BY <1>1, ConstantsAssumption

-----------------------------------------------------------------------------
(* The theorems.                                                            *)

\* For any ports and clients, frames, priorities and timeout: in LTP mode an
\* update of a source of the highest active priority takes over the output, its
\* data is what MergeAll writes, and it is written with its priority.
THEOREM LTPLatestWinsHolds == Spec => LTPLatestWins
<1>1. ASSUME MergeInv, [Next]_vars, ~UNCHANGED vars,
             m_merge_mode' = "LTP", changed' \in Contributors'
      PROVE  /\ m_buffer' = m_dmx_source'[changed'].data
             /\ m_active_priority' = m_dmx_source'[changed'].priority
             /\ written' = <<m_buffer', m_active_priority'>>
  <2>1. Update
    BY <1>1, MergeSteps, NoSourceIsNoContributor
  <2> DEFINE found == ActiveSources(m_source_clients', m_dmx_source', changed')
  <2>2. m_merge_mode = "LTP"
    BY <1>1, <2>1 DEF Update
  <2> HIDE DEF found
  <2>3. /\ m_active_priority' = found.priority
        /\ m_buffer' = Merged(found.sources, m_dmx_source'[changed'])
        /\ written' = <<m_buffer', m_active_priority'>>
    BY <1>1, <2>1, UpdateWrites DEF found
  <2>4. m_dmx_source'[changed'].priority = found.priority
    BY <1>1, <2>1, UpdateFinds DEF found
  <2>5. Merged(found.sources, m_dmx_source'[changed']) = m_dmx_source'[changed'].data
    <3>1. Len(found.sources) = 1 => found.sources[1] = m_dmx_source'[changed']
      BY <1>1, <2>1, SingleSource DEF found
    <3>2. ~ \E i \in DOMAIN found.sources :
               m_dmx_source'[changed'].timestamp < found.sources[i].timestamp
      BY <1>1, <2>1, NeverStale DEF found
    <3> QED
      BY <2>2, <3>1, <3>2 DEF Merged
  <2> QED
    BY <2>3, <2>4, <2>5
<1>2. MergeInv /\ [Next]_vars =>
        [m_merge_mode' = "LTP" /\ changed' \in Contributors'
           => /\ m_buffer' = m_dmx_source'[changed'].data
              /\ m_active_priority' = m_dmx_source'[changed'].priority
              /\ written' = <<m_buffer', m_active_priority'>>]_vars
  BY <1>1
<1> QED
  BY <1>2, MergeInvHolds, PTL DEF Spec, LTPLatestWins

\* An update of a source of a lower priority, or of one whose data has timed out
\* when MergeAll reads the clock, changes neither the output nor what is written.
THEOREM LowPriorityHolds == Spec => LowPriorityHasNoEffect
<1>1. ASSUME MergeInv, [Next]_vars, ~UNCHANGED vars,
             changed' # NoSource, changed' \notin Contributors'
      PROVE  UNCHANGED <<m_buffer, written>>
  <2>1. Update
    BY <1>1, MergeSteps
  <2> DEFINE found == ActiveSources(m_source_clients', m_dmx_source', changed')
  <2>2. found.effective = FALSE
    BY <1>1, <2>1, UpdateFinds DEF Found
  <2>3. MergeAll(changed', m_source_clients', m_dmx_source')
    BY <2>1 DEF Update
  <2> QED
    BY <2>2, <2>3, Zenon DEF MergeAll
<1>2. MergeInv /\ [Next]_vars =>
        [changed' # NoSource /\ changed' \notin Contributors'
           => UNCHANGED <<m_buffer, written>>]_vars
  BY <1>1
<1> QED
  BY <1>2, MergeInvHolds, PTL DEF Spec, LowPriorityHasNoEffect

\* In HTP mode the buffer that MergeAll computes, source by source, is slot by
\* slot the highest value of the sources that count, for frames of any lengths.
THEOREM HTPHolds == Spec => HTPIsSlotwiseMax
<1>1. ASSUME MergeInv, [Next]_vars, ~UNCHANGED vars,
             m_merge_mode' = "HTP", changed' \in Contributors'
      PROVE  IsSlotwiseMax(m_buffer, Contributors)'
  <2>1. Update
    BY <1>1, MergeSteps, NoSourceIsNoContributor
  <2> DEFINE found == ActiveSources(m_source_clients', m_dmx_source', changed')
             sources == found.sources
             N == Len(sources)
  <2>2. m_merge_mode = "HTP"
    BY <1>1, <2>1 DEF Update
  <2> HIDE DEF found
  <2>3. m_buffer' = Merged(sources, m_dmx_source'[changed'])
    BY <1>1, <2>1, UpdateWrites DEF found
  <2>4. /\ sources \in Seq(SourceData) /\ N \in Nat
        /\ \A s \in Contributors' : \E k \in 1..N : sources[k] = m_dmx_source'[s]
        /\ \A k \in 1..N : \E s \in Contributors' : sources[k] = m_dmx_source'[s]
    BY <1>1, <2>1, UpdateFinds DEF found, Found
  <2>5. \A k \in 1..N : sources[k].data \in Seq(Nat)
    <3>1. Frame \subseteq Seq(Nat)
      BY ConstantsAssumption, Zenon
    <3>2. <<>> \in Seq(Nat)
      OBVIOUS
    <3>3. Frame \cup {<<>>} \subseteq Seq(Nat)
      BY <3>1, <3>2, Zenon
    <3>4. \A k \in 1..N : sources[k] \in SourceData
      BY <2>4
    <3> QED
      BY <3>3, <3>4 DEF SourceData
  <2> HIDE DEF sources, N
  <2>6. IsMaxOf(m_buffer', sources, N)
    <3>1. CASE N = 1
      <4>1. m_buffer' = sources[1].data
        BY <2>3, <3>1 DEF Merged, N
      <4>2. 1..N = {1} /\ m_buffer' \in Seq(Nat)
        BY <2>5, <3>1, <4>1
      <4>3. \A i \in 1..Len(m_buffer') : m_buffer'[i] <= m_buffer'[i]
        BY <4>2
      <4> QED
        BY <4>1, <4>2, <4>3 DEF IsMaxOf
    <3>2. CASE N # 1
      <4>1. m_buffer' = HTPMergeSources(sources)
        BY <2>2, <2>3, <3>2 DEF Merged, N
      <4> QED
        BY <2>4, <4>1, HTPMergeSourcesIsMax DEF N
    <3> QED
      BY <3>1, <3>2
  <2>7. DOMAIN m_buffer' = 1..Len(m_buffer') /\ Len(m_buffer') \in Nat
    BY <2>6 DEF IsMaxOf
  <2>8. ASSUME NEW s \in Contributors'
        PROVE  \E k \in 1..N : /\ sources[k] = m_dmx_source'[s]
                               /\ Slots(s)' = 1..Len(sources[k].data)
                               /\ Len(sources[k].data) \in Nat
    BY <2>4, <2>5, SMTT(30) DEF Slots
  <2>9. ASSUME NEW i \in DOMAIN m_buffer'
        PROVE  \E s \in Contributors' : /\ i \in Slots(s)'
                                        /\ m_buffer'[i] = m_dmx_source'[s].data[i]
    <3>1. PICK k \in 1..N : i \in 1..Len(sources[k].data) /\ m_buffer'[i] = sources[k].data[i]
      BY <2>6, <2>7 DEF IsMaxOf
    <3>2. PICK s \in Contributors' : sources[k] = m_dmx_source'[s]
      BY <2>4
    <3>3. i \in Slots(s)'
      BY <2>5, <3>1, <3>2 DEF Slots
    <3> QED
      BY <3>1, <3>2, <3>3
  <2>10. ASSUME NEW s \in Contributors', NEW i \in Slots(s)'
         PROVE  i \in DOMAIN m_buffer' /\ m_dmx_source'[s].data[i] <= m_buffer'[i]
    <3>1. PICK k \in 1..N : /\ sources[k] = m_dmx_source'[s]
                            /\ i \in 1..Len(sources[k].data)
                            /\ Len(sources[k].data) \in Nat
      BY <2>8
    <3>2. /\ Len(sources[k].data) <= Len(m_buffer')
          /\ sources[k].data[i] <= m_buffer'[i]
      BY <2>6, <3>1 DEF IsMaxOf
    <3> QED
      BY <2>7, <3>1, <3>2
  <2>11. DOMAIN m_buffer' = UNION {Slots(s)' : s \in Contributors'}
    BY <2>9, <2>10
  <2> QED
    BY <2>9, <2>10, <2>11 DEF IsSlotwiseMax
<1>2. MergeInv /\ [Next]_vars =>
        [m_merge_mode' = "HTP" /\ changed' \in Contributors'
           => IsSlotwiseMax(m_buffer, Contributors)']_vars
  BY <1>1
<1> QED
  BY <1>2, MergeInvHolds, PTL DEF Spec, HTPIsSlotwiseMax

-----------------------------------------------------------------------------
(* Broadcast requests.  AnsweredOnce is not inductive: it rests on what the *)
(* tracker's two counters count.                                            *)

\* current_count counts the ports that replied, expected_count the ports asked;
\* only ports the request was sent to reply.
CountInv ==
  /\ current_count = Cardinality(Replied)
  /\ expected_count = Cardinality(m_output_ports)
  /\ Replied \subseteq m_output_ports \ todo

\* The type invariant holds in every state of the specification.
THEOREM BroadcastTypeCorrect == BroadcastSpec => []BroadcastTypeOK
<1>1. BroadcastInit => BroadcastTypeOK
  <2> SUFFICES ASSUME BroadcastInit PROVE BroadcastTypeOK
    OBVIOUS
  <2>1. answers \in Seq(Status)
    BY DEF BroadcastInit, Status, AckStatus
  <2>2. status_code \in (IF is_dub THEN DUBStatus ELSE AckStatus)
    BY Zenon DEF BroadcastInit, AckStatus
  <2>3. is_dub \in BOOLEAN
    BY Zenon DEF BroadcastInit
  <2> QED
    BY <2>1, <2>2, <2>3, BroadcastAssumption DEF BroadcastInit, BroadcastTypeOK, Status, AckStatus
<1>2. BroadcastTypeOK /\ [BroadcastNext]_broadcastVars => BroadcastTypeOK'
  <2> SUFFICES ASSUME BroadcastTypeOK, [BroadcastNext]_broadcastVars PROVE BroadcastTypeOK'
    OBVIOUS
  <2> USE DEF BroadcastTypeOK, Status, DUBStatus, AckStatus
  <2>1. ASSUME NEW dub \in BOOLEAN, NEW ports \in SUBSET OutputPort,
               SendRDMRequest(dub, ports)
        PROVE  BroadcastTypeOK'
    <3>1. Cardinality(ports) \in Nat
      <4>1. IsFiniteSet(ports)
        BY FS_Subset, BroadcastAssumption
      <4> QED
        BY <4>1, FS_CardinalityType
    <3>2. answers' \in Seq(Status)
      <4>1. /\ <<>> \in Seq(Status)
            /\ <<"TIMEOUT">> \in Seq(Status)
            /\ <<"WAS_BROADCAST">> \in Seq(Status)
        OBVIOUS
      <4> QED
        BY <2>1, <4>1, Zenon DEF SendRDMRequest
    <3>3. status_code' \in (IF is_dub' THEN DUBStatus ELSE AckStatus)
      <4>1. status_code' = InitialStatus(dub) /\ is_dub' = dub
        BY <2>1 DEF SendRDMRequest
      <4>2. InitialStatus(dub) \in (IF dub THEN DUBStatus ELSE AckStatus)
        BY DEF InitialStatus
      <4> QED
        BY <4>1, <4>2, Zenon
    <3>4. is_dub' \in BOOLEAN
      BY <2>1, Zenon DEF SendRDMRequest
    <3>5. requests' \in 0..MaxRequests
      BY <2>1, BroadcastAssumption DEF SendRDMRequest
    <3> QED
      BY <2>1, <3>1, <3>2, <3>3, <3>4, <3>5 DEF SendRDMRequest
  <2>2. ASSUME NEW p \in OutputPort, SendToPort(p) PROVE BroadcastTypeOK'
    BY <2>2 DEF SendToPort, tracker
  <2>3. ASSUME NEW p \in OutputPort, NEW reply \in Status, HandleReply(p, reply),
               todo' \subseteq todo
        PROVE  BroadcastTypeOK'
    <3>1. status_code' \in (IF is_dub' THEN DUBStatus ELSE AckStatus)
      BY <2>3 DEF HandleReply, CombineDiscovery, CombineAck
    <3>2. answers' \in Seq(Status)
      BY <2>3, <3>1 DEF HandleReply
    <3> QED
      BY <2>3, <3>1, <3>2 DEF HandleReply
  <2>4. ASSUME NEW p \in OutputPort, NEW reply \in Status,
               SendToPortAnswered(p, reply)
        PROVE  BroadcastTypeOK'
    BY <2>3, <2>4 DEF SendToPortAnswered
  <2>5. ASSUME NEW p \in OutputPort, NEW reply \in Status, Reply(p, reply)
        PROVE  BroadcastTypeOK'
    BY <2>3, <2>5 DEF Reply
  <2>6. CASE UNCHANGED broadcastVars
    BY <2>6 DEF broadcastVars, tracker
  <2> QED
    BY <2>1, <2>2, <2>4, <2>5, <2>6 DEF BroadcastNext
<1> QED
  BY <1>1, <1>2, PTL DEF BroadcastSpec

\* A reply of a port that had not replied adds it to those that have.
LEMMA ReplyAdds ==
  ASSUME BroadcastTypeOK, NEW p \in OutputPort, NEW reply \in Status, HandleReply(p, reply),
         replies[p] = NoReply
  PROVE  /\ Replied' = Replied \cup {p} /\ p \notin Replied
         /\ replies'[p] = reply /\ \A q \in OutputPort : q # p => replies'[q] = replies[q]
<1>1. replies' = [replies EXCEPT ![p] = reply] /\ replies \in [OutputPort -> Status \cup {NoReply}]
  BY DEF HandleReply, BroadcastTypeOK
<1>2. replies'[p] = reply /\ \A q \in OutputPort : q # p => replies'[q] = replies[q]
  BY <1>1
<1>3. reply # NoReply
  BY DEF NoReply, Status, DUBStatus, AckStatus
<1> QED
  BY <1>2, <1>3 DEF Replied

\* The counters count what their names say, and no port replies twice.
THEOREM CountsCorrect == BroadcastSpec => []CountInv
<1>1. BroadcastInit => CountInv
  <2> SUFFICES ASSUME BroadcastInit PROVE CountInv
    OBVIOUS
  <2>1. Replied = {}
    BY DEF BroadcastInit, Replied
  <2> QED
    BY <2>1, FS_EmptySet DEF BroadcastInit, CountInv
<1>2. BroadcastTypeOK /\ CountInv /\ [BroadcastNext]_broadcastVars => CountInv'
  <2> SUFFICES ASSUME BroadcastTypeOK, CountInv, [BroadcastNext]_broadcastVars PROVE CountInv'
    OBVIOUS
  <2>1. ASSUME NEW dub \in BOOLEAN, NEW ports \in SUBSET OutputPort,
               SendRDMRequest(dub, ports)
        PROVE  CountInv'
    <3>1. Replied' = {}
      BY <2>1 DEF SendRDMRequest, Replied
    <3> QED
      BY <2>1, <3>1, FS_EmptySet DEF SendRDMRequest, CountInv
  <2>2. ASSUME NEW p \in OutputPort, SendToPort(p) PROVE CountInv'
    BY <2>2 DEF SendToPort, tracker, CountInv, Replied
  <2>3. ASSUME NEW p \in OutputPort, NEW reply \in Status, HandleReply(p, reply),
               replies[p] = NoReply, p \in m_output_ports, todo' = todo \ {p}
        PROVE  CountInv'
    <3>1. Replied' = Replied \cup {p} /\ p \notin Replied
      BY <2>3, ReplyAdds
    <3>2. IsFiniteSet(Replied)
      BY FS_Subset, BroadcastAssumption DEF Replied
    <3>3. Cardinality(Replied') = Cardinality(Replied) + 1
      BY <3>1, <3>2, FS_AddElement
    <3> QED
      BY <2>3, <3>1, <3>3 DEF HandleReply, CountInv
  <2>4. ASSUME NEW p \in OutputPort, NEW reply \in Status,
               SendToPortAnswered(p, reply)
        PROVE  CountInv'
    <3>1. replies[p] = NoReply /\ p \in m_output_ports
      BY <2>4 DEF SendToPortAnswered, CountInv, Replied, BroadcastTypeOK
    <3> QED
      BY <2>3, <2>4, <3>1 DEF SendToPortAnswered
  <2>5. ASSUME NEW p \in OutputPort, NEW reply \in Status, Reply(p, reply)
        PROVE  CountInv'
    <3>1. replies[p] = NoReply /\ p \in m_output_ports /\ todo' = todo \ {p}
      BY <2>5 DEF Reply, Waiting, Replied
    <3> QED
      BY <2>3, <2>5, <3>1 DEF Reply
  <2>6. CASE UNCHANGED broadcastVars
    BY <2>6 DEF broadcastVars, tracker, CountInv, Replied
  <2> QED
    BY <2>1, <2>2, <2>4, <2>5, <2>6 DEF BroadcastNext
<1>3. BroadcastSpec => []BroadcastTypeOK
  BY BroadcastTypeCorrect
<1> QED
  BY <1>1, <1>2, <1>3, PTL DEF BroadcastSpec

\* The tracker's status follows the documented precedence; that no port
\* replies twice makes this inductive.
THEOREM PrecedenceHolds == BroadcastSpec => []DiscoveryPrecedence
<1>1. BroadcastInit => DiscoveryPrecedence
  BY DEF BroadcastInit, DiscoveryPrecedence, Replied, NoReply
<1>2. BroadcastTypeOK /\ CountInv /\ DiscoveryPrecedence /\ [BroadcastNext]_broadcastVars =>
        DiscoveryPrecedence'
  <2> SUFFICES ASSUME BroadcastTypeOK, CountInv, DiscoveryPrecedence, [BroadcastNext]_broadcastVars
               PROVE  DiscoveryPrecedence'
    OBVIOUS
  <2>1. ASSUME NEW dub \in BOOLEAN, NEW ports \in SUBSET OutputPort,
               SendRDMRequest(dub, ports)
        PROVE  DiscoveryPrecedence'
    <3>1. Replied' = {}
      BY <2>1 DEF SendRDMRequest, Replied
    <3>2. status_code' # "DUB_RESPONSE" /\ status_code' # "TIMEOUT"
      BY <2>1 DEF SendRDMRequest, InitialStatus
    <3> QED
      BY <3>1, <3>2 DEF DiscoveryPrecedence
  <2>2. ASSUME NEW p \in OutputPort, SendToPort(p) PROVE DiscoveryPrecedence'
    BY <2>2, Zenon DEF SendToPort, tracker, DiscoveryPrecedence, Replied
  <2>3. ASSUME NEW p \in OutputPort, NEW reply \in Status, HandleReply(p, reply),
               replies[p] = NoReply, is_dub
        PROVE  DiscoveryPrecedence'
    <3>1. status_code' = CombineDiscovery(status_code, reply)
      <4>1. status_code' = IF is_dub THEN CombineDiscovery(status_code, reply)
                           ELSE CombineAck(status_code, reply)
        BY <2>3, Zenon DEF HandleReply
      <4> QED
        BY <2>3, <4>1
    <3>3. replies'[p] = reply /\ \A q \in OutputPort : q # p => replies'[q] = replies[q]
      BY <2>3, ReplyAdds
    <3>4. Replied' = Replied \cup {p} /\ p \notin Replied
      BY <2>3, ReplyAdds
    <3>5. is_dub'
      BY <2>3, Zenon DEF HandleReply
    <3>6. /\ status_code = "DUB_RESPONSE" <=> \E q \in Replied : replies[q] = "DUB_RESPONSE"
          /\ status_code = "TIMEOUT" <=> /\ \E q \in Replied : replies[q] = "TIMEOUT"
                                         /\ \A q \in Replied : replies[q] # "DUB_RESPONSE"
      BY <2>3, Zenon DEF DiscoveryPrecedence
    <3>7. Replied \subseteq OutputPort
      BY Zenon DEF Replied
    <3>8. status_code' = "DUB_RESPONSE"
            <=> \E q \in Replied' : replies'[q] = "DUB_RESPONSE"
      BY <3>1, <3>3, <3>4, <3>6, <3>7 DEF CombineDiscovery
    <3>9. status_code' = "TIMEOUT"
            <=> /\ \E q \in Replied' : replies'[q] = "TIMEOUT"
                /\ \A q \in Replied' : replies'[q] # "DUB_RESPONSE"
      BY <3>1, <3>3, <3>4, <3>6, <3>7 DEF CombineDiscovery
    <3> QED
      BY <3>5, <3>8, <3>9, Zenon DEF DiscoveryPrecedence
  <2>4. ASSUME NEW p \in OutputPort, NEW reply \in Status, HandleReply(p, reply),
               replies[p] = NoReply
        PROVE  DiscoveryPrecedence'
    <3>1. CASE is_dub
      BY <2>3, <2>4, <3>1
    <3>2. CASE ~is_dub
      BY <2>4, <3>2, Zenon DEF HandleReply, DiscoveryPrecedence
    <3> QED
      BY <3>1, <3>2
  <2>5. ASSUME NEW p \in OutputPort, NEW reply \in Status,
               SendToPortAnswered(p, reply)
        PROVE  DiscoveryPrecedence'
    <3>1. replies[p] = NoReply
      BY <2>5, Zenon DEF SendToPortAnswered, CountInv, Replied
    <3> QED
      BY <2>4, <2>5, <3>1 DEF SendToPortAnswered
  <2>6. ASSUME NEW p \in OutputPort, NEW reply \in Status, Reply(p, reply)
        PROVE  DiscoveryPrecedence'
    BY <2>4, <2>6 DEF Reply, Waiting, Replied
  <2>7. CASE UNCHANGED broadcastVars
    BY <2>7, Zenon DEF broadcastVars, tracker, DiscoveryPrecedence, Replied
  <2> QED
    BY <2>1, <2>2, <2>5, <2>6, <2>7 DEF BroadcastNext
<1>3. BroadcastSpec => []BroadcastTypeOK /\ []CountInv
  BY BroadcastTypeCorrect, CountsCorrect
<1> QED
  BY <1>1, <1>2, <1>3, PTL DEF BroadcastSpec

\* An error of one port is never reported as a successful broadcast.
THEOREM ErrorsHold == BroadcastSpec => []ErrorsPropagate
<1>1. BroadcastInit => ErrorsPropagate
  BY DEF BroadcastInit, ErrorsPropagate, Replied
<1>2. BroadcastTypeOK /\ CountInv /\ ErrorsPropagate /\ [BroadcastNext]_broadcastVars
        => ErrorsPropagate'
  <2> SUFFICES ASSUME BroadcastTypeOK, CountInv, ErrorsPropagate, [BroadcastNext]_broadcastVars
               PROVE  ErrorsPropagate'
    OBVIOUS
  <2>1. ASSUME NEW dub \in BOOLEAN, NEW ports \in SUBSET OutputPort,
               SendRDMRequest(dub, ports)
        PROVE  ErrorsPropagate'
    <3>1. Replied' = {}
      BY <2>1 DEF SendRDMRequest, Replied
    <3>2. is_dub' = dub /\ (~dub => status_code' = "WAS_BROADCAST")
      BY <2>1 DEF SendRDMRequest, InitialStatus
    <3> QED
      BY <3>1, <3>2, Zenon DEF ErrorsPropagate
  <2>2. ASSUME NEW p \in OutputPort, SendToPort(p) PROVE ErrorsPropagate'
    BY <2>2, Zenon DEF SendToPort, tracker, ErrorsPropagate, Replied
  <2>3. ASSUME NEW p \in OutputPort, NEW reply \in Status, HandleReply(p, reply),
               replies[p] = NoReply, ~is_dub
        PROVE  ErrorsPropagate'
    <3>1. status_code' = IF reply # "WAS_BROADCAST" THEN reply ELSE status_code
      BY <2>3 DEF HandleReply, CombineAck
    <3>2. replies'[p] = reply /\ \A q \in OutputPort : q # p => replies'[q] = replies[q]
      BY <2>3, ReplyAdds
    <3>3. Replied' = Replied \cup {p} /\ p \notin Replied
      BY <2>3, ReplyAdds
    <3>4. status_code = "WAS_BROADCAST" <=> \A q \in Replied : replies[q] = "WAS_BROADCAST"
      BY <2>3, Zenon DEF ErrorsPropagate
    <3>5. Replied \subseteq OutputPort
      BY Zenon DEF Replied
    <3>6. status_code' = "WAS_BROADCAST"
            <=> \A q \in Replied' : replies'[q] = "WAS_BROADCAST"
      BY <3>1, <3>2, <3>3, <3>4, <3>5
    <3> QED
      BY <3>6, Zenon DEF ErrorsPropagate
  <2>4. ASSUME NEW p \in OutputPort, NEW reply \in Status, HandleReply(p, reply),
               replies[p] = NoReply
        PROVE  ErrorsPropagate'
    <3>1. CASE ~is_dub
      BY <2>3, <2>4, <3>1
    <3>2. CASE is_dub
      BY <2>4, <3>2, Zenon DEF HandleReply, ErrorsPropagate
    <3> QED
      BY <3>1, <3>2
  <2>5. ASSUME NEW p \in OutputPort, NEW reply \in Status,
               SendToPortAnswered(p, reply)
        PROVE  ErrorsPropagate'
    <3>1. replies[p] = NoReply
      BY <2>5, Zenon DEF SendToPortAnswered, CountInv, Replied
    <3> QED
      BY <2>4, <2>5, <3>1 DEF SendToPortAnswered
  <2>6. ASSUME NEW p \in OutputPort, NEW reply \in Status, Reply(p, reply)
        PROVE  ErrorsPropagate'
    BY <2>4, <2>6 DEF Reply, Waiting, Replied
  <2>7. CASE UNCHANGED broadcastVars
    BY <2>7, Zenon DEF broadcastVars, tracker, ErrorsPropagate, Replied
  <2> QED
    BY <2>1, <2>2, <2>5, <2>6, <2>7 DEF BroadcastNext
<1>3. BroadcastSpec => []BroadcastTypeOK /\ []CountInv
  BY BroadcastTypeCorrect, CountsCorrect
<1> QED
  BY <1>1, <1>2, <1>3, PTL DEF BroadcastSpec

\* The callback runs once, with the reply of the last port.
THEOREM AnsweredOnceHolds == BroadcastSpec => []AnsweredOnce
<1>1. BroadcastInit => AnsweredOnce
  BY DEF BroadcastInit, AnsweredOnce
<1>2. BroadcastTypeOK /\ CountInv /\ CountInv' /\ AnsweredOnce /\ [BroadcastNext]_broadcastVars =>
        AnsweredOnce'
  <2> SUFFICES ASSUME BroadcastTypeOK, CountInv, CountInv', AnsweredOnce,
                      [BroadcastNext]_broadcastVars
               PROVE  AnsweredOnce'
    OBVIOUS
  <2>1. ASSUME NEW dub \in BOOLEAN, NEW ports \in SUBSET OutputPort,
               SendRDMRequest(dub, ports)
        PROVE  AnsweredOnce'
    <3>1. Replied' = {} /\ m_output_ports' = ports /\ (ports # {} => answers' = <<>>)
      BY <2>1 DEF SendRDMRequest, Replied
    <3> QED
      BY <3>1 DEF AnsweredOnce
  <2>2. ASSUME NEW p \in OutputPort, SendToPort(p) PROVE AnsweredOnce'
    BY <2>2, Zenon DEF SendToPort, tracker, AnsweredOnce, Replied
  <2>3. ASSUME NEW p \in OutputPort, NEW reply \in Status, HandleReply(p, reply),
               replies[p] = NoReply, p \in m_output_ports
        PROVE  AnsweredOnce'
    <3>1. Replied' = Replied \cup {p} /\ p \notin Replied
      BY <2>3, ReplyAdds
    <3>2. answers = <<>>
      BY <2>3, <3>1, Zenon DEF AnsweredOnce
    <3>3. /\ m_output_ports' = m_output_ports /\ expected_count' = expected_count
          /\ answers' = IF current_count' = expected_count
                        THEN Append(answers, status_code') ELSE answers
      BY <2>3, Zenon DEF HandleReply, Answered
    <3>4. current_count' = expected_count <=> Replied' = m_output_ports
      <4>1. IsFiniteSet(m_output_ports)
        BY FS_Subset, BroadcastAssumption DEF BroadcastTypeOK
      <4>2. Replied' \in SUBSET m_output_ports
        BY <3>3 DEF CountInv
      <4>3. Cardinality(m_output_ports) = Cardinality(Replied') => m_output_ports = Replied'
        BY <4>1, <4>2, FS_Subset
      <4> QED
        BY <3>3, <4>3 DEF CountInv
    <3>5. Append(<<>>, status_code') = <<status_code'>>
      OBVIOUS
    <3> QED
      BY <3>2, <3>3, <3>4, <3>5, Zenon DEF AnsweredOnce
  <2>4. ASSUME NEW p \in OutputPort, NEW reply \in Status,
               SendToPortAnswered(p, reply)
        PROVE  AnsweredOnce'
    <3>1. replies[p] = NoReply /\ p \in m_output_ports
      BY <2>4 DEF SendToPortAnswered, CountInv, Replied, BroadcastTypeOK
    <3> QED
      BY <2>3, <2>4, <3>1 DEF SendToPortAnswered
  <2>5. ASSUME NEW p \in OutputPort, NEW reply \in Status, Reply(p, reply)
        PROVE  AnsweredOnce'
    BY <2>3, <2>5 DEF Reply, Waiting, Replied
  <2>6. CASE UNCHANGED broadcastVars
    BY <2>6, Zenon DEF broadcastVars, tracker, AnsweredOnce, Replied
  <2> QED
    BY <2>1, <2>2, <2>4, <2>5, <2>6 DEF BroadcastNext
<1>3. BroadcastSpec => []BroadcastTypeOK /\ []CountInv
  BY BroadcastTypeCorrect, CountsCorrect
<1> QED
  BY <1>1, <1>2, <1>3, PTL DEF BroadcastSpec
=============================================================================
