------------------------- MODULE DiscoveryAgentProofs -------------------------
(***************************************************************************)
(* Proofs about DiscoveryAgent, for any UID space, any line and any number *)
(* of losses and changes of it: the request that is out is the one the     *)
(* agent's state stands for, a run reports only what acknowledged, the     *)
(* ranges on the stack are nested, and a run that meets no more than it    *)
(* can mend finds every good responder.  The last two need what Settle     *)
(* does to a stack of any depth, by induction on the number of its ranges. *)
(***************************************************************************)
EXTENDS DiscoveryAgent, FiniteSetTheorems, SequenceTheorems, TLAPS

-----------------------------------------------------------------------------
(* Settle, the loop of SendDiscovery, is a recursive function of the stack. *)
(* It frees a range before it goes on, so its equation has a solution: the  *)
(* solutions for the stacks of at most n ranges, for all n, put together.   *)

\* Induction on the natural numbers, for a set.
LEMMA Induction ==
  ASSUME NEW S, 0 \in S, \A n \in Nat : n \in S => n + 1 \in S
  PROVE  \A n \in Nat : n \in S
<1> DEFINE T == Nat \ S
           R == OpToRel(<, Nat)
<1>1. SUFFICES ASSUME T # {} PROVE FALSE
  OBVIOUS
<1>2. IsWellFoundedOn(R, Nat)
  BY NatLessThanWellFounded
<1>3. T \subseteq Nat
  OBVIOUS
<1> HIDE DEF T, R
<1>4. PICK m \in T : \A k \in T : ~ (<<k, m>> \in R)
  BY <1>1, <1>2, <1>3, WFMin
<1>5. m \in Nat /\ m \notin S
  BY <1>4 DEF T
<1>6. m # 0 /\ m - 1 \in Nat /\ m - 1 + 1 = m
  BY <1>5
<1>7. m - 1 \in T
  BY <1>5, <1>6 DEF T
<1>8. <<m - 1, m>> \in R
  BY <1>5, <1>6 DEF R, OpToRel
<1> QED
  BY <1>4, <1>7, <1>8

\* The body of the loop, with the function it calls.
Body(f, t) ==
  IF t.ranges = <<>> THEN t
  ELSE LET tried == [t EXCEPT !.ranges = CountAttempt(@)]
       IN  IF LimitReached(Last(tried.ranges)) THEN f[GiveUp(tried)] ELSE tried

LEMMA SettleIsChosen ==
  Settle = CHOOSE f : f = [t \in Tree |-> Body(f, t)]
BY DEF Settle, Body

\* The ranges of rs are the first of qs, as far as the search goes.
Above(rs, qs) ==
  /\ Len(rs) <= Len(qs)
  /\ \A i \in 1..Len(rs) : /\ rs[i].lower = qs[i].lower
                           /\ rs[i].upper = qs[i].upper
                           /\ rs[i].parent = qs[i].parent

\* Changing the counters or the mark of one range keeps the stack.
LEMMA Edited ==
  ASSUME NEW rs \in Seq(BranchRange), NEW i, NEW v,
         i \in 1..Len(rs) => /\ v \in BranchRange
                             /\ v.lower = rs[i].lower
                             /\ v.upper = rs[i].upper
                             /\ v.parent = rs[i].parent
  PROVE  /\ [rs EXCEPT ![i] = v] \in Seq(BranchRange)
         /\ Len([rs EXCEPT ![i] = v]) = Len(rs)
         /\ Above([rs EXCEPT ![i] = v], rs)
<1> DEFINE qs == [rs EXCEPT ![i] = v]
<1>1. Len(rs) \in Nat /\ DOMAIN rs = 1..Len(rs)
  OBVIOUS
<1>2. qs = [j \in 1..Len(rs) |-> IF j = i THEN v ELSE rs[j]]
  BY <1>1
<1>3. \A j \in 1..Len(rs) : /\ qs[j] \in BranchRange
                            /\ qs[j].lower = rs[j].lower
                            /\ qs[j].upper = rs[j].upper
                            /\ qs[j].parent = rs[j].parent
  BY <1>2
<1>4. qs \in [1..Len(rs) -> BranchRange]
  BY <1>2, <1>3
<1>5. qs \in Seq(BranchRange) /\ Len(qs) = Len(rs)
  BY <1>1, <1>4
<1> QED
  BY <1>1, <1>3, <1>5 DEF Above

LEMMA AboveTransitive ==
  ASSUME NEW rs, NEW qs, NEW ps, Len(rs) \in Nat, Len(qs) \in Nat, Len(ps) \in Nat,
         Above(rs, qs), Above(qs, ps)
  PROVE  Above(rs, ps)
BY DEF Above

LEMMA RangeEdited ==
  ASSUME NEW r \in BranchRange, NEW n \in Nat
  PROVE  LET v == [r EXCEPT !.attempt = n]
             w == [r EXCEPT !.failures = n]
             x == [r EXCEPT !.uids_discovered = n]
         IN  /\ v \in BranchRange /\ w \in BranchRange /\ x \in BranchRange
             /\ v.lower = r.lower /\ v.upper = r.upper /\ v.parent = r.parent
             /\ w.lower = r.lower /\ w.upper = r.upper /\ w.parent = r.parent
             /\ x.lower = r.lower /\ x.upper = r.upper /\ x.parent = r.parent
BY DEF BranchRange

LEMMA CountAttemptKeeps ==
  ASSUME NEW rs \in Seq(BranchRange), rs # <<>>
  PROVE  /\ CountAttempt(rs) \in Seq(BranchRange)
         /\ Len(CountAttempt(rs)) = Len(rs)
         /\ Above(CountAttempt(rs), rs)
<1> DEFINE n == Len(rs)
           v == [rs[n] EXCEPT !.attempt = @ + 1]
<1>1. n \in Nat /\ n \in 1..n
  OBVIOUS
<1>2. rs[n] \in BranchRange
  BY <1>1
<1>3. /\ v \in BranchRange
      /\ v.lower = rs[n].lower /\ v.upper = rs[n].upper /\ v.parent = rs[n].parent
  <2>1. rs[n].attempt + 1 \in Nat
    BY <1>2 DEF BranchRange
  <2> QED
    BY <1>2, <2>1, RangeEdited
<1> HIDE DEF v
<1>4. /\ [rs EXCEPT ![n] = v] \in Seq(BranchRange)
      /\ Len([rs EXCEPT ![n] = v]) = Len(rs)
      /\ Above([rs EXCEPT ![n] = v], rs)
  BY <1>3, Edited
<1>5. Above(rs, rs)
  BY <1>1 DEF Above
<1>6. CountAttempt(rs) = rs \/ CountAttempt(rs) = [rs EXCEPT ![n] = v]
  BY DEF CountAttempt, v
<1> QED
  BY <1>4, <1>5, <1>6

LEMMA FreeCurrentRangeKeeps ==
  ASSUME NEW t \in Tree, t.ranges # <<>>
  PROVE  /\ FreeCurrentRange(t) \in Tree
         /\ Len(FreeCurrentRange(t).ranges) = Len(t.ranges) - 1
         /\ Above(FreeCurrentRange(t).ranges, t.ranges)
<1> DEFINE n == Len(t.ranges)
           top == t.ranges[n]
           rest == SubSeq(t.ranges, 1, n - 1)
           p == top.parent
           v == [rest[p] EXCEPT !.uids_discovered = @ + top.uids_discovered]
<1>1. t.ranges \in Seq(BranchRange) /\ t.corrupt \in BOOLEAN
  BY DEF Tree
<1>2. n \in Nat /\ n \in 1..n /\ n - 1 \in Nat
  BY <1>1
<1>3. top \in BranchRange
  BY <1>1, <1>2
<1>4. rest \in Seq(BranchRange) /\ Len(rest) = n - 1
      /\ \A i \in 1..(n - 1) : rest[i] = t.ranges[i]
  BY <1>1, <1>2
<1>5. Above(rest, t.ranges)
  BY <1>2, <1>4 DEF Above
<1> HIDE DEF rest
<1>6. p \in 1..Len(rest) => /\ v \in BranchRange
                           /\ v.lower = rest[p].lower
                           /\ v.upper = rest[p].upper
                           /\ v.parent = rest[p].parent
  <2>1. SUFFICES ASSUME p \in 1..Len(rest)
                 PROVE  /\ v \in BranchRange
                        /\ v.lower = rest[p].lower
                        /\ v.upper = rest[p].upper
                        /\ v.parent = rest[p].parent
    OBVIOUS
  <2>2. rest[p] \in BranchRange
    BY <1>4, <2>1
  <2>3. top.uids_discovered \in Nat
    BY <1>3 DEF BranchRange
  <2> QED
    BY <2>2, <2>3, SMTT(30) DEF BranchRange
<1> HIDE DEF v, p
<1> DEFINE qs == [rest EXCEPT ![p] = v]
<1>7. qs \in Seq(BranchRange) /\ Len(qs) = Len(rest) /\ Above(qs, rest)
  BY <1>4, <1>6, Edited
<1>8. CASE rest = <<>>
  <2>1. FreeCurrentRange(t) = [ranges |-> rest, corrupt |-> t.corrupt \/ top.branch_corrupt]
    BY <1>8 DEF FreeCurrentRange, Last, rest
  <2>2. (t.corrupt \/ top.branch_corrupt) \in BOOLEAN
    OBVIOUS
  <2> QED
    BY <1>4, <1>5, <2>1, <2>2 DEF Tree
<1>9. CASE rest # <<>>
  <2>1. FreeCurrentRange(t) = [t EXCEPT !.ranges = qs]
    BY <1>9 DEF FreeCurrentRange, Last, rest, v, p
  <2> HIDE DEF qs
  <2>2. FreeCurrentRange(t) \in Tree /\ FreeCurrentRange(t).ranges = qs
    BY <1>7, <2>1 DEF Tree
  <2>3. Above(qs, t.ranges)
    BY <1>2, <1>4, <1>5, <1>7, AboveTransitive
  <2> QED
    BY <1>4, <1>7, <2>2, <2>3
<1> QED
  BY <1>8, <1>9

\* A branch that is given up leaves one range less.
Tried(t) == [t EXCEPT !.ranges = CountAttempt(@)]

LEMMA TriedKeeps ==
  ASSUME NEW t \in Tree, t.ranges # <<>>
  PROVE  /\ Tried(t) \in Tree
         /\ Len(Tried(t).ranges) = Len(t.ranges)
         /\ Tried(t).ranges # <<>>
         /\ Above(Tried(t).ranges, t.ranges)
<1>1. t.ranges \in Seq(BranchRange) /\ t.corrupt \in BOOLEAN
  BY DEF Tree
<1>2. /\ CountAttempt(t.ranges) \in Seq(BranchRange)
      /\ Len(CountAttempt(t.ranges)) = Len(t.ranges)
      /\ Above(CountAttempt(t.ranges), t.ranges)
  BY <1>1, CountAttemptKeeps
<1>3. Tried(t) \in Tree /\ Tried(t).ranges = CountAttempt(t.ranges)
  BY <1>1, <1>2 DEF Tried, Tree
<1>4. Tried(t).ranges # <<>>
  BY <1>1, <1>2, <1>3
<1> QED
  BY <1>2, <1>3, <1>4

LEMMA GiveUpKeeps ==
  ASSUME NEW t \in Tree, t.ranges # <<>>
  PROVE  /\ GiveUp(t) \in Tree
         /\ Len(GiveUp(t).ranges) = Len(t.ranges) - 1
         /\ Above(GiveUp(t).ranges, t.ranges)
<1> DEFINE p == Last(t.ranges).parent
           v == [t.ranges[p] EXCEPT !.branch_corrupt = TRUE]
           qs == [t.ranges EXCEPT ![p] = v]
           u == [t EXCEPT !.ranges = qs]
<1>1. t.ranges \in Seq(BranchRange) /\ t.corrupt \in BOOLEAN
  BY DEF Tree
<1>2. p \in 1..Len(t.ranges) => /\ v \in BranchRange
                               /\ v.lower = t.ranges[p].lower
                               /\ v.upper = t.ranges[p].upper
                               /\ v.parent = t.ranges[p].parent
  <2>1. SUFFICES ASSUME p \in 1..Len(t.ranges)
                 PROVE  /\ v \in BranchRange
                        /\ v.lower = t.ranges[p].lower
                        /\ v.upper = t.ranges[p].upper
                        /\ v.parent = t.ranges[p].parent
    OBVIOUS
  <2>2. t.ranges[p] \in BranchRange
    BY <1>1, <2>1
  <2> QED
    BY <2>2 DEF BranchRange
<1>3. GiveUp(t) = FreeCurrentRange(IF p = 0 THEN t ELSE u)
  BY DEF GiveUp
<1> HIDE DEF v, p
<1>4. qs \in Seq(BranchRange) /\ Len(qs) = Len(t.ranges) /\ Above(qs, t.ranges)
  BY <1>1, <1>2, Edited
<1> HIDE DEF qs
<1>5. u \in Tree /\ u.ranges = qs /\ u.ranges # <<>>
  BY <1>1, <1>4 DEF Tree
<1> HIDE DEF u
<1>6. CASE p = 0
  BY <1>3, <1>6, FreeCurrentRangeKeeps
<1>7. CASE p # 0
  <2>1. GiveUp(t) = FreeCurrentRange(u)
    BY <1>3, <1>7
  <2>2. /\ FreeCurrentRange(u) \in Tree
        /\ Len(FreeCurrentRange(u).ranges) = Len(u.ranges) - 1
        /\ Above(FreeCurrentRange(u).ranges, u.ranges)
    BY <1>5, FreeCurrentRangeKeeps
  <2>3. Len(t.ranges) \in Nat /\ Len(qs) \in Nat /\ Len(FreeCurrentRange(u).ranges) \in Nat
    <3>1. FreeCurrentRange(u).ranges \in Seq(BranchRange)
      BY <2>2 DEF Tree
    <3> QED
      BY <1>1, <1>4, <3>1
  <2>4. Above(FreeCurrentRange(u).ranges, t.ranges)
    BY <1>4, <1>5, <2>2, <2>3, AboveTransitive
  <2> QED
    BY <1>4, <1>5, <2>1, <2>2, <2>4
<1> QED
  BY <1>6, <1>7

\* The stacks of at most n ranges, and a solution of the equation for them.
TreeOf(n) == {t \in Tree : Len(t.ranges) <= n}
Solves(f, n) == f = [t \in TreeOf(n) |-> Body(f, t)]

LEMMA TreesGrow ==
  /\ \A t \in Tree : Len(t.ranges) \in Nat /\ t \in TreeOf(Len(t.ranges))
  /\ \A n \in Nat : TreeOf(n) \subseteq TreeOf(n + 1)
  /\ \A t \in TreeOf(0) : t.ranges = <<>>
<1>1. \A t \in Tree : t.ranges \in Seq(BranchRange)
  BY DEF Tree
<1>2. \A t \in Tree : Len(t.ranges) \in Nat
  BY <1>1
<1>3. \A t \in Tree : Len(t.ranges) <= 0 => t.ranges = <<>>
  BY <1>1
<1> QED
  BY <1>2, <1>3 DEF TreeOf

\* The body calls the function for a stack with fewer ranges, or not at all.
LEMMA BodyLocal ==
  ASSUME NEW f, NEW g, NEW n \in Nat, NEW t \in TreeOf(n),
         \A k \in Nat : k < n => \A s \in TreeOf(k) : f[s] = g[s]
  PROVE  Body(f, t) = Body(g, t)
<1>1. CASE t.ranges = <<>>
  BY <1>1 DEF Body
<1>2. CASE t.ranges # <<>>
  <2>1. t \in Tree /\ Len(t.ranges) \in Nat /\ Len(t.ranges) <= n
    BY TreesGrow DEF TreeOf
  <2>2. Tried(t) \in Tree /\ Len(Tried(t).ranges) = Len(t.ranges) /\ Tried(t).ranges # <<>>
    BY <1>2, <2>1, TriedKeeps
  <2>3. GiveUp(Tried(t)) \in Tree /\ Len(GiveUp(Tried(t)).ranges) = Len(t.ranges) - 1
    BY <2>2, GiveUpKeeps
  <2>4. Len(t.ranges) - 1 \in Nat
    BY <2>1, <2>3, TreesGrow
  <2>5. GiveUp(Tried(t)) \in TreeOf(Len(t.ranges) - 1)
    BY <2>3, <2>4 DEF TreeOf
  <2>6. f[GiveUp(Tried(t))] = g[GiveUp(Tried(t))]
    BY <2>1, <2>4, <2>5
  <2>7. \A h : Body(h, t) = IF LimitReached(Last(Tried(t).ranges)) THEN h[GiveUp(Tried(t))]
                            ELSE Tried(t)
    BY <1>2 DEF Body, Tried
  <2> QED
    BY <2>6, <2>7
<1> QED
  BY <1>1, <1>2

LEMMA SolutionsExist == \A n \in Nat : \E f : Solves(f, n)
<1> DEFINE S == {n \in Nat : \E f : Solves(f, n)}
<1>1. 0 \in S
  <2> DEFINE f == [t \in TreeOf(0) |-> t]
  <2>1. \A t \in TreeOf(0) : Body(f, t) = t
    BY TreesGrow DEF Body
  <2>2. f = [t \in TreeOf(0) |-> Body(f, t)]
    BY <2>1
  <2>3. Solves(f, 0)
    BY <2>2 DEF Solves
  <2> QED
    BY <2>3
<1>2. ASSUME NEW n \in Nat, n \in S PROVE n + 1 \in S
  <2>1. PICK f : Solves(f, n)
    BY <1>2
  <2> DEFINE g == [t \in TreeOf(n + 1) |-> Body(f, t)]
  <2>2. ASSUME NEW s \in TreeOf(n) PROVE g[s] = f[s]
    <3>1. s \in TreeOf(n + 1)
      BY <2>2, TreesGrow
    <3>2. f[s] = Body(f, s)
      BY <2>1, <2>2 DEF Solves
    <3> QED
      BY <3>1, <3>2
  <2>3. ASSUME NEW t \in TreeOf(n + 1) PROVE Body(g, t) = Body(f, t)
    <3> HIDE DEF g
    <3>1. \A k \in Nat : k < n + 1 => \A s \in TreeOf(k) : g[s] = f[s]
      <4>1. \A k \in Nat : k < n + 1 => TreeOf(k) \subseteq TreeOf(n)
        BY TreesGrow DEF TreeOf
      <4> QED
        BY <2>2, <4>1
    <3>2. n + 1 \in Nat
      OBVIOUS
    <3> QED
      BY <2>3, <3>1, <3>2, BodyLocal
  <2>4. g = [t \in TreeOf(n + 1) |-> Body(g, t)]
    BY <2>3
  <2>5. Solves(g, n + 1)
    BY <2>4 DEF Solves
  <2> QED
    BY <2>5
<1> HIDE DEF S
<1>3. \A n \in Nat : n \in S
  BY <1>1, <1>2, Induction
<1> QED
  BY <1>3 DEF S

\* Two solutions agree where both are defined.
LEMMA SolutionsAgree ==
  \A n \in Nat : \A k, l \in Nat : \A f, g :
    n <= k /\ n <= l /\ Solves(f, k) /\ Solves(g, l) => \A t \in TreeOf(n) : f[t] = g[t]
<1> DEFINE Agree(n) ==
      \A k, l \in Nat : \A f, g :
        n <= k /\ n <= l /\ Solves(f, k) /\ Solves(g, l) => \A t \in TreeOf(n) : f[t] = g[t]
    S == {n \in Nat : \A m \in Nat : m <= n => Agree(m)}
<1>1. ASSUME NEW n \in Nat, \A m \in Nat : m < n => Agree(m) PROVE Agree(n)
  <2>1. SUFFICES ASSUME NEW k \in Nat, NEW l \in Nat, NEW f, NEW g, n <= k, n <= l,
                        Solves(f, k), Solves(g, l), NEW t \in TreeOf(n)
                 PROVE  f[t] = g[t]
    OBVIOUS
  <2>2. \A m \in Nat : m < n => \A s \in TreeOf(m) : f[s] = g[s]
    BY <1>1, <2>1
  <2>3. Body(f, t) = Body(g, t)
    BY <2>1, <2>2, BodyLocal
  <2>4. t \in TreeOf(k) /\ t \in TreeOf(l)
    BY <2>1, TreesGrow DEF TreeOf
  <2>5. f[t] = Body(f, t) /\ g[t] = Body(g, t)
    BY <2>1, <2>4 DEF Solves
  <2> QED
    BY <2>3, <2>5
<1> HIDE DEF Agree
<1>2. 0 \in S
  <2>1. \A m \in Nat : ~(m < 0)
    OBVIOUS
  <2>2. Agree(0)
    BY <1>1, <2>1
  <2>3. \A m \in Nat : m <= 0 => m = 0
    OBVIOUS
  <2> QED
    BY <2>2, <2>3
<1>3. ASSUME NEW n \in Nat, n \in S PROVE n + 1 \in S
  <2>1. \A m \in Nat : m < n + 1 => Agree(m)
    BY <1>3
  <2>2. n + 1 \in Nat
    OBVIOUS
  <2>3. Agree(n + 1)
    BY <1>1, <2>1, <2>2
  <2>4. \A m \in Nat : m <= n + 1 => m < n + 1 \/ m = n + 1
    OBVIOUS
  <2>5. \A m \in Nat : m <= n + 1 => Agree(m)
    BY <2>1, <2>3, <2>4
  <2> QED
    BY <2>2, <2>5
<1>4. \A n \in Nat : n \in S => Agree(n)
  OBVIOUS
<1> HIDE DEF S
<1>5. \A n \in Nat : n \in S
  BY <1>2, <1>3, Induction
<1>6. \A n \in Nat : Agree(n)
  BY <1>4, <1>5
<1> QED
  BY <1>6 DEF Agree

\* Settle is what its definition says.
LEMMA SettleEquation == Settle = [t \in Tree |-> Body(Settle, t)]
<1> DEFINE Solution(n) == CHOOSE f : Solves(f, n)
           F == [t \in Tree |-> Solution(Len(t.ranges))[t]]
<1>1. \A n \in Nat : Solves(Solution(n), n)
  BY SolutionsExist
<1> HIDE DEF Solution
<1>2. ASSUME NEW t \in Tree PROVE F[t] = Body(F, t)
  <2> DEFINE n == Len(t.ranges)
             h == Solution(n)
  <2>1. n \in Nat /\ t \in TreeOf(n)
    BY <1>2, TreesGrow
  <2>2. Solves(h, n)
    BY <1>1, <2>1
  <2>3. F[t] = h[t] /\ h[t] = Body(h, t)
    BY <1>2, <2>1, <2>2 DEF Solves
  <2>4. ASSUME NEW k \in Nat, k < n, NEW s \in TreeOf(k) PROVE h[s] = F[s]
    <3> DEFINE m == Len(s.ranges)
    <3>1. s \in Tree /\ m \in Nat /\ m <= k /\ s \in TreeOf(m)
      BY <2>4, TreesGrow DEF TreeOf
    <3>2. Solves(Solution(m), m)
      BY <1>1, <3>1
    <3>3. m <= n /\ m <= m
      BY <2>1, <2>4, <3>1
    <3>4. F[s] = Solution(m)[s]
      BY <3>1
    <3> HIDE DEF m, h, n
    <3>5. h[s] = Solution(m)[s]
      BY <2>1, <2>2, <3>1, <3>2, <3>3, SolutionsAgree
    <3> QED
      BY <3>4, <3>5
  <2> HIDE DEF F, h, n
  <2>5. Body(h, t) = Body(F, t)
    BY <2>1, <2>4, BodyLocal
  <2> QED
    BY <2>3, <2>5
<1>3. F = [t \in Tree |-> Body(F, t)]
  BY <1>2
<1> HIDE DEF F
<1>4. \E f : f = [t \in Tree |-> Body(f, t)]
  BY <1>3
<1> QED
  BY <1>4, SettleIsChosen

\* SendDiscovery only frees ranges: what is left is the bottom of the stack.
LEMMA SettleKeeps ==
  ASSUME NEW t \in Tree
  PROVE  Settle[t] \in Tree /\ Above(Settle[t].ranges, t.ranges)
<1> DEFINE Keeps(s) == Settle[s] \in Tree /\ Above(Settle[s].ranges, s.ranges)
           S == {n \in Nat : \A s \in TreeOf(n) : Keeps(s)}
<1>1. \A s \in Tree : Settle[s] = Body(Settle, s)
  BY SettleEquation
<1>2. ASSUME NEW s \in Tree, s.ranges = <<>> PROVE Keeps(s)
  <2>1. Settle[s] = s
    BY <1>1, <1>2 DEF Body
  <2>2. Above(s.ranges, s.ranges)
    BY TreesGrow DEF Above
  <2> QED
    BY <1>2, <2>1, <2>2
<1>3. 0 \in S
  BY <1>2, TreesGrow DEF TreeOf
<1>4. ASSUME NEW n \in Nat, n \in S PROVE n + 1 \in S
  <2>1. SUFFICES ASSUME NEW s \in TreeOf(n + 1), s.ranges # <<>> PROVE Keeps(s)
    BY <1>2 DEF TreeOf
  <2> DEFINE u == GiveUp(Tried(s))
  <2>2. s \in Tree /\ Len(s.ranges) \in Nat /\ Len(s.ranges) <= n + 1
    BY <2>1, TreesGrow DEF TreeOf
  <2>3. /\ Tried(s) \in Tree /\ Len(Tried(s).ranges) = Len(s.ranges)
        /\ Tried(s).ranges # <<>> /\ Above(Tried(s).ranges, s.ranges)
    BY <2>1, <2>2, TriedKeeps
  <2>4. u \in Tree /\ Len(u.ranges) = Len(s.ranges) - 1 /\ Above(u.ranges, Tried(s).ranges)
    BY <2>3, GiveUpKeeps
  <2>5. Keeps(u)
    BY <1>4, <2>2, <2>4 DEF TreeOf
  <2>6. Settle[s] = IF LimitReached(Last(Tried(s).ranges)) THEN Settle[u] ELSE Tried(s)
    BY <1>1, <2>1, <2>2 DEF Body, Tried
  <2> HIDE DEF u
  <2>7. Len(Settle[u].ranges) \in Nat /\ Len(u.ranges) \in Nat /\ Len(Tried(s).ranges) \in Nat
    BY <2>3, <2>4, <2>5, TreesGrow
  <2>8. Above(u.ranges, s.ranges)
    BY <2>2, <2>3, <2>4, <2>7, AboveTransitive
  <2>9. Above(Settle[u].ranges, s.ranges)
    BY <2>2, <2>5, <2>7, <2>8, AboveTransitive
  <2> QED
    BY <2>3, <2>5, <2>6, <2>9
<1> HIDE DEF S
<1>5. \A n \in Nat : n \in S
  BY <1>3, <1>4, Induction
<1> QED
  BY <1>5, TreesGrow DEF S

-----------------------------------------------------------------------------
(* The request that is out is the one the agent's state stands for, and what *)
(* the run will report has acknowledged, or is about to be asked to.         *)

Stands(c) ==
  \/ c = Call("unmute", 0, 0) /\ m_uids \subseteq m_uids_to_mute
  \/ /\ c = Call("incremental", m_muting_uid, 0)
     /\ m_uids \subseteq acked \cup m_uids_to_mute \cup {m_muting_uid}
  \/ c = Call("mute", m_muting_uid, 0) /\ m_uids \subseteq acked
  \/ /\ c = Call("branch", Last(m_uid_ranges).lower, Last(m_uid_ranges).upper)
     /\ m_uids \subseteq acked

Idle ==
  /\ calls = {}
  /\ m_on_complete = FALSE
  /\ m_discovery_callbacks = {}

Running ==
  /\ m_on_complete = TRUE
  /\ m_discovery_callbacks # {}
  /\ m_uid_ranges # <<>>
  /\ \E c : calls = {c} /\ Stands(c)

InStep == ~crashed /\ (Idle \/ Running)

AnswerInv ==
  /\ aborted \/ InStep
  /\ aborted => m_on_complete = FALSE
  /\ NoGhosts

LEMMA InitAnswer == Init => AnswerInv
<1>1. SUFFICES ASSUME Init PROVE AnswerInv
  OBVIOUS
<1>2. \A i \in DOMAIN results : results[i].by = "none"
  BY <1>1 DEF Init
<1>3. NoGhosts
  BY <1>2 DEF NoGhosts
<1> QED
  BY <1>1, <1>3 DEF Init, AnswerInv, InStep, Idle

\* The completion of a run that reports only what acknowledged.
LEMMA CompletedKeeps ==
  ASSUME NEW status, NEW uids, NoGhosts, RunCompleteCallback(status, uids),
         m_on_complete = TRUE => uids \subseteq acked', m_on_complete \in BOOLEAN
  PROVE  NoGhosts' /\ m_on_complete' = FALSE
         /\ (m_on_complete = TRUE => m_discovery_callbacks' = {})
<1>1. CASE m_on_complete = TRUE
  <2>1. DOMAIN results' = DOMAIN results
    BY <1>1 DEF RunCompleteCallback
  <2>2. ASSUME NEW i \in DOMAIN results, results'[i].by = "run"
        PROVE  results'[i].uids \subseteq results'[i].acked
    <3>1. CASE i \in m_discovery_callbacks
      <4>1. results'[i].uids = uids /\ results'[i].acked = acked'
        BY <1>1, <2>2, <3>1 DEF RunCompleteCallback
      <4> QED
        BY <1>1, <4>1
    <3>2. CASE i \notin m_discovery_callbacks /\ i \in m_pending_discovery_callbacks
      <4>1. results'[i] = [by |-> "refused", status |-> FALSE, uids |-> {}]
        BY <1>1, <2>2, <3>2 DEF RunCompleteCallback
      <4> QED
        BY <2>2, <4>1
    <3>3. CASE i \notin m_discovery_callbacks /\ i \notin m_pending_discovery_callbacks
      <4>1. results'[i] = results[i]
        BY <1>1, <2>2, <3>3 DEF RunCompleteCallback
      <4> QED
        BY <2>2, <4>1 DEF NoGhosts
    <3> QED
      BY <3>1, <3>2, <3>3
  <2>3. NoGhosts'
    BY <2>1, <2>2 DEF NoGhosts
  <2> QED
    BY <1>1, <2>3 DEF RunCompleteCallback
<1>2. CASE m_on_complete = FALSE
  <2>1. UNCHANGED clientVars
    BY <1>2 DEF RunCompleteCallback
  <2> QED
    BY <1>2, <2>1 DEF clientVars, NoGhosts
<1> QED
  BY <1>1, <1>2

\* The end of a handler: the search goes on or is complete.
LEMMA SendDiscoveryKeeps ==
  ASSUME NEW t, NEW uids, NoGhosts, SendDiscovery(t, uids, {}),
         m_on_complete = TRUE, m_discovery_callbacks # {},
         uids = m_uids', uids \subseteq acked', ~crashed'
  PROVE  InStep' /\ NoGhosts'
<1>1. CASE m_uid_ranges' = <<>>
  <2>1. RunCompleteCallback(~m_tree_corrupt', uids) /\ calls' = {}
    BY <1>1 DEF SendDiscovery
  <2>2. NoGhosts' /\ m_on_complete' = FALSE /\ m_discovery_callbacks' = {}
    BY <2>1, CompletedKeeps
  <2> QED
    BY <2>1, <2>2 DEF InStep, Idle
<1>2. CASE m_uid_ranges' # <<>>
  <2>1. PICK c : c = Call("branch", Last(m_uid_ranges').lower, Last(m_uid_ranges').upper)
    OBVIOUS
  <2>2. calls' = {c} /\ UNCHANGED clientVars
    BY <1>2, <2>1 DEF SendDiscovery
  <2>3. Stands(c)'
    BY <2>1 DEF Stands
  <2>4. NoGhosts' /\ m_on_complete' = TRUE /\ m_discovery_callbacks' # {}
    BY <2>2 DEF NoGhosts, clientVars
  <2> QED
    BY <1>2, <2>2, <2>3, <2>4 DEF InStep, Running
<1> QED
  BY <1>1, <1>2

\* After Abort() a late answer may go on, but reports nothing.
LEMMA LateAnswerKeeps ==
  ASSUME NEW t, NEW uids, NEW rest, NoGhosts, m_on_complete = FALSE,
         SendDiscovery(t, uids, rest)
  PROVE  NoGhosts' /\ m_on_complete' = FALSE
<1>1. UNCHANGED clientVars
  BY DEF SendDiscovery, RunCompleteCallback
<1> QED
  BY <1>1 DEF clientVars, NoGhosts

\* The next mute of an incremental run, or its search.
LEMMA MaybeMuteKeeps ==
  ASSUME NEW uids, NoGhosts, MaybeMuteNextDevice(uids, {}),
         m_on_complete = TRUE, m_discovery_callbacks # {}, m_uid_ranges # <<>>,
         uids = m_uids', uids \subseteq acked' \cup m_uids_to_mute, ~crashed'
  PROVE  InStep' /\ NoGhosts'
<1>1. CASE m_uids_to_mute = {}
  <2>1. SendDiscovery(TheTree, uids, {})
    BY <1>1 DEF MaybeMuteNextDevice
  <2>2. uids \subseteq acked'
    BY <1>1
  <2> QED
    BY <2>1, <2>2, SendDiscoveryKeeps
<1>2. CASE m_uids_to_mute # {}
  <2> PICK c : c = Call("incremental", m_muting_uid', 0)
    OBVIOUS
  <2>1. /\ m_uids_to_mute' = m_uids_to_mute \ {m_muting_uid'}
        /\ calls' = {c} /\ UNCHANGED <<stackVars, clientVars>>
    BY <1>2 DEF MaybeMuteNextDevice
  <2>2. m_uids' \subseteq acked' \cup m_uids_to_mute' \cup {m_muting_uid'}
    BY <2>1
  <2>3. Stands(c)'
    BY <2>2 DEF Stands
  <2>4. NoGhosts' /\ m_on_complete' = TRUE /\ m_discovery_callbacks' # {} /\ m_uid_ranges' # <<>>
    BY <2>1 DEF NoGhosts, clientVars, stackVars
  <2> QED
    BY <2>1, <2>3, <2>4 DEF InStep, Running
<1> QED
  BY <1>1, <1>2

LEMMA LateMuteKeeps ==
  ASSUME NEW uids, NEW rest, NoGhosts, m_on_complete = FALSE,
         MaybeMuteNextDevice(uids, rest)
  PROVE  NoGhosts' /\ m_on_complete' = FALSE
<1>1. CASE m_uids_to_mute = {}
  BY <1>1, LateAnswerKeeps DEF MaybeMuteNextDevice
<1>2. CASE m_uids_to_mute # {}
  BY <1>2 DEF MaybeMuteNextDevice, clientVars, NoGhosts
<1> QED
  BY <1>1, <1>2

\* A request that is completed is the only one.
LEMMA OnlyRequest ==
  ASSUME InStep, NEW c, c \in calls
  PROVE  /\ Running /\ ~crashed /\ Stands(c)
         /\ calls = {c} /\ calls \ {c} = {}
BY DEF InStep, Idle, Running

\* Requests differ by what is asked and of whom.
LEMMA CallsDiffer ==
  ASSUME NEW op, NEW a, NEW b, NEW p, NEW x, NEW y
  PROVE  Call(op, a, b) = Call(p, x, y) <=> op = p /\ a = x /\ b = y
<1>1. /\ Call(op, a, b).op = op /\ Call(op, a, b).a = a /\ Call(op, a, b).b = b
      /\ Call(p, x, y).op = p /\ Call(p, x, y).a = x /\ Call(p, x, y).b = y
  BY DEF Call
<1> QED
  BY <1>1

LEMMA StepGeneric ==
  ASSUME AnswerInv, NEW full \in BOOLEAN, GenericDiscovery(full)
  PROVE  AnswerInv'
<1>1. InStep /\ NoGhosts /\ aborted' = aborted /\ crashed' = crashed /\ ~aborted /\ ~crashed
      /\ results' = results
  BY DEF AnswerInv, GenericDiscovery
<1>2. NoGhosts'
  BY <1>1 DEF NoGhosts
<1>3. CASE m_discovery_callbacks = {}
  <2>1. calls = {}
    BY <1>1, <1>3 DEF InStep, Idle, Running
  <2>2. InitDiscovery({Len(asked')}, full)
    BY <1>3 DEF GenericDiscovery
  <2>3. /\ m_on_complete' = TRUE /\ m_discovery_callbacks' = {Len(asked')}
        /\ m_uid_ranges' = <<UIDRange(0, Top, 0)>>
        /\ calls' = {Call("unmute", 0, 0)} /\ m_uids' \subseteq m_uids_to_mute'
    BY <2>1, <2>2 DEF InitDiscovery
  <2>4. m_uid_ranges' # <<>>
    BY <2>3
  <2>5. Stands(Call("unmute", 0, 0))'
    BY <2>3 DEF Stands, Call
  <2> QED
    BY <1>1, <1>2, <2>3, <2>4, <2>5 DEF AnswerInv, InStep, Running
<1>4. CASE m_discovery_callbacks # {}
  <2>1. UNCHANGED <<agentVars, stackVars, m_on_complete, m_discovery_callbacks, runVars, calls>>
    BY <1>4 DEF GenericDiscovery
  <2>2. UNCHANGED <<m_uids, m_uids_to_mute, m_muting_uid, m_uid_ranges, acked>>
    BY <2>1 DEF agentVars, stackVars, runVars
  <2>3. Running
    BY <1>1, <1>4 DEF InStep, Idle
  <2>4. PICK c : calls = {c} /\ Stands(c)
    BY <2>3 DEF Running
  <2>5. Stands(c)'
    BY <2>2, <2>4 DEF Stands, Last
  <2> QED
    BY <1>1, <1>2, <2>1, <2>2, <2>3, <2>4, <2>5 DEF AnswerInv, InStep, Running
<1> QED
  BY <1>3, <1>4

LEMMA StepAbort ==
  ASSUME AnswerInv, Abort
  PROVE  AnswerInv'
<1>1. DOMAIN results' = DOMAIN results /\ aborted' = TRUE /\ m_on_complete' = FALSE
  BY DEF Abort
<1>2. ASSUME NEW i \in DOMAIN results, results'[i].by = "run"
      PROVE  results'[i].uids \subseteq results'[i].acked
  <2>1. CASE i \in m_discovery_callbacks
    <3>1. results'[i] = [by |-> "abort", status |-> FALSE, uids |-> {}]
      BY <1>2, <2>1 DEF Abort
    <3> QED
      BY <1>2, <3>1
  <2>2. CASE i \notin m_discovery_callbacks
    BY <1>2, <2>2 DEF Abort, AnswerInv, NoGhosts
  <2> QED
    BY <2>1, <2>2
<1> QED
  BY <1>1, <1>2 DEF AnswerInv, NoGhosts

LEMMA StepUnMute ==
  ASSUME AnswerInv, NEW lost \in BOOLEAN, UnMuteComplete(lost), ~crashed
  PROVE  AnswerInv'
<1> DEFINE u == Call("unmute", 0, 0)
           rest == calls \ {u}
<1>1. u \in calls /\ UNCHANGED <<acked, aborted, crashed>> /\ NoGhosts
  BY DEF UnMuteComplete, AnswerInv
<1>2. CASE aborted
  <2>1. m_on_complete = FALSE
    BY <1>2 DEF AnswerInv
  <2>2. \/ MaybeMuteNextDevice(m_uids, rest)
        \/ UNCHANGED clientVars
    BY DEF UnMuteComplete
  <2>3. NoGhosts' /\ m_on_complete' = FALSE
    BY <1>1, <2>1, <2>2, LateMuteKeeps DEF clientVars, NoGhosts
  <2> QED
    BY <1>1, <1>2, <2>3 DEF AnswerInv
<1>3. CASE ~aborted
  <2>1. Running /\ Stands(u) /\ rest = {}
    BY <1>1, <1>3, OnlyRequest DEF AnswerInv
  <2>2. m_uids \subseteq m_uids_to_mute /\ m_uid_ranges # <<>>
        /\ m_on_complete = TRUE /\ m_discovery_callbacks # {}
    BY <2>1, CallsDiffer DEF Stands, Running
  <2> HIDE DEF u
  <2>3. UNCHANGED m_uids
    BY <2>2 DEF UnMuteComplete
  <2>4. CASE m_unmute_count' < BROADCAST_UNMUTE_REPEATS
    <3>1. calls' = {u} /\ UNCHANGED <<m_uids_to_mute, m_muting_uid, stackVars, clientVars>>
      BY <2>1, <2>2, <2>4 DEF UnMuteComplete, u
    <3>2. Stands(u)'
      BY <2>2, <2>3, <3>1 DEF Stands, u, Call
    <3>3. NoGhosts' /\ m_on_complete' = TRUE /\ m_discovery_callbacks' # {}
          /\ m_uid_ranges' # <<>>
      BY <1>1, <2>2, <3>1 DEF NoGhosts, clientVars, stackVars
    <3> QED
      BY <1>1, <1>3, <3>1, <3>2, <3>3 DEF AnswerInv, InStep, Running, u, Call
  <2>5. CASE ~(m_unmute_count' < BROADCAST_UNMUTE_REPEATS)
    <3>1. MaybeMuteNextDevice(m_uids, rest)
      BY <2>2, <2>5 DEF UnMuteComplete, u
    <3> HIDE DEF rest
    <3>2. InStep' /\ NoGhosts'
      BY <1>1, <2>1, <2>2, <2>3, <3>1, MaybeMuteKeeps
    <3> QED
      BY <1>1, <1>3, <3>2 DEF AnswerInv
  <2> QED
    BY <2>4, <2>5
<1> QED
  BY <1>2, <1>3

LEMMA StepIncremental ==
  ASSUME AnswerInv, NEW u, NEW fate, IncrementalMuteComplete(u, fate), ~crashed
  PROVE  AnswerInv'
<1> DEFINE c == Call("incremental", u, 0)
           rest == calls \ {c}
<1>1. c \in calls /\ UNCHANGED <<aborted, crashed>> /\ NoGhosts
      /\ MaybeMuteNextDevice(m_uids', rest)
  BY DEF IncrementalMuteComplete, AnswerInv
<1>2. CASE aborted
  <2>1. m_on_complete = FALSE
    BY <1>2 DEF AnswerInv
  <2>2. NoGhosts' /\ m_on_complete' = FALSE
    BY <1>1, <2>1, LateMuteKeeps
  <2> QED
    BY <1>1, <1>2, <2>2 DEF AnswerInv
<1>3. CASE ~aborted
  <2>1. Running /\ Stands(c) /\ rest = {}
    BY <1>1, <1>3, OnlyRequest DEF AnswerInv
  <2>2. /\ u = m_muting_uid
        /\ m_uids \subseteq acked \cup m_uids_to_mute \cup {m_muting_uid}
        /\ m_uid_ranges # <<>> /\ m_on_complete = TRUE /\ m_discovery_callbacks # {}
    BY <2>1, CallsDiffer DEF Stands, Running
  <2>3. m_uids' \subseteq acked' \cup m_uids_to_mute
    BY <2>2 DEF IncrementalMuteComplete
  <2> HIDE DEF rest
  <2>4. InStep' /\ NoGhosts'
    BY <1>1, <2>1, <2>2, <2>3, MaybeMuteKeeps
  <2> QED
    BY <1>1, <1>3, <2>4 DEF AnswerInv
<1> QED
  BY <1>2, <1>3

LEMMA StepMute ==
  ASSUME AnswerInv, NEW u, NEW fate, BranchMuteComplete(u, fate), ~crashed
  PROVE  AnswerInv'
<1> DEFINE c == Call("mute", u, 0)
           rest == calls \ {c}
<1>1. c \in calls /\ UNCHANGED aborted /\ NoGhosts
  BY DEF BranchMuteComplete, AnswerInv
<1>2. CASE aborted
  <2>1. m_on_complete = FALSE
    BY <1>2 DEF AnswerInv
  <2>2. \/ UNCHANGED clientVars
        \/ \E t, uids : SendDiscovery(t, uids, rest)
    BY DEF BranchMuteComplete, Crash
  <2>3. NoGhosts' /\ m_on_complete' = FALSE
    BY <1>1, <2>1, <2>2, LateAnswerKeeps DEF clientVars, NoGhosts
  <2> QED
    BY <1>1, <1>2, <2>3 DEF AnswerInv
<1>3. CASE ~aborted
  <2>1. Running /\ Stands(c) /\ rest = {}
    BY <1>1, <1>3, OnlyRequest DEF AnswerInv
  <2>2. /\ u = m_muting_uid /\ m_uids \subseteq acked
        /\ m_uid_ranges # <<>> /\ m_on_complete = TRUE /\ m_discovery_callbacks # {}
    BY <2>1, CallsDiffer DEF Stands, Running
  <2>3. ~crashed' /\ m_muting_uid' = m_muting_uid
    BY <2>2 DEF BranchMuteComplete
  <2>4. m_uids' \subseteq acked'
    BY <2>2 DEF BranchMuteComplete
  <2>5. CASE \E t : SendDiscovery(t, m_uids', rest)
    <3> HIDE DEF rest
    <3>1. InStep' /\ NoGhosts'
      BY <1>1, <2>1, <2>2, <2>3, <2>4, <2>5, SendDiscoveryKeeps
    <3> QED
      BY <1>1, <1>3, <3>1 DEF AnswerInv
  <2>6. CASE calls' = rest \cup {Call("mute", m_muting_uid, 0)} /\ UNCHANGED <<stackVars, clientVars>>
    <3>1. calls' = {c}
      BY <2>1, <2>2, <2>6
    <3>2. Stands(c)'
      BY <2>2, <2>3, <2>4 DEF Stands, Call
    <3>3. NoGhosts' /\ m_on_complete' = TRUE /\ m_discovery_callbacks' # {}
          /\ m_uid_ranges' # <<>>
      BY <1>1, <2>2, <2>6 DEF NoGhosts, clientVars, stackVars
    <3> QED
      BY <1>1, <1>3, <2>3, <3>1, <3>2, <3>3 DEF AnswerInv, InStep, Running
  <2> QED
    BY <2>2, <2>5, <2>6 DEF BranchMuteComplete
<1> QED
  BY <1>2, <1>3

LEMMA StepBranch ==
  ASSUME AnswerInv, NEW c, NEW fate, BranchComplete(c, fate), ~crashed
  PROVE  AnswerInv'
<1> DEFINE rest == calls \ {c}
<1>1. c \in calls /\ c.op = "branch" /\ UNCHANGED <<acked, aborted>> /\ NoGhosts
  BY DEF BranchComplete, AnswerInv
<1>2. \/ BranchTimedOut(rest) \/ BranchCollided(rest)
      \/ \E u : BranchLocated(u, rest)
  BY DEF BranchComplete
<1>3. CASE aborted
  <2>1. m_on_complete = FALSE
    BY <1>3 DEF AnswerInv
  <2>2. \/ UNCHANGED clientVars
        \/ \E t, uids : SendDiscovery(t, uids, rest)
    BY <1>2 DEF BranchTimedOut, BranchCollided, BranchLocated, Crash
  <2>3. NoGhosts' /\ m_on_complete' = FALSE
    BY <1>1, <2>1, <2>2, LateAnswerKeeps DEF clientVars, NoGhosts
  <2> QED
    BY <1>1, <1>3, <2>3 DEF AnswerInv
<1>4. CASE ~aborted
  <2>1. Running /\ Stands(c) /\ rest = {}
    BY <1>1, <1>4, OnlyRequest DEF AnswerInv
  <2>2. /\ m_uids \subseteq acked
        /\ m_uid_ranges # <<>> /\ m_on_complete = TRUE /\ m_discovery_callbacks # {}
    BY <1>1, <2>1 DEF Stands, Running, Call
  <2>3. ~crashed' /\ m_uids' = m_uids
    BY <1>2, <2>2 DEF BranchTimedOut, BranchCollided, BranchLocated, agentVars
  <2>4. \/ \E t : SendDiscovery(t, m_uids, rest)
        \/ /\ calls' = rest \cup {Call("mute", m_muting_uid', 0)}
           /\ UNCHANGED <<stackVars, clientVars>>
    BY <1>2, <2>2 DEF BranchTimedOut, BranchCollided, BranchLocated
  <2>5. CASE \E t : SendDiscovery(t, m_uids, rest)
    <3> HIDE DEF rest
    <3>1. m_uids = m_uids' /\ m_uids \subseteq acked'
      BY <1>1, <2>2, <2>3
    <3>2. InStep' /\ NoGhosts'
      BY <1>1, <2>1, <2>2, <2>3, <2>5, <3>1, SendDiscoveryKeeps
    <3> QED
      BY <1>1, <1>4, <3>2 DEF AnswerInv
  <2>6. CASE /\ calls' = rest \cup {Call("mute", m_muting_uid', 0)}
             /\ UNCHANGED <<stackVars, clientVars>>
    <3> PICK d : d = Call("mute", m_muting_uid', 0)
      OBVIOUS
    <3>1. calls' = {d}
      BY <2>1, <2>6
    <3>2. Stands(d)'
      BY <1>1, <2>2, <2>3 DEF Stands
    <3>3. NoGhosts' /\ m_on_complete' = TRUE /\ m_discovery_callbacks' # {}
          /\ m_uid_ranges' # <<>>
      BY <1>1, <2>2, <2>6 DEF NoGhosts, clientVars, stackVars
    <3> QED
      BY <1>1, <1>4, <2>3, <3>1, <3>2, <3>3 DEF AnswerInv, InStep, Running
  <2> QED
    BY <2>4, <2>5, <2>6
<1> QED
  BY <1>3, <1>4

LEMMA AnswerUnchanged ==
  ASSUME AnswerInv,
         UNCHANGED <<agentVars, stackVars, clientVars, acked, calls, aborted, crashed>>
  PROVE  AnswerInv'
<1>1. /\ UNCHANGED <<m_uids, m_uids_to_mute, m_muting_uid, m_uid_ranges>>
      /\ UNCHANGED <<m_on_complete, m_discovery_callbacks, results>>
      /\ UNCHANGED <<acked, calls, aborted, crashed>>
  BY DEF agentVars, stackVars, clientVars
<1>2. \A c : Stands(c) => Stands(c)'
  BY <1>1 DEF Stands, Last
<1>3. NoGhosts'
  BY <1>1 DEF AnswerInv, NoGhosts
<1> QED
  BY <1>1, <1>2, <1>3 DEF AnswerInv, InStep, Idle, Running

LEMMA StepAnswer == AnswerInv /\ [Next]_vars => AnswerInv'
<1> SUFFICES ASSUME AnswerInv, [Next]_vars PROVE AnswerInv'
  OBVIOUS
<1>1. CASE \E full \in BOOLEAN : GenericDiscovery(full)
  BY <1>1, StepGeneric
<1>2. CASE Abort
  BY <1>2, StepAbort
<1>3. CASE TargetCompletes
  <2>1. CASE \E lost \in BOOLEAN : UnMuteComplete(lost) /\ ~crashed
    BY <2>1, StepUnMute
  <2>2. CASE \E u, fate : IncrementalMuteComplete(u, fate) /\ ~crashed
    BY <2>2, StepIncremental
  <2>3. CASE \E u, fate : BranchMuteComplete(u, fate) /\ ~crashed
    BY <2>3, StepMute
  <2>4. CASE \E c, fate : BranchComplete(c, fate) /\ ~crashed
    BY <2>4, StepBranch
  <2> QED
    BY <1>3, <2>1, <2>2, <2>3, <2>4 DEF TargetCompletes, Spends
<1>4. CASE \E new \in Lines : Replug(new)
  BY <1>4, AnswerUnchanged DEF Replug
<1>5. CASE UNCHANGED vars
  BY <1>5, AnswerUnchanged DEF vars, runVars
<1> QED
  BY <1>1, <1>2, <1>3, <1>4, <1>5 DEF Next

\* A run of the discovery reports only UIDs that acknowledged a mute of that
\* very run, however many requests and replies are lost and however often the
\* line changes (IncrementalMuteComplete, BranchMuteComplete).
THEOREM NoGhostsHold == Spec => []NoGhosts
<1>1. AnswerInv => NoGhosts
  BY DEF AnswerInv
<1> QED
  BY <1>1, InitAnswer, StepAnswer, PTL DEF Spec

\* Until Abort() is called, at most one request is out, exactly while a
\* discovery runs, and it is about the top of the stack or m_muting_uid, which
\* the handlers take it to be about; so top() of an empty stack is never read.
THEOREM AnswersMeetTheirState == Spec => []AnswerMeetsItsState
<1>1. AnswerInv => AnswerMeetsItsState
  <2>1. SUFFICES ASSUME InStep
                 PROVE  /\ ~crashed
                        /\ Cardinality(calls) <= 1
                        /\ m_on_complete <=> calls # {}
                        /\ \A c \in calls :
                             /\ m_uid_ranges # <<>>
                             /\ c.op = "branch" => /\ c.a = Last(m_uid_ranges).lower
                                                  /\ c.b = Last(m_uid_ranges).upper
                             /\ c.op \in {"mute", "incremental"} => c.a = m_muting_uid
    BY DEF AnswerInv, AnswerMeetsItsState
  <2>2. CASE Idle
    BY <2>1, <2>2, FS_EmptySet DEF Idle, InStep
  <2>3. CASE Running
    <3>1. PICK c : calls = {c} /\ Stands(c)
      BY <2>3 DEF Running
    <3>2. Cardinality(calls) <= 1
      BY <3>1, FS_Singleton
    <3>3. /\ c.op = "branch" => /\ c.a = Last(m_uid_ranges).lower
                               /\ c.b = Last(m_uid_ranges).upper
          /\ c.op \in {"mute", "incremental"} => c.a = m_muting_uid
      BY <3>1 DEF Stands, Call
    <3> QED
      BY <2>1, <2>3, <3>1, <3>2, <3>3 DEF InStep, Running
  <2> QED
    BY <2>1, <2>2, <2>3 DEF InStep
<1> QED
  BY <1>1, InitAnswer, StepAnswer, PTL DEF Spec

-----------------------------------------------------------------------------
(* The ranges on the stack, for lines that use neither end of the space:     *)
(* zero is no device's UID, and the UID at the top addresses all devices.    *)

EndsUnused ==
  /\ \A l \in Lines : l[0] = "absent" /\ l[Top] = "absent"
  /\ 0 \notin Phantoms /\ Top \notin Phantoms

Inside(r, p) ==
  /\ p.lower <= r.lower /\ r.upper <= p.upper
  /\ r.lower # p.lower \/ r.upper # p.upper

Nested(rs) ==
  \A i \in 1..Len(rs) :
    /\ rs[i].lower <= rs[i].upper
    /\ i = 1 => rs[i].parent = 0
    /\ i # 1 => rs[i].parent \in 1..(i - 1) /\ Inside(rs[i], rs[rs[i].parent])

NestedStack(rs) == rs \in Seq(BranchRange) /\ Nested(rs)

NestedInv ==
  /\ NestedStack(m_uid_ranges)
  /\ m_tree_corrupt \in BOOLEAN
  /\ line \in Lines
  /\ \A c \in calls : c.op = "branch" => c.a \in UID /\ c.b \in UID

LEMMA NestedAbove ==
  ASSUME NEW rs \in Seq(BranchRange), NEW qs \in Seq(BranchRange), Above(rs, qs), Nested(qs)
  PROVE  Nested(rs)
<1>1. Len(rs) \in Nat /\ Len(qs) \in Nat /\ Len(rs) <= Len(qs)
  BY DEF Above
<1>2. SUFFICES ASSUME NEW i \in 1..Len(rs)
               PROVE  /\ rs[i].lower <= rs[i].upper
                      /\ i = 1 => rs[i].parent = 0
                      /\ i # 1 => rs[i].parent \in 1..(i - 1) /\ Inside(rs[i], rs[rs[i].parent])
  BY DEF Nested
<1>3. i \in 1..Len(qs) /\ i \in Nat
  BY <1>1
<1>4. /\ qs[i].lower <= qs[i].upper
      /\ i = 1 => qs[i].parent = 0
      /\ i # 1 => qs[i].parent \in 1..(i - 1) /\ Inside(qs[i], qs[qs[i].parent])
  BY <1>3 DEF Nested
<1>5. \A j \in 1..Len(rs) : /\ rs[j].lower = qs[j].lower
                            /\ rs[j].upper = qs[j].upper
                            /\ rs[j].parent = qs[j].parent
  BY DEF Above
<1>6. \A j \in 1..(i - 1) : j \in 1..Len(rs)
  BY <1>1, <1>3
<1> QED
  BY <1>4, <1>5, <1>6 DEF Inside

LEMMA FailedKeeps ==
  ASSUME NEW rs \in Seq(BranchRange), rs # <<>>
  PROVE  /\ Failed(rs) \in Seq(BranchRange)
         /\ Len(Failed(rs)) = Len(rs)
         /\ Above(Failed(rs), rs)
<1> DEFINE n == Len(rs)
           k == (rs[n].failures + 1) % FailureModulus
           v == [rs[n] EXCEPT !.failures = k]
<1>1. n \in Nat /\ n \in 1..n
  OBVIOUS
<1>2. rs[n] \in BranchRange
  BY <1>1
<1>3. k \in Nat
  <2>1. rs[n].failures \in Nat
    BY <1>2 DEF BranchRange
  <2>2. FailureModulus \in Nat /\ FailureModulus > 0
    BY ConstantsAssumption
  <2> QED
    BY <2>1, <2>2
<1> HIDE DEF k
<1>4. /\ v \in BranchRange
      /\ v.lower = rs[n].lower /\ v.upper = rs[n].upper /\ v.parent = rs[n].parent
  BY <1>2, <1>3, RangeEdited
<1>5. Failed(rs) = [rs EXCEPT ![n] = v]
  BY DEF Failed, k
<1> HIDE DEF v
<1>6. /\ [rs EXCEPT ![n] = v] \in Seq(BranchRange)
      /\ Len([rs EXCEPT ![n] = v]) = Len(rs)
      /\ Above([rs EXCEPT ![n] = v], rs)
  BY <1>4, Edited
<1> QED
  BY <1>5, <1>6

\* Ranges within the top range are pushed onto the stack.
LEMMA PushedNested ==
  ASSUME NEW rs, NestedStack(rs), rs # <<>>, NEW qs \in Seq(BranchRange), NEW k \in Nat,
         \A j \in 1..Len(qs) : /\ qs[j].lower <= qs[j].upper
                               /\ qs[j].parent = Len(rs)
                               /\ Inside(qs[j], Last(rs))
  PROVE  NestedStack([rs EXCEPT ![Len(rs)].uids_discovered = k] \o qs)
<1> DEFINE n == Len(rs)
           v == [rs[n] EXCEPT !.uids_discovered = k]
           base == [rs EXCEPT ![n] = v]
           all == base \o qs
<1>1. rs \in Seq(BranchRange) /\ n \in Nat /\ n \in 1..n /\ n >= 1
  BY DEF NestedStack
<1>2. rs[n] \in BranchRange
  BY <1>1
<1>3. /\ v \in BranchRange
      /\ v.lower = rs[n].lower /\ v.upper = rs[n].upper /\ v.parent = rs[n].parent
  BY <1>2, RangeEdited
<1>4. [rs EXCEPT ![Len(rs)].uids_discovered = k] = base
  OBVIOUS
<1> HIDE DEF v
<1>5. base \in Seq(BranchRange) /\ Len(base) = n /\ Above(base, rs)
  BY <1>1, <1>3, Edited
<1> HIDE DEF base
<1>6. Nested(base)
  BY <1>1, <1>5, NestedAbove DEF NestedStack
<1>7. Len(qs) \in Nat
  OBVIOUS
<1>8. /\ all \in Seq(BranchRange) /\ Len(all) = n + Len(qs)
      /\ \A i \in 1..n : all[i] = base[i]
      /\ \A i \in (n + 1)..(n + Len(qs)) : all[i] = qs[i - n]
  BY <1>1, <1>5, <1>7, SMTT(30)
<1> HIDE DEF all, n
<1>9. ASSUME NEW i \in 1..Len(all)
      PROVE  /\ all[i].lower <= all[i].upper
             /\ i = 1 => all[i].parent = 0
             /\ i # 1 => all[i].parent \in 1..(i - 1) /\ Inside(all[i], all[all[i].parent])
  <2>1. CASE i \in 1..n
    <3>1. /\ base[i].lower <= base[i].upper
          /\ i = 1 => base[i].parent = 0
          /\ i # 1 => base[i].parent \in 1..(i - 1) /\ Inside(base[i], base[base[i].parent])
      BY <1>5, <1>6, <2>1 DEF Nested
    <3>2. \A j \in 1..(i - 1) : j \in 1..n
      BY <1>1, <2>1
    <3> QED
      BY <1>8, <2>1, <3>1, <3>2
  <2>2. CASE i \notin 1..n
    <3>1. i \in (n + 1)..(n + Len(qs)) /\ i - n \in 1..Len(qs) /\ n \in 1..(i - 1) /\ i # 1
      BY <1>1, <1>7, <1>8, <1>9, <2>2
    <3>2. all[i] = qs[i - n] /\ all[n] = base[n]
      BY <1>1, <1>8, <3>1
    <3>3. /\ all[i].lower <= all[i].upper /\ all[i].parent = n
          /\ Inside(all[i], rs[n])
      BY <3>1, <3>2 DEF Last, n
    <3>4. base[n].lower = rs[n].lower /\ base[n].upper = rs[n].upper
      BY <1>1, <1>5 DEF Above
    <3>5. Inside(all[i], all[n])
      BY <3>2, <3>3, <3>4 DEF Inside
    <3> QED
      BY <3>1, <3>3, <3>5
  <2> QED
    BY <2>1, <2>2
<1>10. Nested(all)
  BY <1>9 DEF Nested
<1> QED
  BY <1>4, <1>8, <1>10 DEF NestedStack, all

LEMMA ToUIDIdentity ==
  ASSUME NEW n \in UID
  PROVE  ToUID(n) = n
<1>1. Top + 1 \in Nat /\ Top + 1 > 0 /\ n \in Nat /\ n < Top + 1
  BY ConstantsAssumption DEF UID
<1> QED
  BY <1>1 DEF ToUID

LEMMA Middle ==
  ASSUME NEW a \in UID, NEW b \in UID, a < b
  PROVE  LET mid == (a + b) \div 2
         IN  /\ ToUID(mid) = mid /\ ToUID(mid + 1) = mid + 1
             /\ mid \in UID /\ mid + 1 \in UID
             /\ a <= mid /\ mid + 1 <= b
<1> DEFINE mid == (a + b) \div 2
<1>1. a \in Int /\ b \in Int /\ 0 <= a /\ b <= Top /\ Top \in Nat
  BY ConstantsAssumption DEF UID
<1>2. mid \in Int /\ a <= mid /\ mid + 1 <= b
  BY <1>1
<1> HIDE DEF mid
<1>3. mid \in UID /\ mid + 1 \in UID
  BY <1>1, <1>2 DEF UID
<1> QED
  BY <1>2, <1>3, ToUIDIdentity DEF mid

LEMMA RangeFields ==
  ASSUME NEW a \in UID, NEW b \in UID, NEW p \in Nat
  PROVE  /\ UIDRange(a, b, p) \in BranchRange
         /\ UIDRange(a, b, p).lower = a /\ UIDRange(a, b, p).upper = b
         /\ UIDRange(a, b, p).parent = p
BY DEF UIDRange, BranchRange

\* What is pushed above the top range.
Below(q, rs) ==
  /\ q \in BranchRange
  /\ q.lower <= q.upper /\ q.parent = Len(rs) /\ Inside(q, Last(rs))

LEMMA TopOfStack ==
  ASSUME NEW rs, NestedStack(rs), rs # <<>>
  PROVE  /\ Len(rs) \in Nat
         /\ Last(rs) \in BranchRange
         /\ Last(rs).lower \in UID /\ Last(rs).upper \in UID
         /\ Last(rs).lower \in Int /\ Last(rs).upper \in Int
         /\ Last(rs).lower <= Last(rs).upper
<1>1. rs \in Seq(BranchRange) /\ Len(rs) \in Nat /\ Len(rs) \in 1..Len(rs)
  BY DEF NestedStack
<1>2. Last(rs) \in BranchRange /\ Last(rs).lower <= Last(rs).upper
  BY <1>1 DEF Last, NestedStack, Nested
<1>3. Last(rs).lower \in UID /\ Last(rs).upper \in UID
  BY <1>2 DEF BranchRange
<1>4. \A n \in UID : n \in Int
  BY ConstantsAssumption DEF UID
<1> QED
  BY <1>1, <1>2, <1>3, <1>4

LEMMA FailedNested ==
  ASSUME NEW rs, NestedStack(rs), rs # <<>>
  PROVE  NestedStack(Failed(rs)) /\ Failed(rs) # <<>>
<1>1. rs \in Seq(BranchRange) /\ Nested(rs)
  BY DEF NestedStack
<1>2. /\ Failed(rs) \in Seq(BranchRange) /\ Len(Failed(rs)) = Len(rs)
      /\ Above(Failed(rs), rs)
  BY <1>1, FailedKeeps
<1>3. Nested(Failed(rs))
  BY <1>1, <1>2, NestedAbove
<1>4. Failed(rs) # <<>>
  BY <1>1, <1>2
<1> QED
  BY <1>2, <1>3, <1>4 DEF NestedStack

LEMMA HalvedNested ==
  ASSUME NEW rs, NestedStack(rs), rs # <<>>
  PROVE  NestedStack(Halved(rs)) /\ Halved(rs) \in Seq(BranchRange)
<1> DEFINE r == Last(rs)
           mid == (r.lower + r.upper) \div 2
           x == UIDRange(r.lower, ToUID(mid), Len(rs))
           y == UIDRange(ToUID(mid + 1), r.upper, Len(rs))
<1>1. /\ Len(rs) \in Nat /\ r.lower \in UID /\ r.upper \in UID /\ r.lower <= r.upper
      /\ r.lower \in Int /\ r.upper \in Int
  BY TopOfStack
<1>2. CASE r.lower = r.upper
  BY <1>2, FailedNested DEF Halved, NestedStack
<1>3. CASE r.lower # r.upper
  <2>1. r.lower < r.upper
    BY <1>1, <1>3
  <2>2. /\ ToUID(mid) = mid /\ ToUID(mid + 1) = mid + 1 /\ mid \in UID /\ mid + 1 \in UID
        /\ r.lower <= mid /\ mid + 1 <= r.upper
    BY <1>1, <2>1, Middle
  <2>3. mid \in Int
    BY <2>2, ConstantsAssumption DEF UID
  <2>4. Halved(rs) = [rs EXCEPT ![Len(rs)].uids_discovered = 0] \o <<x, y>>
    BY <1>3 DEF Halved
  <2> HIDE DEF mid, r
  <2>5. x \in BranchRange /\ x.lower = r.lower /\ x.upper = mid /\ x.parent = Len(rs)
    BY <1>1, <2>2, RangeFields
  <2>6. y \in BranchRange /\ y.lower = mid + 1 /\ y.upper = r.upper /\ y.parent = Len(rs)
    BY <1>1, <2>2, RangeFields
  <2> HIDE DEF x, y
  <2>7. Inside(x, r) /\ Inside(y, r) /\ x.lower <= x.upper /\ y.lower <= y.upper
    BY <1>1, <2>2, <2>3, <2>5, <2>6 DEF Inside
  <2>8. <<x, y>> \in Seq(BranchRange) /\ Len(<<x, y>>) = 2
    BY <2>5, <2>6
  <2>9. \A j \in 1..Len(<<x, y>>) : /\ <<x, y>>[j].lower <= <<x, y>>[j].upper
                                    /\ <<x, y>>[j].parent = Len(rs)
                                    /\ Inside(<<x, y>>[j], Last(rs))
    BY <2>5, <2>6, <2>7 DEF r
  <2>10. NestedStack([rs EXCEPT ![Len(rs)].uids_discovered = 0] \o <<x, y>>)
    BY <2>8, <2>9, PushedNested
  <2> QED
    BY <2>4, <2>10 DEF NestedStack
<1> QED
  BY <1>2, <1>3

LEMMA SplitAroundNested ==
  ASSUME NEW rs, NestedStack(rs), rs # <<>>, NEW bad \in Int, bad # 0, bad # Top
  PROVE  NestedStack(SplitAround(rs, bad)) /\ SplitAround(rs, bad) \in Seq(BranchRange)
<1> DEFINE r == Last(rs)
           below == ToUID(bad - 1)
           above == ToUID(bad + 1)
           xs == IF below >= r.lower THEN <<UIDRange(r.lower, below, Len(rs))>> ELSE <<>>
           ys == IF above <= r.upper THEN <<UIDRange(above, r.upper, Len(rs))>> ELSE <<>>
           base == [rs EXCEPT ![Len(rs)].uids_discovered = 0]
<1>1. /\ Len(rs) \in Nat /\ r.lower \in UID /\ r.upper \in UID /\ r.lower <= r.upper
      /\ r.lower \in Int /\ r.upper \in Int
  BY TopOfStack
<1>2. CASE r.lower = r.upper
  BY <1>2, FailedNested DEF SplitAround, NestedStack
<1>3. CASE r.lower # r.upper /\ (bad < r.lower \/ bad > r.upper)
  BY <1>3, HalvedNested DEF SplitAround
<1>4. CASE r.lower # r.upper /\ ~(bad < r.lower \/ bad > r.upper)
  <2>1. SplitAround(rs, bad) = base \o xs \o ys
    BY <1>4 DEF SplitAround
  <2>2. Top \in Nat /\ r.lower >= 0 /\ r.upper <= Top
    BY <1>1, ConstantsAssumption DEF UID
  <2>3. r.lower <= bad /\ bad <= r.upper
    BY <1>1, <1>4
  <2>4. bad - 1 \in UID /\ bad + 1 \in UID
    BY <1>1, <2>2, <2>3 DEF UID
  <2>5. below = bad - 1 /\ above = bad + 1
    BY <2>4, ToUIDIdentity
  <2> HIDE DEF below, above, r, base
  <2>6. xs \in Seq(BranchRange) /\ \A j \in 1..Len(xs) : Below(xs[j], rs)
    <3>1. CASE below >= r.lower
      <4> DEFINE x == UIDRange(r.lower, below, Len(rs))
      <4>1. x \in BranchRange /\ x.lower = r.lower /\ x.upper = below /\ x.parent = Len(rs)
        BY <1>1, <2>4, <2>5, RangeFields
      <4>2. xs = <<x>>
        BY <3>1
      <4> HIDE DEF x, xs
      <4>3. Inside(x, r) /\ x.lower <= x.upper
        BY <1>1, <2>3, <2>5, <3>1, <4>1 DEF Inside
      <4>4. Below(x, rs)
        BY <4>1, <4>3 DEF Below, r
      <4> QED
        BY <4>1, <4>2, <4>4
    <3>2. CASE ~(below >= r.lower)
      BY <3>2
    <3> QED
      BY <3>1, <3>2
  <2>7. ys \in Seq(BranchRange) /\ \A j \in 1..Len(ys) : Below(ys[j], rs)
    <3>1. CASE above <= r.upper
      <4> DEFINE y == UIDRange(above, r.upper, Len(rs))
      <4>1. y \in BranchRange /\ y.lower = above /\ y.upper = r.upper /\ y.parent = Len(rs)
        BY <1>1, <2>4, <2>5, RangeFields
      <4>2. ys = <<y>>
        BY <3>1
      <4> HIDE DEF y, ys
      <4>3. Inside(y, r) /\ y.lower <= y.upper
        BY <1>1, <2>3, <2>5, <3>1, <4>1 DEF Inside
      <4>4. Below(y, rs)
        BY <4>1, <4>3 DEF Below, r
      <4> QED
        BY <4>1, <4>2, <4>4
    <3>2. CASE ~(above <= r.upper)
      BY <3>2
    <3> QED
      BY <3>1, <3>2
  <2> HIDE DEF xs, ys
  <2> DEFINE qs == xs \o ys
  <2>8. Len(xs) \in Nat /\ Len(ys) \in Nat
    BY <2>6, <2>7
  <2>9. /\ qs \in Seq(BranchRange) /\ Len(qs) = Len(xs) + Len(ys)
        /\ \A j \in 1..Len(xs) : qs[j] = xs[j]
        /\ \A j \in (Len(xs) + 1)..(Len(xs) + Len(ys)) : qs[j] = ys[j - Len(xs)]
    BY <2>6, <2>7, <2>8
  <2> HIDE DEF qs
  <2>10. \A j \in 1..Len(qs) : Below(qs[j], rs)
    <3> SUFFICES ASSUME NEW j \in 1..Len(qs) PROVE Below(qs[j], rs)
      OBVIOUS
    <3>1. CASE j \in 1..Len(xs)
      BY <2>6, <2>9, <3>1
    <3>2. CASE j \notin 1..Len(xs)
      <4>1. j \in (Len(xs) + 1)..(Len(xs) + Len(ys)) /\ j - Len(xs) \in 1..Len(ys)
        BY <2>8, <2>9, <3>2
      <4> QED
        BY <2>7, <2>9, <4>1
    <3> QED
      BY <3>1, <3>2
  <2>11. \A j \in 1..Len(qs) : /\ qs[j].lower <= qs[j].upper
                               /\ qs[j].parent = Len(rs)
                               /\ Inside(qs[j], Last(rs))
    BY <2>10 DEF Below
  <2>12. NestedStack(base \o qs)
    BY <2>9, <2>11, PushedNested DEF base
  <2>13. base \in Seq(BranchRange)
    <3>1. rs \in Seq(BranchRange) /\ Len(rs) \in 1..Len(rs)
      BY DEF NestedStack
    <3> DEFINE v == [rs[Len(rs)] EXCEPT !.uids_discovered = 0]
    <3>2. rs[Len(rs)] \in BranchRange
      BY <3>1
    <3>3. /\ v \in BranchRange /\ v.lower = rs[Len(rs)].lower
          /\ v.upper = rs[Len(rs)].upper /\ v.parent = rs[Len(rs)].parent
      BY <3>2, RangeEdited
    <3>4. base = [rs EXCEPT ![Len(rs)] = v]
      BY DEF base
    <3> HIDE DEF v
    <3>5. [rs EXCEPT ![Len(rs)] = v] \in Seq(BranchRange)
      BY <3>1, <3>3, Edited
    <3> QED
      BY <3>4, <3>5
  <2>14. base \o xs \o ys = base \o qs
    BY <2>6, <2>7, <2>13, ConcatAssociative DEF qs
  <2> QED
    BY <2>1, <2>12, <2>14 DEF NestedStack
<1> QED
  BY <1>2, <1>3, <1>4

NestedTree(t) == t \in Tree /\ Nested(t.ranges)

LEMMA TheTreeNested ==
  ASSUME NestedInv
  PROVE  NestedTree(TheTree) /\ TheTree.ranges = m_uid_ranges
BY DEF NestedInv, NestedStack, NestedTree, TheTree, Tree

\* A tree with another stack.
LEMMA WithRanges ==
  ASSUME NestedInv, NEW rs, NestedStack(rs)
  PROVE  NestedTree([TheTree EXCEPT !.ranges = rs])
BY DEF NestedInv, NestedStack, NestedTree, TheTree, Tree

Requests(cs) == \A c \in cs : c.op = "branch" => c.a \in UID /\ c.b \in UID

LEMMA SendDiscoveryNested ==
  ASSUME NEW t, NestedTree(t), NEW uids, NEW rest, Requests(rest),
         SendDiscovery(t, uids, rest)
  PROVE  NestedStack(m_uid_ranges)' /\ m_tree_corrupt' \in BOOLEAN /\ Requests(calls')
<1>1. t \in Tree /\ Settle[t] \in Tree /\ Above(Settle[t].ranges, t.ranges)
  BY SettleKeeps DEF NestedTree
<1>2. m_uid_ranges' = Settle[t].ranges /\ m_tree_corrupt' = Settle[t].corrupt
  BY DEF SendDiscovery
<1>3. /\ m_uid_ranges' \in Seq(BranchRange) /\ m_tree_corrupt' \in BOOLEAN
      /\ t.ranges \in Seq(BranchRange)
  BY <1>1, <1>2 DEF Tree
<1>4. Nested(m_uid_ranges')
  BY <1>1, <1>2, <1>3, NestedAbove DEF NestedTree
<1>5. NestedStack(m_uid_ranges')
  BY <1>3, <1>4 DEF NestedStack
<1>6. Requests(calls')
  <2>1. CASE m_uid_ranges' = <<>>
    BY <2>1 DEF SendDiscovery
  <2>2. CASE m_uid_ranges' # <<>>
    <3> PICK c : c = Call("branch", Last(m_uid_ranges').lower, Last(m_uid_ranges').upper)
      OBVIOUS
    <3>1. calls' = rest \cup {c}
      BY <2>2 DEF SendDiscovery
    <3>2. c.a \in UID /\ c.b \in UID
      BY <1>5, <2>2, TopOfStack DEF Call
    <3> QED
      BY <3>1, <3>2 DEF Requests
  <2> QED
    BY <2>1, <2>2
<1> QED
  BY <1>3, <1>5, <1>6

LEMMA MaybeMuteNested ==
  ASSUME NestedInv, NEW uids, NEW rest, Requests(rest), MaybeMuteNextDevice(uids, rest)
  PROVE  NestedStack(m_uid_ranges)' /\ m_tree_corrupt' \in BOOLEAN /\ Requests(calls')
<1>1. CASE m_uids_to_mute = {}
  <2>1. SendDiscovery(TheTree, uids, rest)
    BY <1>1 DEF MaybeMuteNextDevice
  <2> QED
    BY <2>1, TheTreeNested, SendDiscoveryNested
<1>2. CASE m_uids_to_mute # {}
  <2>1. /\ calls' = rest \cup {Call("incremental", m_muting_uid', 0)}
        /\ UNCHANGED <<m_uid_ranges, m_tree_corrupt>>
    BY <1>2 DEF MaybeMuteNextDevice, stackVars
  <2>2. Requests(calls')
    BY <2>1 DEF Requests, Call
  <2> QED
    BY <2>1, <2>2 DEF NestedInv
<1> QED
  BY <1>1, <1>2

LEMMA StepNested ==
  ASSUME EndsUnused
  PROVE  NestedInv /\ [Next]_vars => NestedInv'
<1> SUFFICES ASSUME NestedInv, [Next]_vars PROVE NestedInv'
  OBVIOUS
<1> USE DEF Requests
<1>1. NestedStack(m_uid_ranges) /\ m_tree_corrupt \in BOOLEAN /\ line \in Lines /\ Requests(calls)
  BY DEF NestedInv
<1>2. \A c : Requests(calls \ {c})
  BY <1>1
<1> USE DEF NestedInv
<1> HIDE DEF Requests
<1>3. Requests({})
  BY DEF Requests
<1>4. ASSUME NEW full \in BOOLEAN, GenericDiscovery(full) PROVE NestedInv'
  <2>1. line' = line
    BY <1>4 DEF GenericDiscovery, lineVars
  <2>2. CASE InitDiscovery({Len(asked')}, full)
    <3>1. /\ m_tree_corrupt' = FALSE /\ m_uid_ranges' = <<UIDRange(0, Top, 0)>>
          /\ calls' = calls \cup {Call("unmute", 0, 0)}
      BY <2>2 DEF InitDiscovery
    <3> DEFINE r == UIDRange(0, Top, 0)
    <3>2. 0 \in UID /\ Top \in UID /\ 0 <= Top
      BY ConstantsAssumption DEF UID
    <3>3. r \in BranchRange /\ r.lower = 0 /\ r.upper = Top /\ r.parent = 0
      BY <3>2, RangeFields
    <3> HIDE DEF r
    <3>4. <<r>> \in Seq(BranchRange) /\ Len(<<r>>) = 1 /\ <<r>>[1] = r
      BY <3>3
    <3>5. NestedStack(<<r>>)
      BY <3>2, <3>3, <3>4 DEF NestedStack, Nested
    <3>6. Requests(calls')
      BY <1>1, <3>1 DEF Requests, Call
    <3> QED
      BY <1>1, <2>1, <3>1, <3>5, <3>6 DEF r, Requests
  <2>3. CASE UNCHANGED <<stackVars, calls>>
    BY <1>1, <2>1, <2>3 DEF stackVars, Requests
  <2> QED
    BY <1>4, <2>2, <2>3 DEF GenericDiscovery
<1>5. ASSUME Abort PROVE NestedInv'
  <2>1. /\ UNCHANGED <<calls, line, m_tree_corrupt>> /\ m_uid_ranges' = <<>>
    BY <1>5 DEF Abort, lineVars
  <2>2. NestedStack(<<>>)
    BY DEF NestedStack, Nested
  <2> QED
    BY <1>1, <2>1, <2>2
<1>6. ASSUME NEW lost, UnMuteComplete(lost) PROVE NestedInv'
  <2> DEFINE rest == calls \ {Call("unmute", 0, 0)}
  <2>1. line' = line
    BY <1>6 DEF UnMuteComplete
  <2>2. CASE MaybeMuteNextDevice(m_uids, rest)
    <3> HIDE DEF rest
    <3>1. Requests(rest)
      BY <1>2 DEF rest
    <3> QED
      BY <1>1, <2>1, <2>2, <3>1, MaybeMuteNested DEF Requests
  <2>3. CASE calls' \subseteq calls /\ UNCHANGED stackVars
    BY <1>1, <2>1, <2>3 DEF stackVars, Requests
  <2> QED
    BY <1>6, <2>2, <2>3 DEF UnMuteComplete
<1>7. ASSUME NEW u, NEW fate, IncrementalMuteComplete(u, fate) PROVE NestedInv'
  <2> DEFINE rest == calls \ {Call("incremental", u, 0)}
  <2>1. line' = line /\ MaybeMuteNextDevice(m_uids', rest)
    BY <1>7 DEF IncrementalMuteComplete
  <2>2. Requests(rest)
    BY <1>2
  <2> HIDE DEF rest
  <2> QED
    BY <1>1, <2>1, <2>2, MaybeMuteNested DEF Requests
<1>8. ASSUME Crash, line' = line PROVE NestedInv'
  BY <1>1, <1>3, <1>8 DEF Crash, stackVars
<1>9. ASSUME NEW u, NEW fate, BranchMuteComplete(u, fate) PROVE NestedInv'
  <2> DEFINE rest == calls \ {Call("mute", u, 0)}
             n == Len(m_uid_ranges)
             found == [TheTree EXCEPT !.ranges[n].uids_discovered = @ + 1]
  <2>1. line' = line
    BY <1>9 DEF BranchMuteComplete
  <2>2. Requests(rest)
    BY <1>2
  <2>3. \/ Crash
        \/ m_uid_ranges # <<>> /\ SendDiscovery(found, m_uids', rest)
        \/ calls' = rest \cup {Call("mute", m_muting_uid, 0)} /\ UNCHANGED stackVars
        \/ SendDiscovery(TheTree, m_uids', rest)
    BY <1>9 DEF BranchMuteComplete
  <2>4. CASE m_uid_ranges # <<>> /\ SendDiscovery(found, m_uids', rest)
    <3> DEFINE k == m_uid_ranges[n].uids_discovered + 1
    <3>1. TheTree.ranges = m_uid_ranges /\ m_uid_ranges \in Seq(BranchRange)
      BY <1>1, TheTreeNested DEF NestedStack
    <3>2. n \in 1..n /\ m_uid_ranges[n] \in BranchRange
      BY <2>4, <3>1
    <3>3. k \in Nat
      BY <3>2 DEF BranchRange
    <3> DEFINE v == [m_uid_ranges[n] EXCEPT !.uids_discovered = k]
               qs == [m_uid_ranges EXCEPT ![n] = v]
    <3>4. /\ v \in BranchRange /\ v.lower = m_uid_ranges[n].lower
          /\ v.upper = m_uid_ranges[n].upper /\ v.parent = m_uid_ranges[n].parent
      BY <3>2, <3>3, RangeEdited
    <3>5. found = [TheTree EXCEPT !.ranges = qs]
      BY <3>1
    <3> HIDE DEF v, found
    <3>6. qs \in Seq(BranchRange) /\ Above(qs, m_uid_ranges)
      BY <3>1, <3>4, Edited
    <3> HIDE DEF qs, rest
    <3>7. NestedStack(qs)
      BY <1>1, <3>1, <3>6, NestedAbove DEF NestedStack
    <3>8. NestedTree(found)
      BY <3>5, <3>7, WithRanges
    <3> QED
      BY <1>1, <2>1, <2>2, <2>4, <3>8, SendDiscoveryNested DEF Requests
  <2>5. CASE calls' = rest \cup {Call("mute", m_muting_uid, 0)} /\ UNCHANGED stackVars
    BY <1>1, <2>1, <2>2, <2>5 DEF stackVars, Requests, Call
  <2>6. CASE SendDiscovery(TheTree, m_uids', rest)
    <3> HIDE DEF rest
    <3> QED
      BY <1>1, <2>1, <2>2, <2>6, TheTreeNested, SendDiscoveryNested DEF Requests
  <2> QED
    BY <1>8, <2>1, <2>3, <2>4, <2>5, <2>6
<1>10. ASSUME NEW c, NEW fate, BranchComplete(c, fate) PROVE NestedInv'
  <2> DEFINE rest == calls \ {c}
             some == Answering(c.a, c.b)
  <2>1. line' = line /\ c \in calls /\ c.op = "branch" /\ c.a \in UID /\ c.b \in UID
    BY <1>1, <1>10 DEF BranchComplete, Requests
  <2>2. Requests(rest)
    BY <1>2
  <2>3. ASSUME NEW u \in some \cup Phantoms PROVE u \in Int /\ u # 0 /\ u # Top
    <3>1. CASE u \in some
      <4>1. u \in c.a..c.b /\ line[u] # "absent"
        BY <3>1 DEF Answering
      <4>2. c.a \in Int /\ c.b \in Int
        BY <2>1, ConstantsAssumption DEF UID
      <4> QED
        BY <1>1, <4>1, <4>2 DEF EndsUnused
    <3>2. CASE u \in Phantoms
      <4>1. u \in UID
        BY <3>2, ConstantsAssumption
      <4> QED
        BY <3>2, <4>1, ConstantsAssumption DEF EndsUnused, UID
    <3> QED
      BY <2>3, <3>1, <3>2
  <2>4. \/ BranchTimedOut(rest) \/ BranchCollided(rest)
        \/ \E u \in some \cup Phantoms : BranchLocated(u, rest)
    BY <1>10 DEF BranchComplete
  <2> HIDE DEF rest, some
  <2>5. CASE BranchTimedOut(rest)
    <3>1. CASE m_uid_ranges = <<>>
      <4>1. SendDiscovery(TheTree, m_uids, rest)
        BY <2>5, <3>1 DEF BranchTimedOut
      <4> QED
        BY <1>1, <2>1, <2>2, <4>1, TheTreeNested, SendDiscoveryNested DEF Requests
    <3>2. CASE m_uid_ranges # <<>>
      <4>1. SendDiscovery(FreeCurrentRange(TheTree), m_uids, rest)
        BY <2>5, <3>2 DEF BranchTimedOut
      <4>2. TheTree \in Tree /\ TheTree.ranges = m_uid_ranges /\ Nested(m_uid_ranges)
        BY TheTreeNested DEF NestedTree
      <4>3. FreeCurrentRange(TheTree) \in Tree /\ Above(FreeCurrentRange(TheTree).ranges, m_uid_ranges)
        BY <3>2, <4>2, FreeCurrentRangeKeeps
      <4>4. FreeCurrentRange(TheTree).ranges \in Seq(BranchRange) /\ m_uid_ranges \in Seq(BranchRange)
        BY <1>1, <4>3 DEF Tree, NestedStack
      <4>5. NestedTree(FreeCurrentRange(TheTree))
        BY <4>2, <4>3, <4>4, NestedAbove DEF NestedTree
      <4> QED
        BY <1>1, <2>1, <2>2, <4>1, <4>5, SendDiscoveryNested DEF Requests
    <3> QED
      BY <3>1, <3>2
  <2>6. CASE BranchCollided(rest)
    <3>1. CASE m_uid_ranges = <<>>
      BY <1>8, <2>1, <2>6, <3>1 DEF BranchCollided
    <3>2. CASE m_uid_ranges # <<>>
      <4> DEFINE rs == Halved(m_uid_ranges)
                 t == [TheTree EXCEPT !.ranges = rs]
      <4>1. SendDiscovery(t, m_uids, rest)
        BY <2>6, <3>2, TheTreeNested DEF BranchCollided
      <4>2. NestedStack(rs)
        BY <1>1, <3>2, HalvedNested
      <4> HIDE DEF rs
      <4>3. NestedTree(t)
        BY <4>2, WithRanges
      <4> HIDE DEF t
      <4> QED
        BY <1>1, <2>1, <2>2, <4>1, <4>3, SendDiscoveryNested DEF Requests
    <3> QED
      BY <3>1, <3>2
  <2>7. ASSUME NEW u \in some \cup Phantoms, BranchLocated(u, rest) PROVE NestedInv'
    <3>1. CASE m_uid_ranges = <<>>
      BY <1>8, <2>1, <2>7, <3>1 DEF BranchLocated
    <3>2. CASE m_uid_ranges # <<>> /\ u \in m_uids \cup m_bad_uids
      <4> DEFINE fs == Failed(m_uid_ranges)
                 rs == IF u \notin m_split_uids THEN SplitAround(fs, u) ELSE Halved(fs)
                 t == [TheTree EXCEPT !.ranges = rs]
      <4>1. SendDiscovery(t, m_uids, rest)
        BY <2>7, <3>2 DEF BranchLocated
      <4>2. NestedStack(fs) /\ fs # <<>>
        BY <1>1, <3>2, FailedNested
      <4> HIDE DEF fs
      <4>3. NestedStack(SplitAround(fs, u)) /\ NestedStack(Halved(fs))
        BY <2>3, <2>7, <4>2, SplitAroundNested, HalvedNested
      <4>4. NestedStack(rs)
        BY <4>3
      <4> HIDE DEF rs
      <4>5. NestedTree(t)
        BY <4>4, WithRanges
      <4> HIDE DEF t
      <4> QED
        BY <1>1, <2>1, <2>2, <4>1, <4>5, SendDiscoveryNested DEF Requests
    <3>3. CASE m_uid_ranges # <<>> /\ u \notin m_uids \cup m_bad_uids
      <4>1. calls' = rest \cup {Call("mute", u, 0)} /\ UNCHANGED stackVars
        BY <2>7, <3>3 DEF BranchLocated
      <4> QED
        BY <1>1, <2>1, <2>2, <4>1 DEF stackVars, Requests, Call
    <3> QED
      BY <3>1, <3>2, <3>3
  <2> QED
    BY <2>4, <2>5, <2>6, <2>7
<1>11. ASSUME NEW new \in Lines, Replug(new) PROVE NestedInv'
  BY <1>1, <1>11 DEF Replug, stackVars
<1>12. ASSUME UNCHANGED vars PROVE NestedInv'
  BY <1>1, <1>12 DEF vars, stackVars, lineVars
<1>13. CASE TargetCompletes
  BY <1>6, <1>7, <1>9, <1>10, <1>13 DEF TargetCompletes
<1> QED
  BY <1>4, <1>5, <1>11, <1>12, <1>13 DEF Next

\* Every range on the stack lies strictly within its parent's, which is below
\* it, whatever the line answers, if no device has the UID zero or that of all
\* devices: HandleCollision and SplitAroundBadUID halve and split within the
\* range, and SendDiscovery frees from the top.
THEOREM RangesNestedHolds ==
  ASSUME EndsUnused
  PROVE  Spec => []RangesNested
<1>1. Init => NestedInv
  <2> SUFFICES ASSUME Init PROVE NestedInv
    OBVIOUS
  <2>1. NestedStack(<<>>)
    BY DEF NestedStack, Nested
  <2> QED
    BY <2>1 DEF Init, NestedInv
<1>2. NestedInv => RangesNested
  <2> SUFFICES ASSUME NestedInv, NEW i \in DOMAIN m_uid_ranges
               PROVE  LET r == m_uid_ranges[i]
                          parent == m_uid_ranges[r.parent]
                      IN  /\ r.lower <= r.upper
                          /\ IF i = 1 THEN r.parent = 0
                             ELSE /\ r.parent \in 1..(i - 1)
                                  /\ r.lower..r.upper \subseteq parent.lower..parent.upper
                                  /\ r.lower..r.upper # parent.lower..parent.upper
    BY DEF RangesNested
  <2> DEFINE r == m_uid_ranges[i]
             p == m_uid_ranges[r.parent]
  <2>1. m_uid_ranges \in Seq(BranchRange) /\ Nested(m_uid_ranges)
    BY DEF NestedInv, NestedStack
  <2>2. Len(m_uid_ranges) \in Nat /\ i \in 1..Len(m_uid_ranges)
    BY <2>1
  <2>3. /\ r.lower <= r.upper /\ (i = 1 => r.parent = 0)
        /\ i # 1 => r.parent \in 1..(i - 1) /\ Inside(r, p)
    BY <2>1, <2>2 DEF Nested
  <2>4. ASSUME i # 1
        PROVE  /\ r.lower..r.upper \subseteq p.lower..p.upper
               /\ r.lower..r.upper # p.lower..p.upper
    <3>1. r.parent \in 1..Len(m_uid_ranges)
      BY <2>2, <2>3, <2>4
    <3>2. r \in BranchRange /\ p \in BranchRange
      BY <2>1, <2>2, <3>1
    <3>3. r.lower \in Int /\ r.upper \in Int /\ p.lower \in Int /\ p.upper \in Int
      <4>1. UID \subseteq Int
        BY ConstantsAssumption DEF UID
      <4>2. \A b \in BranchRange : b.lower \in UID /\ b.upper \in UID
        BY DEF BranchRange
      <4> HIDE DEF r, p
      <4> QED
        BY <3>2, <4>1, <4>2
    <3>4. /\ p.lower <= r.lower /\ r.upper <= p.upper /\ r.lower <= r.upper
          /\ r.lower # p.lower \/ r.upper # p.upper
      BY <2>3, <2>4 DEF Inside
    <3> HIDE DEF r, p
    <3>5. r.lower..r.upper \subseteq p.lower..p.upper
      BY <3>3, <3>4
    <3>6. CASE r.lower # p.lower
      <4>1. p.lower \in p.lower..p.upper /\ p.lower \notin r.lower..r.upper
        BY <3>3, <3>4, <3>6
      <4> QED
        BY <3>5, <4>1
    <3>7. CASE r.upper # p.upper
      <4>1. p.upper \in p.lower..p.upper /\ p.upper \notin r.lower..r.upper
        BY <3>3, <3>4, <3>7
      <4> QED
        BY <3>5, <4>1
    <3> QED
      BY <3>4, <3>6, <3>7
  <2> QED
    BY <2>3, <2>4
<1> QED
  BY <1>1, <1>2, StepNested, PTL DEF Spec
-----------------------------------------------------------------------------
(* What a run finds, when it meets nothing that it cannot mend.  A range of  *)
(* the stack is covered when every responder it is still to find (L) also    *)
(* lies in a range above it, and fresh when it can still be searched: only   *)
(* covered ranges are ever given up, so a search that ends has found all.    *)

InRange(u, r) == r.lower <= u /\ u <= r.upper

Covered(rs, i, L) ==
  \A u \in L : InRange(u, rs[i]) => \E j \in (i + 1)..Len(rs) : InRange(u, rs[j])

Fresh(r, attempts) ==
  /\ r.failures = 0 /\ r.branch_corrupt = FALSE
  /\ r.uids_discovered = 0 /\ r.attempt <= attempts

Shape(rs) ==
  /\ \A i \in 1..Len(rs) : rs[i].lower <= rs[i].upper /\ rs[i].parent \in 0..(i - 1)
  /\ rs # <<>> => rs[1].lower = 0 /\ rs[1].upper = Top

\* The search of rs will find L; attempts counts those on the top range.
Searches(rs, L, attempts) ==
  /\ \A i \in 1..Len(rs) :
       /\ Covered(rs, i, L) \/ Fresh(rs[i], IF i = Len(rs) THEN attempts ELSE 0)
       /\ rs[i].parent # 0 => Covered(rs, rs[i].parent, L)
  /\ rs = <<>> => L = {}

SearchStack(rs, L, attempts) ==
  rs \in Seq(BranchRange) /\ Shape(rs) /\ Searches(rs, L, attempts)

LEMMA BranchRangeFields ==
  ASSUME NEW r \in BranchRange
  PROVE  /\ r.lower \in UID /\ r.upper \in UID /\ r.parent \in Nat /\ r.attempt \in Nat
         /\ r.failures \in Nat /\ r.uids_discovered \in Nat /\ r.branch_corrupt \in BOOLEAN
         /\ r.lower \in Int /\ r.upper \in Int
<1>1. \A n \in UID : n \in Int
  BY ConstantsAssumption DEF UID
<1> QED
  BY <1>1 DEF BranchRange

\* Fewer responders to find.
LEMMA SearchesLess ==
  ASSUME NEW rs, NEW L, NEW M, NEW k, M \subseteq L, Searches(rs, L, k)
  PROVE  Searches(rs, M, k)
<1>1. \A i : Covered(rs, i, L) => Covered(rs, i, M)
  BY DEF Covered
<1> QED
  BY <1>1 DEF Searches

\* qs is rs without its top, of which only its parent knows.
Popped(qs, rs) ==
  /\ Len(qs) = Len(rs) - 1
  /\ Above(qs, rs)
  /\ \A i \in 1..Len(qs) : i # Last(rs).parent => qs[i] = rs[i]

\* A range in which there is nothing to find may go.
LEMMA PoppedSearches ==
  ASSUME NEW rs, NEW L, L \subseteq UID, NEW k, SearchStack(rs, L, k), rs # <<>>,
         Covered(rs, Len(rs), L), NEW qs \in Seq(BranchRange), Popped(qs, rs)
  PROVE  SearchStack(qs, L, 0)
<1> DEFINE n == Len(rs)
           p == Last(rs).parent
<1>1. /\ n \in Nat /\ n \in 1..n /\ Len(qs) = n - 1 /\ Len(qs) \in Nat /\ n - 1 \in Nat
  BY DEF SearchStack, Popped
<1>2. \A i \in 1..(n - 1) : /\ qs[i].lower = rs[i].lower
                            /\ qs[i].upper = rs[i].upper
                            /\ qs[i].parent = rs[i].parent
  BY <1>1 DEF Popped, Above
<1>3. \A u \in L : ~InRange(u, rs[n])
  BY <1>1 DEF Covered
<1>4. \A i \in 1..(n - 1) : i \in 1..n /\ i \in Nat
  BY <1>1
<1>5. ASSUME NEW i \in 1..(n - 1), Covered(rs, i, L) PROVE Covered(qs, i, L)
  <2> SUFFICES ASSUME NEW u \in L, InRange(u, qs[i])
               PROVE  \E j \in (i + 1)..Len(qs) : InRange(u, qs[j])
    BY DEF Covered
  <2>1. InRange(u, rs[i])
    BY <1>2 DEF InRange
  <2>2. PICK j \in (i + 1)..n : InRange(u, rs[j])
    BY <1>5, <2>1 DEF Covered
  <2>3. j # n
    BY <1>3, <2>2
  <2>4. j \in (i + 1)..Len(qs) /\ j \in 1..(n - 1)
    BY <1>1, <1>4, <2>2, <2>3
  <2>5. InRange(u, qs[j])
    BY <1>2, <2>2, <2>4 DEF InRange
  <2> QED
    BY <2>4, <2>5
<1>6. /\ \A i \in 1..n : rs[i].lower <= rs[i].upper /\ rs[i].parent \in 0..(i - 1)
      /\ rs[1].lower = 0 /\ rs[1].upper = Top
  BY DEF SearchStack, Shape
<1>7. \A i \in 1..n : /\ Covered(rs, i, L) \/ Fresh(rs[i], IF i = n THEN k ELSE 0)
                      /\ rs[i].parent # 0 => Covered(rs, rs[i].parent, L)
  BY DEF SearchStack, Searches
<1>8. \A i \in 1..n : rs[i].parent # 0 => rs[i].parent \in 1..(n - 1)
  <2> SUFFICES ASSUME NEW i \in 1..n, rs[i].parent # 0 PROVE rs[i].parent \in 1..(n - 1)
    OBVIOUS
  <2>1. rs[i].parent \in 0..(i - 1)
    BY <1>6
  <2> HIDE DEF n
  <2> QED
    BY <1>1, <2>1
<1>9. Shape(qs)
  <2>1. qs # <<>> => 1 \in 1..(n - 1)
    BY <1>1
  <2> QED
    BY <1>1, <1>2, <1>4, <1>6, <2>1 DEF Shape
<1>10. ASSUME NEW i \in 1..(n - 1)
       PROVE  /\ Covered(qs, i, L) \/ Fresh(qs[i], IF i = Len(qs) THEN 0 ELSE 0)
              /\ qs[i].parent # 0 => Covered(qs, qs[i].parent, L)
  <2>1. i \in 1..n /\ i # n
    BY <1>1
  <2>2. CASE i = p
    <3>1. rs[n].parent # 0
      BY <1>1, <2>2 DEF Last
    <3>2. Covered(rs, i, L)
      BY <1>1, <1>7, <2>2, <3>1 DEF Last
    <3> QED
      BY <1>2, <1>5, <1>7, <1>8, <2>1, <3>2
  <2>3. CASE i # p
    <3>1. qs[i] = rs[i]
      BY <1>1, <2>3 DEF Popped
    <3>2. Covered(rs, i, L) \/ Fresh(rs[i], 0)
      BY <1>7, <2>1
    <3> QED
      BY <1>2, <1>5, <1>7, <1>8, <2>1, <3>1, <3>2
  <2> QED
    BY <2>2, <2>3
<1>11. qs = <<>> => L = {}
  <2> SUFFICES ASSUME qs = <<>>, NEW u \in L PROVE FALSE
    OBVIOUS
  <2>1. n = 1
    BY <1>1
  <2>2. InRange(u, rs[n])
    <3>1. 0 <= u /\ u <= Top
      BY ConstantsAssumption DEF UID
    <3> QED
      BY <1>6, <2>1, <3>1 DEF InRange
  <2> QED
    BY <1>3, <2>2
<1> QED
  BY <1>1, <1>9, <1>10, <1>11 DEF SearchStack, Searches

\* all is rs with new ranges above its top, which stays what it was but for
\* its counters.
Grown(all, rs) ==
  /\ Len(all) >= Len(rs)
  /\ Above(rs, all)
  /\ \A i \in 1..(Len(rs) - 1) : all[i] = rs[i]
  /\ \A i \in (Len(rs) + 1)..Len(all) :
       /\ Fresh(all[i], 0)
       /\ all[i].lower <= all[i].upper
       /\ all[i].parent = Len(rs)

\* If what is to find in the top range is to find in the new ranges, it will be.
LEMMA GrownSearches ==
  ASSUME NEW rs, NEW L, NEW k, SearchStack(rs, L, k), rs # <<>>,
         NEW all \in Seq(BranchRange), Grown(all, rs), Covered(all, Len(rs), L)
  PROVE  SearchStack(all, L, 0)
<1> DEFINE n == Len(rs)
           m == Len(all)
<1>1. n \in Nat /\ n \in 1..n /\ m \in Nat /\ n <= m /\ n >= 1
  BY DEF SearchStack, Grown
<1>2. \A i \in 1..n : /\ rs[i].lower = all[i].lower
                      /\ rs[i].upper = all[i].upper
                      /\ rs[i].parent = all[i].parent
  BY DEF Grown, Above
<1>3. \A i \in 1..n : i \in 1..m /\ i \in Nat
  BY <1>1
<1>4. ASSUME NEW i \in 1..n, Covered(rs, i, L) PROVE Covered(all, i, L)
  <2> SUFFICES ASSUME NEW u \in L, InRange(u, all[i])
               PROVE  \E j \in (i + 1)..m : InRange(u, all[j])
    BY DEF Covered
  <2>1. InRange(u, rs[i])
    BY <1>2 DEF InRange
  <2>2. PICK j \in (i + 1)..n : InRange(u, rs[j])
    BY <1>4, <2>1 DEF Covered
  <2>3. j \in (i + 1)..m /\ j \in 1..n
    BY <1>1, <1>3, <2>2
  <2>4. InRange(u, all[j])
    BY <1>2, <2>2, <2>3 DEF InRange
  <2> QED
    BY <2>3, <2>4
<1>5. /\ \A i \in 1..n : rs[i].lower <= rs[i].upper /\ rs[i].parent \in 0..(i - 1)
      /\ rs[1].lower = 0 /\ rs[1].upper = Top
  BY DEF SearchStack, Shape
<1>6. \A i \in 1..n : /\ Covered(rs, i, L) \/ Fresh(rs[i], IF i = n THEN k ELSE 0)
                      /\ rs[i].parent # 0 => Covered(rs, rs[i].parent, L)
  BY DEF SearchStack, Searches
<1>7. \A i \in 1..m : i \in 1..n \/ i \in (n + 1)..m
  BY <1>1
<1>8. \A i \in (n + 1)..m : n \in 0..(i - 1)
  BY <1>1
<1>9. \A i \in (n + 1)..m : Fresh(all[i], 0) /\ all[i].lower <= all[i].upper /\ all[i].parent = n
  BY DEF Grown
<1>10. \A i \in 1..n : rs[i].parent # 0 => rs[i].parent \in 1..n
  <2> SUFFICES ASSUME NEW i \in 1..n, rs[i].parent # 0 PROVE rs[i].parent \in 1..n
    OBVIOUS
  <2>1. rs[i].parent \in 0..(i - 1)
    BY <1>5
  <2> HIDE DEF n
  <2> QED
    BY <1>1, <2>1
<1>11. Shape(all)
  <2>1. 1 \in 1..n
    BY <1>1
  <2> QED
    BY <1>2, <1>5, <1>7, <1>8, <1>9, <2>1 DEF Shape
<1>12. Covered(all, n, L)
  OBVIOUS
<1>13. ASSUME NEW i \in 1..m
       PROVE  /\ Covered(all, i, L) \/ Fresh(all[i], IF i = m THEN 0 ELSE 0)
              /\ all[i].parent # 0 => Covered(all, all[i].parent, L)
  <2>1. CASE i \in (n + 1)..m
    BY <1>9, <1>12, <2>1
  <2>2. CASE i \in 1..n
    <3>1. all[i].parent # 0 => Covered(all, all[i].parent, L)
      BY <1>2, <1>4, <1>6, <1>10, <2>2
    <3>2. CASE i = n
      BY <1>12, <3>1, <3>2
    <3>3. CASE i # n
      <4>1. i \in 1..(n - 1)
        BY <1>1, <2>2, <3>3
      <4>2. all[i] = rs[i]
        BY <4>1 DEF Grown
      <4>3. Covered(rs, i, L) \/ Fresh(rs[i], 0)
        BY <1>6, <2>2, <3>3
      <4> QED
        BY <1>4, <2>2, <3>1, <4>2, <4>3
    <3> QED
      BY <3>2, <3>3
  <2> QED
    BY <1>7, <2>1, <2>2
<1>14. all # <<>>
  BY <1>1
<1> QED
  BY <1>11, <1>13, <1>14 DEF SearchStack, Searches

LEMMA EditedOthers ==
  ASSUME NEW rs \in Seq(BranchRange), NEW i, NEW v
  PROVE  \A j \in 1..Len(rs) : [rs EXCEPT ![i] = v][j] = IF j = i THEN v ELSE rs[j]
<1>1. DOMAIN rs = 1..Len(rs)
  OBVIOUS
<1> QED
  BY <1>1

\* What FreeCurrentRange leaves: only the count of the parent has changed.
Marks(r, q) ==
  /\ r.failures = q.failures /\ r.attempt = q.attempt /\ r.branch_corrupt = q.branch_corrupt

LEMMA FreeCurrentRangePops ==
  ASSUME NEW t \in Tree, t.ranges # <<>>
  PROVE  /\ Popped(FreeCurrentRange(t).ranges, t.ranges)
         /\ \A i \in 1..(Len(t.ranges) - 1) : Marks(FreeCurrentRange(t).ranges[i], t.ranges[i])
         /\ FreeCurrentRange(t).corrupt = TRUE
              => t.corrupt = TRUE \/ Last(t.ranges).branch_corrupt = TRUE
<1> DEFINE n == Len(t.ranges)
           top == t.ranges[n]
           rest == SubSeq(t.ranges, 1, n - 1)
           p == top.parent
           v == [rest[p] EXCEPT !.uids_discovered = @ + top.uids_discovered]
<1>1. t.ranges \in Seq(BranchRange) /\ t.corrupt \in BOOLEAN
  BY DEF Tree
<1>2. n \in Nat /\ n \in 1..n /\ n - 1 \in Nat
  BY <1>1
<1>3. top \in BranchRange
  BY <1>1, <1>2
<1>4. rest \in Seq(BranchRange) /\ Len(rest) = n - 1
      /\ \A i \in 1..(n - 1) : rest[i] = t.ranges[i]
  BY <1>1, <1>2
<1>5. /\ Len(FreeCurrentRange(t).ranges) = Len(t.ranges) - 1
      /\ Above(FreeCurrentRange(t).ranges, t.ranges)
  BY FreeCurrentRangeKeeps
<1>6. Last(t.ranges) = top
  BY DEF Last
<1> HIDE DEF rest
<1>7. CASE rest = <<>>
  <2>1. /\ FreeCurrentRange(t).ranges = rest
        /\ FreeCurrentRange(t).corrupt = (t.corrupt \/ top.branch_corrupt)
    BY <1>7 DEF FreeCurrentRange, Last, rest
  <2>2. \A i \in 1..(n - 1) : FALSE
    <3>1. Len(rest) = 0
      BY <1>7
    <3> HIDE DEF n
    <3> QED
      BY <1>2, <1>4, <3>1
  <2>3. top.branch_corrupt \in BOOLEAN
    BY <1>3, BranchRangeFields
  <2>4. FreeCurrentRange(t).corrupt = TRUE => t.corrupt = TRUE \/ top.branch_corrupt = TRUE
    BY <1>1, <2>1, <2>3
  <2> QED
    BY <1>4, <1>5, <1>6, <2>1, <2>2, <2>4 DEF Popped
<1>8. CASE rest # <<>>
  <2> DEFINE qs == [rest EXCEPT ![p] = v]
  <2>1. FreeCurrentRange(t) = [t EXCEPT !.ranges = qs]
    BY <1>8 DEF FreeCurrentRange, Last, rest
  <2>2. FreeCurrentRange(t).ranges = qs /\ FreeCurrentRange(t).corrupt = t.corrupt
    BY <2>1 DEF Tree
  <2>3. ASSUME p \in 1..(n - 1) PROVE Marks(v, rest[p])
    <3>1. rest[p] \in BranchRange
      BY <1>4, <2>3
    <3> QED
      BY <3>1 DEF Marks, BranchRange
  <2> HIDE DEF v, p
  <2>4. \A i \in 1..(n - 1) : qs[i] = IF i = p THEN v ELSE rest[i]
    BY <1>4, EditedOthers
  <2> HIDE DEF qs
  <2>5. \A i \in 1..(n - 1) : i # p => qs[i] = t.ranges[i]
    BY <1>4, <2>4
  <2>6. \A r : Marks(r, r)
    BY DEF Marks
  <2>7. \A i \in 1..(n - 1) : Marks(qs[i], t.ranges[i])
    BY <1>4, <2>3, <2>4, <2>5, <2>6
  <2> QED
    BY <1>5, <1>6, <2>2, <2>5, <2>7 DEF Popped, p
<1> QED
  BY <1>7, <1>8

LEMMA GiveUpPops ==
  ASSUME NEW t \in Tree, t.ranges # <<>>, Shape(t.ranges)
  PROVE  Popped(GiveUp(t).ranges, t.ranges)
<1> DEFINE p == Last(t.ranges).parent
           v == [t.ranges[p] EXCEPT !.branch_corrupt = TRUE]
           qs == [t.ranges EXCEPT ![p] = v]
           u == [t EXCEPT !.ranges = qs]
           n == Len(t.ranges)
<1>1. t.ranges \in Seq(BranchRange) /\ t.corrupt \in BOOLEAN
  BY DEF Tree
<1>2. n \in Nat /\ n \in 1..n /\ p \in 0..(n - 1)
  BY <1>1 DEF Shape, Last
<1>3. p \in 1..n => /\ v \in BranchRange
                   /\ v.lower = t.ranges[p].lower
                   /\ v.upper = t.ranges[p].upper
                   /\ v.parent = t.ranges[p].parent
  <2>1. SUFFICES ASSUME p \in 1..n
                 PROVE  /\ v \in BranchRange
                        /\ v.lower = t.ranges[p].lower
                        /\ v.upper = t.ranges[p].upper
                        /\ v.parent = t.ranges[p].parent
    OBVIOUS
  <2>2. t.ranges[p] \in BranchRange
    BY <1>1, <2>1
  <2> QED
    BY <2>2 DEF BranchRange
<1>4. GiveUp(t) = FreeCurrentRange(IF p = 0 THEN t ELSE u)
  BY DEF GiveUp
<1>5. /\ Len(GiveUp(t).ranges) = n - 1 /\ Above(GiveUp(t).ranges, t.ranges)
  BY GiveUpKeeps
<1> HIDE DEF v
<1>6. qs \in Seq(BranchRange) /\ Len(qs) = n
  BY <1>1, <1>3, Edited
<1>7. \A j \in 1..n : qs[j] = IF j = p THEN v ELSE t.ranges[j]
  BY <1>1, EditedOthers
<1> HIDE DEF qs
<1>8. u \in Tree /\ u.ranges = qs /\ u.ranges # <<>>
  BY <1>1, <1>2, <1>6 DEF Tree
<1> HIDE DEF u
<1>9. CASE p = 0
  BY <1>4, <1>9, FreeCurrentRangePops
<1>10. CASE p # 0
  <2>1. GiveUp(t) = FreeCurrentRange(u)
    BY <1>4, <1>10
  <2>2. Popped(FreeCurrentRange(u).ranges, u.ranges)
    BY <1>8, FreeCurrentRangePops
  <2>3. n # p
    BY <1>2
  <2>4. Last(u.ranges) = Last(t.ranges)
    BY <1>2, <1>6, <1>7, <1>8, <2>3 DEF Last
  <2>5. \A i \in 1..(n - 1) : i \in 1..n
    BY <1>2
  <2>6. \A i \in 1..(n - 1) : i # p => GiveUp(t).ranges[i] = t.ranges[i]
    BY <1>5, <1>7, <1>8, <2>1, <2>2, <2>4, <2>5 DEF Popped
  <2> QED
    BY <1>5, <2>6 DEF Popped
<1> QED
  BY <1>9, <1>10

\* SendDiscovery tries a range that is fresh or is covered.
LEMMA CountAttemptCounts ==
  ASSUME NEW rs \in Seq(BranchRange), rs # <<>>
  PROVE  LET qs == CountAttempt(rs)
             n == Len(rs)
         IN  /\ \A i \in 1..n : i # n => qs[i] = rs[i]
             /\ qs[n].failures = rs[n].failures /\ qs[n].branch_corrupt = rs[n].branch_corrupt
             /\ qs[n].uids_discovered = rs[n].uids_discovered
             /\ qs[n].attempt \in {rs[n].attempt, rs[n].attempt + 1}
             /\ rs[n].uids_discovered # 0 => qs = rs
<1> DEFINE n == Len(rs)
           v == [rs[n] EXCEPT !.attempt = @ + 1]
<1>1. n \in Nat /\ n \in 1..n
  OBVIOUS
<1>2. rs[n] \in BranchRange
  BY <1>1
<1>3. /\ v.failures = rs[n].failures /\ v.branch_corrupt = rs[n].branch_corrupt
      /\ v.uids_discovered = rs[n].uids_discovered /\ v.attempt = rs[n].attempt + 1
  BY <1>2 DEF BranchRange
<1>4. CASE rs[n].uids_discovered = 0
  <2>1. CountAttempt(rs) = [rs EXCEPT ![n] = v]
    BY <1>4 DEF CountAttempt, Last
  <2> HIDE DEF v
  <2>2. \A j \in 1..n : CountAttempt(rs)[j] = IF j = n THEN v ELSE rs[j]
    BY <2>1, EditedOthers
  <2> QED
    BY <1>1, <1>3, <1>4, <2>2
<1>5. CASE rs[n].uids_discovered # 0
  BY <1>5 DEF CountAttempt, Last
<1> QED
  BY <1>4, <1>5

LEMMA TriedSearches ==
  ASSUME NEW t \in Tree, t.ranges # <<>>, NEW L, SearchStack(t.ranges, L, 0)
  PROVE  SearchStack(Tried(t).ranges, L, 1)
<1> DEFINE rs == t.ranges
           qs == CountAttempt(rs)
           n == Len(rs)
<1>1. rs \in Seq(BranchRange) /\ n \in Nat /\ n \in 1..n
  BY DEF SearchStack
<1>2. Tried(t).ranges = qs
  BY DEF Tried, Tree
<1>3. qs \in Seq(BranchRange) /\ Len(qs) = n /\ Above(qs, rs)
  BY <1>1, CountAttemptKeeps
<1>4. /\ \A i \in 1..n : i # n => qs[i] = rs[i]
      /\ qs[n].failures = rs[n].failures /\ qs[n].branch_corrupt = rs[n].branch_corrupt
      /\ qs[n].uids_discovered = rs[n].uids_discovered
      /\ qs[n].attempt \in {rs[n].attempt, rs[n].attempt + 1}
  BY <1>1, CountAttemptCounts
<1> HIDE DEF qs
<1>5. \A i \in 1..n : /\ qs[i].lower = rs[i].lower
                      /\ qs[i].upper = rs[i].upper
                      /\ qs[i].parent = rs[i].parent
  BY <1>3 DEF Above
<1>6. \A i : Covered(rs, i, L) /\ i \in 1..n => Covered(qs, i, L)
  <2> SUFFICES ASSUME NEW i \in 1..n, Covered(rs, i, L), NEW u \in L, InRange(u, qs[i])
               PROVE  \E j \in (i + 1)..Len(qs) : InRange(u, qs[j])
    BY DEF Covered
  <2>1. InRange(u, rs[i])
    BY <1>5 DEF InRange
  <2>2. PICK j \in (i + 1)..n : InRange(u, rs[j])
    BY <2>1 DEF Covered
  <2>3. j \in 1..n
    BY <1>1, <2>2
  <2>4. InRange(u, qs[j])
    BY <1>5, <2>2, <2>3 DEF InRange
  <2> QED
    BY <1>3, <2>2, <2>4
<1>7. \A i \in 1..n : rs[i].lower <= rs[i].upper /\ rs[i].parent \in 0..(i - 1)
  BY DEF SearchStack, Shape
<1>8. \A i \in 1..n : rs[i].parent # 0 => rs[i].parent \in 1..n
  <2> SUFFICES ASSUME NEW i \in 1..n, rs[i].parent # 0 PROVE rs[i].parent \in 1..n
    OBVIOUS
  <2>1. rs[i].parent \in 0..(i - 1)
    BY <1>7
  <2> HIDE DEF n
  <2> QED
    BY <1>1, <2>1
<1>9. \A i \in 1..n : /\ Covered(rs, i, L) \/ Fresh(rs[i], IF i = n THEN 0 ELSE 0)
                      /\ rs[i].parent # 0 => Covered(rs, rs[i].parent, L)
  BY DEF SearchStack, Searches
<1>10. Shape(qs)
  <2>1. rs[1].lower = 0 /\ rs[1].upper = Top /\ 1 \in 1..n
    BY <1>1 DEF SearchStack, Shape
  <2> QED
    BY <1>3, <1>5, <1>7, <2>1 DEF Shape
<1>11. Fresh(rs[n], 0) => Fresh(qs[n], 1)
  <2>1. rs[n].attempt \in Nat
    BY <1>1, BranchRangeFields
  <2> QED
    BY <1>4, <2>1 DEF Fresh
<1>12. \A i \in 1..n : Covered(qs, i, L) \/ Fresh(qs[i], IF i = n THEN 1 ELSE 0)
  BY <1>4, <1>6, <1>9, <1>11
<1>13. \A i \in 1..n : qs[i].parent # 0 => Covered(qs, qs[i].parent, L)
  BY <1>5, <1>6, <1>8, <1>9
<1>14. qs # <<>>
  BY <1>1, <1>3
<1> QED
  BY <1>2, <1>3, <1>10, <1>12, <1>13, <1>14 DEF SearchStack, Searches

\* A fresh range is never given up.
LEMMA FreshTried ==
  ASSUME MAX_EMPTY_BRANCH_ATTEMPTS > 2, NEW r \in BranchRange, Fresh(r, 1)
  PROVE  ~LimitReached(r)
<1>1. /\ r.attempt \in Nat /\ r.failures = 0 /\ r.branch_corrupt = FALSE /\ r.attempt <= 1
  BY BranchRangeFields DEF Fresh
<1>2. MAX_BRANCH_FAILURES # 0 /\ MAX_EMPTY_BRANCH_ATTEMPTS \in Nat
  BY ConstantsAssumption
<1> QED
  BY <1>1, <1>2 DEF LimitReached

\* SendDiscovery gives up covered ranges only: what was to find is still to
\* find when it stops.
LEMMA SettleSearches ==
  ASSUME MAX_EMPTY_BRANCH_ATTEMPTS > 2,
         NEW t \in Tree, NEW L, L \subseteq UID, SearchStack(t.ranges, L, 0)
  PROVE  SearchStack(Settle[t].ranges, L, 1)
<1> DEFINE SearchedAfter(s) == SearchStack(s.ranges, L, 0) => SearchStack(Settle[s].ranges, L, 1)
           S == {n \in Nat : \A s \in TreeOf(n) : SearchedAfter(s)}
<1>1. \A s \in Tree : Settle[s] = Body(Settle, s)
  BY SettleEquation
<1>2. ASSUME NEW s \in Tree, s.ranges = <<>> PROVE SearchedAfter(s)
  <2>1. Settle[s] = s
    BY <1>1, <1>2 DEF Body
  <2>2. \A i \in 1..Len(s.ranges) : FALSE
    BY <1>2
  <2> QED
    BY <1>2, <2>1, <2>2 DEF SearchStack, Searches
<1>3. 0 \in S
  BY <1>2, TreesGrow DEF TreeOf
<1>4. ASSUME NEW n \in Nat, n \in S PROVE n + 1 \in S
  <2>1. SUFFICES ASSUME NEW s \in TreeOf(n + 1), s.ranges # <<>>, SearchStack(s.ranges, L, 0)
                 PROVE  SearchStack(Settle[s].ranges, L, 1)
    BY <1>2 DEF TreeOf
  <2> DEFINE qs == Tried(s).ranges
             u == GiveUp(Tried(s))
  <2>2. s \in Tree /\ Len(s.ranges) \in Nat /\ Len(s.ranges) <= n + 1
    BY <2>1, TreesGrow DEF TreeOf
  <2>3. /\ Tried(s) \in Tree /\ Len(qs) = Len(s.ranges) /\ qs # <<>>
    BY <2>1, <2>2, TriedKeeps
  <2>4. SearchStack(qs, L, 1)
    BY <2>1, <2>2, TriedSearches
  <2>5. Settle[s] = IF LimitReached(Last(qs)) THEN Settle[u] ELSE Tried(s)
    BY <1>1, <2>1, <2>2 DEF Body, Tried
  <2>6. CASE ~LimitReached(Last(qs))
    BY <2>4, <2>5, <2>6
  <2>7. CASE LimitReached(Last(qs))
    <3>1. u \in Tree /\ Len(u.ranges) = Len(s.ranges) - 1 /\ Popped(u.ranges, qs)
      BY <2>3, <2>4, GiveUpKeeps, GiveUpPops DEF SearchStack
    <3>2. qs \in Seq(BranchRange) /\ Len(qs) \in 1..Len(qs) /\ u.ranges \in Seq(BranchRange)
      BY <2>3, <3>1 DEF Tree
    <3>3. Last(qs) \in BranchRange
      BY <3>2 DEF Last
    <3>4. ~Fresh(Last(qs), 1)
      BY <2>7, <3>3, FreshTried
    <3>5. Covered(qs, Len(qs), L)
      BY <2>4, <3>2, <3>4 DEF SearchStack, Searches, Last
    <3> HIDE DEF u, qs
    <3>6. SearchStack(u.ranges, L, 0)
      BY <2>3, <2>4, <3>1, <3>2, <3>5, PoppedSearches
    <3>7. u \in TreeOf(n)
      BY <2>2, <3>1 DEF TreeOf
    <3>8. SearchStack(Settle[u].ranges, L, 1)
      BY <1>4, <3>6, <3>7
    <3> QED
      BY <2>5, <2>7, <3>8
  <2> QED
    BY <2>6, <2>7
<1> HIDE DEF S
<1>5. \A n \in Nat : n \in S
  BY <1>3, <1>4, Induction
<1> QED
  BY <1>5, TreesGrow DEF S

\* While every responder follows the standard nothing fails, and no range is
\* tried a second time unless there is nothing left to find in it.
Calm(r, attempts) == r.failures = 0 /\ r.branch_corrupt = FALSE /\ r.attempt <= attempts

Clean(rs) == \A i \in 1..Len(rs) : Calm(rs[i], 1)

Tidy(rs, L) ==
  \A i \in 1..Len(rs) :
    Calm(rs[i], 1) \/ (i = Len(rs) /\ Calm(rs[i], 2) /\ Covered(rs, i, L))

LEMMA SettleClean ==
  ASSUME MAX_EMPTY_BRANCH_ATTEMPTS > 2, NEW t \in Tree, NEW L,
         SearchStack(t.ranges, L, 0), Clean(t.ranges), t.corrupt = FALSE
  PROVE  Tidy(Settle[t].ranges, L) /\ Settle[t].corrupt = FALSE
<1> DEFINE rs == t.ranges
           qs == CountAttempt(rs)
           n == Len(rs)
<1>1. Settle[t] = Body(Settle, t)
  BY SettleEquation
<1>2. CASE rs = <<>>
  <2>1. Settle[t] = t
    BY <1>1, <1>2 DEF Body
  <2>2. \A i \in 1..Len(rs) : FALSE
    BY <1>2
  <2> QED
    BY <2>1, <2>2 DEF Tidy
<1>3. CASE rs # <<>>
  <2>1. rs \in Seq(BranchRange) /\ n \in Nat /\ n \in 1..n
    BY <1>3 DEF SearchStack
  <2>2. Tried(t) \in Tree /\ Tried(t).ranges = qs /\ Tried(t).corrupt = FALSE
    BY <1>3, TriedKeeps DEF Tried, Tree
  <2>3. qs \in Seq(BranchRange) /\ Len(qs) = n
    BY <1>3, <2>1, CountAttemptKeeps
  <2>4. SearchStack(qs, L, 1)
    BY <1>3, <2>2, TriedSearches
  <2>5. /\ \A i \in 1..n : i # n => qs[i] = rs[i]
        /\ qs[n].failures = rs[n].failures /\ qs[n].branch_corrupt = rs[n].branch_corrupt
        /\ qs[n].attempt \in {rs[n].attempt, rs[n].attempt + 1}
    BY <1>3, <2>1, CountAttemptCounts
  <2>6. Settle[t] = IF LimitReached(Last(qs)) THEN Settle[GiveUp(Tried(t))] ELSE Tried(t)
    BY <1>1, <1>3, <2>2 DEF Body, Tried
  <2> HIDE DEF qs
  <2>7. \A i \in 1..n : Calm(rs[i], 1)
    BY DEF Clean
  <2>8. Calm(qs[n], 2)
    <3>1. rs[n].attempt \in Nat
      BY <2>1, BranchRangeFields
    <3> QED
      BY <2>1, <2>5, <2>7, <3>1 DEF Calm
  <2>9. ~LimitReached(Last(qs))
    <3>1. qs[n].attempt \in Nat
      BY <2>1, <2>3, BranchRangeFields
    <3>2. MAX_BRANCH_FAILURES # 0 /\ MAX_EMPTY_BRANCH_ATTEMPTS \in Nat
      BY ConstantsAssumption
    <3> QED
      BY <2>3, <2>8, <3>1, <3>2 DEF LimitReached, Last, Calm
  <2>10. Covered(qs, n, L) \/ Fresh(qs[n], 1)
    BY <2>1, <2>3, <2>4 DEF SearchStack, Searches
  <2>11. Fresh(qs[n], 1) => Calm(qs[n], 1)
    BY DEF Fresh, Calm
  <2>12. Tidy(qs, L)
    BY <2>3, <2>5, <2>7, <2>8, <2>10, <2>11 DEF Tidy
  <2> QED
    BY <2>2, <2>6, <2>9, <2>12
<1> QED
  BY <1>2, <1>3

LEMMA FreeClean ==
  ASSUME NEW t \in Tree, t.ranges # <<>>, NEW L, Tidy(t.ranges, L), t.corrupt = FALSE
  PROVE  Clean(FreeCurrentRange(t).ranges) /\ FreeCurrentRange(t).corrupt = FALSE
<1> DEFINE n == Len(t.ranges)
           qs == FreeCurrentRange(t).ranges
<1>1. t.ranges \in Seq(BranchRange) /\ n \in Nat /\ n \in 1..n
  BY DEF Tree
<1>2. /\ Len(qs) = n - 1
      /\ \A i \in 1..(n - 1) : Marks(qs[i], t.ranges[i])
      /\ FreeCurrentRange(t).corrupt = TRUE
              => t.corrupt = TRUE \/ Last(t.ranges).branch_corrupt = TRUE
  BY FreeCurrentRangePops DEF Popped
<1>3. FreeCurrentRange(t).corrupt \in BOOLEAN
  BY FreeCurrentRangeKeeps DEF Tree
<1> HIDE DEF qs
<1>4. \A i \in 1..(n - 1) : i \in 1..n /\ i # n
  BY <1>1
<1>5. \A i \in 1..(n - 1) : Calm(t.ranges[i], 1)
  BY <1>4 DEF Tidy
<1>6. Clean(qs)
  BY <1>2, <1>5 DEF Clean, Calm, Marks
<1>7. Last(t.ranges).branch_corrupt = FALSE
  BY <1>1 DEF Tidy, Calm, Last
<1> QED
  BY <1>2, <1>3, <1>6, <1>7 DEF qs

\* What may be pushed above n ranges.
Pushable(q, n) == q \in BranchRange /\ Fresh(q, 0) /\ q.lower <= q.upper /\ q.parent = n

LEMMA RangePushable ==
  ASSUME NEW a \in UID, NEW b \in UID, a <= b, NEW n \in Nat
  PROVE  /\ Pushable(UIDRange(a, b, n), n)
         /\ UIDRange(a, b, n).lower = a /\ UIDRange(a, b, n).upper = b
BY DEF UIDRange, BranchRange, Pushable, Fresh

\* The top of the stack with other counters.
SameRange(v, r) ==
  v \in BranchRange /\ v.lower = r.lower /\ v.upper = r.upper /\ v.parent = r.parent

LEMMA EditedGrown ==
  ASSUME NEW rs \in Seq(BranchRange), rs # <<>>, NEW v, SameRange(v, Last(rs))
  PROVE  LET qs == [rs EXCEPT ![Len(rs)] = v]
         IN  qs \in Seq(BranchRange) /\ Len(qs) = Len(rs) /\ Grown(qs, rs) /\ qs[Len(rs)] = v
<1> DEFINE n == Len(rs)
           qs == [rs EXCEPT ![n] = v]
<1>1. n \in Nat /\ n \in 1..n
  OBVIOUS
<1>2. qs \in Seq(BranchRange) /\ Len(qs) = n /\ Above(qs, rs)
  BY Edited DEF SameRange, Last
<1>3. \A j \in 1..n : qs[j] = IF j = n THEN v ELSE rs[j]
  BY EditedOthers
<1> HIDE DEF qs
<1>4. \A j \in 1..(n - 1) : j \in 1..n /\ j # n
  BY <1>1
<1>5. \A j \in (n + 1)..n : FALSE
  BY <1>1
<1>6. Above(rs, qs)
  BY <1>1, <1>2 DEF Above
<1>7. Grown(qs, rs)
  BY <1>1, <1>2, <1>3, <1>4, <1>5, <1>6 DEF Grown
<1> QED
  BY <1>1, <1>2, <1>3, <1>7 DEF qs

\* all is rs with the top v and qs above it.
Pushed(all, rs, v, qs) ==
  /\ all \in Seq(BranchRange) /\ Grown(all, rs) /\ all[Len(rs)] = v
  /\ Len(all) = Len(rs) + Len(qs)
  /\ \A j \in 1..Len(qs) : all[Len(rs) + j] = qs[j]

LEMMA PushedGrown ==
  ASSUME NEW rs \in Seq(BranchRange), rs # <<>>, NEW v, SameRange(v, Last(rs)),
         NEW qs \in Seq(BranchRange), \A j \in 1..Len(qs) : Pushable(qs[j], Len(rs))
  PROVE  Pushed([rs EXCEPT ![Len(rs)] = v] \o qs, rs, v, qs)
<1> DEFINE n == Len(rs)
           base == [rs EXCEPT ![n] = v]
           all == base \o qs
<1>1. n \in Nat /\ n \in 1..n /\ Len(qs) \in Nat
  OBVIOUS
<1>2. base \in Seq(BranchRange) /\ Len(base) = n /\ Grown(base, rs) /\ base[n] = v
  BY EditedGrown
<1> HIDE DEF base
<1>3. /\ all \in Seq(BranchRange) /\ Len(all) = n + Len(qs)
      /\ \A i \in 1..n : all[i] = base[i]
      /\ \A i \in (n + 1)..(n + Len(qs)) : all[i] = qs[i - n]
  BY <1>1, <1>2, SMTT(30)
<1> HIDE DEF all
<1>4. \A j \in 1..Len(qs) : n + j \in (n + 1)..(n + Len(qs)) /\ (n + j) - n = j
  BY <1>1
<1>5. \A j \in 1..Len(qs) : all[n + j] = qs[j]
  BY <1>3, <1>4
<1>6. \A i \in (n + 1)..(n + Len(qs)) : i - n \in 1..Len(qs)
  BY <1>1
<1>7. \A i \in (n + 1)..Len(all) : /\ Fresh(all[i], 0) /\ all[i].lower <= all[i].upper
                                   /\ all[i].parent = n
  BY <1>3, <1>6 DEF Pushable
<1>8. \A i \in 1..(n - 1) : i \in 1..n
  BY <1>1
<1>9. \A i \in 1..(n - 1) : all[i] = rs[i]
  BY <1>2, <1>3, <1>8 DEF Grown
<1>10. Above(rs, all)
  BY <1>1, <1>2, <1>3 DEF Above, Grown
<1>11. Len(all) >= n
  BY <1>1, <1>3
<1>12. Grown(all, rs)
  BY <1>7, <1>9, <1>10, <1>11 DEF Grown
<1>13. Pushed(all, rs, v, qs)
  BY <1>1, <1>2, <1>3, <1>5, <1>12 DEF Pushed
<1> QED
  BY <1>13 DEF all, base

LEMMA GrownTwice ==
  ASSUME NEW rs \in Seq(BranchRange), NEW qs \in Seq(BranchRange), NEW all \in Seq(BranchRange),
         Grown(qs, rs), Len(qs) = Len(rs), Grown(all, qs)
  PROVE  Grown(all, rs)
<1>1. Len(rs) \in Nat /\ Len(all) \in Nat
  OBVIOUS
<1>2. Above(rs, all)
  BY <1>1, AboveTransitive DEF Grown
<1> QED
  BY <1>2 DEF Grown

LEMMA GrownClean ==
  ASSUME NEW rs \in Seq(BranchRange), rs # <<>>, NEW all \in Seq(BranchRange),
         Grown(all, rs), Clean(rs), Marks(all[Len(rs)], Last(rs))
  PROVE  Clean(all)
<1> DEFINE n == Len(rs)
<1>1. n \in Nat /\ n \in 1..n /\ Len(all) \in Nat
  OBVIOUS
<1>2. SUFFICES ASSUME NEW i \in 1..Len(all) PROVE Calm(all[i], 1)
  BY DEF Clean
<1>3. CASE i \in 1..(n - 1)
  <2>1. all[i] = rs[i] /\ i \in 1..n
    BY <1>1, <1>3 DEF Grown
  <2> QED
    BY <2>1 DEF Clean
<1>4. CASE i = n
  BY <1>1, <1>4 DEF Clean, Marks, Calm, Last
<1>5. CASE i \in (n + 1)..Len(all)
  <2>1. Fresh(all[i], 0) /\ all[i].attempt \in Nat
    BY <1>5, BranchRangeFields DEF Grown
  <2> QED
    BY <2>1 DEF Fresh, Calm
<1> QED
  BY <1>1, <1>2, <1>3, <1>4, <1>5

LEMMA FailedGrown ==
  ASSUME NEW rs \in Seq(BranchRange), rs # <<>>
  PROVE  Failed(rs) \in Seq(BranchRange) /\ Len(Failed(rs)) = Len(rs) /\ Grown(Failed(rs), rs)
<1> DEFINE n == Len(rs)
           k == (rs[n].failures + 1) % FailureModulus
           v == [rs[n] EXCEPT !.failures = k]
<1>1. n \in Nat /\ n \in 1..n
  OBVIOUS
<1>2. rs[n] \in BranchRange
  BY <1>1
<1>3. k \in Nat
  <2>1. rs[n].failures \in Nat
    BY <1>2 DEF BranchRange
  <2>2. FailureModulus \in Nat /\ FailureModulus > 0
    BY ConstantsAssumption
  <2> QED
    BY <2>1, <2>2
<1> HIDE DEF k
<1>4. SameRange(v, Last(rs))
  BY <1>2, <1>3, RangeEdited DEF SameRange, Last
<1>5. Failed(rs) = [rs EXCEPT ![n] = v]
  BY DEF Failed, k
<1> HIDE DEF v
<1>6. LET qs == [rs EXCEPT ![Len(rs)] = v]
      IN  qs \in Seq(BranchRange) /\ Len(qs) = Len(rs) /\ Grown(qs, rs)
  BY <1>4, EditedGrown
<1> QED
  BY <1>5, <1>6

\* The top of the stack with none found below it.
LEMMA ResetTop ==
  ASSUME NEW rs \in Seq(BranchRange), rs # <<>>
  PROVE  LET v == [rs[Len(rs)] EXCEPT !.uids_discovered = 0]
         IN  /\ SameRange(v, Last(rs)) /\ Marks(v, Last(rs))
             /\ [rs EXCEPT ![Len(rs)].uids_discovered = 0] = [rs EXCEPT ![Len(rs)] = v]
<1> DEFINE n == Len(rs)
           v == [rs[n] EXCEPT !.uids_discovered = 0]
<1>1. n \in 1..n
  OBVIOUS
<1>2. rs[n] \in BranchRange
  BY <1>1
<1>3. SameRange(v, Last(rs))
  BY <1>2, RangeEdited DEF SameRange, Last
<1>4. Marks(v, Last(rs))
  BY <1>2 DEF Marks, Last, BranchRange
<1>5. [rs EXCEPT ![n].uids_discovered = 0] = [rs EXCEPT ![n] = v]
  OBVIOUS
<1> HIDE DEF v
<1> QED
  BY <1>3, <1>4, <1>5 DEF v

\* HandleCollision leaves nothing of the range out.
LEMMA HalvedGrown ==
  ASSUME NEW rs \in Seq(BranchRange), rs # <<>>, Last(rs).lower <= Last(rs).upper,
         NEW L, L \subseteq UID
  PROVE  /\ Halved(rs) \in Seq(BranchRange) /\ Grown(Halved(rs), rs)
         /\ Last(rs).lower # Last(rs).upper =>
              /\ Covered(Halved(rs), Len(rs), L)
              /\ Marks(Halved(rs)[Len(rs)], Last(rs))
<1> DEFINE n == Len(rs)
           r == Last(rs)
           mid == (r.lower + r.upper) \div 2
           x == UIDRange(r.lower, ToUID(mid), n)
           y == UIDRange(ToUID(mid + 1), r.upper, n)
           v == [rs[n] EXCEPT !.uids_discovered = 0]
<1>1. n \in Nat /\ n \in 1..n /\ r \in BranchRange
  BY DEF Last
<1>2. /\ r.lower \in UID /\ r.upper \in UID /\ r.lower \in Int /\ r.upper \in Int
  BY <1>1, BranchRangeFields
<1>3. CASE r.lower = r.upper
  BY <1>3, FailedGrown DEF Halved
<1>4. CASE r.lower # r.upper
  <2>1. r.lower < r.upper
    BY <1>2, <1>4
  <2>2. /\ ToUID(mid) = mid /\ ToUID(mid + 1) = mid + 1 /\ mid \in UID /\ mid + 1 \in UID
        /\ r.lower <= mid /\ mid + 1 <= r.upper
    BY <1>2, <2>1, Middle
  <2>3. mid \in Int
    BY <2>2, ConstantsAssumption DEF UID
  <2>4. SameRange(v, Last(rs)) /\ Marks(v, Last(rs))
        /\ [rs EXCEPT ![Len(rs)].uids_discovered = 0] = [rs EXCEPT ![Len(rs)] = v]
    BY ResetTop
  <2>5. Halved(rs) = [rs EXCEPT ![n] = v] \o <<x, y>>
    <3>1. Halved(rs) = [rs EXCEPT ![Len(rs)].uids_discovered = 0] \o <<x, y>>
      BY <1>4 DEF Halved
    <3> QED
      BY <2>4, <3>1
  <2> HIDE DEF v, mid
  <2>6. Pushable(x, n) /\ x.lower = r.lower /\ x.upper = mid
    BY <1>1, <1>2, <2>2, RangePushable
  <2>7. Pushable(y, n) /\ y.lower = mid + 1 /\ y.upper = r.upper
    BY <1>1, <1>2, <2>2, RangePushable
  <2> HIDE DEF x, y, r
  <2> DEFINE qs == <<x, y>>
  <2>8. /\ qs \in Seq(BranchRange) /\ Len(qs) = 2
        /\ qs[1] = x /\ qs[2] = y
    BY <2>6, <2>7 DEF Pushable
  <2>9. \A j \in 1..Len(qs) : Pushable(qs[j], n)
    BY <2>6, <2>7, <2>8
  <2> DEFINE all == [rs EXCEPT ![n] = v] \o qs
  <2> HIDE DEF qs
  <2>10. /\ all \in Seq(BranchRange) /\ Grown(all, rs) /\ all[n] = v
         /\ Len(all) = n + Len(qs)
         /\ \A j \in 1..Len(qs) : all[n + j] = qs[j]
    <3>1. Pushed(all, rs, v, qs)
      BY <2>4, <2>8, <2>9, PushedGrown
    <3> QED
      BY <3>1 DEF Pushed
  <2> HIDE DEF all
  <2>11. all[n + 1] = x /\ all[n + 2] = y
    BY <2>8, <2>10
  <2>12. Covered(all, n, L)
    <3> SUFFICES ASSUME NEW u \in L, InRange(u, all[n])
                 PROVE  \E j \in (n + 1)..Len(all) : InRange(u, all[j])
      BY DEF Covered
    <3>1. u \in Int
      BY ConstantsAssumption DEF UID
    <3>2. r.lower <= u /\ u <= r.upper
      BY <2>4, <2>10 DEF InRange, SameRange, r
    <3>3. n + 1 \in (n + 1)..Len(all) /\ n + 2 \in (n + 1)..Len(all)
      BY <1>1, <2>8, <2>10
    <3>4. CASE u <= mid
      BY <2>6, <2>11, <3>2, <3>3, <3>4 DEF InRange
    <3>5. CASE mid + 1 <= u
      BY <2>7, <2>11, <3>2, <3>3, <3>5 DEF InRange
    <3> QED
      BY <2>3, <3>1, <3>4, <3>5
  <2> QED
    BY <2>4, <2>5, <2>10, <2>12 DEF all, qs
<1> QED
  BY <1>3, <1>4

LEMMA ToUIDFits ==
  ASSUME NEW n \in Int PROVE ToUID(n) \in UID
<1>1. Top + 1 \in Nat /\ Top + 1 > 0
  BY ConstantsAssumption
<1>2. \A m \in Nat : m > 0 => n % m \in 0..(m - 1)
  OBVIOUS
<1>3. n % (Top + 1) \in 0..((Top + 1) - 1) /\ (Top + 1) - 1 = Top
  BY <1>1, <1>2, ConstantsAssumption
<1> QED
  BY <1>3 DEF ToUID, UID

LEMMA SplitAroundGrown ==
  ASSUME NEW rs \in Seq(BranchRange), rs # <<>>, Last(rs).lower <= Last(rs).upper,
         NEW bad \in Int
  PROVE  SplitAround(rs, bad) \in Seq(BranchRange) /\ Grown(SplitAround(rs, bad), rs)
<1> DEFINE n == Len(rs)
           r == Last(rs)
           below == ToUID(bad - 1)
           above == ToUID(bad + 1)
           xs == IF below >= r.lower THEN <<UIDRange(r.lower, below, n)>> ELSE <<>>
           ys == IF above <= r.upper THEN <<UIDRange(above, r.upper, n)>> ELSE <<>>
           v == [rs[n] EXCEPT !.uids_discovered = 0]
           base == [rs EXCEPT ![n] = v]
<1>1. n \in Nat /\ n \in 1..n /\ r \in BranchRange
  BY DEF Last
<1>2. /\ r.lower \in UID /\ r.upper \in UID /\ r.lower \in Int /\ r.upper \in Int
  BY <1>1, BranchRangeFields
<1>3. CASE r.lower = r.upper
  BY <1>3, FailedGrown DEF SplitAround
<1>4. CASE r.lower # r.upper /\ (bad < r.lower \/ bad > r.upper)
  <2>1. SplitAround(rs, bad) = Halved(rs)
    BY <1>4 DEF SplitAround
  <2>2. {} \subseteq UID
    OBVIOUS
  <2> QED
    BY <2>1, <2>2, HalvedGrown
<1>5. CASE r.lower # r.upper /\ ~(bad < r.lower \/ bad > r.upper)
  <2>1. /\ SameRange(v, Last(rs))
        /\ [rs EXCEPT ![Len(rs)].uids_discovered = 0] = base
    BY ResetTop
  <2>2. SplitAround(rs, bad) = base \o xs \o ys
    <3>1. SplitAround(rs, bad) = [rs EXCEPT ![Len(rs)].uids_discovered = 0] \o xs \o ys
      BY <1>5 DEF SplitAround
    <3> QED
      BY <2>1, <3>1
  <2>3. bad - 1 \in Int /\ bad + 1 \in Int
    OBVIOUS
  <2>4. below \in UID /\ above \in UID
    BY <2>3, ToUIDFits
  <2>5. below \in Int /\ above \in Int
    BY <2>4, ConstantsAssumption DEF UID
  <2> HIDE DEF below, above, r, v
  <2>6. xs \in Seq(BranchRange) /\ \A j \in 1..Len(xs) : Pushable(xs[j], n)
    <3>1. CASE below >= r.lower
      <4> DEFINE x == UIDRange(r.lower, below, n)
      <4>1. r.lower <= below
        BY <1>2, <2>5, <3>1
      <4>2. Pushable(x, n)
        BY <1>1, <1>2, <2>4, <4>1, RangePushable
      <4>3. xs = <<x>>
        BY <3>1
      <4> HIDE DEF x, xs
      <4> QED
        BY <4>2, <4>3 DEF Pushable
    <3>2. CASE ~(below >= r.lower)
      BY <3>2
    <3> QED
      BY <3>1, <3>2
  <2>7. ys \in Seq(BranchRange) /\ \A j \in 1..Len(ys) : Pushable(ys[j], n)
    <3>1. CASE above <= r.upper
      <4> DEFINE y == UIDRange(above, r.upper, n)
      <4>1. Pushable(y, n)
        BY <1>1, <1>2, <2>4, <3>1, RangePushable
      <4>2. ys = <<y>>
        BY <3>1
      <4> HIDE DEF y, ys
      <4> QED
        BY <4>1, <4>2 DEF Pushable
    <3>2. CASE ~(above <= r.upper)
      BY <3>2
    <3> QED
      BY <3>1, <3>2
  <2> HIDE DEF xs, ys
  <2> DEFINE qs == xs \o ys
  <2>8. Len(xs) \in Nat /\ Len(ys) \in Nat
    BY <2>6, <2>7
  <2>9. /\ qs \in Seq(BranchRange) /\ Len(qs) = Len(xs) + Len(ys)
        /\ \A j \in 1..Len(xs) : qs[j] = xs[j]
        /\ \A j \in (Len(xs) + 1)..(Len(xs) + Len(ys)) : qs[j] = ys[j - Len(xs)]
    BY <2>6, <2>7, <2>8
  <2> HIDE DEF qs
  <2>10. \A j \in 1..Len(qs) : Pushable(qs[j], n)
    <3> SUFFICES ASSUME NEW j \in 1..Len(qs) PROVE Pushable(qs[j], n)
      OBVIOUS
    <3>1. CASE j \in 1..Len(xs)
      BY <2>6, <2>9, <3>1
    <3>2. CASE j \notin 1..Len(xs)
      <4>1. j \in (Len(xs) + 1)..(Len(xs) + Len(ys)) /\ j - Len(xs) \in 1..Len(ys)
        BY <2>8, <2>9, <3>2
      <4> QED
        BY <2>7, <2>9, <4>1
    <3> QED
      BY <3>1, <3>2
  <2>11. base \o qs \in Seq(BranchRange) /\ Grown(base \o qs, rs)
    <3>1. Pushed(base \o qs, rs, v, qs)
      BY <2>1, <2>9, <2>10, PushedGrown
    <3> QED
      BY <3>1 DEF Pushed
  <2>12. base \in Seq(BranchRange)
    BY <2>1, EditedGrown
  <2> HIDE DEF base
  <2>13. base \o xs \o ys = base \o qs
    <3>1. xs \in Seq(BranchRange) /\ ys \in Seq(BranchRange)
      BY <2>6, <2>7
    <3> HIDE DEF xs, ys
    <3> QED
      BY <2>12, <3>1, ConcatAssociative, SMTT(30) DEF qs
  <2> QED
    BY <2>2, <2>11, <2>13
<1> QED
  BY <1>3, <1>4, <1>5

-----------------------------------------------------------------------------
(* The phases of a run that has met nothing it cannot mend.                  *)

Good == {u \in UID : line[u] = "good"}
Left == Good \ muted
Audible == {u \in UID : Heard(u)}
AllFollow == \A u \in UID : line[u] \in {"good", "absent"}

\* The responders that acknowledged are there, and muted if they are good ones;
\* those that did not are not.
MutesMeant ==
  /\ acked \subseteq Audible
  /\ acked \cap Good \subseteq muted
  /\ m_bad_uids \cap Audible = {}

AtStart ==
  m_uid_ranges = <<UIDRange(0, Top, 0)>> /\ m_tree_corrupt = FALSE /\ m_bad_uids = {}

Unmuting ==
  /\ AtStart
  /\ acked = {} /\ m_uids_to_mute = m_uids
  /\ unmuted => muted = {}

Incremental ==
  /\ AtStart /\ MutesMeant
  /\ m_muting_uid \in m_uids \ m_uids_to_mute
  /\ m_uids_to_mute \subseteq m_uids
  /\ muted \subseteq m_uids \ (m_uids_to_mute \cup {m_muting_uid})

Branching ==
  /\ MutesMeant /\ muted \subseteq m_uids
  /\ SearchStack(m_uid_ranges, Left, 1)
  /\ m_tree_corrupt \in BOOLEAN
  /\ AllFollow => m_tree_corrupt = FALSE /\ Tidy(m_uid_ranges, Left)

\* The responder being muted is all there is to find in the top range.
Muting ==
  /\ MutesMeant /\ muted \subseteq m_uids \cup {m_muting_uid}
  /\ m_muting_uid \in UID /\ line[m_muting_uid] # "absent"
  /\ m_mute_attempts \in Nat /\ m_mute_attempts < MAX_MUTE_ATTEMPTS
  /\ SearchStack(m_uid_ranges, Left, 1)
  /\ \A u \in Left : InRange(u, Last(m_uid_ranges)) => u = m_muting_uid
  /\ m_tree_corrupt \in BOOLEAN
  /\ AllFollow => m_tree_corrupt = FALSE /\ Clean(m_uid_ranges)

Phase(c) ==
  /\ c.op = "unmute" => Unmuting
  /\ c.op = "incremental" => Incremental
  /\ c.op = "branch" => Branching
  /\ c.op = "mute" => Muting

Undisturbed == ~disturbed => \A c \in calls : Phase(c)

FindInv ==
  /\ FindsAll
  /\ line \in Lines /\ muted \subseteq Good
  /\ aborted \/ (m_uids \subseteq UID /\ m_uids_to_mute \subseteq UID)
  /\ aborted \/ Undisturbed

-----------------------------------------------------------------------------

\* What FindsAll says of one result.
Finds(r) ==
  r.by = "run" /\ r.mended =>
    LET good == {u \in UID : r.line[u] = "good"}
        obnoxious == {u \in UID : r.line[u] = "obnoxious"}
    IN  /\ good \subseteq r.uids
        /\ r.uids \subseteq good \cup obnoxious
        /\ (\A u \in UID : r.line[u] \in {"good", "absent"}) => r.status

LEMMA FindsEach == FindsAll <=> \A i \in DOMAIN results : Finds(results[i])
BY DEF FindsAll, Finds

LEMMA CompletedFinds ==
  ASSUME FindsAll, NEW status, NEW uids, RunCompleteCallback(status, uids),
         m_on_complete = TRUE,
         ~disturbed' => /\ Good \subseteq uids /\ uids \subseteq Audible
                        /\ AllFollow => status = TRUE
  PROVE  FindsAll'
<1>1. DOMAIN results' = DOMAIN results
  BY DEF RunCompleteCallback
<1>2. ASSUME NEW i \in DOMAIN results PROVE Finds(results'[i])
  <2>1. CASE i \in m_discovery_callbacks
    <3>1. results'[i] = [by |-> "run", status |-> status, uids |-> uids,
                         acked |-> acked', mended |-> ~disturbed', line |-> line]
      BY <1>2, <2>1 DEF RunCompleteCallback
    <3>2. /\ results'[i].status = status /\ results'[i].uids = uids
          /\ results'[i].mended = ~disturbed' /\ results'[i].line = line
      BY <3>1
    <3> HIDE <3>1
    <3>3. CASE ~disturbed'
      <4>1. {u \in UID : line[u] = "good"} \subseteq uids
        BY <3>3 DEF Good
      <4>2. uids \subseteq {u \in UID : line[u] = "good"} \cup {u \in UID : line[u] = "obnoxious"}
        BY <3>3 DEF Audible, Heard
      <4>3. (\A u \in UID : line[u] \in {"good", "absent"}) => results'[i].status
        BY <3>2, <3>3 DEF AllFollow
      <4> QED
        BY <3>2, <4>1, <4>2, <4>3 DEF Finds
    <3>4. CASE disturbed'
      BY <3>2, <3>4 DEF Finds
    <3> QED
      BY <3>3, <3>4
  <2>2. CASE i \notin m_discovery_callbacks /\ i \in m_pending_discovery_callbacks
    <3>1. results'[i] = [by |-> "refused", status |-> FALSE, uids |-> {}]
      BY <1>2, <2>2 DEF RunCompleteCallback
    <3>2. results'[i].by # "run"
      BY <3>1
    <3> QED
      BY <3>2 DEF Finds
  <2>3. CASE i \notin m_discovery_callbacks /\ i \notin m_pending_discovery_callbacks
    <3>1. results'[i] = results[i]
      BY <1>2, <2>3 DEF RunCompleteCallback
    <3> QED
      BY <3>1, FindsEach
  <2> QED
    BY <2>1, <2>2, <2>3
<1>3. FindsAll' <=> \A i \in DOMAIN results' : Finds(results'[i])
  BY DEF FindsAll, Finds
<1> QED
  BY <1>1, <1>2, <1>3

\* SendDiscovery ends the run when all is found, or goes on searching.
ReadyTree(t, L) ==
  /\ t \in Tree /\ SearchStack(t.ranges, L, 0)
  /\ AllFollow => t.corrupt = FALSE /\ Clean(t.ranges)

LEMMA SendFinds ==
  ASSUME MAX_EMPTY_BRANCH_ATTEMPTS > 2,
         FindsAll, NEW t, NEW uids, SendDiscovery(t, uids, {}), m_on_complete = TRUE,
         line' = line, uids = m_uids', m_uids' \subseteq acked',
         ~disturbed' => ReadyTree(t, Left') /\ MutesMeant' /\ muted' \subseteq m_uids'
  PROVE  FindsAll' /\ Undisturbed'
<1> PICK L : L = Left'
  OBVIOUS
<1>1. L \subseteq UID /\ Good' = Good /\ Audible' = Audible /\ (AllFollow' <=> AllFollow)
  BY DEF Left, Good, Audible, Heard, AllFollow
<1>2. m_uid_ranges' = Settle[t].ranges /\ m_tree_corrupt' = Settle[t].corrupt
  BY DEF SendDiscovery
<1>3. ASSUME ~disturbed'
      PROVE  /\ SearchStack(m_uid_ranges', L, 1) /\ m_tree_corrupt' \in BOOLEAN
             /\ AllFollow => m_tree_corrupt' = FALSE /\ Tidy(m_uid_ranges', L)
  <2>1. t \in Tree /\ SearchStack(t.ranges, L, 0) /\ (AllFollow => t.corrupt = FALSE /\ Clean(t.ranges))
    BY <1>3 DEF ReadyTree
  <2>2. SearchStack(Settle[t].ranges, L, 1)
    BY <1>1, <2>1, SettleSearches
  <2>3. Settle[t].corrupt \in BOOLEAN
    BY <2>1, SettleKeeps DEF Tree
  <2>4. AllFollow => Settle[t].corrupt = FALSE /\ Tidy(Settle[t].ranges, L)
    BY <2>1, SettleClean
  <2> QED
    BY <1>2, <2>2, <2>3, <2>4
<1>4. CASE m_uid_ranges' = <<>>
  <2>1. calls' = {} /\ RunCompleteCallback(~m_tree_corrupt', uids)
    BY <1>4 DEF SendDiscovery
  <2>2. ASSUME ~disturbed'
        PROVE  /\ Good \subseteq uids /\ uids \subseteq Audible
               /\ AllFollow => (~m_tree_corrupt') = TRUE
    <3>1. L = {}
      BY <1>3, <1>4, <2>2 DEF SearchStack, Searches
    <3>2. Good \subseteq uids
      BY <1>1, <2>2, <3>1 DEF Left
    <3>3. uids \subseteq Audible
      BY <1>1, <2>2 DEF MutesMeant
    <3>4. AllFollow => (~m_tree_corrupt') = TRUE
      BY <1>3, <2>2
    <3> QED
      BY <3>2, <3>3, <3>4
  <2>3. PICK status : status = ~m_tree_corrupt'
    OBVIOUS
  <2>4. RunCompleteCallback(status, uids)
    BY <2>1, <2>3
  <2>5. FindsAll'
    BY <2>2, <2>3, <2>4, CompletedFinds
  <2> QED
    BY <2>1, <2>5 DEF Undisturbed
<1>5. CASE m_uid_ranges' # <<>>
  <2> PICK c : c = Call("branch", Last(m_uid_ranges').lower, Last(m_uid_ranges').upper)
    OBVIOUS
  <2>1. calls' = {c} /\ UNCHANGED clientVars
    BY <1>5 DEF SendDiscovery
  <2>2. FindsAll'
    BY <2>1 DEF clientVars, FindsAll
  <2>3. ~disturbed' => Branching'
    BY <1>1, <1>3 DEF Branching
  <2>4. c.op = "branch"
    BY DEF Call
  <2>5. ~disturbed' => Phase(c)'
    BY <2>3, <2>4 DEF Phase
  <2> QED
    BY <2>1, <2>2, <2>5 DEF Undisturbed
<1> QED
  BY <1>4, <1>5

\* The least of some UIDs is one of them.
LEMMA MinIsOne ==
  ASSUME NEW S, S \subseteq UID, S # {}
  PROVE  Min(S) \in S
<1> DEFINE R == OpToRel(<, Nat)
<1>1. S \subseteq Nat
  BY ConstantsAssumption DEF UID
<1>2. IsWellFoundedOn(R, Nat)
  BY NatLessThanWellFounded
<1> HIDE DEF R
<1>3. PICK m \in S : \A k \in S : ~ (<<k, m>> \in R)
  BY <1>1, <1>2, WFMin
<1>4. \A k \in S : ~ (k < m)
  BY <1>1, <1>3 DEF R, OpToRel
<1>5. \A k \in S : m <= k
  BY <1>1, <1>4
<1>6. \E x \in S : \A y \in S : x <= y
  BY <1>5
<1> QED
  BY <1>6 DEF Min

LEMMA MaybeMuteFinds ==
  ASSUME MAX_EMPTY_BRANCH_ATTEMPTS > 2,
         FindsAll, NEW uids, MaybeMuteNextDevice(uids, {}), m_on_complete = TRUE,
         line' = line, m_bad_uids' = m_bad_uids, uids = m_uids', m_uids_to_mute \subseteq UID,
         uids \subseteq acked' \cup m_uids_to_mute,
         ~disturbed' => /\ AtStart /\ MutesMeant'
                        /\ m_uids_to_mute \subseteq m_uids'
                        /\ muted' \subseteq m_uids' \ m_uids_to_mute
  PROVE  FindsAll' /\ m_uids_to_mute' \subseteq UID /\ Undisturbed'
<1>1. CASE m_uids_to_mute = {}
  <2>1. SendDiscovery(TheTree, uids, {}) /\ m_uids_to_mute' = m_uids_to_mute
    BY <1>1 DEF MaybeMuteNextDevice
  <2>2. ASSUME ~disturbed' PROVE ReadyTree(TheTree, Left')
    <3> DEFINE r == UIDRange(0, Top, 0)
               rs == <<r>>
    <3>1. TheTree.ranges = rs /\ TheTree.corrupt = FALSE
      BY <2>2 DEF AtStart, TheTree
    <3>2. 0 \in UID /\ Top \in UID
      BY ConstantsAssumption DEF UID
    <3>3. /\ r \in BranchRange /\ r.lower = 0 /\ r.upper = Top /\ r.parent = 0
      BY <3>2, RangeFields
    <3>4. Fresh(r, 0) /\ Calm(r, 1)
      BY DEF UIDRange, Fresh, Calm
    <3> HIDE DEF r
    <3>5. rs \in Seq(BranchRange) /\ Len(rs) = 1 /\ rs[1] = r /\ rs # <<>>
      BY <3>3
    <3> HIDE DEF rs
    <3>6. Shape(rs)
      BY <3>3, <3>5, ConstantsAssumption DEF Shape
    <3>7. \A i \in 1..Len(rs) : rs[i] = r
      BY <3>5
    <3>8. Searches(rs, Left', 0)
      BY <3>3, <3>4, <3>5, <3>7 DEF Searches
    <3>9. TheTree \in Tree
      BY <3>1, <3>5 DEF Tree, TheTree
    <3> QED
      BY <3>1, <3>4, <3>5, <3>6, <3>7, <3>8, <3>9 DEF ReadyTree, SearchStack, Clean
  <2>3. m_uids' \subseteq acked' /\ (~disturbed' => muted' \subseteq m_uids')
    BY <1>1
  <2>4. FindsAll' /\ Undisturbed'
    BY <2>1, <2>2, <2>3, SendFinds
  <2> QED
    BY <2>1, <2>4
<1>2. CASE m_uids_to_mute # {}
  <2> PICK c : c = Call("incremental", m_muting_uid', 0)
    OBVIOUS
  <2>1. /\ m_muting_uid' = Min(m_uids_to_mute)
        /\ m_uids_to_mute' = m_uids_to_mute \ {m_muting_uid'}
        /\ calls' = {c} /\ UNCHANGED <<stackVars, clientVars>>
    BY <1>2 DEF MaybeMuteNextDevice
  <2>2. m_muting_uid' \in m_uids_to_mute
    BY <1>2, <2>1, MinIsOne
  <2>3. FindsAll' /\ UNCHANGED <<m_uid_ranges, m_tree_corrupt>>
    BY <2>1 DEF FindsAll, clientVars, stackVars
  <2>4. ~disturbed' => Incremental'
    <3> SUFFICES ASSUME ~disturbed' PROVE Incremental'
      OBVIOUS
    <3>1. AtStart'
      BY <2>3 DEF AtStart
    <3> QED
      BY <2>1, <2>2, <3>1 DEF Incremental
  <2>5. c.op = "incremental"
    BY DEF Call
  <2>6. ~disturbed' => Phase(c)'
    BY <2>4, <2>5 DEF Phase
  <2> QED
    BY <2>1, <2>3, <2>6 DEF Undisturbed
<1> QED
  BY <1>1, <1>2

LEMMA InitFinds == Init => FindInv
<1> SUFFICES ASSUME Init PROVE FindInv
  OBVIOUS
<1>1. \A i \in DOMAIN results : results[i].by = "none"
  BY DEF Init
<1>2. FindsAll
  BY <1>1 DEF FindsAll
<1> QED
  BY <1>2 DEF Init, FindInv, Undisturbed

LEMMA FindUnchanged ==
  ASSUME FindInv,
         UNCHANGED <<agentVars, stackVars, runVars, line, muted, results, calls, aborted>>
  PROVE  FindInv'
<1>1. /\ UNCHANGED <<m_uids, m_bad_uids, m_uids_to_mute, m_muting_uid, m_mute_attempts>>
      /\ UNCHANGED <<m_uid_ranges, m_tree_corrupt, acked, unmuted, disturbed>>
      /\ UNCHANGED <<line, muted, results, calls, aborted>>
  BY DEF agentVars, stackVars, runVars
<1>2. Good' = Good /\ Left' = Left /\ Audible' = Audible /\ (AllFollow' <=> AllFollow)
  BY <1>1 DEF Good, Left, Audible, Heard, AllFollow
<1>3. MutesMeant => MutesMeant'
  BY <1>1, <1>2 DEF MutesMeant
<1>4. AtStart => AtStart'
  BY <1>1 DEF AtStart
<1>5. Unmuting => Unmuting'
  BY <1>1, <1>4 DEF Unmuting
<1>6. Incremental => Incremental'
  BY <1>1, <1>3, <1>4 DEF Incremental
<1>7. Branching => Branching'
  BY <1>1, <1>2, <1>3 DEF Branching
<1>8. Muting => Muting'
  BY <1>1, <1>2, <1>3 DEF Muting
<1>9. \A c : Phase(c) => Phase(c)'
  BY <1>5, <1>6, <1>7, <1>8 DEF Phase
<1>10. FindsAll'
  BY <1>1 DEF FindsAll, FindInv
<1> QED
  BY <1>1, <1>2, <1>9, <1>10 DEF FindInv, Undisturbed

LEMMA GenericFinds ==
  ASSUME AnswerInv, FindInv, NEW full \in BOOLEAN, GenericDiscovery(full)
  PROVE  FindInv'
<1>1. ~aborted /\ UNCHANGED <<line, muted, results, aborted>>
  BY DEF GenericDiscovery, lineVars
<1>2. CASE m_discovery_callbacks = {}
  <2>1. calls = {}
    BY <1>1, <1>2 DEF AnswerInv, InStep, Idle, Running
  <2>2. InitDiscovery({Len(asked')}, full)
    BY <1>2 DEF GenericDiscovery
  <2>3. /\ calls' = {Call("unmute", 0, 0)} /\ acked' = {} /\ unmuted' = FALSE
        /\ m_uid_ranges' = <<UIDRange(0, Top, 0)>> /\ m_tree_corrupt' = FALSE
        /\ m_bad_uids' = {}
    BY <2>1, <2>2 DEF InitDiscovery
  <2>4. m_uids_to_mute' = m_uids' /\ m_uids' \subseteq m_uids
    BY <2>2 DEF InitDiscovery
  <2>5. Unmuting'
    BY <2>3, <2>4 DEF Unmuting, AtStart
  <2>6. Phase(Call("unmute", 0, 0))'
    BY <2>5 DEF Phase, Call
  <2>7. Undisturbed'
    BY <2>3, <2>6 DEF Undisturbed
  <2>8. FindsAll' /\ line' \in Lines /\ muted' \subseteq Good'
    BY <1>1 DEF FindInv, FindsAll, Good
  <2> QED
    BY <1>1, <2>4, <2>7, <2>8 DEF FindInv
<1>3. CASE m_discovery_callbacks # {}
  <2>1. UNCHANGED <<agentVars, stackVars, runVars, calls>>
    BY <1>3 DEF GenericDiscovery
  <2> QED
    BY <1>1, <2>1, FindUnchanged
<1> QED
  BY <1>2, <1>3

LEMMA AbortFinds ==
  ASSUME FindInv, Abort
  PROVE  FindInv'
<1>1. DOMAIN results' = DOMAIN results /\ aborted' = TRUE /\ UNCHANGED <<line, muted>>
  BY DEF Abort, lineVars
<1>2. ASSUME NEW i \in DOMAIN results PROVE Finds(results'[i])
  <2>1. CASE i \in m_discovery_callbacks
    <3>1. results'[i] = [by |-> "abort", status |-> FALSE, uids |-> {}]
      BY <1>2, <2>1 DEF Abort
    <3>2. results'[i].by # "run"
      BY <3>1
    <3> QED
      BY <3>2 DEF Finds
  <2>2. CASE i \notin m_discovery_callbacks
    BY <1>2, <2>2, FindsEach DEF Abort, FindInv
  <2> QED
    BY <2>1, <2>2
<1>3. FindsAll' <=> \A i \in DOMAIN results' : Finds(results'[i])
  BY DEF FindsAll, Finds
<1>4. FindsAll' /\ line' \in Lines /\ muted' \subseteq Good'
  BY <1>1, <1>2, <1>3 DEF FindInv, Good
<1> QED
  BY <1>1, <1>4 DEF FindInv

LEMMA ReplugFinds ==
  ASSUME FindInv, NEW new \in Lines, Replug(new)
  PROVE  FindInv'
<1>1. /\ line' = new /\ muted' = {u \in muted : new[u] = line[u]} /\ disturbed' = TRUE
      /\ UNCHANGED <<m_uids, m_uids_to_mute, results, aborted>>
  BY DEF Replug, agentVars, clientVars
<1>2. muted' \subseteq Good'
  BY <1>1 DEF FindInv, Good
<1>3. FindsAll'
  BY <1>1 DEF FindInv, FindsAll
<1> QED
  BY <1>1, <1>2, <1>3 DEF FindInv, Undisturbed

\* After Abort() nothing is reported.
LEMMA LateFinds ==
  ASSUME AnswerInv, FindInv, aborted,
         \/ UNCHANGED clientVars
         \/ \E t, uids, rest : SendDiscovery(t, uids, rest)
         \/ \E uids, rest : MaybeMuteNextDevice(uids, rest),
         aborted' = aborted, line' = line, muted' \subseteq Good
  PROVE  FindInv'
<1>1. m_on_complete = FALSE
  BY DEF AnswerInv
<1>2. \A t, uids, rest : SendDiscovery(t, uids, rest) => UNCHANGED clientVars
  BY <1>1 DEF SendDiscovery, RunCompleteCallback
<1>3. \A uids, rest : MaybeMuteNextDevice(uids, rest) => UNCHANGED clientVars
  BY <1>2 DEF MaybeMuteNextDevice
<1>4. UNCHANGED clientVars
  BY <1>2, <1>3
<1>5. results' = results
  BY <1>4 DEF clientVars
<1>6. FindsAll' /\ Good' = Good
  BY <1>5 DEF FindInv, FindsAll, Good
<1> QED
  BY <1>6 DEF FindInv

LEMMA UnMuteFinds ==
  ASSUME MAX_EMPTY_BRANCH_ATTEMPTS > 2,
         AnswerInv, FindInv, NEW lost \in BOOLEAN, UnMuteComplete(lost)
  PROVE  FindInv'
<1> DEFINE u == Call("unmute", 0, 0)
           rest == calls \ {u}
<1>1. /\ u \in calls /\ UNCHANGED <<acked, line, aborted>>
      /\ muted' = IF lost THEN muted ELSE {}
      /\ unmuted' = (unmuted \/ ~lost)
  BY DEF UnMuteComplete
<1>2. muted' \subseteq Good /\ Good' = Good
  BY <1>1 DEF FindInv, Good
<1>3. CASE aborted
  <2>1. UNCHANGED clientVars \/ \E uids, r : MaybeMuteNextDevice(uids, r)
    BY DEF UnMuteComplete
  <2> QED
    BY <1>1, <1>2, <1>3, <2>1, LateFinds
<1>4. CASE ~aborted
  <2>1. Running /\ Stands(u) /\ rest = {}
    BY <1>1, <1>4, OnlyRequest DEF AnswerInv
  <2>2. m_uids \subseteq m_uids_to_mute /\ m_uid_ranges # <<>> /\ m_on_complete = TRUE
    BY <2>1, CallsDiffer DEF Stands, Running
  <2>3. ~disturbed => Unmuting
    BY <1>1, <1>4 DEF FindInv, Undisturbed, Phase, Call
  <2> HIDE DEF u
  <2>4. UNCHANGED <<m_uids, m_bad_uids>>
    BY <2>2 DEF UnMuteComplete
  <2>5. m_uids \subseteq UID /\ m_uids_to_mute \subseteq UID /\ FindsAll /\ line \in Lines
    BY <1>4 DEF FindInv
  <2>6. ~disturbed => (unmuted' => muted' = {})
    BY <1>1, <2>3 DEF Unmuting
  <2>7. CASE m_unmute_count' < BROADCAST_UNMUTE_REPEATS
    <3>1. /\ calls' = {u}
          /\ UNCHANGED <<m_uids_to_mute, m_muting_uid, stackVars, clientVars, disturbed>>
      BY <2>1, <2>2, <2>7 DEF UnMuteComplete, u
    <3>2. FindsAll' /\ UNCHANGED <<m_uid_ranges, m_tree_corrupt>>
      BY <2>5, <3>1 DEF FindsAll, clientVars, stackVars
    <3>3. ~disturbed' => Unmuting'
      BY <1>1, <2>3, <2>4, <2>6, <3>1, <3>2 DEF Unmuting, AtStart
    <3>4. ~disturbed' => Phase(u)'
      BY <3>3 DEF Phase, u, Call
    <3>5. Undisturbed'
      BY <3>1, <3>4 DEF Undisturbed
    <3> QED
      BY <1>1, <1>2, <2>4, <2>5, <3>1, <3>2, <3>5 DEF FindInv
  <2>8. CASE ~(m_unmute_count' < BROADCAST_UNMUTE_REPEATS)
    <3>1. MaybeMuteNextDevice(m_uids, rest) /\ disturbed' = (disturbed \/ ~unmuted')
      BY <2>2, <2>8 DEF UnMuteComplete, u
    <3>2. MaybeMuteNextDevice(m_uids, {})
      BY <2>1, <3>1
    <3>3. ASSUME ~disturbed'
          PROVE  /\ AtStart /\ MutesMeant'
                 /\ m_uids_to_mute \subseteq m_uids'
                 /\ muted' \subseteq m_uids' \ m_uids_to_mute
      <4>1. ~disturbed /\ unmuted'
        BY <3>1, <3>3
      <4>2. Unmuting /\ muted' = {}
        BY <2>3, <2>6, <4>1
      <4>3. MutesMeant'
        BY <1>1, <2>4, <4>2 DEF MutesMeant, Unmuting, AtStart
      <4> QED
        BY <2>4, <4>2, <4>3 DEF Unmuting
    <3>4. m_uids = m_uids' /\ m_uids \subseteq acked' \cup m_uids_to_mute
      BY <2>2, <2>4
    <3>5. FindsAll' /\ m_uids_to_mute' \subseteq UID /\ Undisturbed'
      BY <1>1, <2>2, <2>4, <2>5, <3>2, <3>3, <3>4, MaybeMuteFinds
    <3> QED
      BY <1>1, <1>2, <2>4, <2>5, <3>5 DEF FindInv
  <2> QED
    BY <2>7, <2>8
<1> QED
  BY <1>3, <1>4

LEMMA MuteStands ==
  ASSUME NEW u, Stands(Call("mute", u, 0))
  PROVE  u = m_muting_uid /\ m_uids \subseteq acked
BY CallsDiffer DEF Stands

LEMMA IncrementalStands ==
  ASSUME NEW u, Stands(Call("incremental", u, 0))
  PROVE  u = m_muting_uid /\ m_uids \subseteq acked \cup m_uids_to_mute \cup {m_muting_uid}
BY CallsDiffer DEF Stands

LEMMA MutedGood ==
  ASSUME NEW u \in UID, NEW fate, muted \subseteq Good
  PROVE  /\ Muted(u, fate) \subseteq Good /\ muted \subseteq Muted(u, fate)
         /\ Muted(u, fate) \subseteq muted \cup {u}
         /\ u \notin Good => Muted(u, fate) = muted
         /\ fate = "request lost" => Muted(u, fate) = muted
BY DEF Muted, Good

\* A responder that acknowledges is there, and muted if it is a good one.
LEMMA AckMeant ==
  ASSUME NEW u \in UID, NEW fate, muted \subseteq Good, MutesMeant,
         line' = line, muted' = Muted(u, fate),
         acked' = IF MuteStatus(u, fate) THEN acked \cup {u} ELSE acked,
         m_bad_uids' \cap Audible = {}
  PROVE  MutesMeant'
<1>1. Good' = Good /\ Audible' = Audible
  BY DEF Good, Audible, Heard
<1>2. MuteStatus(u, fate) => u \in Audible /\ (u \in Good => u \in muted')
  BY DEF MuteStatus, Muted, Audible, Good
<1>3. muted \subseteq muted'
  BY MutedGood
<1> QED
  BY <1>1, <1>2, <1>3 DEF MutesMeant

LEMMA IncrementalFinds ==
  ASSUME MAX_EMPTY_BRANCH_ATTEMPTS > 2,
         AnswerInv, FindInv, NEW u \in UID, NEW fate \in {"ok", "request lost", "reply lost"},
         IncrementalMuteComplete(u, fate)
  PROVE  FindInv'
<1> DEFINE c == Call("incremental", u, 0)
           rest == calls \ {c}
<1>1. /\ c \in calls /\ UNCHANGED <<line, aborted, m_bad_uids>> /\ muted' = Muted(u, fate)
      /\ acked' = IF MuteStatus(u, fate) THEN acked \cup {u} ELSE acked
      /\ disturbed' = (disturbed \/ fate = "reply lost")
      /\ MaybeMuteNextDevice(m_uids', rest)
  BY DEF IncrementalMuteComplete
<1>2. muted \subseteq Good /\ muted' \subseteq Good /\ Good' = Good
  BY <1>1, MutedGood DEF FindInv, Good
<1>3. CASE aborted
  BY <1>1, <1>2, <1>3, LateFinds
<1>4. CASE ~aborted
  <2>1. Running /\ Stands(c) /\ rest = {}
    BY <1>1, <1>4, OnlyRequest DEF AnswerInv
  <2>2. /\ u = m_muting_uid /\ m_on_complete = TRUE
        /\ m_uids \subseteq acked \cup m_uids_to_mute \cup {m_muting_uid}
    BY <2>1, IncrementalStands DEF Running
  <2>3. m_uids' = IF MuteStatus(u, fate) THEN m_uids ELSE m_uids \ {m_muting_uid}
    BY DEF IncrementalMuteComplete
  <2>4. ~disturbed => Incremental
    BY <1>1, <1>4 DEF FindInv, Undisturbed, Phase, Call
  <2>5. m_uids \subseteq UID /\ m_uids_to_mute \subseteq UID /\ FindsAll /\ line \in Lines
    BY <1>4 DEF FindInv
  <2>6. MaybeMuteNextDevice(m_uids', {})
    BY <1>1, <2>1
  <2> HIDE DEF c, rest
  <2>7. m_uids' \subseteq acked' \cup m_uids_to_mute
    BY <1>1, <2>2, <2>3
  <2>8. ASSUME ~disturbed'
        PROVE  /\ AtStart /\ MutesMeant'
               /\ m_uids_to_mute \subseteq m_uids'
               /\ muted' \subseteq m_uids' \ m_uids_to_mute
    <3>1. Incremental /\ fate # "reply lost"
      BY <1>1, <2>4, <2>8
    <3>2. MutesMeant'
      BY <1>1, <1>2, <3>1, AckMeant DEF Incremental, MutesMeant
    <3>3. m_uids_to_mute \subseteq m_uids'
      BY <2>2, <2>3, <3>1 DEF Incremental
    <3>4. MuteStatus(u, fate) \/ muted' = muted
      BY <1>1, <3>1 DEF MuteStatus, Muted, Heard
    <3>5. muted' \subseteq muted \cup {u}
      BY <1>1, <1>2, MutedGood
    <3>6. muted' \subseteq m_uids' \ m_uids_to_mute
      BY <2>2, <2>3, <3>1, <3>4, <3>5 DEF Incremental
    <3> QED
      BY <3>1, <3>2, <3>3, <3>6 DEF Incremental
  <2>9. FindsAll' /\ m_uids_to_mute' \subseteq UID /\ Undisturbed'
    BY <1>1, <2>2, <2>5, <2>6, <2>7, <2>8, MaybeMuteFinds
  <2>10. m_uids' \subseteq UID
    BY <2>3, <2>5
  <2> QED
    BY <1>1, <1>2, <2>5, <2>9, <2>10 DEF FindInv
<1> QED
  BY <1>3, <1>4

LEMMA GrownSelf ==
  ASSUME NEW rs \in Seq(BranchRange)
  PROVE  Grown(rs, rs)
<1>1. Len(rs) \in Nat
  OBVIOUS
<1>2. \A i \in (Len(rs) + 1)..Len(rs) : FALSE
  BY <1>1
<1> QED
  BY <1>1, <1>2 DEF Grown, Above

\* The top range, with nothing left to find in it, whatever is done to it.
LEMMA DoneTop ==
  ASSUME NEW rs, NEW L, NEW k, SearchStack(rs, L, k), rs # <<>>,
         \A w \in L : ~InRange(w, Last(rs)),
         NEW all \in Seq(BranchRange), Grown(all, rs)
  PROVE  SearchStack(all, L, 0)
<1> DEFINE n == Len(rs)
<1>1. n \in 1..n
  BY DEF SearchStack
<1>2. all[n].lower = rs[n].lower /\ all[n].upper = rs[n].upper
  BY <1>1 DEF Grown, Above
<1>3. Covered(all, n, L)
  BY <1>2 DEF Covered, InRange, Last
<1> QED
  BY <1>3, GrownSearches

\* The top range of a stack, with one more responder found in it.
LEMMA FoundTop ==
  ASSUME NEW rs \in Seq(BranchRange), rs # <<>>
  PROVE  LET v == [rs[Len(rs)] EXCEPT !.uids_discovered = @ + 1]
         IN  SameRange(v, Last(rs)) /\ Marks(v, Last(rs))
<1> DEFINE n == Len(rs)
           k == rs[n].uids_discovered + 1
           v == [rs[n] EXCEPT !.uids_discovered = k]
<1>1. n \in 1..n
  OBVIOUS
<1>2. rs[n] \in BranchRange
  BY <1>1
<1>3. k \in Nat
  BY <1>2, BranchRangeFields
<1> HIDE DEF k
<1>4. SameRange(v, Last(rs))
  BY <1>2, <1>3, RangeEdited DEF SameRange, Last
<1>5. Marks(v, Last(rs))
  BY <1>2 DEF Marks, Last, BranchRange
<1> QED
  BY <1>4, <1>5 DEF k

LEMMA OneMore ==
  ASSUME NEW a \in Nat, NEW b, b = a + 1
  PROVE  b \in Nat /\ \A m \in Nat : a < m /\ ~(b < m) => a + 1 = m
OBVIOUS

LEMMA MuteFinds ==
  ASSUME MAX_EMPTY_BRANCH_ATTEMPTS > 2,
         AnswerInv, FindInv, NEW u \in UID, NEW fate \in {"ok", "request lost", "reply lost"},
         BranchMuteComplete(u, fate)
  PROVE  FindInv'
<1> DEFINE c == Call("mute", u, 0)
           rest == calls \ {c}
           status == MuteStatus(u, fate)
<1>1. /\ c \in calls /\ UNCHANGED <<line, aborted>> /\ muted' = Muted(u, fate)
      /\ acked' = IF status THEN acked \cup {u} ELSE acked
      /\ disturbed' = (disturbed \/ (/\ ~status /\ Heard(u)
                                    /\ m_mute_attempts + 1 = MAX_MUTE_ATTEMPTS))
  BY DEF BranchMuteComplete
<1>2. muted \subseteq Good /\ muted' \subseteq Good /\ Good' = Good /\ Audible' = Audible
  BY <1>1, MutedGood DEF FindInv, Good, Audible, Heard
<1>3. CASE aborted
  <2>1. UNCHANGED clientVars \/ \E t, uids, r : SendDiscovery(t, uids, r)
    BY DEF BranchMuteComplete, Crash
  <2> QED
    BY <1>1, <1>2, <1>3, <2>1, LateFinds
<1>4. CASE ~aborted
  <2>1. Running /\ Stands(c) /\ rest = {}
    BY <1>1, <1>4, OnlyRequest DEF AnswerInv
  <2>2. /\ u = m_muting_uid /\ m_uids \subseteq acked
        /\ m_uid_ranges # <<>> /\ m_on_complete = TRUE
    BY <2>1, MuteStands DEF Running
  <2>3. ~disturbed => Muting
    BY <1>1, <1>4 DEF FindInv, Undisturbed, Phase, Call
  <2>4. m_uids \subseteq UID /\ m_uids_to_mute \subseteq UID /\ FindsAll /\ line \in Lines
    BY <1>4 DEF FindInv
  <2>5. /\ m_mute_attempts' = m_mute_attempts + 1
        /\ m_uids' = IF status THEN m_uids \cup {m_muting_uid} ELSE m_uids
        /\ m_uids_to_mute' = m_uids_to_mute /\ m_muting_uid' = m_muting_uid
    BY <2>2 DEF BranchMuteComplete
  <2>6. m_uids' \subseteq acked' /\ m_uids' \subseteq UID
    BY <1>1, <2>2, <2>4, <2>5
  <2>7. ~disturbed' => ~disturbed
    BY <1>1
  <2>8. Left' \subseteq Left /\ (u \in Left' => muted' = muted /\ u \in Good)
        /\ muted' \subseteq muted \cup {u}
    BY <1>1, <1>2, MutedGood DEF Left, Muted
  <2> DEFINE n == Len(m_uid_ranges)
  <2> SUFFICES FindsAll' /\ Undisturbed'
    BY <1>1, <1>2, <2>4, <2>5, <2>6 DEF FindInv
  <2>9. ASSUME ~disturbed
        PROVE  /\ SearchStack(m_uid_ranges, Left', 1) /\ m_uid_ranges \in Seq(BranchRange)
               /\ m_tree_corrupt \in BOOLEAN /\ TheTree \in Tree
               /\ TheTree.ranges = m_uid_ranges /\ TheTree.corrupt = m_tree_corrupt
    <3>1. SearchStack(m_uid_ranges, Left, 1) /\ m_tree_corrupt \in BOOLEAN
      BY <2>3, <2>9 DEF Muting
    <3>2. SearchStack(m_uid_ranges, Left', 1)
      BY <2>8, <3>1, SearchesLess DEF SearchStack
    <3> QED
      BY <3>1, <3>2 DEF SearchStack, TheTree, Tree
  <2>10. CASE status
    <3> DEFINE v == [m_uid_ranges[n] EXCEPT !.uids_discovered = @ + 1]
               qs == [m_uid_ranges EXCEPT ![n] = v]
               t == [TheTree EXCEPT !.ranges[n].uids_discovered = @ + 1]
    <3>1. SendDiscovery(t, m_uids', {}) /\ m_bad_uids' = m_bad_uids
      BY <2>1, <2>2, <2>10 DEF BranchMuteComplete
    <3>2. ASSUME ~disturbed'
          PROVE  ReadyTree(t, Left') /\ MutesMeant' /\ muted' \subseteq m_uids'
      <4>1. ~disturbed /\ Muting
        BY <2>3, <2>7, <3>2
      <4>2. m_uid_ranges \in Seq(BranchRange) /\ TheTree \in Tree
            /\ TheTree.ranges = m_uid_ranges /\ TheTree.corrupt = m_tree_corrupt
        BY <2>9, <4>1
      <4>4. SameRange(v, Last(m_uid_ranges)) /\ Marks(v, Last(m_uid_ranges))
        BY <2>2, <4>2, FoundTop
      <4>5. t = [TheTree EXCEPT !.ranges = qs]
        BY <4>2
      <4> HIDE DEF v
      <4>6. qs \in Seq(BranchRange) /\ Len(qs) = n /\ Grown(qs, m_uid_ranges) /\ qs[n] = v
        BY <2>2, <4>2, <4>4, EditedGrown
      <4> HIDE DEF qs
      <4>7. t \in Tree /\ t.ranges = qs /\ t.corrupt = m_tree_corrupt
        BY <4>2, <4>5, <4>6 DEF Tree
      <4> HIDE DEF t
      <4>8. \A w \in Left' : ~InRange(w, Last(m_uid_ranges))
        <5>1. u \notin Left'
          BY <1>1, <2>10 DEF MuteStatus, Muted, Left, Good
        <5> QED
          BY <2>2, <2>8, <4>1, <5>1 DEF Muting
      <4>9. SearchStack(qs, Left', 0)
        BY <2>2, <2>9, <4>1, <4>6, <4>8, DoneTop
      <4>10. AllFollow => m_tree_corrupt = FALSE /\ Clean(qs)
        BY <2>2, <4>1, <4>2, <4>4, <4>6, GrownClean DEF Muting
      <4>11. MutesMeant'
        BY <1>1, <1>2, <3>1, <4>1, AckMeant DEF Muting, MutesMeant
      <4>12. muted' \subseteq m_uids'
        BY <2>2, <2>5, <2>8, <2>10, <4>1 DEF Muting
      <4> QED
        BY <4>7, <4>9, <4>10, <4>11, <4>12 DEF ReadyTree
    <3> HIDE DEF t
    <3> QED
      BY <1>1, <2>2, <2>4, <2>6, <3>1, <3>2, SendFinds
  <2>11. CASE ~status /\ m_mute_attempts' < MAX_MUTE_ATTEMPTS
    <3>1. /\ calls' = {c} /\ UNCHANGED <<m_bad_uids, stackVars, clientVars>>
      BY <2>1, <2>2, <2>11 DEF BranchMuteComplete
    <3>2. FindsAll' /\ UNCHANGED <<m_uid_ranges, m_tree_corrupt>>
      BY <2>4, <3>1 DEF FindsAll, clientVars, stackVars
    <3>3. ASSUME ~disturbed' PROVE Muting'
      <4>1. ~disturbed /\ Muting
        BY <2>3, <2>7, <3>3
      <4>2. MutesMeant'
        BY <1>1, <1>2, <3>1, <4>1, AckMeant DEF Muting, MutesMeant
      <4>3. SearchStack(m_uid_ranges', Left', 1) /\ (AllFollow' <=> AllFollow)
        BY <1>1, <2>9, <3>2, <4>1 DEF AllFollow
      <4>4. \A w \in Left' : InRange(w, Last(m_uid_ranges')) => w = m_muting_uid'
        BY <2>5, <2>8, <3>2, <4>1 DEF Muting
      <4>5. m_mute_attempts' \in Nat /\ m_mute_attempts' < MAX_MUTE_ATTEMPTS
        <5>1. m_mute_attempts \in Nat
          BY <4>1 DEF Muting
        <5>2. m_mute_attempts' = m_mute_attempts + 1
          BY <2>5
        <5>3. m_mute_attempts' < MAX_MUTE_ATTEMPTS
          BY <2>11
        <5> QED
          BY <5>1, <5>2, <5>3, OneMore
      <4>6. muted' \subseteq m_uids' \cup {m_muting_uid'}
        BY <2>2, <2>5, <2>8, <4>1 DEF Muting
      <4> QED
        BY <1>1, <2>5, <3>2, <4>1, <4>2, <4>3, <4>4, <4>5, <4>6 DEF Muting
    <3>4. c.op = "mute"
      BY DEF Call
    <3>5. ~disturbed' => Phase(c)'
      BY <3>3, <3>4 DEF Phase
    <3> HIDE DEF c
    <3>6. Undisturbed'
      BY <3>1, <3>5 DEF Undisturbed
    <3> QED
      BY <3>2, <3>6
  <2>12. CASE ~status /\ ~(m_mute_attempts' < MAX_MUTE_ATTEMPTS)
    <3>1. SendDiscovery(TheTree, m_uids', {}) /\ m_bad_uids' = m_bad_uids \cup {m_muting_uid}
      BY <2>1, <2>2, <2>12 DEF BranchMuteComplete
    <3>2. ASSUME ~disturbed'
          PROVE  ReadyTree(TheTree, Left') /\ MutesMeant' /\ muted' \subseteq m_uids'
      <4>1. ~disturbed /\ Muting
        BY <2>3, <2>7, <3>2
      <4>2. m_mute_attempts + 1 = MAX_MUTE_ATTEMPTS
        <5>1. /\ m_mute_attempts \in Nat /\ m_mute_attempts < MAX_MUTE_ATTEMPTS
              /\ MAX_MUTE_ATTEMPTS \in Nat
          BY <4>1, ConstantsAssumption DEF Muting
        <5>2. m_mute_attempts' = m_mute_attempts + 1
          BY <2>5
        <5>3. ~(m_mute_attempts' < MAX_MUTE_ATTEMPTS)
          BY <2>12
        <5> QED
          BY <5>1, <5>2, <5>3, OneMore
      <4>3. ~Heard(u)
        BY <1>1, <2>12, <3>2, <4>2
      <4>4. u \notin Good /\ u \notin Audible /\ ~AllFollow
        BY <2>2, <4>1, <4>3 DEF Good, Audible, Heard, AllFollow, Muting
      <4>5. \A w \in Left' : ~InRange(w, Last(m_uid_ranges))
        BY <2>2, <2>8, <4>1, <4>4 DEF Muting
      <4>6. SearchStack(m_uid_ranges, Left', 0)
        BY <2>2, <2>9, <4>1, <4>5, GrownSelf, DoneTop
      <4>7. MutesMeant'
        <5>1. MutesMeant
          BY <4>1 DEF Muting
        <5>2. m_bad_uids' \cap Audible = {}
          BY <2>2, <3>1, <4>4, <5>1 DEF MutesMeant
        <5> QED
          BY <1>1, <1>2, <5>1, <5>2, AckMeant
      <4>8. muted' = muted
        BY <1>1, <1>2, <4>4, MutedGood
      <4>9. muted' \subseteq m_uids'
        BY <1>2, <2>2, <2>5, <4>1, <4>4, <4>8 DEF Muting
      <4> QED
        BY <2>9, <4>1, <4>4, <4>6, <4>7, <4>9 DEF ReadyTree
    <3> QED
      BY <1>1, <2>2, <2>4, <2>6, <3>1, <3>2, SendFinds
  <2> QED
    BY <2>10, <2>11, <2>12
<1> QED
  BY <1>3, <1>4

-----------------------------------------------------------------------------
(* The answers to a branch request.                                          *)

LEMMA StackTop ==
  ASSUME NEW rs, NEW L, NEW k, SearchStack(rs, L, k), rs # <<>>
  PROVE  /\ rs \in Seq(BranchRange) /\ Len(rs) \in 1..Len(rs)
         /\ Last(rs) \in BranchRange /\ Last(rs).lower <= Last(rs).upper
<1>1. rs \in Seq(BranchRange) /\ Len(rs) \in 1..Len(rs)
  BY DEF SearchStack
<1> QED
  BY <1>1 DEF SearchStack, Shape, Last

\* What is left to find in a range answers, and who answers is there.
LEMMA LeftAnswers ==
  ASSUME NEW r \in BranchRange
  PROVE  /\ \A w \in Left : InRange(w, r) => w \in Answering(r.lower, r.upper)
         /\ \A w \in Answering(r.lower, r.upper) :
              /\ w \in UID /\ InRange(w, r) /\ line[w] # "absent"
              /\ w \in Good \/ AllFollow => w \in Left
<1>1. r.lower \in UID /\ r.upper \in UID /\ r.lower \in Int /\ r.upper \in Int
  BY BranchRangeFields
<1>2. \A w \in UID : w \in Int
  BY ConstantsAssumption DEF UID
<1>3. ASSUME NEW w \in Left, InRange(w, r) PROVE w \in Answering(r.lower, r.upper)
  <2>1. w \in UID /\ line[w] = "good" /\ w \notin muted
    BY DEF Left, Good
  <2>2. w \in r.lower..r.upper
    BY <1>1, <1>2, <1>3, <2>1 DEF InRange
  <2> QED
    BY <2>1, <2>2 DEF Answering
<1>4. ASSUME NEW w \in Answering(r.lower, r.upper)
      PROVE  /\ w \in UID /\ InRange(w, r) /\ line[w] # "absent"
             /\ w \in Good \/ AllFollow => w \in Left
  <2>1. /\ w \in r.lower..r.upper
        /\ line[w] \in {"silent", "obnoxious"} \/ (line[w] = "good" /\ w \notin muted)
    BY DEF Answering
  <2>2. w \in UID /\ InRange(w, r)
    BY <1>1, <2>1, ConstantsAssumption DEF InRange, UID
  <2> QED
    BY <2>1, <2>2 DEF Good, AllFollow, Left
<1> QED
  BY <1>3, <1>4

\* A range that is still to find something was never given an attempt too many.
LEMMA OpenTop ==
  ASSUME NEW rs \in Seq(BranchRange), rs # <<>>, NEW L, Tidy(rs, L),
         NEW w \in L, InRange(w, Last(rs))
  PROVE  Clean(rs)
<1>1. Len(rs) \in Nat
  OBVIOUS
<1>2. \A j \in (Len(rs) + 1)..Len(rs) : FALSE
  BY <1>1
<1>3. ~Covered(rs, Len(rs), L)
  BY <1>2 DEF Covered, Last
<1> QED
  BY <1>3 DEF Tidy, Clean

LEMMA BranchKept ==
  ASSUME Branching, UNCHANGED <<acked, line, muted, m_uids, m_bad_uids>>
  PROVE  /\ Left' = Left /\ MutesMeant' /\ muted' \subseteq m_uids'
         /\ AllFollow' <=> AllFollow
<1>1. Good' = Good /\ Audible' = Audible /\ Left' = Left /\ (AllFollow' <=> AllFollow)
  BY DEF Good, Audible, Heard, Left, AllFollow
<1> QED
  BY <1>1 DEF Branching, MutesMeant

LEMMA BranchTree ==
  ASSUME Branching, NEW rs \in Seq(BranchRange)
  PROVE  /\ TheTree \in Tree /\ TheTree.ranges = m_uid_ranges /\ TheTree.corrupt = m_tree_corrupt
         /\ [TheTree EXCEPT !.ranges = rs] \in Tree
         /\ [TheTree EXCEPT !.ranges = rs].ranges = rs
         /\ [TheTree EXCEPT !.ranges = rs].corrupt = m_tree_corrupt
BY DEF Branching, SearchStack, TheTree, Tree

\* What every handler of an answer may take for granted.
Asked ==
  /\ MAX_EMPTY_BRANCH_ATTEMPTS > 2
  /\ FindsAll /\ m_on_complete = TRUE /\ m_uid_ranges # <<>> /\ m_uids \subseteq acked
  /\ ~disturbed' => Branching

LEMMA TimedOutFinds ==
  ASSUME Asked, UNCHANGED <<acked, line, muted>>, BranchTimedOut({}),
         ~disturbed' => \A w \in Left : ~InRange(w, Last(m_uid_ranges))
  PROVE  FindsAll' /\ Undisturbed'
<1>1. /\ SendDiscovery(FreeCurrentRange(TheTree), m_uids, {})
      /\ UNCHANGED <<m_uids, m_bad_uids>>
  BY DEF BranchTimedOut, agentVars, Asked
<1> PICK t : t = FreeCurrentRange(TheTree)
  OBVIOUS
<1>2. ASSUME ~disturbed'
      PROVE  ReadyTree(t, Left') /\ MutesMeant' /\ muted' \subseteq m_uids'
  <2>1. Branching /\ m_uid_ranges # <<>>
    BY <1>2 DEF Asked
  <2>2. Left' = Left /\ MutesMeant' /\ muted' \subseteq m_uids'
    BY <1>1, <2>1, BranchKept
  <2>3. SearchStack(m_uid_ranges, Left, 1) /\ Left \subseteq UID
    BY <2>1 DEF Branching, Left, Good
  <2>4. TheTree \in Tree /\ TheTree.ranges = m_uid_ranges /\ TheTree.corrupt = m_tree_corrupt
    BY <2>1, <2>3, BranchTree DEF SearchStack
  <2>5. t \in Tree
    BY <2>1, <2>4, FreeCurrentRangeKeeps
  <2>6. Popped(t.ranges, m_uid_ranges)
    BY <2>1, <2>4, FreeCurrentRangePops
  <2>7. Covered(m_uid_ranges, Len(m_uid_ranges), Left)
    BY <1>2 DEF Covered, Last
  <2>8. SearchStack(t.ranges, Left, 0)
    BY <2>1, <2>3, <2>5, <2>6, <2>7, PoppedSearches DEF Tree
  <2>9. AllFollow => t.corrupt = FALSE /\ Clean(t.ranges)
    BY <2>1, <2>4, FreeClean DEF Branching
  <2> QED
    BY <2>2, <2>5, <2>8, <2>9 DEF ReadyTree
<1> QED
  BY <1>1, <1>2, SendFinds DEF Asked

LEMMA CollidedFinds ==
  ASSUME Asked, UNCHANGED <<acked, line, muted>>, BranchCollided({}),
         ~disturbed' => /\ Last(m_uid_ranges).lower # Last(m_uid_ranges).upper
                        /\ AllFollow => \E w \in Left : InRange(w, Last(m_uid_ranges))
  PROVE  FindsAll' /\ Undisturbed'
<1> DEFINE rs == Halved(m_uid_ranges)
           t == [TheTree EXCEPT !.ranges = rs]
<1>1. SendDiscovery(t, m_uids, {}) /\ UNCHANGED <<m_uids, m_bad_uids>>
  BY DEF BranchCollided, agentVars, Asked, TheTree
<1>2. ASSUME ~disturbed'
      PROVE  ReadyTree(t, Left') /\ MutesMeant' /\ muted' \subseteq m_uids'
  <2>1. Branching /\ m_uid_ranges # <<>>
    BY <1>2 DEF Asked
  <2>2. Left' = Left /\ MutesMeant' /\ muted' \subseteq m_uids'
    BY <1>1, <2>1, BranchKept
  <2>3. SearchStack(m_uid_ranges, Left, 1) /\ Left \subseteq UID
    BY <2>1 DEF Branching, Left, Good
  <2>4. m_uid_ranges \in Seq(BranchRange) /\ Last(m_uid_ranges).lower <= Last(m_uid_ranges).upper
    BY <2>1, <2>3, StackTop
  <2>5. /\ rs \in Seq(BranchRange) /\ Grown(rs, m_uid_ranges)
        /\ Covered(rs, Len(m_uid_ranges), Left)
        /\ Marks(rs[Len(m_uid_ranges)], Last(m_uid_ranges))
    BY <1>2, <2>1, <2>3, <2>4, HalvedGrown
  <2> HIDE DEF rs
  <2>6. t \in Tree /\ t.ranges = rs /\ t.corrupt = m_tree_corrupt
    BY <2>1, <2>5, BranchTree
  <2> HIDE DEF t
  <2>7. SearchStack(rs, Left, 0)
    BY <2>1, <2>3, <2>5, GrownSearches
  <2>8. AllFollow => m_tree_corrupt = FALSE /\ Clean(rs)
    <3> SUFFICES ASSUME AllFollow PROVE m_tree_corrupt = FALSE /\ Clean(rs)
      OBVIOUS
    <3>1. m_tree_corrupt = FALSE /\ Tidy(m_uid_ranges, Left)
      BY <2>1 DEF Branching
    <3>2. Clean(m_uid_ranges)
      BY <1>2, <2>1, <2>4, <3>1, OpenTop
    <3> QED
      BY <2>1, <2>4, <2>5, <3>1, <3>2, GrownClean
  <2> QED
    BY <2>2, <2>6, <2>7, <2>8 DEF ReadyTree
<1> HIDE DEF t
<1> QED
  BY <1>1, <1>2, SendFinds DEF Asked

\* A responder that should have been silent: the range is split whatever is
\* left in it, which is nothing.
LEMMA KnownGrown ==
  ASSUME NEW rs \in Seq(BranchRange), rs # <<>>, Last(rs).lower <= Last(rs).upper,
         NEW u \in UID, NEW all, all \in {SplitAround(Failed(rs), u), Halved(Failed(rs))}
  PROVE  all \in Seq(BranchRange) /\ Grown(all, rs)
<1> DEFINE n == Len(rs)
<1> PICK qs : qs = Failed(rs)
  OBVIOUS
<1>1. n \in Nat /\ n \in 1..n
  OBVIOUS
<1>2. qs \in Seq(BranchRange) /\ Len(qs) = n /\ Grown(qs, rs)
  BY FailedGrown
<1>3. qs # <<>>
  BY <1>1, <1>2
<1>4. qs[n].lower = rs[n].lower /\ qs[n].upper = rs[n].upper
  BY <1>1, <1>2 DEF Grown, Above
<1>5. Last(qs).lower <= Last(qs).upper
  BY <1>2, <1>4 DEF Last
<1>6. u \in Int
  BY ConstantsAssumption DEF UID
<1>7. all \in Seq(BranchRange) /\ Grown(all, qs)
  <2>1. Halved(qs) \in Seq(BranchRange) /\ Grown(Halved(qs), qs)
    BY <1>2, <1>3, <1>5, HalvedGrown
  <2>2. SplitAround(qs, u) \in Seq(BranchRange) /\ Grown(SplitAround(qs, u), qs)
    BY <1>2, <1>3, <1>5, <1>6, SplitAroundGrown
  <2> QED
    BY <2>1, <2>2
<1> QED
  BY <1>2, <1>7, GrownTwice

LEMMA LocatedFinds ==
  ASSUME Asked, UNCHANGED <<acked, line, muted>>, NEW u, BranchLocated(u, {}),
         ~disturbed' => /\ u \in UID /\ line[u] # "absent"
                        /\ u \in Good \/ AllFollow => u \in Left
                        /\ InRange(u, Last(m_uid_ranges))
                        /\ \A w \in Left : InRange(w, Last(m_uid_ranges)) => w = u
  PROVE  FindsAll' /\ Undisturbed'
<1>1. m_uid_ranges # <<>> /\ UNCHANGED <<m_uids, m_bad_uids>>
  BY DEF BranchLocated, Asked
<1>2. ASSUME ~disturbed'
      PROVE  /\ Branching /\ SearchStack(m_uid_ranges, Left, 1)
             /\ m_uid_ranges \in Seq(BranchRange)
             /\ Last(m_uid_ranges).lower <= Last(m_uid_ranges).upper
             /\ Left' = Left /\ MutesMeant' /\ muted' \subseteq m_uids'
             /\ AllFollow' <=> AllFollow
  <2>1. Branching
    BY <1>2 DEF Asked
  <2>2. SearchStack(m_uid_ranges, Left, 1)
    BY <2>1 DEF Branching
  <2> QED
    BY <1>1, <2>1, <2>2, BranchKept, StackTop
<1>3. CASE u \in m_uids \cup m_bad_uids
  <2> DEFINE rs == IF u \notin m_split_uids THEN SplitAround(Failed(m_uid_ranges), u)
                   ELSE Halved(Failed(m_uid_ranges))
             t == [TheTree EXCEPT !.ranges = rs]
  <2>1. SendDiscovery(t, m_uids, {})
    BY <1>1, <1>3 DEF BranchLocated
  <2>2. rs \in {SplitAround(Failed(m_uid_ranges), u), Halved(Failed(m_uid_ranges))}
    OBVIOUS
  <2> HIDE DEF rs
  <2>3. ASSUME ~disturbed' PROVE ReadyTree(t, Left')
    <3>1. rs \in Seq(BranchRange) /\ Grown(rs, m_uid_ranges)
      BY <1>1, <1>2, <2>2, <2>3, KnownGrown
    <3>2. u \notin Left
      BY <1>2, <1>3, <2>3 DEF Asked, Branching, MutesMeant, Left, Good, Audible, Heard
    <3>3. SearchStack(rs, Left, 0)
      BY <1>1, <1>2, <2>3, <3>1, <3>2, DoneTop
    <3>4. t \in Tree /\ t.ranges = rs
      BY <1>2, <2>3, <3>1, BranchTree
    <3> HIDE DEF t
    <3>5. ~AllFollow
      BY <2>3, <3>2
    <3> QED
      BY <1>2, <2>3, <3>3, <3>4, <3>5 DEF ReadyTree
  <2> HIDE DEF t
  <2> QED
    BY <1>1, <1>2, <2>1, <2>3, SendFinds DEF Asked
<1>4. CASE u \notin m_uids \cup m_bad_uids
  <2> PICK c : c = Call("mute", u, 0)
    OBVIOUS
  <2>1. /\ m_muting_uid' = u /\ m_mute_attempts' = 0 /\ calls' = {c}
        /\ UNCHANGED <<stackVars, clientVars>>
    BY <1>1, <1>4 DEF BranchLocated
  <2>2. FindsAll' /\ UNCHANGED <<m_uid_ranges, m_tree_corrupt>>
    BY <2>1 DEF Asked, FindsAll, clientVars, stackVars
  <2>3. ASSUME ~disturbed' PROVE Muting'
    <3>1. m_tree_corrupt \in BOOLEAN /\ (AllFollow => m_tree_corrupt = FALSE /\ Tidy(m_uid_ranges, Left))
      BY <1>2, <2>3 DEF Branching
    <3>2. AllFollow => Clean(m_uid_ranges)
      BY <1>1, <1>2, <2>3, <3>1, OpenTop
    <3>3. m_mute_attempts' \in Nat /\ m_mute_attempts' < MAX_MUTE_ATTEMPTS
      BY <2>1, ConstantsAssumption
    <3>4. m_muting_uid' \in UID /\ line'[m_muting_uid'] # "absent"
      BY <2>1, <2>3
    <3>5. \A w \in Left' : InRange(w, Last(m_uid_ranges')) => w = m_muting_uid'
      BY <1>2, <2>1, <2>2, <2>3
    <3> QED
      BY <1>2, <2>2, <2>3, <3>1, <3>2, <3>3, <3>4, <3>5 DEF Muting
  <2>4. c.op = "mute"
    BY DEF Call
  <2>5. ~disturbed' => Phase(c)'
    BY <2>3, <2>4 DEF Phase
  <2> QED
    BY <2>1, <2>2, <2>5 DEF Undisturbed
<1> QED
  BY <1>3, <1>4

LEMMA BranchStands ==
  ASSUME NEW c, Stands(c), c.op = "branch"
  PROVE  /\ m_uids \subseteq acked
         /\ c.a = Last(m_uid_ranges).lower /\ c.b = Last(m_uid_ranges).upper
BY DEF Stands, Call

LEMMA BranchFinds ==
  ASSUME MAX_EMPTY_BRANCH_ATTEMPTS > 2,
         AnswerInv, FindInv, NEW c, NEW fate, BranchComplete(c, fate)
  PROVE  FindInv'
<1> DEFINE rest == calls \ {c}
           some == Answering(c.a, c.b)
           top == Last(m_uid_ranges)
<1>1. /\ c \in calls /\ c.op = "branch" /\ UNCHANGED <<acked, line, muted, aborted>>
      /\ disturbed' = (disturbed \/ fate # "ok")
  BY DEF BranchComplete
<1>2. muted' \subseteq Good /\ Good' = Good
  BY <1>1 DEF FindInv, Good
<1>3. \/ BranchTimedOut(rest) \/ BranchCollided(rest)
      \/ \E u : BranchLocated(u, rest)
  BY DEF BranchComplete
<1>4. CASE aborted
  <2>1. UNCHANGED clientVars \/ \E t, uids : SendDiscovery(t, uids, rest)
    BY <1>3 DEF BranchTimedOut, BranchCollided, BranchLocated, Crash
  <2> QED
    BY <1>1, <1>2, <1>4, <2>1, LateFinds
<1>5. CASE ~aborted
  <2>1. Running /\ Stands(c) /\ rest = {}
    BY <1>1, <1>5, OnlyRequest DEF AnswerInv
  <2>2. /\ m_uids \subseteq acked /\ c.a = top.lower /\ c.b = top.upper
        /\ m_uid_ranges # <<>> /\ m_on_complete = TRUE
    BY <1>1, <2>1, BranchStands DEF Running
  <2>3. FindsAll /\ line \in Lines /\ m_uids \subseteq UID /\ m_uids_to_mute \subseteq UID
    BY <1>5 DEF FindInv
  <2>4. ~disturbed' => Branching /\ fate = "ok"
    BY <1>1, <1>5 DEF FindInv, Undisturbed, Phase
  <2>5. Asked
    BY <2>2, <2>3, <2>4 DEF Asked
  <2>6. m_uids' = m_uids /\ m_uids_to_mute' = m_uids_to_mute
    BY <1>3, <2>2 DEF BranchTimedOut, BranchCollided, BranchLocated, agentVars
  <2> SUFFICES FindsAll' /\ Undisturbed'
    BY <1>1, <1>2, <2>3, <2>6 DEF FindInv
  <2>7. ASSUME ~disturbed'
        PROVE  /\ \A w \in Left : InRange(w, top) => w \in some
               /\ \A w \in some : /\ w \in UID /\ InRange(w, top) /\ line[w] # "absent"
                                  /\ w \in Good \/ AllFollow => w \in Left
    <3>1. top \in BranchRange
      BY <2>2, <2>4, <2>7, StackTop DEF Branching
    <3> HIDE DEF top
    <3> QED
      BY <2>2, <3>1, LeftAnswers
  <2>8. CASE BranchTimedOut(rest) /\ (fate = "ok" => some = {})
    <3>1. BranchTimedOut({})
      BY <2>1, <2>8
    <3>2. ~disturbed' => \A w \in Left : ~InRange(w, top)
      BY <2>4, <2>7, <2>8
    <3> QED
      BY <1>1, <2>5, <3>1, <3>2, TimedOutFinds
  <2>9. CASE BranchCollided(rest) /\ (fate = "ok" => Cardinality(some) > 1)
    <3>1. BranchCollided({})
      BY <2>1, <2>9
    <3>2. ASSUME ~disturbed'
          PROVE  top.lower # top.upper /\ (AllFollow => \E w \in Left : InRange(w, top))
      <4>1. Cardinality(some) > 1
        BY <2>4, <2>9, <3>2
      <4>2. some # {}
        BY <4>1, FS_EmptySet
      <4>3. top.lower # top.upper
        <5> SUFFICES ASSUME top.lower = top.upper PROVE FALSE
          OBVIOUS
        <5>1. top \in BranchRange
          BY <2>2, <2>4, <3>2, StackTop DEF Branching
        <5>2. top.lower \in Int
          BY <5>1, BranchRangeFields
        <5>3. \A w \in some : w = top.lower
          <6>1. \A w \in some : w \in top.lower..top.upper
            BY <2>2 DEF Answering
          <6> HIDE DEF some, top
          <6> QED
            BY <5>2, <6>1
        <5>4. some = {top.lower}
          BY <4>2, <5>3
        <5> QED
          BY <4>1, <5>4, FS_Singleton
      <4> QED
        BY <2>7, <3>2, <4>2, <4>3
    <3> QED
      BY <1>1, <2>5, <3>1, <3>2, CollidedFinds
  <2>10. CASE \E u : BranchLocated(u, rest) /\ (fate = "ok" => some = {u})
    <3>1. PICK u : BranchLocated(u, rest) /\ (fate = "ok" => some = {u})
      BY <2>10
    <3>2. BranchLocated(u, {})
      BY <2>1, <3>1
    <3>3. ASSUME ~disturbed'
          PROVE  /\ u \in UID /\ line[u] # "absent"
                 /\ u \in Good \/ AllFollow => u \in Left
                 /\ InRange(u, top)
                 /\ \A w \in Left : InRange(w, top) => w = u
      <4>1. some = {u}
        BY <2>4, <3>1, <3>3
      <4> HIDE DEF some, top
      <4> QED
        BY <2>7, <3>3, <4>1
    <3> QED
      BY <1>1, <2>5, <3>2, <3>3, LocatedFinds
  <2> QED
    BY <2>8, <2>9, <2>10 DEF BranchComplete
<1> QED
  BY <1>4, <1>5

LEMMA StepFinds ==
  ASSUME MAX_EMPTY_BRANCH_ATTEMPTS > 2, AnswerInv, FindInv, [Next]_vars
  PROVE  FindInv'
<1>1. CASE \E full \in BOOLEAN : GenericDiscovery(full)
  BY <1>1, GenericFinds
<1>2. CASE Abort
  BY <1>2, AbortFinds
<1>3. CASE TargetCompletes
  <2>1. CASE \E lost \in BOOLEAN : UnMuteComplete(lost)
    BY <2>1, UnMuteFinds
  <2>2. CASE \E u \in UID, fate \in {"ok", "request lost", "reply lost"} :
               IncrementalMuteComplete(u, fate)
    BY <2>2, IncrementalFinds
  <2>3. CASE \E u \in UID, fate \in {"ok", "request lost", "reply lost"} :
               BranchMuteComplete(u, fate)
    BY <2>3, MuteFinds
  <2>4. CASE \E c, fate : BranchComplete(c, fate)
    BY <2>4, BranchFinds
  <2> QED
    BY <1>3, <2>1, <2>2, <2>3, <2>4 DEF TargetCompletes
<1>4. CASE \E new \in Lines : Replug(new)
  BY <1>4, ReplugFinds
<1>5. CASE UNCHANGED vars
  BY <1>5, FindUnchanged DEF vars, clientVars, lineVars
<1> QED
  BY <1>1, <1>2, <1>3, <1>4, <1>5 DEF Next

\* A run that meets no more than the algorithm can mend reports every responder
\* that follows the standard, on any line and however the splits fall, and none
\* that is not there; and it calls the tree sound when all follow the standard.
\* MAX_EMPTY_BRANCH_ATTEMPTS is 5 in the code.  The proof lets SendDiscovery try
\* an emptied range a second time before it is freed, and so leaves 2 open.
THEOREM FindsAllHolds ==
  ASSUME MAX_EMPTY_BRANCH_ATTEMPTS > 2
  PROVE  Spec => []FindsAll
<1> DEFINE Inv == AnswerInv /\ FindInv
<1>1. Init => Inv
  BY InitAnswer, InitFinds
<1>2. Inv /\ [Next]_vars => Inv'
  BY StepAnswer, StepFinds
<1>3. Inv => FindsAll
  BY DEF FindInv
<1> QED
  BY <1>1, <1>2, <1>3, PTL DEF Spec

=============================================================================
