---------------------------- MODULE DiscoveryAgent ----------------------------
(***************************************************************************)
(* The RDM discovery algorithm (common/rdm/DiscoveryAgent.cpp): a binary   *)
(* search of the UID space by Discovery Unique Branch (DUB) requests, in   *)
(* which every responder that is located is muted.  The agent is           *)
(* asynchronous: each request goes to a DiscoveryTargetInterface, whose    *)
(* callback takes the next step.                                           *)
(*                                                                         *)
(* Above it is the DiscoverableQueueingRDMController that every widget     *)
(* with an agent is wrapped in (common/rdm/QueueingRDMController.cpp),     *)
(* which collects the discovery calls made while one is running and        *)
(* starts the next from the completion callback.  Below it is the RDM      *)
(* line: responders that may not answer a mute, may go on answering once   *)
(* muted, appear and disappear, and requests and replies that are lost.    *)
(*                                                                         *)
(* A UID is its 48-bit number; the space is 0..Top, as UID::AllDevices()   *)
(* is 2^48 - 1.                                                            *)
(***************************************************************************)
EXTENDS Integers, Sequences, FiniteSets, FiniteSetsExt

CONSTANTS
  Top,                        \* UID::AllDevices()
  MAX_EMPTY_BRANCH_ATTEMPTS,
  MAX_BRANCH_FAILURES,
  MAX_MUTE_ATTEMPTS,
  BROADCAST_UNMUTE_REPEATS,
  FailureModulus,             \* of the unsigned counter UIDRange::failures
  Lines,                      \* the lines there may be: what each UID is
  Phantoms,                   \* UIDs that overlapping replies may decode to
  MaxDiscoveries,             \* bound: discovery calls made
  MaxLosses,                  \* bound: requests and replies lost or garbled
  MaxReplugs                  \* bound: changes of the line

UID == 0..Top

\* What a UID may be: nobody's, a responder's that follows E1.20, that ignores
\* mute requests, or that acknowledges them and goes on answering.
Kind == {"absent", "good", "silent", "obnoxious"}

ASSUME ConstantsAssumption ==
  /\ Top \in Nat \ {0}
  /\ MAX_EMPTY_BRANCH_ATTEMPTS \in Nat \ {0}
  /\ MAX_BRANCH_FAILURES \in Nat \ {0}
  /\ MAX_MUTE_ATTEMPTS \in Nat \ {0}
  /\ BROADCAST_UNMUTE_REPEATS \in Nat \ {0}
  /\ FailureModulus \in Nat \ {0}
  /\ Lines \subseteq [UID -> Kind] /\ Lines # {}
  /\ Phantoms \subseteq UID
  /\ MaxDiscoveries \in Nat
  /\ MaxLosses \in Nat
  /\ MaxReplugs \in Nat

VARIABLES
  m_uids, m_bad_uids, m_split_uids,
  m_uids_to_mute,        \* a queue filled in ascending order: the set of it
  m_uid_ranges,          \* the stack; a range's parent is its index, 0: NULL
  m_muting_uid, m_unmute_count, m_mute_attempts, m_tree_corrupt,
  m_on_complete,         \* TRUE: not NULL
  m_pending_discovery_callbacks,  \* of the queueing controller: calls to serve
  m_discovery_callbacks, \* the calls the running discovery serves
  calls,                 \* requests the target has not completed
  line,                  \* what each UID is
  muted,                 \* responders that are muted
  asked,                 \* history: the full flag of each call
  results,               \* history: what each call was answered
  acked,                 \* history: UIDs that acknowledged a mute in this run
  unmuted,               \* history: an unmute of this run got through
  disturbed,             \* history: this run met more than it can mend
  losses, replugs,       \* counters for the bounds
  aborted, crashed       \* Abort() ran; an empty stack's top() was read

agentVars == <<m_uids, m_bad_uids, m_split_uids, m_uids_to_mute, m_muting_uid,
               m_unmute_count, m_mute_attempts>>
stackVars == <<m_uid_ranges, m_tree_corrupt>>
clientVars == <<m_on_complete, m_pending_discovery_callbacks,
                m_discovery_callbacks, results>>
runVars == <<acked, unmuted, disturbed>>
lineVars == <<line, muted, losses, replugs>>
vars == <<agentVars, stackVars, clientVars, runVars, lineVars, calls, asked,
          aborted, crashed>>

UIDRange(lower, upper, parent) ==
  [lower |-> lower, upper |-> upper, parent |-> parent, attempt |-> 0,
   failures |-> 0, uids_discovered |-> 0, branch_corrupt |-> FALSE]

\* UID(uint64_t): what does not fit in 48 bits is dropped.
ToUID(n) == n % (Top + 1)

Call(op, a, b) == [op |-> op, a |-> a, b |-> b]

Init ==
  /\ m_uids = {} /\ m_bad_uids = {} /\ m_split_uids = {}
  /\ m_uids_to_mute = {}
  /\ m_uid_ranges = <<>>
  /\ m_muting_uid = 0
  /\ m_unmute_count = 0
  /\ m_mute_attempts = 0
  /\ m_tree_corrupt = FALSE
  /\ m_on_complete = FALSE
  /\ m_pending_discovery_callbacks = {}
  /\ m_discovery_callbacks = {}
  /\ calls = {}
  /\ line \in Lines
  /\ muted = {}
  /\ asked = <<>>
  /\ results = [i \in 1..MaxDiscoveries |-> [by |-> "none"]]
  /\ acked = {} /\ unmuted = FALSE /\ disturbed = FALSE
  /\ losses = 0 /\ replugs = 0
  /\ aborted = FALSE /\ crashed = FALSE

-----------------------------------------------------------------------------
(* The stack of ranges.                                                     *)

BranchRange == [lower : UID, upper : UID, parent : Nat, attempt : Nat,
                failures : Nat, uids_discovered : Nat, branch_corrupt : BOOLEAN]

\* The stack and m_tree_corrupt.
Tree == [ranges : Seq(BranchRange), corrupt : BOOLEAN]
TheTree == [ranges |-> m_uid_ranges, corrupt |-> m_tree_corrupt]

Last(s) == s[Len(s)]

\* The top range has failed once more.
Failed(rs) == [rs EXCEPT ![Len(rs)].failures = (@ + 1) % FailureModulus]

\* What was found below a range counts for its parent; the last range says
\* whether the tree was corrupt.
FreeCurrentRange(t) ==
  LET top == Last(t.ranges)
      rest == SubSeq(t.ranges, 1, Len(t.ranges) - 1)
  IN  IF rest = <<>> THEN [ranges |-> rest, corrupt |-> t.corrupt \/ top.branch_corrupt]
      ELSE [t EXCEPT !.ranges = [rest EXCEPT ![top.parent].uids_discovered =
                                               @ + top.uids_discovered]]

\* Mutant: no attempt is counted.
CountAttemptNever(rs) == rs

\* SendDiscovery counts an attempt on a branch that has found nothing.
CountAttempt(rs) ==
  IF Last(rs).uids_discovered = 0
  THEN [rs EXCEPT ![Len(rs)].attempt = @ + 1] ELSE rs

LimitReached(r) ==
  \/ r.failures = MAX_BRANCH_FAILURES
  \/ r.attempt = MAX_EMPTY_BRANCH_ATTEMPTS
  \/ r.branch_corrupt

\* The branch is given up, and its parent with it.
GiveUp(t) ==
  LET parent == Last(t.ranges).parent
  IN  FreeCurrentRange(IF parent = 0 THEN t
                       ELSE [t EXCEPT !.ranges[parent].branch_corrupt = TRUE])

\* SendDiscovery calls itself until it meets a branch that it may still try.
Settle[t \in Tree] ==
  IF t.ranges = <<>> THEN t
  ELSE LET tried == [t EXCEPT !.ranges = CountAttempt(@)]
       IN  IF LimitReached(Last(tried.ranges)) THEN Settle[GiveUp(tried)] ELSE tried

-----------------------------------------------------------------------------
(* The queueing controller and the start of a discovery.                    *)

\* InitDiscovery, when none is running: the calls in ids are served by it.
InitDiscovery(ids, full) ==
  /\ m_on_complete' = TRUE
  /\ m_uids_to_mute' = IF full THEN {} ELSE m_uids
  /\ m_uids' = IF full THEN {} ELSE m_uids
  /\ m_bad_uids' = {} /\ m_split_uids' = {}
  /\ m_tree_corrupt' = FALSE
  /\ m_uid_ranges' = <<UIDRange(0, Top, 0)>>
  /\ m_unmute_count' = 0
  /\ calls' = calls \cup {Call("unmute", 0, 0)}
  /\ acked' = {} /\ unmuted' = FALSE /\ disturbed' = FALSE
  /\ m_discovery_callbacks' = ids
  /\ m_pending_discovery_callbacks' = {}
  /\ UNCHANGED <<m_muting_uid, m_mute_attempts>>

\* Mutant: a call does not wait for the discovery that is running.
GenericDiscoveryAtOnce(full) ==
  /\ ~aborted /\ ~crashed
  /\ Len(asked) < MaxDiscoveries
  /\ asked' = Append(asked, full)
  /\ InitDiscovery({Len(asked')}, full)
  /\ UNCHANGED <<results, lineVars, aborted, crashed>>

\* RunFullDiscovery (full) and RunIncrementalDiscovery of the queueing
\* controller: it starts at once unless one is running.
GenericDiscovery(full) ==
  /\ ~aborted /\ ~crashed
  /\ Len(asked) < MaxDiscoveries
  /\ asked' = Append(asked, full)
  /\ IF m_discovery_callbacks = {}
     THEN InitDiscovery({Len(asked')}, full)
     ELSE /\ m_pending_discovery_callbacks' =
               m_pending_discovery_callbacks \cup {Len(asked')}
          /\ UNCHANGED <<agentVars, stackVars, m_on_complete,
                         m_discovery_callbacks, runVars, calls>>
  /\ UNCHANGED <<results, lineVars, aborted, crashed>>

\* The completion callback: DiscoveryComplete of the queueing controller gives
\* every call it serves the result and starts the calls that came meanwhile,
\* but m_on_complete is cleared only after the callback has returned, so that
\* InitDiscovery refuses them with no UIDs, and they are complete too.
RunCompleteCallback(status, uids) ==
  IF m_on_complete
  THEN /\ results' = [i \in DOMAIN results |->
            IF i \in m_discovery_callbacks
            THEN [by |-> "run", status |-> status, uids |-> uids,
                  acked |-> acked', mended |-> ~disturbed', line |-> line]
            ELSE IF i \in m_pending_discovery_callbacks
            THEN [by |-> "refused", status |-> FALSE, uids |-> {}]
            ELSE results[i]]
       /\ m_on_complete' = FALSE
       /\ m_discovery_callbacks' = {}
       /\ m_pending_discovery_callbacks' = {}
  ELSE UNCHANGED clientVars

SendDiscovery(t, uids, outstanding) ==
  /\ m_uid_ranges' = Settle[t].ranges
  /\ m_tree_corrupt' = Settle[t].corrupt
  /\ IF m_uid_ranges' = <<>>
     THEN /\ RunCompleteCallback(~m_tree_corrupt', uids)
          /\ calls' = outstanding
     ELSE /\ calls' = outstanding \cup
               {Call("branch", Last(m_uid_ranges').lower, Last(m_uid_ranges').upper)}
          /\ UNCHANGED clientVars

\* Abort, called when the widget is stopped, here with no call queued behind
\* the discovery it ends.  The target still completes what it was asked.
Abort ==
  /\ ~aborted /\ ~crashed
  /\ m_pending_discovery_callbacks = {}
  /\ aborted' = TRUE
  /\ results' = [i \in DOMAIN results |->
       IF i \in m_discovery_callbacks
       THEN [by |-> "abort", status |-> FALSE, uids |-> {}] ELSE results[i]]
  /\ m_uid_ranges' = <<>>
  /\ m_on_complete' = FALSE
  /\ m_discovery_callbacks' = {}
  /\ UNCHANGED <<agentVars, m_tree_corrupt, m_pending_discovery_callbacks, runVars,
                 lineVars, calls, asked, crashed>>

-----------------------------------------------------------------------------
(* The handlers of the target's callbacks.                                  *)

\* The next UID found before is muted, or the search begins.
MaybeMuteNextDevice(uids, outstanding) ==
  IF m_uids_to_mute = {}
  THEN /\ SendDiscovery(TheTree, uids, outstanding)
       /\ UNCHANGED <<m_uids_to_mute, m_muting_uid>>
  ELSE /\ m_muting_uid' = Min(m_uids_to_mute)
       /\ m_uids_to_mute' = m_uids_to_mute \ {m_muting_uid'}
       /\ calls' = outstanding \cup {Call("incremental", m_muting_uid', 0)}
       /\ UNCHANGED <<stackVars, clientVars>>

\* The target has sent an unmute; lost: no responder heard it.
UnMuteComplete(lost) ==
  /\ Call("unmute", 0, 0) \in calls
  /\ muted' = IF lost THEN muted ELSE {}
  /\ unmuted' = (unmuted \/ ~lost)
  /\ UNCHANGED acked
  /\ LET rest == calls \ {Call("unmute", 0, 0)}
     IN  IF m_uid_ranges = <<>>
         THEN /\ calls' = rest
              /\ UNCHANGED <<agentVars, stackVars, clientVars, disturbed>>
         ELSE /\ m_unmute_count' = m_unmute_count + 1
              /\ IF m_unmute_count' < BROADCAST_UNMUTE_REPEATS
                 THEN /\ calls' = rest \cup {Call("unmute", 0, 0)}
                      /\ UNCHANGED <<m_uids_to_mute, m_muting_uid, stackVars,
                                     clientVars, disturbed>>
                 ELSE /\ disturbed' = (disturbed \/ ~unmuted')
                      /\ MaybeMuteNextDevice(m_uids, rest)
              /\ UNCHANGED <<m_uids, m_bad_uids, m_split_uids, m_mute_attempts>>
  /\ UNCHANGED <<line, replugs, asked, aborted, crashed>>

\* What becomes of a mute request for u: it arrives or is lost, and so is its
\* acknowledgement.  The status is the callback's argument.
Heard(u) == line[u] \in {"good", "obnoxious"}

Muted(u, fate) ==
  IF fate # "request lost" /\ line[u] = "good" THEN muted \cup {u} ELSE muted

MuteStatus(u, fate) == fate = "ok" /\ Heard(u)

\* Mutant: a responder that no longer answers is kept.
IncrementalMuteCompleteKeeps(u, fate) ==
  /\ Call("incremental", u, 0) \in calls
  /\ muted' = Muted(u, fate)
  /\ acked' = IF MuteStatus(u, fate) THEN acked \cup {u} ELSE acked
  /\ disturbed' = (disturbed \/ fate = "reply lost")
  /\ UNCHANGED m_uids
  /\ MaybeMuteNextDevice(m_uids, calls \ {Call("incremental", u, 0)})
  /\ UNCHANGED <<m_bad_uids, m_split_uids, m_unmute_count, m_mute_attempts,
                 unmuted, line, replugs, asked, aborted, crashed>>

IncrementalMuteComplete(u, fate) ==
  /\ Call("incremental", u, 0) \in calls
  /\ muted' = Muted(u, fate)
  /\ acked' = IF MuteStatus(u, fate) THEN acked \cup {u} ELSE acked
  /\ disturbed' = (disturbed \/ fate = "reply lost")
  /\ m_uids' = IF MuteStatus(u, fate) THEN m_uids ELSE m_uids \ {m_muting_uid}
  /\ MaybeMuteNextDevice(m_uids', calls \ {Call("incremental", u, 0)})
  /\ UNCHANGED <<m_bad_uids, m_split_uids, m_unmute_count, m_mute_attempts,
                 unmuted, line, replugs, asked, aborted, crashed>>

\* m_uid_ranges.top() of an empty stack is undefined: the program ends.
Crash ==
  /\ crashed' = TRUE
  /\ calls' = {}
  /\ UNCHANGED <<agentVars, stackVars, clientVars>>

BranchMuteComplete(u, fate) ==
  /\ Call("mute", u, 0) \in calls
  /\ muted' = Muted(u, fate)
  /\ acked' = IF MuteStatus(u, fate) THEN acked \cup {u} ELSE acked
  /\ disturbed' = (disturbed \/ (/\ ~MuteStatus(u, fate) /\ Heard(u)
                                 /\ m_mute_attempts + 1 = MAX_MUTE_ATTEMPTS))
  /\ LET rest == calls \ {Call("mute", u, 0)}
     IN  IF MuteStatus(u, fate) /\ m_uid_ranges = <<>>
         THEN Crash
         ELSE /\ m_mute_attempts' = m_mute_attempts + 1
              /\ m_uids' = IF MuteStatus(u, fate) THEN m_uids \cup {m_muting_uid}
                           ELSE m_uids
              /\ IF MuteStatus(u, fate)
                 THEN /\ SendDiscovery([TheTree EXCEPT
                              !.ranges[Len(m_uid_ranges)].uids_discovered = @ + 1],
                            m_uids', rest)
                      /\ UNCHANGED m_bad_uids
                 ELSE IF m_mute_attempts' < MAX_MUTE_ATTEMPTS
                 THEN /\ calls' = rest \cup {Call("mute", m_muting_uid, 0)}
                      /\ UNCHANGED <<m_bad_uids, stackVars, clientVars>>
                 ELSE /\ m_bad_uids' = m_bad_uids \cup {m_muting_uid}
                      /\ SendDiscovery(TheTree, m_uids', rest)
              /\ UNCHANGED <<m_split_uids, m_uids_to_mute, m_muting_uid,
                             m_unmute_count, crashed>>
  /\ UNCHANGED <<unmuted, line, replugs, asked, aborted>>

\* Mutants: only the upper half is searched; the halves overlap.
HalvedUpper(rs) ==
  LET r == Last(rs)
      mid == (r.lower + r.upper) \div 2
  IN  IF r.lower = r.upper THEN Failed(rs)
      ELSE [rs EXCEPT ![Len(rs)].uids_discovered = 0] \o
             <<UIDRange(ToUID(mid + 1), r.upper, Len(rs))>>

HalvedOverlap(rs) ==
  LET r == Last(rs)
      mid == (r.lower + r.upper) \div 2
  IN  IF r.lower = r.upper THEN Failed(rs)
      ELSE [rs EXCEPT ![Len(rs)].uids_discovered = 0] \o
             <<UIDRange(r.lower, ToUID(mid), Len(rs)),
               UIDRange(ToUID(mid), r.upper, Len(rs))>>

\* HandleCollision: the stack with both halves of the top range.
Halved(rs) ==
  LET r == Last(rs)
      mid == (r.lower + r.upper) \div 2
  IN  IF r.lower = r.upper THEN Failed(rs)
      ELSE [rs EXCEPT ![Len(rs)].uids_discovered = 0] \o
             <<UIDRange(r.lower, ToUID(mid), Len(rs)),
               UIDRange(ToUID(mid + 1), r.upper, Len(rs))>>

\* SplitAroundBadUID.
SplitAround(rs, bad) ==
  LET r == Last(rs)
      below == ToUID(bad - 1)
      above == ToUID(bad + 1)
  IN  IF r.lower = r.upper THEN Failed(rs)
      ELSE IF bad < r.lower \/ bad > r.upper THEN Halved(rs)
      ELSE [rs EXCEPT ![Len(rs)].uids_discovered = 0]
             \o (IF below >= r.lower
                 THEN <<UIDRange(r.lower, below, Len(rs))>> ELSE <<>>)
             \o (IF above <= r.upper
                 THEN <<UIDRange(above, r.upper, Len(rs))>> ELSE <<>>)

\* BranchComplete without a reply: the branch is done.
BranchTimedOut(rest) ==
  /\ SendDiscovery(IF m_uid_ranges = <<>> THEN TheTree ELSE FreeCurrentRange(TheTree),
                   m_uids, rest)
  /\ UNCHANGED <<agentVars, crashed>>

\* BranchComplete with a reply that does not decode.
BranchCollided(rest) ==
  IF m_uid_ranges = <<>> THEN Crash
  ELSE /\ SendDiscovery([TheTree EXCEPT !.ranges = Halved(@)], m_uids, rest)
       /\ UNCHANGED <<agentVars, crashed>>

\* BranchComplete with a reply that decodes to u.
BranchLocated(u, rest) ==
  LET known == u \in m_uids \cup m_bad_uids
      rs == Failed(m_uid_ranges)
  IN  IF m_uid_ranges = <<>> THEN Crash
      ELSE /\ IF known
              THEN /\ m_split_uids' = IF u \in m_uids THEN m_split_uids \cup {u}
                                      ELSE m_split_uids
                   /\ SendDiscovery([TheTree EXCEPT !.ranges =
                                      IF u \notin m_split_uids THEN SplitAround(rs, u)
                                      ELSE Halved(rs)], m_uids, rest)
                   /\ UNCHANGED <<m_muting_uid, m_mute_attempts>>
              ELSE /\ m_muting_uid' = u
                   /\ m_mute_attempts' = 0
                   /\ calls' = rest \cup {Call("mute", u, 0)}
                   /\ UNCHANGED <<m_split_uids, stackVars, clientVars>>
           /\ UNCHANGED <<m_uids, m_bad_uids, m_uids_to_mute, m_unmute_count, crashed>>

\* The responders that answer a branch request.
Answering(lower, upper) ==
  {u \in lower..upper : \/ line[u] \in {"silent", "obnoxious"}
                        \/ line[u] = "good" /\ u \notin muted}

\* The answer to a branch request: none, one reply, or several on top of each
\* other; a loss turns it into nothing, into garbage or into a phantom.
BranchComplete(c, fate) ==
  /\ c \in calls /\ c.op = "branch"
  /\ disturbed' = (disturbed \/ fate # "ok")
  /\ UNCHANGED <<acked, unmuted, line, muted, replugs, asked, aborted>>
  /\ LET some == Answering(c.a, c.b)
         rest == calls \ {c}
     IN  \/ /\ fate = "ok" /\ some = {}
            /\ BranchTimedOut(rest)
         \/ /\ fate = "ok"
            /\ \E u \in some : some = {u} /\ BranchLocated(u, rest)
         \/ /\ fate = "ok" /\ Cardinality(some) > 1
            /\ BranchCollided(rest)
         \/ /\ fate = "reply lost" /\ some # {}
            /\ BranchTimedOut(rest)
         \/ /\ fate = "garbled" /\ Cardinality(some) = 1
            /\ BranchCollided(rest)
         \/ /\ fate = "garbled" /\ Cardinality(some) > 1
            /\ \E u \in Phantoms : BranchLocated(u, rest)

-----------------------------------------------------------------------------
\* Every loss is counted.
Spends(fate) ==
  /\ ~crashed
  /\ losses' = IF fate = "ok" THEN losses ELSE losses + 1
  /\ losses' <= MaxLosses

TargetCompletes ==
  \/ \E lost \in BOOLEAN :
       UnMuteComplete(lost) /\ Spends(IF lost THEN "lost" ELSE "ok")
  \/ \E u \in UID, fate \in {"ok", "request lost", "reply lost"} :
       /\ Heard(u) \/ fate = "ok"
       /\ IncrementalMuteComplete(u, fate) \/ BranchMuteComplete(u, fate)
       /\ Spends(fate)
  \/ \E c \in calls, fate \in {"ok", "reply lost", "garbled"} :
       BranchComplete(c, fate) /\ Spends(fate)

\* Responders are plugged in, unplugged or replaced.
Replug(new) ==
  /\ ~crashed
  /\ replugs < MaxReplugs
  /\ new # line
  /\ replugs' = replugs + 1
  /\ line' = new
  /\ muted' = {u \in muted : new[u] = line[u]}
  /\ disturbed' = TRUE
  /\ UNCHANGED <<agentVars, stackVars, clientVars, acked, unmuted, losses, calls,
                 asked, aborted, crashed>>

Next ==
  \/ \E full \in BOOLEAN : GenericDiscovery(full)
  \/ Abort
  \/ TargetCompletes
  \/ \E new \in Lines : Replug(new)

Spec == Init /\ [][Next]_vars

\* The target completes every request it is given.
FairSpec == Spec /\ WF_vars(TargetCompletes)

-----------------------------------------------------------------------------
\* A run whose losses and changes the algorithm can mend reports every
\* responder that follows the standard, none that is not there or never
\* acknowledged a mute, and calls the tree sound when all follow it: the
\* splits around bad UIDs, the limits and the corrupt flags of HandleCollision,
\* SplitAroundBadUID and SendDiscovery never cut off a good responder.
FindsAll ==
  \A i \in DOMAIN results :
    results[i].by = "run" /\ results[i].mended =>
      LET r == results[i]
          good == {u \in UID : r.line[u] = "good"}
          obnoxious == {u \in UID : r.line[u] = "obnoxious"}
      IN  /\ good \subseteq r.uids
          /\ r.uids \subseteq good \cup obnoxious
          /\ (\A u \in UID : r.line[u] \in {"good", "absent"}) => r.status

\* Whatever is lost or replugged, a run reports only UIDs that acknowledged a
\* mute of that very run: an incremental run does not carry over responders
\* that have gone (IncrementalMuteComplete), nor phantoms (BranchMuteComplete).
NoGhosts ==
  \A i \in DOMAIN results :
    results[i].by = "run" => results[i].uids \subseteq results[i].acked

\* A range on the stack lies strictly within its parent's, which is below it:
\* the stack is never deeper than the space is wide, no range is searched in
\* the place of its parent, and a parent pointer never outlives its range.
RangesNested ==
  \A i \in DOMAIN m_uid_ranges :
    LET r == m_uid_ranges[i]
        parent == m_uid_ranges[r.parent]
    IN  /\ r.lower <= r.upper
        /\ IF i = 1 THEN r.parent = 0
           ELSE /\ r.parent \in 1..(i - 1)
                /\ r.lower..r.upper \subseteq parent.lower..parent.upper
                /\ r.lower..r.upper # parent.lower..parent.upper

\* The handlers take m_muting_uid and the top of the stack, untested, for what
\* the answer is about: until Abort() is called there is at most one request,
\* exactly while a discovery runs, and it is the one that state stands for.
AnswerMeetsItsState ==
  \/ aborted
  \/ /\ ~crashed
     /\ Cardinality(calls) <= 1
     /\ m_on_complete <=> calls # {}
     /\ \A c \in calls :
          /\ m_uid_ranges # <<>>
          /\ c.op = "branch" => /\ c.a = Last(m_uid_ranges).lower
                               /\ c.b = Last(m_uid_ranges).upper
          /\ c.op \in {"mute", "incremental"} => c.a = m_muting_uid

\* A responder answers branch requests after it acknowledged the mute.
KeepsAnswering == \E u \in acked : u \in Answering(0, Top)

\* Every discovery call is answered, whatever is lost and whatever ignores the
\* mute, unless the agent is stopped or a responder goes on answering once it
\* has acknowledged the mute.
DiscoveryEnds ==
  \A i \in 1..MaxDiscoveries :
    Len(asked) >= i ~> results[i].by # "none" \/ aborted \/ KeepsAnswering

\* What the comment of the class promises of responders that continue to respond
\* once muted: they do not make the agent loop forever.
DiscoveryAlwaysEnds ==
  \A i \in 1..MaxDiscoveries :
    Len(asked) >= i ~> results[i].by # "none" \/ aborted

=============================================================================
