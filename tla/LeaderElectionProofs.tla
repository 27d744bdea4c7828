------------------------ MODULE LeaderElectionProofs ------------------------
(***************************************************************************)
(* Theorems about LeaderElection for every size of the cluster and every   *)
(* bound on the terms.                                                     *)
(***************************************************************************)
EXTENDS LeaderElection, FiniteSetTheorems, WellFoundedInduction, TLAPS

\* Two majorities of the nodes have a node in common.
LEMMA MajoritiesMeet ==
  ASSUME NEW A \in SUBSET Nodes, NEW B \in SUBSET Nodes,
         Cardinality(A) >= Majority, Cardinality(B) >= Majority
  PROVE  A \cap B # {}
<1>1. IsFiniteSet(Nodes) /\ Cardinality(Nodes) = N
  BY FS_Interval, CountAssumption DEF Nodes
<1>2. /\ IsFiniteSet(A) /\ IsFiniteSet(B)
      /\ IsFiniteSet(A \cup B) /\ Cardinality(A \cup B) <= N
  BY <1>1, FS_Subset, A \cup B \in SUBSET Nodes
<1>3. Cardinality(A) \in Nat /\ Cardinality(B) \in Nat
  BY <1>2, FS_CardinalityType
<1>4. Cardinality(A \cup B) = Cardinality(A) + Cardinality(B) - Cardinality(A \cap B)
  BY <1>2, FS_Union
<1>5. Cardinality({}) = 0
  BY FS_EmptySet
<1> QED
  BY <1>2, <1>3, <1>4, <1>5, CountAssumption DEF Majority

\* A larger set of nodes has at least as many nodes.
LEMMA MoreNodes ==
  ASSUME NEW A \in SUBSET Nodes, NEW B \in SUBSET Nodes, A \subseteq B,
         Cardinality(A) >= Majority
  PROVE  Cardinality(B) >= Majority
<1>0. IsFiniteSet(Nodes)
  BY FS_Interval, CountAssumption DEF Nodes
<1>1. IsFiniteSet(A) /\ IsFiniteSet(B)
  BY <1>0, FS_Subset
<1>2. Cardinality(A) \in Nat /\ Cardinality(B) \in Nat /\ Cardinality(A) <= Cardinality(B)
  BY <1>1, FS_Subset, FS_CardinalityType
<1> QED
  BY <1>2, CountAssumption DEF Majority

\* A majority is not empty.
LEMMA SomeMember ==
  ASSUME NEW A \in SUBSET Nodes, Cardinality(A) >= Majority
  PROVE  A # {}
BY MajoritiesMeet

\* A set of naturals that is not empty has a least element.
LEMMA HasLeast ==
  ASSUME NEW S \in SUBSET Nat, S # {}
  PROVE  \E x \in S : \A y \in S : x <= y
<1>1. OpToRel(<, Nat) = {ss \in Nat \X Nat : ss[1] < ss[2]}
  BY DEF OpToRel
<1>2. IsWellFoundedOn({ss \in Nat \X Nat : ss[1] < ss[2]}, Nat)
  BY <1>1, NatLessThanWellFounded
<1>3. \E x \in S : \A y \in S : ~(<<y, x>> \in {ss \in Nat \X Nat : ss[1] < ss[2]})
  BY <1>2, WFMin
<1>4. PICK x \in S : \A y \in S : ~(<<y, x>> \in {ss \in Nat \X Nat : ss[1] < ss[2]})
  BY <1>3
<1>5. \A y \in S : ~(y < x)
  BY <1>4
<1> QED
  BY <1>5

\* The latest of some terms is one of them.
LEMMA LatestIsOne ==
  ASSUME NEW S \in SUBSET Terms, S # {}
  PROVE  Latest(S) \in S /\ \A y \in S : y <= Latest(S)
<1> DEFINE D == {MaxTerm - x : x \in S}
<1>1. D \in SUBSET Nat /\ D # {}
  BY TermAssumption DEF Terms
<1>2. PICK d \in D : \A y \in D : d <= y
  BY <1>1, HasLeast
<1>3. PICK m \in S : d = MaxTerm - m
  BY <1>2
<1>4. ASSUME NEW y \in S PROVE y <= m
  <2>1. MaxTerm - y \in D
    OBVIOUS
  <2>2. MaxTerm - m <= MaxTerm - y
    BY <1>2, <1>3, <2>1
  <2>3. y \in Nat /\ m \in Nat
    BY DEF Terms
  <2> QED
    BY <2>2, <2>3, TermAssumption
<1> QED
  BY <1>4 DEF Latest

\* The node that refuses a heartbeat is a node with a later term, and the
\* first of those.
LEMMA RefuserIsOne ==
  ASSUME NEW l \in Nodes, IsRefused(l)
  PROVE  Refuser(l) \in Stale(l)
<1>1. Stale(l) \in SUBSET Nat
  BY CountAssumption DEF Stale, Reachable, Nodes
<1> QED
  BY <1>1, HasLeast DEF Refuser, IsRefused
-----------------------------------------------------------------------------
\* Whoever holds the lock is looking after the leader it has just elected.
ElectingLeads == electing # NoNode => leaderId = electing

\* A leader believes in itself.
LeadersKnowThemselves == \A n \in Nodes : state[n] = "LEADER" => known[n] = n

\* Nobody has voted in a term it has not reached.
VotesArePast == \A n \in Nodes : votedTerm[n] <= term[n]

\* The nodes that will never again vote for another leader than e[2] in term e[1].
Supporters(e) ==
  {v \in Nodes : votedTerm[v] > e[1] \/ (votedTerm[v] = e[1] /\ votedFor[v] = e[2])}

\* A majority stands behind every leader there has been.
ElectedAreSupported == ~regressed => \A e \in elected : Cardinality(Supporters(e)) >= Majority

\* The voters of n in its present term.
Voters(n) == {v \in Nodes : votedFor[v] = n /\ votedTerm[v] = term[n]}

\* The conjuncts that make the properties inductive.
IInv ==
  /\ TypeOK
  /\ LeaderIsKnown
  /\ ElectingLeads
  /\ LeadersKnowThemselves
  /\ KnownLeaderWasElected
  /\ LeaderHasMajority
  /\ VotesArePast
  /\ ElectedAreSupported
  /\ OneLeaderPerTerm
-----------------------------------------------------------------------------
\* What the answers of the voters leave behind is well typed.
LEMMA VotesTyped ==
  ASSUME TypeOK, NEW c \in Nodes, CollectVotes(c)
  PROVE  /\ term' \in [Nodes -> Terms]
         /\ votedFor' \in [Nodes -> NodesOrNone]
         /\ votedTerm' \in [Nodes -> Terms]
         /\ due' \subseteq Nodes
         /\ partitioned' \subseteq Nodes
         /\ regressed' \in BOOLEAN
         /\ Standing(c) \in Terms
<1>1. Standing(c) \in Terms
  BY TermAssumption DEF CollectVotes, Standing, TypeOK, Terms
<1>2. {Standing(c)} \cup {term[v] : v \in Ahead(c)} \in SUBSET Terms
  BY <1>1 DEF TypeOK, Ahead, Reachable
<1>3. Latest({Standing(c)} \cup {term[v] : v \in Ahead(c)}) \in Terms
  BY <1>2, LatestIsOne
<1>4. term' \in [Nodes -> Terms]
  BY <1>1, <1>3 DEF CollectVotes, TypeOK
<1>5. votedFor' \in [Nodes -> NodesOrNone]
  BY DEF CollectVotes, TypeOK, NodesOrNone
<1>6. votedTerm' \in [Nodes -> Terms]
  BY <1>1 DEF CollectVotes, TypeOK
<1> QED
  BY <1>1, <1>4, <1>5, <1>6 DEF CollectVotes, TypeOK

\* An election that is won or lost keeps the types.
LEMMA ElectionTyped ==
  ASSUME TypeOK, NEW c \in Nodes, RunElection(c)
  PROVE  TypeOK'
<1>1. CASE WinElection(c)
  <2>1. CollectVotes(c)
    BY <1>1 DEF WinElection
  <2>2. state' \in [Nodes -> {"FOLLOWER", "LEADER"}] /\ known' \in [Nodes -> NodesOrNone]
    BY <1>1 DEF WinElection, TypeOK, NodesOrNone
  <2>3. /\ leaderId' \in NodesOrNone /\ electing' \in NodesOrNone /\ last' \in NodesOrNone
        /\ clusterTerm' \in Terms /\ elected' \subseteq Terms \X Nodes
    BY <1>1, <2>1, VotesTyped DEF WinElection, TypeOK, NodesOrNone
  <2> QED
    BY <2>1, <2>2, <2>3, VotesTyped DEF TypeOK
<1>2. CASE LoseElection(c)
  <2>1. CollectVotes(c)
    BY <1>2 DEF LoseElection
  <2>2. state' \in [Nodes -> {"FOLLOWER", "LEADER"}] /\ known' \in [Nodes -> NodesOrNone]
    BY <1>2 DEF LoseElection, TypeOK, NodesOrNone
  <2>3. {clusterTerm, Standing(c)} \cup {term[v] : v \in Ahead(c)} \in SUBSET Terms
    BY <2>1, VotesTyped DEF TypeOK, Ahead, Reachable
  <2>4. clusterTerm' \in Terms
    BY <1>2, <2>3, LatestIsOne DEF LoseElection
  <2>5. /\ leaderId' \in NodesOrNone /\ electing' \in NodesOrNone /\ last' \in NodesOrNone
        /\ elected' \subseteq Terms \X Nodes
    BY <1>2 DEF LoseElection, TypeOK, NodesOrNone
  <2> QED
    BY <2>1, <2>2, <2>4, <2>5, VotesTyped DEF TypeOK
<1> QED
  BY <1>1, <1>2 DEF RunElection

\* So do the heartbeats of a leader, up to the node that refuses one.
LEMMA HeartbeatsTyped ==
  ASSUME TypeOK, NEW l \in Nodes, Heartbeats(l),
         last' \in NodesOrNone, electing' \in NodesOrNone
  PROVE  TypeOK'
<1>1. IsRefused(l) => term[Refuser(l)] \in Terms
  BY RefuserIsOne DEF TypeOK, Stale, Reachable
<1>2. term' \in [Nodes -> Terms]
  BY <1>1 DEF Heartbeats, TypeOK
<1>3. state' \in [Nodes -> {"FOLLOWER", "LEADER"}] /\ known' \in [Nodes -> NodesOrNone]
  BY DEF Heartbeats, TypeOK, NodesOrNone
<1>4. leaderId' \in NodesOrNone /\ due' \subseteq Nodes
  BY DEF Heartbeats, TypeOK, NodesOrNone
<1> QED
  BY <1>2, <1>3, <1>4 DEF Heartbeats, TypeOK

\* The cluster starts with the types it keeps.
LEMMA InitTypes == Init => TypeOK
<1> SUFFICES ASSUME Init PROVE TypeOK
  OBVIOUS
<1>1. /\ term \in [Nodes -> Terms] /\ votedTerm \in [Nodes -> Terms]
      /\ state \in [Nodes -> {"FOLLOWER", "LEADER"}]
      /\ votedFor \in [Nodes -> NodesOrNone] /\ known \in [Nodes -> NodesOrNone]
  BY TermAssumption DEF Init, Terms, NodesOrNone
<1>2. /\ due \subseteq Nodes /\ partitioned \subseteq Nodes
      /\ elected \subseteq Terms \X Nodes /\ regressed \in BOOLEAN
  BY DEF Init
<1>3. /\ leaderId \in NodesOrNone /\ last \in NodesOrNone /\ electing \in NodesOrNone
      /\ clusterTerm \in Terms
  BY TermAssumption DEF Init, Terms, NodesOrNone
<1> QED
  BY <1>1, <1>2, <1>3 DEF TypeOK

\* Every variable keeps its type: in particular no operation leaves a term
\* beyond those that were stood for, or a node that is still a candidate.
THEOREM TypeCorrect == Spec => []TypeOK
<1>1. Init => TypeOK
  BY InitTypes
<1>2. TypeOK /\ [Next]_vars => TypeOK'
  <2> SUFFICES ASSUME TypeOK, [Next]_vars PROVE TypeOK'
    OBVIOUS
  <2>1. ASSUME NEW n \in Nodes, RunElection(n) PROVE TypeOK'
    BY <2>1, ElectionTyped
  <2>2. ASSUME NEW n \in Nodes, PartitionNode(n) \/ HealPartition(n) \/ TimePasses(n)
        PROVE  TypeOK'
    BY <2>2 DEF PartitionNode, HealPartition, TimePasses, TypeOK
  <2>3. ASSUME NEW n \in Nodes, ForceNewLeader(n) PROVE TypeOK'
    <3>1. Standing(n) \in Terms
      BY <2>3, TermAssumption DEF ForceNewLeader, Standing, TypeOK, Terms
    <3>2. /\ term' \in [Nodes -> Terms] /\ votedTerm' \in [Nodes -> Terms]
          /\ state' \in [Nodes -> {"FOLLOWER", "LEADER"}]
          /\ known' \in [Nodes -> NodesOrNone] /\ votedFor' \in [Nodes -> NodesOrNone]
      BY <2>3, <3>1 DEF ForceNewLeader, NodesOrNone
    <3>3. regressed' \in BOOLEAN
      BY <2>3 DEF ForceNewLeader, TypeOK
    <3>4. /\ due' \subseteq Nodes /\ partitioned' \subseteq Nodes /\ leaderId' \in NodesOrNone
          /\ clusterTerm' \in Terms /\ last' \in NodesOrNone /\ electing' \in NodesOrNone
          /\ elected' \subseteq Terms \X Nodes
      BY <2>3, <3>1 DEF ForceNewLeader, TypeOK, NodesOrNone
    <3> QED
      BY <3>2, <3>3, <3>4 DEF TypeOK
  <2>4. CASE RunElectionOfNobody
    BY <2>4 DEF RunElectionOfNobody, TypeOK, NodesOrNone
  <2>5. CASE CheckAndRunElections
    BY <2>5, <2>1 DEF CheckAndRunElections
  <2>6. CASE BroadcastFromNewLeader
    <3>1. electing \in Nodes
      BY <2>6 DEF BroadcastFromNewLeader, TypeOK, NodesOrNone
    <3>2. last' \in NodesOrNone /\ electing' \in NodesOrNone
      BY <2>6, <3>1 DEF BroadcastFromNewLeader, Result, NodesOrNone
    <3> QED
      BY <2>6, <3>1, <3>2, HeartbeatsTyped DEF BroadcastFromNewLeader
  <2>7. CASE LeaderSendHeartbeat
    <3>1. leaderId \in Nodes
      BY <2>7 DEF LeaderSendHeartbeat, TypeOK, NodesOrNone
    <3>2. last' \in NodesOrNone /\ electing' \in NodesOrNone
      BY <2>7 DEF LeaderSendHeartbeat, TypeOK
    <3> QED
      BY <2>7, <3>1, <3>2, HeartbeatsTyped DEF LeaderSendHeartbeat
  <2>8. CASE UNCHANGED vars
    BY <2>8 DEF vars, TypeOK
  <2> QED
    BY <2>1, <2>2, <2>3, <2>4, <2>5, <2>6, <2>7, <2>8 DEF Next
<1> QED
  BY <1>1, <1>2, PTL DEF Spec
-----------------------------------------------------------------------------
\* Every node counts as one of the nodes of a majority of all.
LEMMA AllAreMajority == Cardinality(Nodes) >= Majority
BY FS_Interval, CountAssumption DEF Nodes, Majority

\* Terms and votes only move forward in an election, and the votes it counts
\* are new ones.
LEMMA VotesMoveForward ==
  ASSUME TypeOK, VotesArePast, NEW c \in Nodes, CollectVotes(c)
  PROVE  /\ \A v \in Votes(c) : votedTerm[v] < Standing(c)
         /\ \A n \in Nodes : term'[n] >= term[n]
         /\ \A n \in Nodes \ (Reset(c) \cup {c}) : term'[n] = term[n]
         /\ VotesArePast'
         /\ \A e \in elected : Supporters(e) \subseteq (Supporters(e))'
         /\ StillCandidate(c) => term'[c] = Standing(c)
<1>1. \A n \in Nodes : term[n] \in Nat /\ votedTerm[n] \in Nat /\ votedTerm[n] <= term[n]
  BY DEF TypeOK, Terms, VotesArePast
<1>2. Standing(c) \in Terms /\ Standing(c) = term[c] + 1
  BY VotesTyped DEF Standing
<1>3. \A v \in Votes(c) : v \in Nodes /\ votedTerm[v] < Standing(c) /\ term[v] <= Standing(c)
  BY <1>1, <1>2 DEF Votes, Grants, Reachable, Terms
<1>4. /\ Latest({Standing(c)} \cup {term[v] : v \in Ahead(c)}) >= Standing(c)
      /\ Ahead(c) = {} => Latest({Standing(c)} \cup {term[v] : v \in Ahead(c)}) = Standing(c)
  <2> DEFINE S == {Standing(c)} \cup {term[v] : v \in Ahead(c)}
  <2>1. S \in SUBSET Terms
    BY <1>2 DEF TypeOK, Ahead, Reachable
  <2>2. Latest(S) \in S /\ \A y \in S : y <= Latest(S)
    BY <2>1, LatestIsOne
  <2> QED
    BY <2>1, <2>2 DEF Terms
<1>5. \A n \in Nodes : /\ n \in Behind(c) => term'[n] = Standing(c) \/ n = c
                       /\ n \notin Behind(c) \cup {c} => term'[n] = term[n]
                       /\ n = c => term'[n] >= Standing(c)
  <2> DEFINE L == Latest({Standing(c)} \cup {term[v] : v \in Ahead(c)})
  <2>1. term' = [n \in Nodes |-> CASE n = c -> L
                                  [] n \in Behind(c) -> Standing(c)
                                  [] OTHER -> term[n]]
    BY DEF CollectVotes
  <2>2. L >= Standing(c)
    BY <1>4
  <2> HIDE DEF L
  <2>3. c \notin Behind(c)
    BY DEF Behind, Reachable
  <2> QED
    BY <2>1, <2>2, <2>3
<1>6. \A n \in Nodes : term'[n] >= term[n] /\ term'[n] \in Nat
  BY <1>1, <1>2, <1>5, VotesTyped DEF Behind, Terms
<1>7. \A v \in Votes(c) : term'[v] >= Standing(c)
  BY <1>1, <1>2, <1>3, <1>5, <1>6 DEF Behind, Votes, Terms
<1>8. \A n \in Nodes : /\ n \in Votes(c) => votedTerm'[n] = Standing(c)
                       /\ n \notin Votes(c) => votedTerm'[n] = votedTerm[n] /\ votedFor'[n] = votedFor[n]
  BY DEF CollectVotes
<1>9. VotesArePast'
  BY <1>1, <1>2, <1>6, <1>7, <1>8 DEF VotesArePast, Terms
<1>10. ASSUME NEW e \in elected PROVE Supporters(e) \subseteq (Supporters(e))'
  <2>1. e[1] \in Nat
    BY DEF TypeOK, Terms
  <2> QED
    BY <1>1, <1>2, <1>3, <1>8, <2>1 DEF Supporters, Terms
<1>11. StillCandidate(c) => term'[c] = Standing(c)
  BY <1>4 DEF StillCandidate, CollectVotes
<1>12. \A n \in Nodes \ (Reset(c) \cup {c}) : term'[n] = term[n]
  BY <1>5 DEF Reset
<1> QED
  BY <1>3, <1>6, <1>9, <1>10, <1>11, <1>12

\* An election.
LEMMA ElectionKeeps ==
  ASSUME IInv, TypeOK', NEW c \in Nodes, RunElection(c)
  PROVE  IInv'
<1> USE DEF IInv
<1>0. CollectVotes(c)
  BY DEF RunElection, WinElection, LoseElection
<1>1. /\ \A v \in Votes(c) : votedTerm[v] < Standing(c)
      /\ \A n \in Nodes \ (Reset(c) \cup {c}) : term'[n] = term[n]
      /\ VotesArePast'
      /\ \A e \in elected : Supporters(e) \subseteq (Supporters(e))'
      /\ StillCandidate(c) => term'[c] = Standing(c)
  BY <1>0, VotesMoveForward
<1>2. regressed' = regressed /\ Unlocked
  BY <1>0 DEF CollectVotes
<1>3. \A n \in Nodes : state[n] = "LEADER" => n \in Reset(c)
  BY DEF LeaderIsKnown, Reset, Deposed
<1>4. ASSUME NEW e \in elected, ~regressed PROVE Cardinality((Supporters(e))') >= Majority
  <2>1. Supporters(e) \in SUBSET Nodes /\ (Supporters(e))' \in SUBSET Nodes
    BY DEF Supporters
  <2> QED
    BY <1>1, <1>4, <2>1, MoreNodes DEF ElectedAreSupported
<1>5. CASE LoseElection(c)
  <2>1. \A n \in Nodes : state'[n] # "LEADER"
    BY <1>5, <1>3 DEF LoseElection, TypeOK
  <2>2. leaderId' = NoNode /\ electing' = NoNode /\ elected' = elected
    BY <1>5, <1>2 DEF LoseElection, Unlocked
  <2>3. LeaderIsKnown' /\ ElectingLeads' /\ LeadersKnowThemselves' /\ LeaderHasMajority'
    BY <2>1, <2>2 DEF LeaderIsKnown, ElectingLeads, LeadersKnowThemselves, LeaderHasMajority
  <2>4. KnownLeaderWasElected'
    BY <1>1, <1>5, <2>2 DEF KnownLeaderWasElected, LoseElection, TypeOK
  <2>5. ElectedAreSupported' /\ OneLeaderPerTerm'
    BY <1>2, <1>4, <2>2 DEF ElectedAreSupported, OneLeaderPerTerm
  <2> QED
    BY <1>1, <2>3, <2>4, <2>5
<1>6. CASE WinElection(c)
  <2>1. HasMajority(c) /\ term'[c] = Standing(c)
    BY <1>1, <1>6 DEF WinElection
  <2>2. /\ leaderId' = c /\ electing' = c
        /\ elected' = elected \cup {<<Standing(c), c>>}
        /\ state' = [n \in Nodes |-> IF n = c THEN "LEADER" ELSE "FOLLOWER"]
        /\ known' = [n \in Nodes |-> IF n = c THEN c ELSE IF n \in Reset(c) THEN NoNode ELSE known[n]]
    BY <1>6 DEF WinElection
  <2>3. c # NoNode
    BY CountAssumption DEF Nodes, NoNode
  <2>4. LeaderIsKnown' /\ ElectingLeads' /\ LeadersKnowThemselves'
    BY <2>2, <2>3 DEF LeaderIsKnown, ElectingLeads, LeadersKnowThemselves
  <2>5. KnownLeaderWasElected'
    BY <1>1, <2>1, <2>2 DEF KnownLeaderWasElected
  <2>6. Votes(c) \in SUBSET Nodes /\ \A v \in Votes(c) : votedFor'[v] = c /\ votedTerm'[v] = Standing(c)
    BY <1>0 DEF CollectVotes, Votes, Reachable
  <2>7. LeaderHasMajority'
    <3>1. (Voters(c))' \in SUBSET Nodes /\ Votes(c) \subseteq (Voters(c))'
      BY <2>1, <2>6 DEF Voters
    <3>2. Cardinality((Voters(c))') >= Majority
      BY <2>1, <2>6, <3>1, MoreNodes DEF HasMajority
    <3> QED
      BY <2>2, <3>2 DEF LeaderHasMajority, Voters
  <2>8. ElectedAreSupported'
    <3>0. PICK t \in Terms : t = Standing(c)
      BY <1>0, VotesTyped
    <3>1. (Supporters(<<t, c>>))' \in SUBSET Nodes /\ Votes(c) \subseteq (Supporters(<<t, c>>))'
      BY <2>6, <3>0 DEF Supporters
    <3>2. Cardinality((Supporters(<<t, c>>))') >= Majority
      BY <2>1, <2>6, <3>1, MoreNodes DEF HasMajority
    <3>3. ASSUME NEW e \in elected', ~regressed PROVE Cardinality((Supporters(e))') >= Majority
      <4>1. e \in elected \/ e = <<t, c>>
        BY <2>2, <3>0
      <4> QED
        BY <1>4, <3>2, <3>3, <4>1
    <3> QED
      BY <1>2, <3>3 DEF ElectedAreSupported
  <2>9. OneLeaderPerTerm'
    <3>1. ASSUME ~regressed, NEW f \in elected, f[1] = Standing(c) PROVE FALSE
      <4>1. Cardinality(Supporters(f)) >= Majority /\ Supporters(f) \in SUBSET Nodes
        BY <3>1 DEF ElectedAreSupported, Supporters
      <4>2. PICK v \in Votes(c) : v \in Supporters(f)
        BY <2>1, <2>6, <4>1, MajoritiesMeet DEF HasMajority
      <4>3. votedTerm[v] >= Standing(c) /\ votedTerm[v] \in Nat /\ Standing(c) \in Nat
        BY <1>0, <2>6, <3>1, <4>2, VotesTyped DEF Supporters, TypeOK, Terms
      <4> QED
        BY <1>1, <4>2, <4>3
    <3>2. \A e, f \in elected' : ~regressed /\ e[1] = f[1] => e[2] = f[2]
      BY <2>2, <3>1 DEF OneLeaderPerTerm
    <3> QED
      BY <1>2, <3>2 DEF OneLeaderPerTerm
  <2> QED
    BY <1>1, <2>4, <2>5, <2>7, <2>8, <2>9
<1> QED
  BY <1>5, <1>6 DEF RunElection

\* Heartbeats of the leader.
LEMMA HeartbeatsKeep ==
  ASSUME IInv, TypeOK', leaderId # NoNode, Heartbeats(leaderId),
         electing' = NoNode
  PROVE  IInv'
<1> USE DEF IInv
<1> DEFINE l == leaderId
<1>1. l \in Nodes /\ state[l] = "LEADER"
  BY DEF TypeOK, NodesOrNone, LeaderIsKnown
<1>2. \A n \in Nodes : term[n] \in Nat
  BY DEF TypeOK, Terms
<1>3. \A n \in Told(l) : n \in Nodes /\ n # l /\ term[n] <= term[l]
  BY <1>1, <1>2, CountAssumption DEF Told, Stale, Reachable, Nodes
<1>4. IsRefused(l) => Refuser(l) \in Nodes /\ term[Refuser(l)] > term[l]
  BY <1>1, RefuserIsOne DEF Stale, Reachable
<1>5. \A n \in Nodes : /\ n \in Told(l) => term'[n] = term[l]
                       /\ n = l /\ IsRefused(l) => term'[n] = term[Refuser(l)]
                       /\ n \notin Told(l) /\ ~(n = l /\ IsRefused(l)) => term'[n] = term[n]
  BY <1>3 DEF Heartbeats
<1>6. \A n \in Nodes : /\ n \in Told(l) => known'[n] = l
                       /\ n = l /\ IsRefused(l) => known'[n] = NoNode
                       /\ n \notin Told(l) /\ ~(n = l /\ IsRefused(l)) => known'[n] = known[n]
  BY <1>3 DEF Heartbeats
<1>7. \A n \in Nodes : state'[n] = "LEADER" <=> n = l /\ ~IsRefused(l)
  BY <1>1, <1>3 DEF Heartbeats, TypeOK, LeaderIsKnown
<1>8. /\ votedFor' = votedFor /\ votedTerm' = votedTerm
      /\ elected' = elected /\ regressed' = regressed
      /\ leaderId' = IF IsRefused(l) THEN NoNode ELSE l
  BY DEF Heartbeats
<1>9. LeaderIsKnown' /\ ElectingLeads'
  BY <1>1, <1>7, <1>8 DEF LeaderIsKnown, ElectingLeads
<1>10. LeadersKnowThemselves'
  BY <1>1, <1>3, <1>6, <1>7 DEF LeadersKnowThemselves
<1>11. KnownLeaderWasElected'
  <2>1. <<term[l], l>> \in elected
    BY <1>1 DEF LeadersKnowThemselves, KnownLeaderWasElected
  <2> QED
    BY <1>5, <1>6, <1>8, <2>1 DEF KnownLeaderWasElected
<1>12. LeaderHasMajority'
  <2>1. ~IsRefused(l) => term'[l] = term[l]
    BY <1>1, <1>3, <1>5
  <2> QED
    BY <1>1, <1>7, <1>8, <2>1 DEF LeaderHasMajority
<1>13. VotesArePast'
  <2>1. \A n \in Nodes : term'[n] >= term[n]
    BY <1>1, <1>2, <1>3, <1>4, <1>5
  <2>2. \A n \in Nodes : term'[n] \in Nat /\ votedTerm[n] \in Nat
    BY DEF TypeOK, Terms
  <2> QED
    BY <1>2, <1>8, <2>1, <2>2 DEF VotesArePast
<1>14. ElectedAreSupported' /\ OneLeaderPerTerm'
  BY <1>8 DEF ElectedAreSupported, OneLeaderPerTerm, Supporters
<1> QED
  BY <1>9, <1>10, <1>11, <1>12, <1>13, <1>14

\* force_new_leader.
LEMMA ForceKeeps ==
  ASSUME IInv, TypeOK', NEW n \in Nodes, ForceNewLeader(n)
  PROVE  IInv'
<1> USE DEF IInv
<1>1. PICK t \in Terms : t = Standing(n)
  BY TermAssumption DEF ForceNewLeader, Standing, TypeOK, Terms
<1>2. n # NoNode
  BY CountAssumption DEF Nodes, NoNode
<1>3. /\ term' = [m \in Nodes |-> t] /\ votedTerm' = [m \in Nodes |-> t]
      /\ votedFor' = [m \in Nodes |-> n] /\ known' = [m \in Nodes |-> n]
      /\ state' = [m \in Nodes |-> IF m = n THEN "LEADER" ELSE "FOLLOWER"]
      /\ leaderId' = n /\ electing' = NoNode
      /\ elected' = elected \cup {<<t, n>>}
  BY <1>1 DEF ForceNewLeader, Unlocked
<1>4. LeaderIsKnown' /\ ElectingLeads' /\ LeadersKnowThemselves' /\ KnownLeaderWasElected'
  BY <1>2, <1>3
     DEF LeaderIsKnown, ElectingLeads, LeadersKnowThemselves, KnownLeaderWasElected
<1>5. LeaderHasMajority'
  <2>1. (Voters(n))' = Nodes
    BY <1>3 DEF Voters
  <2> QED
    BY <1>3, <2>1, AllAreMajority DEF LeaderHasMajority, Voters
<1>6. VotesArePast'
  BY <1>3 DEF VotesArePast, Terms
<1>7. ~regressed' => ~regressed /\ \A m \in Nodes : ~(term[m] > term[n])
  BY DEF ForceNewLeader
<1>8. ASSUME ~regressed', NEW v \in Nodes PROVE votedTerm[v] < t
  BY <1>1, <1>7, <1>8 DEF Standing, VotesArePast, TypeOK, Terms
<1>9. ElectedAreSupported'
  <2>1. ASSUME ~regressed', NEW e \in elected PROVE Cardinality((Supporters(e))') >= Majority
    <3>1. Cardinality(Supporters(e)) >= Majority /\ Supporters(e) \in SUBSET Nodes
      BY <1>7, <2>1 DEF ElectedAreSupported, Supporters
    <3>2. PICK v \in Supporters(e) : TRUE
      BY <3>1, SomeMember
    <3>3. votedTerm[v] >= e[1] /\ e[1] \in Nat /\ votedTerm[v] \in Nat /\ v \in Nodes
      BY <3>2 DEF Supporters, TypeOK, Terms
    <3>4. (Supporters(e))' = Nodes
      BY <1>3, <1>8, <2>1, <3>3 DEF Supporters, Terms
    <3> QED
      BY <3>4, AllAreMajority
  <2>2. (Supporters(<<t, n>>))' = Nodes
    BY <1>3 DEF Supporters
  <2> QED
    BY <1>3, <2>1, <2>2, AllAreMajority DEF ElectedAreSupported
<1>10. OneLeaderPerTerm'
  <2>1. ASSUME ~regressed', NEW f \in elected, f[1] = t PROVE FALSE
    <3>1. Cardinality(Supporters(f)) >= Majority /\ Supporters(f) \in SUBSET Nodes
      BY <1>7, <2>1 DEF ElectedAreSupported, Supporters
    <3>2. PICK v \in Supporters(f) : TRUE
      BY <3>1, SomeMember
    <3>3. votedTerm[v] >= t /\ v \in Nodes /\ votedTerm[v] \in Nat /\ t \in Nat
      BY <2>1, <3>2 DEF Supporters, TypeOK, Terms
    <3> QED
      BY <1>8, <2>1, <3>3
  <2> QED
    BY <1>3, <1>7, <2>1 DEF OneLeaderPerTerm
<1> QED
  BY <1>4, <1>5, <1>6, <1>9, <1>10
-----------------------------------------------------------------------------
\* Every state of the cluster satisfies the inductive invariant.
LEMMA Invariant == Spec => []IInv
<1>1. Init => IInv
  <2> SUFFICES ASSUME Init PROVE IInv
    OBVIOUS
  <2>1. TypeOK
    BY InitTypes
  <2>2. \A n \in Nodes : n # NoNode
    BY CountAssumption DEF Nodes, NoNode
  <2> QED
    BY <2>1, <2>2 DEF Init, IInv, LeaderIsKnown, ElectingLeads, LeadersKnowThemselves,
       KnownLeaderWasElected, LeaderHasMajority, VotesArePast, ElectedAreSupported, OneLeaderPerTerm
<1>2. IInv /\ TypeOK' /\ [Next]_vars => IInv'
  <2> SUFFICES ASSUME IInv, TypeOK', [Next]_vars PROVE IInv'
    OBVIOUS
  <2>1. ASSUME NEW n \in Nodes, RunElection(n) PROVE IInv'
    BY <2>1, ElectionKeeps
  <2>2. ASSUME NEW n \in Nodes, ForceNewLeader(n) PROVE IInv'
    BY <2>2, ForceKeeps
  <2>3. CASE RunElectionOfNobody
    <3>1. /\ \A n \in Nodes : state'[n] # "LEADER"
          /\ leaderId' = NoNode /\ electing' = NoNode
          /\ \A n \in Nodes : known'[n] # NoNode => known'[n] = known[n]
          /\ UNCHANGED <<term, votedFor, votedTerm, elected, regressed>>
      BY <2>3 DEF RunElectionOfNobody, Unlocked, Deposed, IInv, LeaderIsKnown, TypeOK
    <3> QED
      BY <3>1 DEF IInv, LeaderIsKnown, ElectingLeads, LeadersKnowThemselves,
         KnownLeaderWasElected, LeaderHasMajority, VotesArePast, ElectedAreSupported,
         Supporters, OneLeaderPerTerm
  <2>4. CASE CheckAndRunElections
    BY <2>1, <2>4 DEF CheckAndRunElections
  <2>5. CASE BroadcastFromNewLeader
    <3>1. leaderId = electing
      BY <2>5 DEF BroadcastFromNewLeader, IInv, ElectingLeads
    <3> QED
      BY <2>5, <3>1, HeartbeatsKeep DEF BroadcastFromNewLeader
  <2>6. CASE LeaderSendHeartbeat
    BY <2>6, HeartbeatsKeep DEF LeaderSendHeartbeat, Unlocked
  <2>7. CASE UNCHANGED <<term, state, votedFor, votedTerm, known, leaderId, electing, elected, regressed>>
    BY <2>7 DEF IInv, LeaderIsKnown, ElectingLeads, LeadersKnowThemselves,
       KnownLeaderWasElected, LeaderHasMajority, VotesArePast, ElectedAreSupported,
       Supporters, OneLeaderPerTerm
  <2> QED
    BY <2>1, <2>2, <2>3, <2>4, <2>5, <2>6, <2>7
       DEF Next, PartitionNode, HealPartition, TimePasses, vars
<1> QED
  BY <1>1, <1>2, TypeCorrect, PTL DEF Spec

\* At most one node leads and the cluster names it, for any number of nodes,
\* whatever is partitioned between the two halves of an election.
THEOREM OneKnownLeader == Spec => []LeaderIsKnown
<1>1. IInv => LeaderIsKnown
  BY DEF IInv
<1> QED
  BY <1>1, Invariant, PTL

\* A leader has a majority behind it for as long as it leads.
THEOREM MajorityBehindLeader == Spec => []LeaderHasMajority
<1>1. IInv => LeaderHasMajority
  BY DEF IInv
<1> QED
  BY <1>1, Invariant, PTL

\* A term has at most one leader, however often elections are interrupted,
\* lost and repeated, until force_new_leader is called for a node that is behind.
THEOREM TermsHaveOneLeader == Spec => []OneLeaderPerTerm
<1>1. IInv => OneLeaderPerTerm
  BY DEF IInv
<1> QED
  BY <1>1, Invariant, PTL

\* No node believes in somebody who never led the node's own term.
THEOREM BeliefsAreTrue == Spec => []KnownLeaderWasElected
<1>1. IInv => KnownLeaderWasElected
  BY DEF IInv
<1> QED
  BY <1>1, Invariant, PTL

\* Whoever has the lock finds in the last election the leader there is.
LastIsLeader == Unlocked /\ leaderId # NoNode => last = leaderId

\* README item 5 holds for any number of nodes and elections, whoever is cut off between
\* the votes and the heartbeats: the last election names the leader there is, and an
\* election that reports a leader ends with it leading (cluster.py:225-240).
THEOREM ElectionsTellTheTruth == Spec => ResultsAreTrue
<1>0. \A n \in Nodes : n # NoNode
  BY CountAssumption DEF Nodes, NoNode
<1>1. Init => LastIsLeader
  BY DEF Init, LastIsLeader
<1>2. IInv /\ LastIsLeader /\ [Next]_vars => LastIsLeader'
  <2> SUFFICES ASSUME IInv, LastIsLeader, [Next]_vars PROVE LastIsLeader'
    OBVIOUS
  <2>1. ASSUME NEW n \in Nodes, RunElection(n) PROVE LastIsLeader'
    BY <1>0, <2>1 DEF RunElection, WinElection, LoseElection, LastIsLeader, Unlocked
  <2>2. CASE CheckAndRunElections
    BY <2>1, <2>2 DEF CheckAndRunElections
  <2>3. ASSUME NEW n \in Nodes, ForceNewLeader(n) PROVE LastIsLeader'
    BY <2>3 DEF ForceNewLeader, LastIsLeader
  <2>4. CASE RunElectionOfNobody
    BY <2>4 DEF RunElectionOfNobody, LastIsLeader
  <2>5. CASE BroadcastFromNewLeader
    BY <2>5 DEF BroadcastFromNewLeader, Heartbeats, Result, IInv, ElectingLeads, LastIsLeader
  <2>6. CASE LeaderSendHeartbeat
    BY <2>6 DEF LeaderSendHeartbeat, Heartbeats, LastIsLeader, Unlocked
  <2>7. CASE UNCHANGED <<leaderId, last, electing>>
    BY <2>7 DEF LastIsLeader, Unlocked
  <2> QED
    BY <2>1, <2>2, <2>3, <2>4, <2>5, <2>6, <2>7
       DEF Next, PartitionNode, HealPartition, TimePasses, vars
<1> DEFINE Reports ==
             electing # NoNode /\ electing' = NoNode /\ last' # NoNode => leaderId' = last'
\* Only the end of an election gives the lock back.
<1>3. IInv /\ [Next]_vars => [Reports]_vars
  <2> SUFFICES ASSUME IInv, Next, electing # NoNode, electing' = NoNode, last' # NoNode
               PROVE  leaderId' = last'
    OBVIOUS
  <2>1. BroadcastFromNewLeader
    BY DEF Next, RunElection, WinElection, LoseElection, CollectVotes, CheckAndRunElections, Unlocked,
           PartitionNode, HealPartition, TimePasses, ForceNewLeader, RunElectionOfNobody,
           LeaderSendHeartbeat
  <2> QED
    BY <2>1 DEF BroadcastFromNewLeader, Heartbeats, Result, IInv, ElectingLeads
<1>4. LastIsLeader => (Unlocked /\ leaderId # NoNode => last = leaderId)
  BY DEF LastIsLeader
<1> QED
  BY <1>1, <1>2, <1>3, <1>4, Invariant, PTL DEF Spec, ResultsAreTrue
=============================================================================
