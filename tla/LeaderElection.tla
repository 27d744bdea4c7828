--------------------------- MODULE LeaderElection ---------------------------
(***************************************************************************)
(* The cluster of src/src/solocoder_py/leader_election: RaftNodes that are *)
(* called in turn by a LeaderElectionCluster.  An operation runs under the *)
(* cluster's lock, partition_node and heal_partition do not: who can be    *)
(* reached is read once for the votes and once more for the heartbeats of  *)
(* a new leader, so an election is two steps.                              *)
(***************************************************************************)
EXTENDS Integers, FiniteSets

CONSTANTS N,       \* node_count
          MaxTerm  \* bound: no election is started at this term

ASSUME CountAssumption == N \in Nat \ {0}
ASSUME TermAssumption == MaxTerm \in Nat

Nodes == 0..(N - 1)
NoNode == -1
NodesOrNone == Nodes \cup {NoNode}
Terms == 0..MaxTerm

VARIABLES
  term,         \* _current_term of each node
  state,        \* _state of each node; no operation leaves a CANDIDATE behind
  votedFor,     \* _voted_for of each node
  votedTerm,    \* _voted_term of each node
  known,        \* _leader_id of each node
  due,          \* the nodes whose election timeout has passed
  partitioned,  \* _partitioned_nodes
  leaderId,     \* _leader_id of the cluster
  clusterTerm,  \* _current_term of the cluster
  last,         \* leader_id of _last_election
  electing,     \* the node that won and has not sent its heartbeats yet
  elected,      \* history: the pairs <<term, leader>> there have been
  regressed     \* history: force_new_leader chose a node that was behind

vars == <<term, state, votedFor, votedTerm, known, due, partitioned, leaderId,
          clusterTerm, last, electing, elected, regressed>>

Majority == N \div 2 + 1

TypeOK ==
  /\ term \in [Nodes -> Terms]
  /\ state \in [Nodes -> {"FOLLOWER", "LEADER"}]
  /\ votedFor \in [Nodes -> NodesOrNone]
  /\ votedTerm \in [Nodes -> Terms]
  /\ known \in [Nodes -> NodesOrNone]
  /\ due \subseteq Nodes
  /\ partitioned \subseteq Nodes
  /\ leaderId \in NodesOrNone
  /\ clusterTerm \in Terms
  /\ last \in NodesOrNone
  /\ electing \in NodesOrNone
  /\ elected \subseteq Terms \X Nodes
  /\ regressed \in BOOLEAN

Init ==
  /\ term = [n \in Nodes |-> 0]
  /\ state = [n \in Nodes |-> "FOLLOWER"]
  /\ votedFor = [n \in Nodes |-> NoNode]
  /\ votedTerm = [n \in Nodes |-> 0]
  /\ known = [n \in Nodes |-> NoNode]
  /\ due = {}
  /\ partitioned = {}
  /\ leaderId = NoNode
  /\ clusterTerm = 0
  /\ last = NoNode
  /\ electing = NoNode
  /\ elected = {}
  /\ regressed = FALSE

\* The cluster's lock is free.
Unlocked == electing = NoNode

\* get_reachable_nodes
Reachable(c) == {n \in Nodes \ {c} : n \notin partitioned /\ c \notin partitioned}

\* The largest of a set of terms.
Latest(S) == CHOOSE x \in S : \A y \in S : y <= x
-----------------------------------------------------------------------------
(* An election of candidate c, up to the heartbeats of a winner.            *)

\* The term c stands for.
Standing(c) == term[c] + 1

\* mutation: a voter does not look at whom it voted for in this term
GrantsAnyway(v, c) == term[v] <= Standing(c)

\* handle_vote_request grants the vote: the term is not behind and the voter
\* has no vote in it.
Grants(v, c) == term[v] <= Standing(c) /\ votedTerm[v] # Standing(c)

Votes(c) == {c} \cup {v \in Reachable(c) : Grants(v, c)}

HasMajority(c) == Cardinality(Votes(c)) >= Majority

\* The voters whose answer tells c of a later term.
Ahead(c) == {v \in Reachable(c) : term[v] > Standing(c)}

\* The voters whose term is raised by the request.
Behind(c) == {v \in Reachable(c) : term[v] < Standing(c)}

\* _clear_old_leader: the node that stops being the leader.
Deposed == {n \in Nodes : n = leaderId /\ state[n] = "LEADER"}

\* mutation: a voter in a new term believes in the leader of the old one
KeepsBelief(c) == Deposed

\* The nodes besides c that become followers without a leader: step_down and
\* _update_term_if_newer.
Reset(c) == Deposed \cup Behind(c)

\* The answers of the voters, which every election leaves behind.
CollectVotes(c) ==
  /\ Unlocked
  /\ Standing(c) <= MaxTerm
  /\ votedFor' = [n \in Nodes |-> IF n \in Votes(c) THEN c ELSE votedFor[n]]
  /\ votedTerm' = [n \in Nodes |-> IF n \in Votes(c) THEN Standing(c) ELSE votedTerm[n]]
  /\ due' = due \ (Reset(c) \cup {c})
  /\ term' = [n \in Nodes |->
                CASE n = c -> Latest({Standing(c)} \cup {term[v] : v \in Ahead(c)})
                  [] n \in Behind(c) -> Standing(c)
                  [] OTHER -> term[n]]
  /\ UNCHANGED <<partitioned, regressed>>

\* mutation: a candidate that learnt of a later term leads all the same
LeadsAnyway(c) == TRUE

\* become_leader: handle_vote_response has not made a follower of c.
StillCandidate(c) == Ahead(c) = {}

\* The election is won; the lock is kept for the heartbeats.  No other node
\* leads any more, so _step_down_all_other_leaders finds none.
WinElection(c) ==
  /\ CollectVotes(c)
  /\ HasMajority(c)
  /\ StillCandidate(c)
  /\ state' = [n \in Nodes |-> IF n = c THEN "LEADER" ELSE "FOLLOWER"]
  /\ known' = [n \in Nodes |-> IF n = c THEN c ELSE IF n \in Reset(c) THEN NoNode ELSE known[n]]
  /\ leaderId' = c
  /\ clusterTerm' = Standing(c)
  /\ electing' = c
  /\ elected' = elected \cup {<<Standing(c), c>>}
  /\ UNCHANGED last

\* The election is lost, or it is won at a term that is over, when
\* become_leader raises StaleTermError and no result is recorded.
LoseElection(c) ==
  /\ CollectVotes(c)
  /\ HasMajority(c) => ~StillCandidate(c)
  /\ state' = [n \in Nodes |-> IF n \in Reset(c) \cup {c} THEN "FOLLOWER" ELSE state[n]]
  /\ known' = [n \in Nodes |-> IF n \in Reset(c) \cup {c} THEN NoNode ELSE known[n]]
  /\ leaderId' = NoNode
  /\ clusterTerm' = Latest({clusterTerm, Standing(c)} \cup {term[v] : v \in Ahead(c)})
  /\ last' = IF HasMajority(c) THEN last ELSE NoNode
  /\ UNCHANGED <<electing, elected>>

\* run_election(c), run_election_random for a c that can be reached.
RunElection(c) == WinElection(c) \/ LoseElection(c)

\* run_election of an unknown node, or run_election_random when all nodes are
\* partitioned: raises, and the leader is gone.
RunElectionOfNobody ==
  /\ Unlocked
  /\ leaderId # NoNode
  /\ state' = [n \in Nodes |-> IF n \in Deposed THEN "FOLLOWER" ELSE state[n]]
  /\ known' = [n \in Nodes |-> IF n \in Deposed THEN NoNode ELSE known[n]]
  /\ due' = due \ Deposed
  /\ leaderId' = NoNode
  /\ UNCHANGED <<term, votedFor, votedTerm, partitioned, clusterTerm, last, electing,
                 elected, regressed>>

\* mutation: there has to be a leader to replace
ReplacesLeader(c) == c \in due \ partitioned /\ leaderId # NoNode

\* The nodes check_and_run_elections chooses from.
TimedOut(c) == c \in due \ partitioned /\ state[c] # "LEADER"

\* check_and_run_elections
CheckAndRunElections == \E c \in Nodes : TimedOut(c) /\ RunElection(c)
-----------------------------------------------------------------------------
(* Heartbeats of leader l, one node after the other.                        *)

Stale(l) == {n \in Reachable(l) : term[n] > term[l]}

\* The nodes that accept: those before the first that knows a later term.
Told(l) == {n \in Reachable(l) : \A m \in Stale(l) : n < m}

\* receive_heartbeat raises StaleTermError.
IsRefused(l) == Stale(l) # {}

\* The first node that refuses.
Refuser(l) == CHOOSE n \in Stale(l) : \A m \in Stale(l) : n <= m

Heartbeats(l) ==
  /\ term' = [n \in Nodes |->
                CASE n \in Told(l) -> term[l]
                  [] n = l /\ IsRefused(l) -> term[Refuser(l)]
                  [] OTHER -> term[n]]
  /\ state' = [n \in Nodes |->
                 IF n \in Told(l) \/ (n = l /\ IsRefused(l)) THEN "FOLLOWER" ELSE state[n]]
  /\ known' = [n \in Nodes |->
                 CASE n \in Told(l) -> l
                   [] n = l /\ IsRefused(l) -> NoNode
                   [] OTHER -> known[n]]
  /\ due' = due \ (Told(l) \cup {l})
  /\ leaderId' = IF IsRefused(l) THEN NoNode ELSE leaderId
  /\ UNCHANGED <<votedFor, votedTerm, partitioned, clusterTerm, elected, regressed>>

\* mutation: the result of the election is not withdrawn
StaysElected(l) == l

\* The leader the election of l reports.
Result(l) == IF IsRefused(l) THEN NoNode ELSE l

\* The rest of an election that was won.
BroadcastFromNewLeader ==
  /\ electing # NoNode
  /\ Heartbeats(electing)
  /\ last' = Result(electing)
  /\ electing' = NoNode

\* leader_send_heartbeat.  That _leader_id names a node that does not lead, a
\* case the code handles, never happens: LeaderIsKnown.
LeaderSendHeartbeat ==
  /\ Unlocked
  /\ leaderId # NoNode
  /\ Heartbeats(leaderId)
  /\ UNCHANGED <<last, electing>>
-----------------------------------------------------------------------------
PartitionNode(n) ==
  /\ partitioned' = partitioned \cup {n}
  /\ UNCHANGED <<term, state, votedFor, votedTerm, known, due, leaderId, clusterTerm,
                 last, electing, elected, regressed>>

HealPartition(n) ==
  /\ partitioned' = partitioned \ {n}
  /\ UNCHANGED <<term, state, votedFor, votedTerm, known, due, leaderId, clusterTerm,
                 last, electing, elected, regressed>>

\* The clock reaches the election timeout of n.
TimePasses(n) ==
  /\ n \notin due
  /\ due' = due \cup {n}
  /\ UNCHANGED <<term, state, votedFor, votedTerm, known, partitioned, leaderId,
                 clusterTerm, last, electing, elected, regressed>>

ForceNewLeader(n) ==
  /\ Unlocked
  /\ Standing(n) <= MaxTerm
  /\ term' = [m \in Nodes |-> Standing(n)]
  /\ state' = [m \in Nodes |-> IF m = n THEN "LEADER" ELSE "FOLLOWER"]
  /\ votedFor' = [m \in Nodes |-> n]
  /\ votedTerm' = [m \in Nodes |-> Standing(n)]
  /\ known' = [m \in Nodes |-> n]
  /\ due' = {}
  /\ leaderId' = n
  /\ clusterTerm' = Standing(n)
  /\ last' = n
  /\ elected' = elected \cup {<<Standing(n), n>>}
  /\ regressed' = (regressed \/ \E m \in Nodes : term[m] > term[n])
  /\ UNCHANGED <<partitioned, electing>>

Next ==
  \/ \E n \in Nodes :
       RunElection(n) \/ PartitionNode(n) \/ HealPartition(n) \/ TimePasses(n) \/ ForceNewLeader(n)
  \/ RunElectionOfNobody
  \/ CheckAndRunElections
  \/ BroadcastFromNewLeader
  \/ LeaderSendHeartbeat

Spec == Init /\ [][Next]_vars

\* The auto-election thread polls, time passes, and who has the lock goes on.
FairSpec ==
  /\ Spec
  /\ WF_vars(CheckAndRunElections)
  /\ WF_vars(BroadcastFromNewLeader)
  /\ \A n \in Nodes : WF_vars(TimePasses(n))
-----------------------------------------------------------------------------
(* What the cluster promises. *)

\* At any moment there is at most one leader, and the cluster knows it
\* (README item 6, cluster.py:208-230).
LeaderIsKnown ==
  /\ \A n \in Nodes : state[n] = "LEADER" => leaderId = n
  /\ leaderId # NoNode => state[leaderId] = "LEADER"

\* README item 3: whoever leads has the votes of a majority for its term, as
\* long as it leads, whatever was partitioned or overtaken in between
\* (cluster.py:162-190, node.py:80-116).
LeaderHasMajority ==
  \A n \in Nodes : state[n] = "LEADER" =>
    Cardinality({v \in Nodes : votedFor[v] = n /\ votedTerm[v] = term[n]}) >= Majority

\* A term has one leader for ever, until force_new_leader is called for a
\* node that is behind (README item 6, node.py:88-101, cluster.py:380).
OneLeaderPerTerm ==
  ~regressed => \A e, f \in elected : e[1] = f[1] => e[2] = f[2]

\* The leader a node believes in was the leader of the node's own term
\* (node.py:64-69, 124-142).
KnownLeaderWasElected == \A n \in Nodes : known[n] # NoNode => <<term[n], known[n]>> \in elected

\* README item 5: no false success and no false failure.  The last election
\* names the leader there is, and reports one only if it leads when the
\* election ends (cluster.py:225-240).
ResultsAreTrue ==
  /\ [](Unlocked /\ leaderId # NoNode => last = leaderId)
  /\ [][electing # NoNode /\ electing' = NoNode /\ last' # NoNode => leaderId' = last']_vars

\* README item 2: the auto-election thread gives a connected cluster a leader.
\* (The bound on terms ends the elections.)
LeaderlessElects ==
  leaderId = NoNode /\ partitioned = {} ~>
    \/ leaderId # NoNode
    \/ partitioned # {}
    \/ \E n \in Nodes : term[n] = MaxTerm

\* README items 1 and 6: terms are globally unique.
TermsAreUnique == \A e, f \in elected : e[1] = f[1] => e[2] = f[2]
=============================================================================
