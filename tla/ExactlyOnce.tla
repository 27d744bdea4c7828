---------------------------- MODULE ExactlyOnce ----------------------------
(***************************************************************************)
(* The processor of src/src/solocoder_py/exactly_once with its message     *)
(* source, deduplication store and checkpoints.  The stores survive a      *)
(* crash; the offset of the processor and the records it has not committed *)
(* do not.  A commit writes the records and then the checkpoint, and may   *)
(* fail before, between and, when the store is full, within the two.       *)
(*                                                                         *)
(* Every operation holds the processor's lock and is a step; process_batch *)
(* and process_all are process_next repeated, and commit_checkpoint.       *)
(* Offsets count from 1 here.  A handler that raises has not handled its   *)
(* message; where it ends a call that handled others before, a step of its *)
(* own says so.  The order of the deduplication records, which only        *)
(* decides whom evict_oldest removes, and the warning about skipped        *)
(* offsets are left out.                                                   *)
(***************************************************************************)
EXTENDS Integers, Sequences, FiniteSets

CONSTANTS Ids,          \* message ids
          Interval,     \* auto_commit_interval
          MaxDedup,     \* max_size of the deduplication store
          MaxMessages,  \* bound: messages published
          MaxFaults     \* bound: crashes, commits and replays that fail, evictions

ASSUME IdsAssumption == IsFiniteSet(Ids)
ASSUME SizesAssumption == Interval \in Nat \ {0} /\ MaxDedup \in Nat \ {0}
ASSUME BoundAssumption == MaxMessages \in Nat /\ MaxFaults \in Nat

VARIABLES
  source,       \* the ids of the messages, in the order of their offsets
  dedup,        \* the ids in the deduplication store
  committed,    \* committed_offset of the latest checkpoint, 0 before it
  current,      \* _current_offset
  uncommitted,  \* the offsets of _uncommitted_records
  handled,      \* history: times the handler ran for each id
  lost,         \* history: times the record of each handled id was lost
  settled,      \* history: ids of committed batches that were not evicted
  skipped,      \* history: offsets a recovery went past with its checkpoint
  faults        \* history: crashes, commits and replays that failed, evictions

eoVars ==
  <<source, dedup, committed, current, uncommitted, handled, lost, settled, skipped, faults>>

Offsets == 1..MaxMessages

EOTypeOK ==
  /\ source \in Seq(Ids) /\ Len(source) <= MaxMessages
  /\ dedup \subseteq Ids
  /\ committed \in 0..Len(source)
  /\ current \in 0..Len(source)
  /\ uncommitted \in Seq(Offsets)
  /\ handled \in [Ids -> Nat]
  /\ lost \in [Ids -> Nat]
  /\ settled \subseteq Ids
  /\ skipped \subseteq Offsets
  /\ faults \in 0..MaxFaults

EOInit ==
  /\ source = <<>>
  /\ dedup = {}
  /\ committed = 0
  /\ current = 0
  /\ uncommitted = <<>>
  /\ handled = [i \in Ids |-> 0]
  /\ lost = [i \in Ids |-> 0]
  /\ settled = {}
  /\ skipped = {}
  /\ faults = 0

Publish(i) ==
  /\ Len(source) < MaxMessages
  /\ source' = Append(source, i)
  /\ UNCHANGED <<dedup, committed, current, uncommitted, handled, lost, settled, skipped, faults>>

IdsOf(offsets) == {source[offsets[n]] : n \in DOMAIN offsets}

\* mutation: only what has been committed is looked up
KnownCommitted(i) == i \in dedup

\* The message is a duplicate: its id is in the store or waits to be committed.
Known(i) == i \in dedup \/ i \in IdsOf(uncommitted)
-----------------------------------------------------------------------------
(* Committing.                                                              *)

\* What the store holds after put_batch of the records, which stops at the
\* first one it has no room for.
Fitting(offsets) ==
  {n \in 0..Len(offsets) : Cardinality(dedup \cup IdsOf(SubSeq(offsets, 1, n))) <= MaxDedup}
Stored(offsets) ==
  LET n == CHOOSE n \in Fitting(offsets) : \A m \in Fitting(offsets) : m <= n
  IN dedup \cup IdsOf(SubSeq(offsets, 1, n))
Fits(offsets) == Len(offsets) \in Fitting(offsets)

Outcomes == {"done", "failed before the records", "failed after the records"}

\* prepare_batch and commit_batch of the records, with the last one's offset.
Succeeds(offsets, outcome) == outcome = "done" /\ Fits(offsets)
CommitBatch(offsets, target, outcome) ==
  /\ dedup' = IF outcome = "failed before the records" THEN dedup ELSE Stored(offsets)
  /\ IF Succeeds(offsets, outcome)
     THEN /\ committed' = target
          /\ settled' = settled \cup IdsOf(offsets)
          /\ UNCHANGED faults
     ELSE /\ faults < MaxFaults
          /\ faults' = faults + 1
          /\ UNCHANGED <<committed, settled>>

\* _auto_checkpoint skips a checkpoint that would not go forward.
Advances(target) == target > committed

NoCommit == UNCHANGED <<dedup, committed, settled, faults>>

CountedOnce(count, ids) == [i \in Ids |-> IF i \in ids THEN count[i] + 1 ELSE count[i]]

\* The handler runs for the messages.
Handle(ids) == handled' = CountedOnce(handled, ids)

\* The handled messages have no record any more.
Lose(ids) == lost' = CountedOnce(lost, ids)

CommitCheckpoint(outcome) ==
  /\ uncommitted # <<>>
  /\ LET target == uncommitted[Len(uncommitted)] IN
       /\ Advances(target)
       /\ CommitBatch(uncommitted, target, outcome)
       /\ uncommitted' = IF Succeeds(uncommitted, outcome) THEN <<>> ELSE uncommitted
  /\ UNCHANGED <<source, current, handled, lost, skipped>>
-----------------------------------------------------------------------------
(* Processing.                                                              *)

\* mutation: a duplicate leaves the processor where it is
StaysAt == current

\* Where a duplicate takes the processor.
Passed == current + 1

SkipDuplicate ==
  /\ current < Len(source)
  /\ Known(source[current + 1])
  /\ current' = Passed
  /\ UNCHANGED <<source, uncommitted, handled, lost, skipped>>
  /\ NoCommit

\* A new message is handled.  It is committed with those before it when there
\* are enough of them; if that fails, the message is as if it had not been
\* processed, save for what the handler has done and what is in the store.
ProcessNew(outcome) ==
  /\ current < Len(source)
  /\ LET offset == current + 1
         records == Append(uncommitted, offset)
     IN /\ ~Known(source[offset])
        /\ Handle({source[offset]})
        /\ IF Len(records) >= Interval /\ Advances(offset)
           THEN /\ CommitBatch(records, offset, outcome)
                /\ uncommitted' = IF Succeeds(records, outcome) THEN <<>> ELSE uncommitted
                /\ current' = IF Succeeds(records, outcome) THEN offset ELSE current
                /\ Lose(IF Succeeds(records, outcome) THEN {} ELSE {source[offset]} \ dedup')
           ELSE /\ uncommitted' = records
                /\ current' = offset
                /\ NoCommit
                /\ UNCHANGED lost
  /\ UNCHANGED <<source, skipped>>

ProcessNext == SkipDuplicate \/ \E outcome \in Outcomes : ProcessNew(outcome)

\* A message anywhere is handled; the processor stays where it is.
ProcessMessageAt(offset) ==
  /\ offset \in DOMAIN source
  /\ ~Known(source[offset])
  /\ Handle({source[offset]})
  /\ uncommitted' = Append(uncommitted, offset)
  /\ UNCHANGED <<source, current, lost, skipped>>
  /\ NoCommit

\* The first message of each unknown id in the range.
NewIn(first, last) ==
  {o \in first..last : ~Known(source[o]) /\ \A p \in first..(o - 1) : source[p] # source[o]}

\* Some offsets in their order.
InOrder(offsets) ==
  CHOOSE s \in [1..Cardinality(offsets) -> offsets] :
    \A m, n \in 1..Cardinality(offsets) : m < n => s[m] < s[n]

Replayed(first, last) == InOrder(NewIn(first, last))

\* The unknown messages of a range are handled and committed by themselves;
\* records below the latest checkpoint only go to the store.  When either fails,
\* what has not come into the store is lost.
ReplayRange(first, last, outcome) ==
  LET records == Replayed(first, last)
      target == records[Len(records)]
      unsaved == IdsOf(records) \ dedup'
  IN /\ first <= last /\ last <= Len(source)
     /\ records # <<>>
     /\ Handle(IdsOf(records))
     /\ IF Advances(target)
        THEN /\ CommitBatch(records, target, outcome)
             /\ Lose(IF Succeeds(records, outcome) THEN {} ELSE unsaved)
        ELSE /\ dedup' = Stored(records)
             /\ faults < MaxFaults \/ Fits(records)
             /\ faults' = IF Fits(records) THEN faults ELSE faults + 1
             /\ settled' = settled \cup IF Fits(records) THEN IdsOf(records) ELSE {}
             /\ Lose(IF Fits(records) THEN {} ELSE unsaved)
             /\ UNCHANGED committed
     /\ UNCHANGED <<source, current, uncommitted, skipped>>

\* The handler raises at one message of the range.  Those before it have been handled,
\* and their records, which only the call had, are gone.
ReplayRaises(first, raising) ==
  LET before == {source[o] : o \in NewIn(first, raising - 1)}
  IN /\ first <= raising /\ raising <= Len(source)
     /\ raising \in NewIn(first, raising)
     /\ before # {}
     /\ faults < MaxFaults
     /\ faults' = faults + 1
     /\ Handle(before)
     /\ Lose(before)
     /\ UNCHANGED <<source, dedup, committed, current, uncommitted, settled, skipped>>
-----------------------------------------------------------------------------
\* force_evict_dedup
Evict(i) ==
  /\ i \in dedup
  /\ faults < MaxFaults
  /\ faults' = faults + 1
  /\ dedup' = dedup \ {i}
  /\ settled' = settled \ {i}
  /\ Lose({i} \ IdsOf(uncommitted))
  /\ UNCHANGED <<source, committed, current, uncommitted, handled, skipped>>

\* mutation: the recovered processor does not trust the store
Distrusted == {}

\* What a recovery keeps of the deduplication store.
Kept == dedup

\* mutation: the processor goes on behind the next message
OneFurther == IF committed < Len(source) THEN committed + 1 ELSE committed

\* Where a recovered processor stands.
Recovered == committed

\* The processor is lost and recover_or_start_fresh is called on the stores.
CrashAndRecover ==
  /\ faults < MaxFaults
  /\ faults' = faults + 1
  /\ dedup' = Kept
  /\ current' = Recovered
  /\ uncommitted' = <<>>
  /\ Lose(IdsOf(uncommitted) \ dedup)
  /\ skipped' = skipped \cup (current + 1)..committed
  /\ UNCHANGED <<source, committed, handled, settled>>

Reset ==
  /\ source' = <<>>
  /\ dedup' = {}
  /\ committed' = 0
  /\ current' = 0
  /\ uncommitted' = <<>>
  /\ handled' = [i \in Ids |-> 0]
  /\ lost' = [i \in Ids |-> 0]
  /\ settled' = {}
  /\ skipped' = {}
  /\ UNCHANGED faults

EONext ==
  \/ \E i \in Ids : Publish(i) \/ Evict(i)
  \/ ProcessNext
  \/ \E outcome \in Outcomes :
       \/ CommitCheckpoint(outcome)
       \/ \E first, last \in Offsets : ReplayRange(first, last, outcome)
  \/ \E first, raising \in Offsets : ReplayRaises(first, raising)
  \/ \E offset \in Offsets : ProcessMessageAt(offset)
  \/ CrashAndRecover
  \/ Reset

\* A consumer goes on calling process_next.
EOSpec == EOInit /\ [][EONext]_eoVars /\ WF_eoVars(ProcessNext)
-----------------------------------------------------------------------------
(* What is promised.                                                        *)

\* Every message has been handled exactly once for the record there is of it, and once
\* for each record that a failure took away: by a crash before the commit, a commit or a
\* replay that failed, or an eviction.  Nothing else makes the handler run again, in
\* any order of processing, random access and replays, and no message has a record
\* without having been handled (processor.py:226, :156, :383).
HandledOnce ==
  \A i \in Ids :
    handled[i] = lost[i] + IF i \in dedup \cup IdsOf(uncommitted) THEN 1 ELSE 0

\* No message is passed over, through crashes and commits that fail half-way,
\* but those that a recovery went past because its checkpoint was ahead of the
\* offset the processor had reached (processor.py:268, :103).
NothingSkipped == \A n \in (1..current) \ skipped : handled[source[n]] >= 1

\* A message that was committed is not handled again unless its record is
\* evicted, whatever fails and crashes later (processor.py:211).
SettledIsNotRepeated == [][\A i \in settled : handled'[i] <= handled[i]]_eoVars

\* The next message calls for a checkpoint that does not fit into the store.
Stuck ==
  /\ current < Len(source)
  /\ ~Known(source[current + 1])
  /\ LET records == Append(uncommitted, current + 1)
     IN Len(records) >= Interval /\ Advances(current + 1) /\ ~Fits(records)

\* Unless the deduplication store keeps the processor from going on, again and again, every
\* published message is handled in the end or was gone past by a recovery (store.py:254).
EverythingIsHandled ==
  <>[]~Stuck =>
    \A n \in Offsets :
      n <= Len(source) ~> \/ n > Len(source)
                          \/ handled[source[n]] >= 1
                          \/ n \in skipped

\* README.md of the package: after a crash, messages that have not been
\* processed go on as usual.
NothingIsEverSkipped == \A n \in 1..current : handled[source[n]] >= 1
=============================================================================
