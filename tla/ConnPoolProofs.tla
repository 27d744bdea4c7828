--------------------------- MODULE ConnPoolProofs ---------------------------
(***************************************************************************)
(* ConnPool for any number of threads and connections and any maximum      *)
(* size: type correctness, exclusive use, that nothing leaks, no lost      *)
(* notification, and that nobody else closes a connection in use.          *)
(***************************************************************************)
EXTENDS ConnPool, FiniteSetTheorems, SequenceTheorems, TLAPS

\* Connections are numbered as they are created, and every record is of such.
Numbered ==
  /\ Idle \subseteq 1..created /\ borrowed \subseteq 1..created /\ dead \subseteq 1..created
  /\ \A t \in Threads : held[t] \subseteq 1..created

\* The queue holds open connections that nobody has, each once.
QueueIsFree ==
  /\ IsInjective(idle)
  /\ Idle \cap borrowed = {}
  /\ Idle \cap dead = {}

\* A connection has one holder; while the pool is open they hold what is borrowed.
HeldByOne == \A t, u \in Threads : \A c \in held[t] : c \in held[u] => t = u
HeldIsBorrowed == ~closed => borrowed = UNION {held[t] : t \in Threads}

ClosedIsEmpty == closed => idle = <<>> /\ borrowed = {}

\* What was created is idle, borrowed or destroyed, one by one and in number.
Accounted ==
  /\ created = gone + Len(idle) + Cardinality(borrowed)
  /\ 1..created \ dead \subseteq Idle \cup borrowed

\* While a thread sleeps every idle connection has its own notified thread: one that
\* has only timed out does not count, since it may be notified for the next one.
NotifiedSuffice ==
  (\E t \in Threads : pc[t] = "asleep") =>
    Len(idle) <= Cardinality({t \in Threads : pc[t] = "notified"})

Books ==
  /\ Numbered
  /\ QueueIsFree
  /\ HeldByOne
  /\ HeldIsBorrowed
  /\ ClosedIsEmpty
  /\ Accounted

IInv == TypeOK /\ Books /\ NotifiedSuffice
-----------------------------------------------------------------------------
(* The queue.                                                               *)

\* The elements of a sequence, by their positions.
LEMMA Elements ==
  ASSUME NEW S, NEW s \in Seq(S)
  PROVE  /\ Len(s) \in Nat
         /\ ToSet(s) = {s[i] : i \in 1..Len(s)}
         /\ ToSet(s) \subseteq S
         /\ IsInjective(s) <=> \A i, j \in 1..Len(s) : s[i] = s[j] => i = j
BY DEF ToSet, IsInjective

\* The first k of a sequence of different elements are k.
LEMMA FirstCount ==
  ASSUME NEW S, NEW s \in Seq(S), IsInjective(s), NEW k \in 0..Len(s)
  PROVE  /\ IsFiniteSet({s[i] : i \in 1..k})
         /\ Cardinality({s[i] : i \in 1..k}) = k
<1> DEFINE F == {s[i] : i \in 1..k}
           f == [i \in 1..k |-> s[i]]
<1>0. Len(s) \in Nat /\ k \in Nat /\ 1..k \subseteq 1..Len(s)
  OBVIOUS
<1>1. f \in Bijection(1..k, F)
  <2>1. \A i, j \in 1..k : s[i] = s[j] => i = j
    BY <1>0, Elements
  <2>2. f \in [1..k -> F]
    OBVIOUS
  <2> QED
    BY <2>1, <2>2 DEF Bijection, Injection, Surjection, IsInjective
<1>2. ExistsBijection(1..k, F)
  BY <1>1 DEF ExistsBijection
<1>3. IsFiniteSet(F)
  BY <1>0, <1>2, FS_NatBijection
<1>4. Cardinality(F) = k
  BY <1>0, <1>2, FS_CountingElements
<1> QED
  BY <1>3, <1>4

\* What is left of the queue when its first k connections leave it.
LEMMA WithoutFirst ==
  ASSUME NEW S, NEW s \in Seq(S), IsInjective(s), NEW k \in 0..Len(s)
  PROVE  /\ SubSeq(s, k + 1, Len(s)) \in Seq(S)
         /\ Len(SubSeq(s, k + 1, Len(s))) = Len(s) - k
         /\ IsInjective(SubSeq(s, k + 1, Len(s)))
         /\ ToSet(SubSeq(s, k + 1, Len(s))) = ToSet(s) \ {s[i] : i \in 1..k}
<1> DEFINE r == SubSeq(s, k + 1, Len(s))
<1>0. Len(s) \in Nat /\ k \in Nat /\ k <= Len(s)
  OBVIOUS
<1>1. /\ r \in Seq(S) /\ Len(r) = Len(s) - k
      /\ \A i \in 1..(Len(s) - k) : r[i] = s[k + i]
  <2>1. \A i \in (k + 1)..Len(s) : s[i] \in S
    BY <1>0
  <2>2. /\ r \in Seq(S)
        /\ Len(r) = IF k + 1 <= Len(s) THEN Len(s) - (k + 1) + 1 ELSE 0
        /\ \A i \in 1..(Len(s) - (k + 1) + 1) : r[i] = s[(k + 1) + i - 1]
    BY <1>0, <2>1, SubSeqProperties
  <2> QED
    BY <1>0, <2>2
<1> HIDE DEF r
<1>2. \A i, j \in 1..Len(s) : s[i] = s[j] => i = j
  BY Elements
<1>3. IsInjective(r)
  <2>1. ASSUME NEW i \in 1..Len(r), NEW j \in 1..Len(r), r[i] = r[j] PROVE i = j
    <3>1. k + i \in 1..Len(s) /\ k + j \in 1..Len(s) /\ s[k + i] = s[k + j]
      BY <1>0, <1>1, <2>1
    <3>2. k + i = k + j
      BY <1>2, <3>1
    <3> QED
      BY <1>0, <1>1, <3>2
  <2> QED
    BY <1>1, <2>1, Elements
<1>4. ToSet(r) = ToSet(s) \ {s[i] : i \in 1..k}
  <2>1. ASSUME NEW x \in ToSet(r) PROVE x \in ToSet(s) /\ x \notin {s[i] : i \in 1..k}
    <3>1. PICK i \in 1..Len(r) : x = r[i]
      BY <1>1, Elements
    <3>2. k + i \in 1..Len(s) /\ x = s[k + i]
      BY <1>0, <1>1, <3>1
    <3>3. \A j \in 1..k : s[j] # x
      BY <1>0, <1>2, <3>2
    <3> QED
      BY <3>2, <3>3, Elements
  <2>2. ASSUME NEW x \in ToSet(s), x \notin {s[i] : i \in 1..k} PROVE x \in ToSet(r)
    <3>1. PICK i \in 1..Len(s) : x = s[i]
      BY Elements
    <3>2. i \notin 1..k
      BY <2>2, <3>1
    <3>3. i - k \in 1..Len(r) /\ r[i - k] = x
      BY <1>0, <1>1, <3>1, <3>2
    <3> QED
      BY <1>1, <3>3, Elements
  <2> QED
    BY <2>1, <2>2
<1> QED
  BY <1>1, <1>3, <1>4 DEF r

\* The queue with one connection more at its end.
LEMMA WithOneMore ==
  ASSUME NEW S, NEW s \in Seq(S), IsInjective(s), NEW c \in S, c \notin ToSet(s)
  PROVE  /\ Append(s, c) \in Seq(S)
         /\ Len(Append(s, c)) = Len(s) + 1
         /\ IsInjective(Append(s, c))
         /\ ToSet(Append(s, c)) = ToSet(s) \cup {c}
<1> DEFINE r == Append(s, c)
<1>1. /\ r \in Seq(S) /\ Len(r) = Len(s) + 1 /\ Len(s) \in Nat
      /\ \A i \in 1..Len(s) : r[i] = s[i]
      /\ r[Len(s) + 1] = c
  OBVIOUS
<1> HIDE DEF r
<1>2. \A i, j \in 1..Len(s) : s[i] = s[j] => i = j
  BY Elements
<1>3. \A i \in 1..Len(s) : s[i] # c
  BY Elements
<1>4. \A i \in 1..Len(r) : i \in 1..Len(s) \/ i = Len(s) + 1
  BY <1>1
<1>5. IsInjective(r)
  <2>1. ASSUME NEW i \in 1..Len(r), NEW j \in 1..Len(r), r[i] = r[j] PROVE i = j
    <3>1. CASE i \in 1..Len(s) /\ j \in 1..Len(s)
      BY <1>1, <1>2, <2>1, <3>1
    <3>2. CASE i \in 1..Len(s) /\ j = Len(s) + 1
      BY <1>1, <1>3, <2>1, <3>2
    <3>3. CASE i = Len(s) + 1 /\ j \in 1..Len(s)
      BY <1>1, <1>3, <2>1, <3>3
    <3> QED
      BY <1>4, <3>1, <3>2, <3>3
  <2> QED
    BY <1>1, <2>1, Elements
<1>6. ToSet(r) = ToSet(s) \cup {c}
  <2>1. ToSet(r) = {r[i] : i \in 1..Len(r)} /\ ToSet(s) = {s[i] : i \in 1..Len(s)}
    BY <1>1, Elements
  <2>2. \A i \in 1..Len(s) : i \in 1..Len(r)
    BY <1>1
  <2>3. Len(s) + 1 \in 1..Len(r)
    BY <1>1
  <2> QED
    BY <1>1, <1>4, <2>1, <2>2, <2>3
<1> QED
  BY <1>1, <1>5, <1>6 DEF r
-----------------------------------------------------------------------------
(* The books, one operation at a time.                                      *)

\* What the types and the books say of the queue and of what is borrowed.
LEMMA Facts ==
  ASSUME TypeOK, Books
  PROVE  /\ idle \in Seq(Conns) /\ Len(idle) \in Nat /\ IsInjective(idle)
         /\ created \in Nat /\ created <= MaxConns /\ gone \in Nat
         /\ IsFiniteSet(borrowed) /\ Cardinality(borrowed) \in Nat
         /\ Idle = ToSet(idle) /\ Idle \subseteq 1..created
         /\ Idle = FirstIdle(Len(idle))
         /\ \A i \in 1..Len(idle) : idle[i] \in Idle
         /\ 1..created \subseteq Conns
<1>1. idle \in Seq(Conns) /\ Len(idle) \in Nat /\ IsInjective(idle)
  BY DEF TypeOK, Books, QueueIsFree
<1>2. created \in Nat /\ created <= MaxConns /\ gone \in Nat
  BY SizeAssumption DEF TypeOK
<1>3. IsFiniteSet(1..created)
  BY <1>2, FS_Interval
<1>4. IsFiniteSet(borrowed)
  BY <1>3, FS_Subset DEF Books, Numbered
<1>5. Cardinality(borrowed) \in Nat
  BY <1>4, FS_CardinalityType
<1>6. Idle = ToSet(idle) /\ Idle = {idle[i] : i \in 1..Len(idle)}
  BY <1>1, Elements DEF Idle
<1>7. 1..created \subseteq Conns
  BY <1>2, SizeAssumption DEF Conns
<1> QED
  BY <1>1, <1>2, <1>4, <1>5, <1>6, <1>7 DEF Books, Numbered, FirstIdle

\* What the books need of the types is kept with them.
Kept == idle \in Seq(Conns) /\ gone \in Nat

\* A number of connections leave the front of the queue and are destroyed: an
\* eviction, or health checks that all fail.
LEMMA DropBooks ==
  ASSUME TypeOK, Books, ~closed, NEW k \in 0..Len(idle),
         idle' = SubSeq(idle, k + 1, Len(idle)), Destroy(FirstIdle(k)),
         UNCHANGED <<borrowed, closed, created, held>>
  PROVE  Books' /\ Kept'
<1> DEFINE F == FirstIdle(k)
<1>0. k \in Nat /\ k <= Len(idle)
  BY Facts
<1>1. /\ idle' \in Seq(Conns) /\ Len(idle') = Len(idle) - k
      /\ IsInjective(idle') /\ Idle' = Idle \ F
  BY Facts, WithoutFirst DEF Idle, FirstIdle
<1>2. Cardinality(F) = k /\ F \subseteq Idle
  <2>1. Cardinality(F) = k
    BY Facts, FirstCount DEF FirstIdle
  <2>2. F \subseteq Idle
    BY <1>0, Facts DEF FirstIdle
  <2> QED
    BY <2>1, <2>2
<1>3. dead' = dead \cup F /\ gone' = gone + k
  BY <1>2 DEF Destroy
<1> HIDE DEF F
<1>4. Numbered' /\ QueueIsFree'
  BY <1>1, <1>2, <1>3 DEF Books, Numbered, QueueIsFree
<1>5. HeldByOne' /\ HeldIsBorrowed' /\ ClosedIsEmpty'
  BY DEF Books, HeldByOne, HeldIsBorrowed, ClosedIsEmpty
<1>6. created' = gone' + Len(idle') + Cardinality(borrowed')
  BY <1>0, <1>1, <1>3, Facts DEF Books, Accounted
<1>7. 1..created' \ dead' \subseteq Idle' \cup borrowed'
  BY <1>1, <1>3 DEF Books, Accounted
<1>8. gone' \in Nat
  BY <1>0, <1>3, Facts
<1> QED
  BY <1>1, <1>4, <1>5, <1>6, <1>7, <1>8 DEF Books, Accounted, Kept

\* All that is idle has failed its check.
LEMMA NoneIdleBooks ==
  ASSUME TypeOK, Books, ~closed, NoneIdle, UNCHANGED <<borrowed, closed, created, held>>
  PROVE  Books' /\ Kept' /\ Len(idle') = 0
<1>1. Len(idle) \in 0..Len(idle) /\ SubSeq(idle, Len(idle) + 1, Len(idle)) = <<>>
  BY Facts
<1>2. /\ idle' = SubSeq(idle, Len(idle) + 1, Len(idle))
      /\ Destroy(FirstIdle(Len(idle)))
  BY <1>1, Facts DEF NoneIdle
<1>3. Len(idle') = 0
  BY DEF NoneIdle
<1> QED
  BY <1>1, <1>2, <1>3, DropBooks

\* A connection passes from the queue to its borrower, those before it are destroyed.
LEMMA BorrowIdleBooks ==
  ASSUME TypeOK, Books, NEW t \in Threads, BorrowIdle(t)
  PROVE  Books' /\ Kept' /\ Len(idle') < Len(idle)
<1>1. PICK k \in Failing :
        /\ k < Len(idle)
        /\ idle' = Popped(k)
        /\ borrowed' = borrowed \cup {idle[k + 1]}
        /\ Destroy(FirstIdle(k))
        /\ held' = [held EXCEPT ![t] = @ \cup {idle[k + 1]}]
  BY DEF BorrowIdle
<1>2. ~closed /\ ~closed' /\ created' = created
  BY DEF BorrowIdle
<1> DEFINE c == idle[k + 1]
           F == FirstIdle(k)
<1>3. k \in Nat /\ k + 1 \in 0..Len(idle) /\ k \in 0..Len(idle) /\ k + 1 \in 1..Len(idle)
  BY <1>1, Facts DEF Failing
<1>4. /\ idle' \in Seq(Conns) /\ Len(idle') = Len(idle) - (k + 1)
      /\ IsInjective(idle') /\ Idle' = Idle \ FirstIdle(k + 1)
  <2>1. idle' = SubSeq(idle, (k + 1) + 1, Len(idle))
    BY <1>1, <1>3 DEF Popped
  <2> DEFINE n == k + 1
  <2>2. n \in 0..Len(idle) /\ idle' = SubSeq(idle, n + 1, Len(idle))
    BY <1>3, <2>1
  <2> HIDE DEF n
  <2>3. /\ idle' \in Seq(Conns) /\ Len(idle') = Len(idle) - n
        /\ IsInjective(idle') /\ Idle' = Idle \ FirstIdle(n)
    BY <2>2, Facts, WithoutFirst DEF Idle, FirstIdle
  <2> QED
    BY <2>3 DEF n
<1>5. FirstIdle(k + 1) = F \cup {c} /\ c \notin F /\ c \in Idle /\ F \subseteq Idle
  <2>1. 1..(k + 1) = (1..k) \cup {k + 1} /\ 1..k \subseteq 1..Len(idle)
    BY <1>3, Facts
  <2>2. \A i \in 1..k : idle[i] # c
    <3>1. \A i, j \in 1..Len(idle) : idle[i] = idle[j] => i = j
      BY Facts, Elements
    <3> QED
      BY <1>3, <2>1, <3>1
  <2>3. F = {idle[i] : i \in 1..k} /\ FirstIdle(k + 1) = {idle[i] : i \in 1..(k + 1)}
    BY DEF FirstIdle
  <2>4. FirstIdle(k + 1) = F \cup {c}
    BY <2>1, <2>3
  <2>5. c \notin F
    BY <2>2, <2>3
  <2>6. c \in Idle /\ F \subseteq Idle
    BY <1>3, <2>1, <2>3, Facts
  <2> QED
    BY <2>4, <2>5, <2>6
<1>6. dead' = dead \cup F /\ gone' = gone + k
  BY <1>1, <1>3, Facts, FirstCount DEF Destroy, FirstIdle
<1>7. /\ held'[t] = held[t] \cup {c}
      /\ \A u \in Threads \ {t} : held'[u] = held[u]
      /\ borrowed' = borrowed \cup {c}
  BY <1>1 DEF TypeOK
<1> HIDE DEF F, c
<1>8. Numbered'
  BY <1>2, <1>4, <1>5, <1>6, <1>7 DEF Books, Numbered
<1>9. QueueIsFree'
  BY <1>4, <1>5, <1>6, <1>7 DEF Books, QueueIsFree
<1>10. HeldByOne'
  <2>1. \A u \in Threads : c \notin held[u]
    BY <1>2, <1>5 DEF Books, QueueIsFree, HeldIsBorrowed
  <2> QED
    BY <1>7, <2>1 DEF Books, HeldByOne
<1>11. HeldIsBorrowed' /\ ClosedIsEmpty'
  BY <1>2, <1>7 DEF Books, HeldIsBorrowed, ClosedIsEmpty
<1>12. created' = gone' + Len(idle') + Cardinality(borrowed')
  <2>1. c \notin borrowed
    BY <1>5 DEF Books, QueueIsFree
  <2>2. Cardinality(borrowed') = Cardinality(borrowed) + 1
    BY <1>7, <2>1, Facts, FS_AddElement
  <2>3. created = gone + Len(idle) + Cardinality(borrowed)
    BY DEF Books, Accounted
  <2>4. gone \in Nat /\ Len(idle) \in Nat /\ Cardinality(borrowed) \in Nat
    BY Facts
  <2> QED
    BY <1>2, <1>3, <1>4, <1>6, <2>2, <2>3, <2>4
<1>13. 1..created' \ dead' \subseteq Idle' \cup borrowed'
  BY <1>2, <1>4, <1>5, <1>6, <1>7 DEF Books, Accounted
<1>14. gone' \in Nat /\ Len(idle') < Len(idle)
  BY <1>3, <1>4, <1>6, Facts
<1> QED
  BY <1>4, <1>8, <1>9, <1>10, <1>11, <1>12, <1>13, <1>14 DEF Books, Accounted, Kept

\* A new connection is its creator's.
LEMMA BorrowNewBooks ==
  ASSUME TypeOK, Books, NEW t \in Threads, BorrowNew(t)
  PROVE  Books' /\ Kept' /\ Len(idle') = 0
<1> DEFINE c == created + 1
<1>1. /\ ~closed /\ ~closed' /\ created < MaxConns /\ created' = c
      /\ idle' = <<>> /\ dead' = dead \cup Idle /\ gone' = gone + Cardinality(Idle)
      /\ borrowed' = borrowed \cup {c}
      /\ held' = [held EXCEPT ![t] = @ \cup {c}]
  BY DEF BorrowNew, Destroy
<1>2. /\ held'[t] = held[t] \cup {c}
      /\ \A u \in Threads \ {t} : held'[u] = held[u]
  BY <1>1 DEF TypeOK
<1>3. 1..created' = (1..created) \cup {c} /\ c \notin 1..created
  BY <1>1, Facts
<1>4. Cardinality(Idle) = Len(idle)
  <2>1. Len(idle) \in 0..Len(idle)
    BY Facts
  <2> QED
    BY <2>1, Facts, FirstCount DEF FirstIdle
<1>5. Len(idle') = 0 /\ idle' \in Seq(Conns) /\ IsInjective(idle') /\ Idle' = {}
  BY <1>1 DEF IsInjective, Idle, ToSet
<1>6. Numbered'
  BY <1>1, <1>2, <1>3, <1>5, Facts DEF Books, Numbered
<1>7. QueueIsFree'
  BY <1>5 DEF QueueIsFree
<1>8. HeldByOne'
  BY <1>2, <1>3 DEF Books, HeldByOne, Numbered
<1>9. HeldIsBorrowed' /\ ClosedIsEmpty'
  BY <1>1, <1>2 DEF Books, HeldIsBorrowed, ClosedIsEmpty
<1>10. created' = gone' + Len(idle') + Cardinality(borrowed')
  <2>1. c \notin borrowed
    BY <1>3 DEF Books, Numbered
  <2>2. Cardinality(borrowed') = Cardinality(borrowed) + 1
    BY <1>1, <2>1, Facts, FS_AddElement
  <2> QED
    BY <1>1, <1>4, <1>5, <2>2, Facts DEF Books, Accounted
<1>11. 1..created' \ dead' \subseteq Idle' \cup borrowed'
  BY <1>1, <1>3, <1>5 DEF Books, Accounted
<1>12. gone' \in Nat
  BY <1>1, <1>4, Facts
<1> QED
  BY <1>5, <1>6, <1>7, <1>8, <1>9, <1>10, <1>11, <1>12 DEF Books, Accounted, Kept

\* What HandBack does to the holders.
LEMMA HandsBack ==
  ASSUME TypeOK, Books, NEW t \in Threads, NEW c \in Conns, HandBack(t, c)
  PROVE  /\ \A u \in Threads : held'[u] = held[u] \ {c}
         /\ HeldByOne'
         /\ \A u \in Threads : held'[u] \subseteq 1..created
         /\ \A x : (\E u \in Threads : x \in held'[u])
                    <=> (\E u \in Threads : x \in held[u]) /\ x # c
<1>1. \A u \in Threads : held'[u] = held[u] \ {c}
  <2>1. /\ held'[t] = held[t] \ {c}
        /\ \A u \in Threads \ {t} : held'[u] = held[u]
    BY DEF HandBack, TypeOK
  <2>2. \A u \in Threads \ {t} : c \notin held[u]
    BY DEF HandBack, Books, HeldByOne
  <2> QED
    BY <2>1, <2>2
<1>2. HeldByOne'
  BY <1>1 DEF Books, HeldByOne
<1>3. \A u \in Threads : held'[u] \subseteq 1..created
  BY <1>1 DEF Books, Numbered
<1>4. \A x : (\E u \in Threads : x \in held'[u]) <=> (\E u \in Threads : x \in held[u]) /\ x # c
  BY <1>1
<1> QED
  BY <1>1, <1>2, <1>3, <1>4

\* A connection that is not kept goes from its holder to the destroyed ones.
LEMMA ReturnDeadBooks ==
  ASSUME TypeOK, Books, NEW t \in Threads, NEW c \in Conns, ReturnDead(t, c)
  PROVE  Books' /\ Kept'
<1>1. /\ c \in borrowed /\ HandBack(t, c)
      /\ borrowed' = borrowed \ {c}
      /\ dead' = dead \cup {c} /\ gone' = gone + 1
      /\ idle' = idle /\ Idle' = Idle /\ closed' = closed /\ created' = created
  BY FS_Singleton DEF ReturnDead, Destroy, Idle
<1>2. Numbered'
  BY <1>1, HandsBack DEF Books, Numbered
<1>3. QueueIsFree'
  BY <1>1 DEF Books, QueueIsFree
<1>4. HeldByOne' /\ HeldIsBorrowed'
  BY <1>1, HandsBack DEF Books, HeldIsBorrowed
<1>5. ClosedIsEmpty'
  BY <1>1 DEF Books, ClosedIsEmpty
<1>6. created' = gone' + Len(idle') + Cardinality(borrowed')
  <2>1. Cardinality(borrowed') = Cardinality(borrowed) - 1
    BY <1>1, Facts, FS_RemoveElement
  <2> QED
    BY <1>1, <2>1, Facts DEF Books, Accounted
<1>7. 1..created' \ dead' \subseteq Idle' \cup borrowed'
  BY <1>1 DEF Books, Accounted
<1>8. Kept'
  BY <1>1, Facts DEF Kept
<1> QED
  BY <1>2, <1>3, <1>4, <1>5, <1>6, <1>7, <1>8 DEF Books, Accounted

\* A connection that is kept goes from its holder to the end of the queue.
LEMMA ReturnAliveBooks ==
  ASSUME TypeOK, Books, NEW t \in Threads, NEW c \in Conns, ReturnAlive(t, c)
  PROVE  Books' /\ Kept' /\ Len(idle') = Len(idle) + 1
<1>1. /\ c \in borrowed /\ c \notin dead /\ HandBack(t, c)
      /\ borrowed' = borrowed \ {c}
      /\ dead' = dead /\ gone' = gone
      /\ idle' = Append(idle, c) /\ closed' = closed /\ created' = created
  BY DEF ReturnAlive
<1>2. c \notin Idle /\ c \in 1..created
  BY <1>1 DEF Books, QueueIsFree, Numbered
<1>3. /\ idle' \in Seq(Conns) /\ Len(idle') = Len(idle) + 1
      /\ IsInjective(idle') /\ Idle' = Idle \cup {c}
  BY <1>1, <1>2, Facts, WithOneMore DEF Idle
<1>4. Numbered'
  BY <1>1, <1>2, <1>3, HandsBack DEF Books, Numbered
<1>5. QueueIsFree'
  BY <1>1, <1>3 DEF Books, QueueIsFree
<1>6. HeldByOne' /\ HeldIsBorrowed'
  BY <1>1, HandsBack DEF Books, HeldIsBorrowed
<1>7. ClosedIsEmpty'
  BY <1>1 DEF Books, ClosedIsEmpty
<1>8. created' = gone' + Len(idle') + Cardinality(borrowed')
  <2>1. Cardinality(borrowed') = Cardinality(borrowed) - 1
    BY <1>1, Facts, FS_RemoveElement
  <2>2. created = gone + Len(idle) + Cardinality(borrowed)
    BY DEF Books, Accounted
  <2>3. gone \in Nat /\ Len(idle) \in Nat /\ Cardinality(borrowed) \in Nat
    BY Facts
  <2> QED
    BY <1>1, <1>3, <2>1, <2>2, <2>3
<1>9. 1..created' \ dead' \subseteq Idle' \cup borrowed'
  BY <1>1, <1>3 DEF Books, Accounted
<1> QED
  BY <1>1, <1>3, <1>4, <1>5, <1>6, <1>7, <1>8, <1>9, Facts DEF Books, Accounted, Kept

\* After close() a return only takes the connection from its holder.
LEMMA ReturnLateBooks ==
  ASSUME TypeOK, Books, NEW t \in Threads, NEW c \in Conns, ReturnLate(t, c)
  PROVE  Books' /\ Kept'
<1>1. /\ closed /\ HandBack(t, c) /\ Idle' = Idle
      /\ UNCHANGED <<idle, borrowed, closed, dead, created, gone>>
  BY DEF ReturnLate, Idle
<1>2. Numbered' /\ QueueIsFree'
  BY <1>1, HandsBack DEF Books, Numbered, QueueIsFree
<1>3. HeldByOne' /\ HeldIsBorrowed' /\ ClosedIsEmpty'
  BY <1>1, HandsBack DEF Books, HeldIsBorrowed, ClosedIsEmpty
<1> QED
  BY <1>1, <1>2, <1>3, Facts DEF Books, Accounted, Kept

\* A holder's connection is not in the queue when its holder closes it.
LEMMA HolderClosesBooks ==
  ASSUME TypeOK, Books, NEW t \in Threads, NEW c \in Conns, HolderCloses(t, c)
  PROVE  Books' /\ Kept'
<1>1. /\ c \in held[t] /\ dead' = dead \cup {c} /\ Idle' = Idle
      /\ UNCHANGED <<idle, borrowed, closed, created, gone, held>>
  BY DEF HolderCloses, Idle
<1>2. c \notin Idle
  <2>1. CASE closed
    BY <2>1 DEF Books, ClosedIsEmpty, Idle, ToSet
  <2>2. CASE ~closed
    BY <1>1, <2>2 DEF Books, HeldIsBorrowed, QueueIsFree
  <2> QED
    BY <2>1, <2>2
<1>3. Numbered' /\ QueueIsFree'
  BY <1>1, <1>2 DEF Books, Numbered, QueueIsFree
<1>4. HeldByOne' /\ HeldIsBorrowed' /\ ClosedIsEmpty'
  BY <1>1 DEF Books, HeldByOne, HeldIsBorrowed, ClosedIsEmpty
<1>5. Accounted'
  BY <1>1 DEF Books, Accounted
<1> QED
  BY <1>1, <1>3, <1>4, <1>5, Facts DEF Books, Kept

\* close() destroys what is idle and what is borrowed.
LEMMA CloseBooks ==
  ASSUME TypeOK, Books, Close
  PROVE  Books' /\ Kept' /\ Len(idle') = 0
<1>1. /\ closed' /\ idle' = <<>> /\ borrowed' = {} /\ created' = created /\ held' = held
      /\ dead' = dead \cup (Idle \cup borrowed)
      /\ gone' = gone + Cardinality(Idle \cup borrowed)
  BY DEF Close, Destroy, ClosedWithPool
<1>2. Cardinality(Idle \cup borrowed) = Len(idle) + Cardinality(borrowed)
  <2>1. Len(idle) \in 0..Len(idle)
    BY Facts
  <2>2. IsFiniteSet(Idle) /\ Cardinality(Idle) = Len(idle)
    BY <2>1, Facts, FirstCount DEF FirstIdle
  <2>3. Idle \cap borrowed = {}
    BY DEF Books, QueueIsFree
  <2>4. Cardinality(Idle \cap borrowed) = 0
    BY <2>3, FS_EmptySet
  <2>5. Cardinality(Idle \cup borrowed) =
          Cardinality(Idle) + Cardinality(borrowed) - Cardinality(Idle \cap borrowed)
    BY <2>2, Facts, FS_Union
  <2> QED
    BY <2>2, <2>4, <2>5, Facts
<1>3. Len(idle') = 0 /\ idle' \in Seq(Conns) /\ IsInjective(idle') /\ Idle' = {}
  BY <1>1 DEF IsInjective, Idle, ToSet
<1>4. Numbered' /\ QueueIsFree'
  BY <1>1, <1>3, Facts DEF Books, Numbered, QueueIsFree
<1>5. HeldByOne' /\ HeldIsBorrowed' /\ ClosedIsEmpty'
  BY <1>1 DEF Books, HeldByOne, HeldIsBorrowed, ClosedIsEmpty
<1>6. created' = gone' + Len(idle') + Cardinality(borrowed') /\ gone' \in Nat
  BY <1>1, <1>2, <1>3, Facts, FS_EmptySet DEF Books, Accounted
<1>7. 1..created' \ dead' \subseteq Idle' \cup borrowed'
  BY <1>1 DEF Books, Accounted
<1> QED
  BY <1>3, <1>4, <1>5, <1>6, <1>7 DEF Books, Accounted, Kept

\* The books balance after every operation.
LEMMA BooksStep == TypeOK /\ Books /\ [Next]_vars => Books' /\ Kept'
<1> SUFFICES ASSUME TypeOK, Books, [Next]_vars PROVE Books' /\ Kept'
  OBVIOUS
\* Steps of the waiting threads among themselves.
<1>a. ASSUME UNCHANGED <<idle, borrowed, closed, dead, created, gone, held>>
      PROVE  Books' /\ Kept'
  BY <1>a, Facts DEF Books, Numbered, QueueIsFree, HeldByOne, HeldIsBorrowed, ClosedIsEmpty,
                     Accounted, Idle, Kept
<1>1. ASSUME NEW t \in Threads,
             BorrowIdle(t) \/ BorrowNew(t) \/ StartWaiting(t) \/ FailAtOnce(t)
             \/ WaitAgain(t) \/ GiveUp(t) \/ FindClosed(t) \/ Expire(t)
      PROVE  Books' /\ Kept'
  <2>1. CASE BorrowIdle(t)
    BY <2>1, BorrowIdleBooks
  <2>2. CASE BorrowNew(t)
    BY <2>2, BorrowNewBooks
  <2>3. CASE StartWaiting(t)
    BY <2>3, NoneIdleBooks DEF StartWaiting
  <2>4. CASE FailAtOnce(t)
    BY <2>4, NoneIdleBooks DEF FailAtOnce
  <2>5. CASE WaitAgain(t)
    BY <2>5, NoneIdleBooks DEF WaitAgain
  <2>6. CASE GiveUp(t)
    BY <2>6, NoneIdleBooks DEF GiveUp
  <2>7. CASE FindClosed(t)
    BY <1>a, <2>7 DEF FindClosed
  <2>8. CASE Expire(t)
    BY <1>a, <2>8 DEF Expire
  <2> QED
    BY <1>1, <2>1, <2>2, <2>3, <2>4, <2>5, <2>6, <2>7, <2>8
<1>2. ASSUME NEW t \in Threads, NEW c \in Conns,
             ReturnDead(t, c) \/ ReturnAlive(t, c) \/ ReturnLate(t, c) \/ HolderCloses(t, c)
      PROVE  Books' /\ Kept'
  BY <1>2, ReturnDeadBooks, ReturnAliveBooks, ReturnLateBooks, HolderClosesBooks
<1>3. CASE Evict
  <2>1. PICK k \in 1..Len(idle) : idle' = AfterEviction(k) /\ Destroy(FirstIdle(k))
    BY <1>3 DEF Evict
  <2>2. k \in 0..Len(idle) /\ ~closed /\ UNCHANGED <<borrowed, closed, created, held>>
    BY <1>3 DEF Evict
  <2> QED
    BY <2>1, <2>2, DropBooks DEF AfterEviction
<1>4. CASE Close
  BY <1>4, CloseBooks
<1>5. CASE UNCHANGED vars
  BY <1>a, <1>5 DEF vars
<1> QED
  BY <1>1, <1>2, <1>3, <1>4, <1>5 DEF Next
-----------------------------------------------------------------------------
(* The types.                                                               *)

\* A notification goes to a listed thread, or to none when none sleeps.
LEMMA Notifies ==
  ASSUME TypeOK, pc' \in Notified
  PROVE  \/ UNCHANGED pc /\ \A u \in Threads : pc[u] # "asleep"
         \/ \E t \in Threads : pc[t] \in {"asleep", "expired"} /\ pc' = [pc EXCEPT ![t] = "notified"]
BY DEF Notified

\* Every step keeps the types of what the books do not keep.
LEMMA OthersStep ==
  TypeOK /\ Books /\ [Next]_vars =>
    /\ borrowed' \subseteq Conns /\ all' \subseteq Conns /\ closed' \in BOOLEAN
    /\ created' \in 0..MaxConns /\ held' \in [Threads -> SUBSET Conns]
    /\ pc' \in [Threads -> {"out"} \cup Waiting] /\ late' \subseteq Threads
<1> DEFINE Others == /\ borrowed \subseteq Conns /\ all \subseteq Conns /\ closed \in BOOLEAN
                     /\ created \in 0..MaxConns /\ held \in [Threads -> SUBSET Conns]
                     /\ pc \in [Threads -> {"out"} \cup Waiting] /\ late \subseteq Threads
<1> SUFFICES ASSUME TypeOK, Books, [Next]_vars PROVE Others'
  OBVIOUS
<1>0. Others /\ {"asleep", "expired", "notified"} = Waiting
  BY DEF TypeOK, Waiting
<1>a. \A i \in 1..Len(idle) : idle[i] \in Conns
  BY DEF TypeOK
<1>b. pc' \in Notified => pc' \in [Threads -> {"out"} \cup Waiting]
  BY <1>0, Notifies
<1>1. ASSUME NEW t \in Threads, BorrowIdle(t) PROVE Others'
  <2>1. PICK k \in Failing :
          /\ k < Len(idle)
          /\ borrowed' = borrowed \cup {idle[k + 1]}
          /\ all' = all \ FirstIdle(k + 1)
          /\ held' = [held EXCEPT ![t] = @ \cup {idle[k + 1]}]
    BY <1>1 DEF BorrowIdle
  <2>2. idle[k + 1] \in Conns
    BY <1>a, <2>1, Facts DEF Failing
  <2>3. /\ pc' = [pc EXCEPT ![t] = "out"] /\ late' = late \ {t}
        /\ UNCHANGED <<closed, created>>
    BY <1>1 DEF BorrowIdle, Leave
  <2> QED
    BY <1>0, <2>1, <2>2, <2>3
<1>2. ASSUME NEW t \in Threads, BorrowNew(t) PROVE Others'
  <2>1. created + 1 \in Conns /\ created + 1 \in 0..MaxConns
    BY <1>2, Facts, SizeAssumption DEF BorrowNew, Conns
  <2> QED
    BY <1>0, <1>2, <2>1 DEF BorrowNew
<1>3. ASSUME NEW t \in Threads,
             StartWaiting(t) \/ FailAtOnce(t) \/ WaitAgain(t) \/ GiveUp(t)
             \/ FindClosed(t) \/ Expire(t)
      PROVE  Others'
  BY <1>0, <1>3 DEF StartWaiting, FailAtOnce, WaitAgain, GiveUp, FindClosed, Expire, TimedOut,
                    NoneIdle, Leave
<1>4. ASSUME NEW t \in Threads, NEW c \in Conns,
             ReturnDead(t, c) \/ ReturnAlive(t, c) \/ ReturnLate(t, c) \/ HolderCloses(t, c)
      PROVE  Others'
  BY <1>0, <1>b, <1>4 DEF ReturnDead, ReturnAlive, ReturnLate, HolderCloses, HandBack
<1>5. CASE Evict
  BY <1>0, <1>5 DEF Evict
<1>6. CASE Close
  BY <1>0, <1>6 DEF Close
<1>7. CASE UNCHANGED vars
  BY <1>0, <1>7 DEF vars
<1> QED
  BY <1>1, <1>2, <1>3, <1>4, <1>5, <1>6, <1>7 DEF Next

\* The counters stay within their bounds because the books balance.
LEMMA TypeStep == TypeOK /\ Books /\ [Next]_vars => TypeOK'
<1> SUFFICES ASSUME TypeOK, Books, [Next]_vars PROVE TypeOK'
  OBVIOUS
<1>1. Books' /\ idle' \in Seq(Conns) /\ gone' \in Nat
  BY BooksStep DEF Kept
<1>2. created' \in 0..MaxConns
  BY OthersStep
<1>3. dead' \subseteq Conns /\ borrowed' \subseteq 1..created'
  BY <1>1, <1>2, SizeAssumption DEF Books, Numbered, Conns
<1>4. gone' \in 0..MaxConns
  <2>1. IsFiniteSet(1..created')
    BY <1>2, SizeAssumption, FS_Interval
  <2>2. Cardinality(borrowed') \in Nat
    BY <1>3, <2>1, FS_Subset, FS_CardinalityType
  <2>3. Len(idle') \in Nat
    BY <1>1
  <2>4. created' = gone' + Len(idle') + Cardinality(borrowed')
    BY <1>1 DEF Books, Accounted
  <2> QED
    BY <1>1, <1>2, <2>2, <2>3, <2>4, SizeAssumption
<1> QED
  BY <1>1, <1>2, <1>3, <1>4, OthersStep DEF TypeOK
-----------------------------------------------------------------------------
(* The notifications.                                                       *)

\* The threads that have been notified and have not gone on yet.
Told == {t \in Threads : pc[t] = "notified"}

\* The notified threads can be counted.
LEMMA ToldCount == IsFiniteSet(Told) /\ Cardinality(Told) \in Nat
<1>1. Told \subseteq Threads
  BY DEF Told
<1>2. IsFiniteSet(Told)
  BY <1>1, ThreadsAssumption, FS_Subset
<1> QED
  BY <1>2, FS_CardinalityType

\* An idle connection is added only with a notification, and a notified thread goes on
\* only with a connection or when none is left.
LEMMA NotifiedStep == IInv /\ [Next]_vars => NotifiedSuffice'
<1> SUFFICES ASSUME IInv, [Next]_vars PROVE NotifiedSuffice'
  OBVIOUS
<1>0. TypeOK /\ Books /\ NotifiedSuffice
  BY DEF IInv
<1>a. Len(idle) \in Nat
  BY <1>0, Facts
<1>b. IsFiniteSet(Told) /\ Cardinality(Told) \in Nat
  BY ToldCount
<1>c. IsFiniteSet(Told') /\ Cardinality(Told') \in Nat
  <2>1. Told' \subseteq Threads
    BY DEF Told
  <2>2. IsFiniteSet(Told')
    BY <2>1, ThreadsAssumption, FS_Subset
  <2> QED
    BY <2>2, FS_CardinalityType
\* Nothing is idle after the step.
<1>d. ASSUME Len(idle') = 0 PROVE NotifiedSuffice'
  BY <1>c, <1>d DEF NotifiedSuffice, Told
\* Nothing is added, nobody falls asleep, and who is notified stays so.
<1>e. ASSUME Len(idle') = Len(idle), Told \subseteq Told',
             \A u \in Threads : pc'[u] = "asleep" => pc[u] = "asleep"
      PROVE  NotifiedSuffice'
  <2>1. Cardinality(Told) <= Cardinality(Told')
    BY <1>c, <1>e, FS_Subset
  <2> QED
    BY <1>0, <1>a, <1>b, <1>c, <1>e, <2>1 DEF NotifiedSuffice, Told
\* A notification while somebody sleeps tells one thread more.
<1>f. ASSUME pc' \in Notified, NEW s \in Threads, pc'[s] = "asleep"
      PROVE  /\ pc[s] = "asleep"
             /\ Cardinality(Told') = Cardinality(Told) + 1
  <2>1. pc[s] = "asleep"
    BY <1>0, <1>f, Notifies DEF TypeOK
  <2>2. PICK t \in Threads : /\ pc[t] \in {"asleep", "expired"}
                            /\ pc' = [pc EXCEPT ![t] = "notified"]
    BY <1>0, <1>f, <2>1, Notifies
  <2>3. Told' = Told \cup {t} /\ t \notin Told
    BY <1>0, <2>2 DEF Told, TypeOK
  <2> QED
    BY <1>b, <2>1, <2>3, FS_AddElement
<1>1. ASSUME NEW t \in Threads, BorrowIdle(t) PROVE NotifiedSuffice'
  <2>1. Len(idle') < Len(idle) /\ Len(idle') \in Nat
    BY <1>0, <1>1, BorrowIdleBooks DEF Kept
  <2>2. pc' = [pc EXCEPT ![t] = "out"]
    BY <1>1 DEF BorrowIdle, Leave
  <2>3. Told' = Told \ {t} /\ \A u \in Threads : pc'[u] = "asleep" => pc[u] = "asleep"
    BY <1>0, <2>2 DEF Told, TypeOK
  <2>4. Cardinality(Told') >= Cardinality(Told) - 1
    <3>1. Cardinality(Told \ {t}) >= Cardinality(Told) - 1
      BY <1>b, FS_RemoveElement
    <3> QED
      BY <2>3, <3>1
  <2> QED
    BY <1>0, <1>a, <1>b, <1>c, <2>1, <2>3, <2>4 DEF NotifiedSuffice, Told
<1>2. ASSUME NEW t \in Threads, BorrowNew(t) PROVE NotifiedSuffice'
  BY <1>0, <1>2, <1>d, BorrowNewBooks
<1>3. ASSUME NEW t \in Threads, StartWaiting(t) \/ FailAtOnce(t) \/ WaitAgain(t) \/ GiveUp(t)
      PROVE  NotifiedSuffice'
  <2>1. NoneIdle
    BY <1>3 DEF StartWaiting, FailAtOnce, WaitAgain, GiveUp
  <2> QED
    BY <1>d, <2>1 DEF NoneIdle
<1>4. ASSUME NEW t \in Threads, FindClosed(t) PROVE NotifiedSuffice'
  BY <1>0, <1>4, <1>d DEF FindClosed, Books, ClosedIsEmpty
<1>5. ASSUME NEW t \in Threads, Expire(t) PROVE NotifiedSuffice'
  <2>1. pc' = [pc EXCEPT ![t] = TimedOut(t)] /\ idle' = idle
    BY <1>5 DEF Expire
  <2>2. Told \subseteq Told' /\ \A u \in Threads : pc'[u] = "asleep" => pc[u] = "asleep"
    BY <1>0, <2>1 DEF Told, TypeOK, TimedOut
  <2> QED
    BY <1>e, <2>1, <2>2
<1>6. ASSUME NEW t \in Threads, NEW c \in Conns, ReturnDead(t, c) PROVE NotifiedSuffice'
  <2>1. pc' \in Notified /\ idle' = idle
    BY <1>6 DEF ReturnDead
  <2>2. ASSUME NEW s \in Threads, pc'[s] = "asleep" PROVE Len(idle') <= Cardinality(Told')
    <3>1. pc[s] = "asleep" /\ Cardinality(Told') = Cardinality(Told) + 1
      BY <1>f, <2>1, <2>2
    <3>2. Len(idle) <= Cardinality(Told)
      BY <1>0, <3>1 DEF NotifiedSuffice, Told
    <3> QED
      BY <1>a, <1>b, <2>1, <3>1, <3>2
  <2> QED
    BY <2>2 DEF NotifiedSuffice, Told
<1>7. ASSUME NEW t \in Threads, NEW c \in Conns, ReturnAlive(t, c) PROVE NotifiedSuffice'
  <2>1. pc' \in Notified
    BY <1>7 DEF ReturnAlive
  <2>2. Len(idle') = Len(idle) + 1
    BY <1>0, <1>7, ReturnAliveBooks
  <2>3. ASSUME NEW s \in Threads, pc'[s] = "asleep" PROVE Len(idle') <= Cardinality(Told')
    <3>1. pc[s] = "asleep" /\ Cardinality(Told') = Cardinality(Told) + 1
      BY <1>f, <2>1, <2>3
    <3>2. Len(idle) <= Cardinality(Told)
      BY <1>0, <3>1 DEF NotifiedSuffice, Told
    <3> QED
      BY <1>a, <1>b, <2>2, <3>1, <3>2
  <2> QED
    BY <2>3 DEF NotifiedSuffice, Told
<1>8. ASSUME NEW t \in Threads, NEW c \in Conns, ReturnLate(t, c) \/ HolderCloses(t, c)
      PROVE  NotifiedSuffice'
  <2>1. UNCHANGED <<idle, pc>>
    BY <1>8 DEF ReturnLate, HolderCloses
  <2> QED
    BY <1>0, <2>1 DEF NotifiedSuffice
<1>9. CASE Evict
  <2>1. PICK k \in 1..Len(idle) : idle' = SubSeq(idle, k + 1, Len(idle))
    BY <1>9 DEF Evict, AfterEviction
  <2>2. Len(idle') <= Len(idle) /\ Len(idle') \in Nat
    <3>1. k \in 0..Len(idle)
      OBVIOUS
    <3>2. Len(SubSeq(idle, k + 1, Len(idle))) = Len(idle) - k
      BY <1>0, <3>1, Facts, WithoutFirst
    <3> QED
      BY <1>a, <2>1, <3>1, <3>2
  <2>3. UNCHANGED pc
    BY <1>9 DEF Evict
  <2> QED
    BY <1>0, <1>a, <1>b, <2>2, <2>3 DEF NotifiedSuffice, Told
<1>10. CASE Close
  BY <1>0, <1>10, <1>d, CloseBooks
<1>11. CASE UNCHANGED vars
  BY <1>0, <1>11 DEF vars, NotifiedSuffice
<1> QED
  BY <1>1, <1>2, <1>3, <1>4, <1>5, <1>6, <1>7, <1>8, <1>9, <1>10, <1>11 DEF Next
-----------------------------------------------------------------------------
\* A pool without connections and calls is in the invariant.
LEMMA InitHolds == Init => IInv
<1> SUFFICES ASSUME Init PROVE IInv
  OBVIOUS
<1>1. /\ idle = <<>> /\ borrowed = {} /\ dead = {} /\ created = 0 /\ gone = 0 /\ ~closed
      /\ Idle = {} /\ Len(idle) = 0 /\ idle \in Seq(Conns)
  BY DEF Init, Idle, ToSet
<1>2. TypeOK
  <2>1. 0 \in 0..MaxConns
    BY SizeAssumption
  <2>2. held \in [Threads -> SUBSET Conns] /\ pc \in [Threads -> {"out"} \cup Waiting]
    BY DEF Init
  <2>3. all = {} /\ late = {} /\ closed \in BOOLEAN
    BY DEF Init
  <2> QED
    BY <1>1, <2>1, <2>2, <2>3 DEF TypeOK
<1>3. Cardinality(borrowed) = 0
  BY <1>1, FS_EmptySet
<1>4. Numbered /\ QueueIsFree /\ Accounted
  BY <1>1, <1>3 DEF Init, Numbered, QueueIsFree, IsInjective, Accounted
<1>5. HeldByOne /\ HeldIsBorrowed /\ ClosedIsEmpty
  BY <1>1 DEF Init, HeldByOne, HeldIsBorrowed, ClosedIsEmpty
<1>6. NotifiedSuffice
  BY DEF Init, NotifiedSuffice
<1> QED
  BY <1>2, <1>4, <1>5, <1>6 DEF IInv, Books

\* What the steps preserve.
LEMMA Invariance == Spec => []IInv
<1>1. IInv /\ [Next]_vars => IInv'
  BY BooksStep, TypeStep, NotifiedStep DEF IInv
<1> QED
  BY <1>1, InitHolds, PTL DEF Spec

\* Every variable of the pool keeps its type, and the counters their bounds.
THEOREM TypeCorrect == Spec => []TypeOK
<1>1. IInv => TypeOK
  BY DEF IInv
<1> QED
  BY <1>1, Invariance, PTL

\* An open connection is idle once or borrowed by one thread, for any number of threads
\* and connections (pool.py:139-177, 198-230).
THEOREM OneUser == Spec => []ExclusiveUse
<1>1. IInv => ExclusiveUse
  <2> SUFFICES ASSUME IInv PROVE ExclusiveUse
    OBVIOUS
  <2>1. \A c \in Conns : Cardinality({t \in Threads : c \in held[t]}) <= 1
    <3> TAKE c \in Conns
    <3> DEFINE H == {t \in Threads : c \in held[t]}
    <3>1. \A t, u \in H : t = u
      BY DEF IInv, Books, HeldByOne
    <3>2. \A S : (\A x, y \in S : x = y) => Cardinality(S) <= 1
      <4> TAKE S
      <4> HAVE \A x, y \in S : x = y
      <4>1. S = {} \/ \E x : S = {x}
        OBVIOUS
      <4>2. Cardinality({}) = 0
        BY FS_EmptySet
      <4>3. \A x : Cardinality({x}) = 1
        BY FS_Singleton
      <4>4. CASE S = {}
        BY <4>2, <4>4
      <4>5. CASE \E x : S = {x}
        BY <4>3, <4>5
      <4> QED
        BY <4>1, <4>4, <4>5
    <3> QED
      BY <3>1, <3>2
  <2> QED
    BY <2>1 DEF IInv, Books, QueueIsFree, HeldIsBorrowed, ExclusiveUse
<1> QED
  BY <1>1, Invariance, PTL

\* Every connection that was created is idle, borrowed or destroyed, also after close(),
\* however many there are (pool.py:192-196, 268-285).
THEOREM NoConnectionLeaks == Spec => []NothingLeaks
<1>1. IInv => NothingLeaks
  BY DEF IInv, Books, Accounted, QueueIsFree, NothingLeaks
<1> QED
  BY <1>1, Invariance, PTL

\* No notification is lost, for any number of threads (pool.py:130-137, 217-230): while
\* a thread sleeps, every idle connection has a thread of its own on the way to it.
THEOREM NotificationsArrive == Spec => []NoIdleWhileAllSleep
<1>1. IInv => NoIdleWhileAllSleep
  <2> SUFFICES ASSUME IInv, \E t \in Threads : pc[t] = "asleep"
               PROVE  Len(idle) <= Cardinality({t \in Threads : Resumed(t)})
    BY DEF NoIdleWhileAllSleep
  <2> DEFINE R == {t \in Threads : Resumed(t)}
  <2>1. IsFiniteSet(R)
    BY ThreadsAssumption, FS_Subset
  <2>2. Told \subseteq R
    BY DEF Told, Resumed
  <2>3. Cardinality(Told) <= Cardinality(R) /\ Cardinality(R) \in Nat
    BY <2>1, <2>2, FS_Subset, FS_CardinalityType
  <2>4. Len(idle) <= Cardinality(Told) /\ Len(idle) \in Nat
    BY Facts DEF IInv, NotifiedSuffice, Told
  <2> QED
    BY <2>3, <2>4, ToldCount
<1> QED
  BY <1>1, Invariance, PTL

\* A connection in use is closed by its holder or by close() only: an eviction or
\* another borrower's health check takes what nobody has (pool.py:139-168, 238-260).
THEOREM UsersAreUndisturbed == Spec => UndisturbedUse
<1> DEFINE Undisturbed ==
             \A t \in Threads : \A c \in (held[t] \cap dead') \ dead :
               closed' \/ c \notin held'[t] \/ HolderCloses(t, c)
<1>1. IInv /\ [Next]_vars => [Undisturbed]_vars
  <2> SUFFICES ASSUME IInv, Next, NEW t \in Threads, NEW c \in (held[t] \cap dead') \ dead, ~closed'
               PROVE  c \notin held'[t] \/ HolderCloses(t, c)
    BY DEF vars
  <2>0. TypeOK /\ Books /\ c \in Conns
    BY DEF IInv, TypeOK
  <2>1. ~closed => c \in borrowed /\ c \notin Idle
    BY <2>0 DEF Books, HeldIsBorrowed, QueueIsFree
  <2>2. \A k \in 0..Len(idle) : FirstIdle(k) \subseteq Idle
    BY <2>0, Facts DEF FirstIdle
  <2>3. ASSUME NEW u \in Threads, BorrowIdle(u) PROVE FALSE
    <3>1. PICK k \in Failing : k < Len(idle) /\ Destroy(FirstIdle(k)) /\ ~closed
      BY <2>3 DEF BorrowIdle
    <3>2. k \in 0..Len(idle)
      BY <2>0, <3>1, Facts DEF Failing
    <3> QED
      BY <2>1, <2>2, <3>1, <3>2 DEF Destroy
  <2>4. ASSUME NEW u \in Threads,
               BorrowNew(u) \/ StartWaiting(u) \/ FailAtOnce(u) \/ WaitAgain(u) \/ GiveUp(u)
        PROVE  FALSE
    BY <2>1, <2>4 DEF BorrowNew, StartWaiting, FailAtOnce, WaitAgain, GiveUp, NoneIdle, Destroy
  <2>5. ASSUME NEW u \in Threads, FindClosed(u) \/ Expire(u) PROVE FALSE
    BY <2>5 DEF FindClosed, Expire
  <2>6. ASSUME NEW u \in Threads, NEW d \in Conns, ReturnDead(u, d) PROVE c \notin held'[t]
    <3>1. c = d
      BY <2>6 DEF ReturnDead, Destroy
    <3> QED
      BY <2>0, <2>6, <3>1, HandsBack DEF ReturnDead
  <2>7. ASSUME NEW u \in Threads, NEW d \in Conns, ReturnAlive(u, d) \/ ReturnLate(u, d) PROVE FALSE
    BY <2>7 DEF ReturnAlive, ReturnLate
  <2>8. ASSUME NEW u \in Threads, NEW d \in Conns, HolderCloses(u, d) PROVE HolderCloses(t, c)
    <3>1. c = d /\ c \in held[u]
      BY <2>8 DEF HolderCloses
    <3>2. t = u
      BY <2>0, <3>1 DEF Books, HeldByOne
    <3> QED
      BY <2>8, <3>1, <3>2
  <2>9. ASSUME Evict PROVE FALSE
    <3>1. PICK k \in 1..Len(idle) : Destroy(FirstIdle(k)) /\ ~closed
      BY <2>9 DEF Evict
    <3> QED
      BY <2>1, <2>2, <3>1 DEF Destroy
  <2>10. ~Close
    BY DEF Close
  <2> QED
    BY <2>3, <2>4, <2>5, <2>6, <2>7, <2>8, <2>9, <2>10 DEF Next
<1> QED
  BY <1>1, Invariance, PTL DEF Spec, UndisturbedUse
=============================================================================
