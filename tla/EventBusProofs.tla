--------------------------- MODULE EventBusProofs ---------------------------
(***************************************************************************)
(* Proofs about the event bus, for every set of readers and every bound:   *)
(* its types, what a delivered and a dead event mean, and, where publish() *)
(* transactions do not overlap, that no subscriber misses an event.        *)
(***************************************************************************)
EXTENDS EventBus, FiniteSetTheorems, WellFoundedInduction, TLAPS

-----------------------------------------------------------------------------
(* The inductive invariant: the shape of the variables, the table, and each    *)
(* reader on its own.                                                          *)

Outcomes == {"none", "ok", "raised"}

Batches == UNION {[S -> 0..MaxAttempts] : S \in SUBSET Ids}

ReaderRecs == [mode : Modes, cursor : 0..MaxId, batch : Batches,
               outcome : Outcomes, past : SUBSET Ids]

Shape ==
  /\ row \in [Ids -> Rows]
  /\ reader \in [Readers -> ReaderRecs]
  /\ raised \in [Ids -> 0..MaxAttempts]
  /\ handled \subseteq Ids

\* Failures are counted after they happen, so never too many of them.
Counted(n) ==
  /\ row[n].attempts <= raised[n]
  /\ ~row[n].dead => row[n].attempts < MaxAttempts
  /\ row[n].dead => raised[n] = MaxAttempts
  /\ row[n].delivered => n \in handled

Table == \A n \in Ids : Counted(n)

\* What a reader fetched was there, alive, and beyond its cursor.
Fetched(r) ==
  \A n \in InBatch(r) :
    /\ n \in There /\ n > reader[r].cursor
    /\ reader[r].batch[n] < MaxAttempts /\ reader[r].batch[n] <= raised[n]

Outcome(r) ==
  /\ reader[r].outcome # "none" => InBatch(r) # {}
  /\ reader[r].outcome = "ok" => Current(r) \in handled /\ Current(r) \in reader[r].past
  /\ reader[r].outcome = "raised" =>
       Attempt(r) <= raised[Current(r)] \/ raised[Current(r)] = MaxAttempts

Sound(r) ==
  /\ Fetched(r)
  /\ Outcome(r)
  /\ reader[r].mode = "down" => reader[r] = Down
  /\ reader[r].cursor \in There \cup {0}

BusInv == Shape /\ Table /\ \A r \in Readers : Sound(r)

-----------------------------------------------------------------------------
(* Facts about batches. *)

\* A nonempty set of naturals has a least element.
LEMMA LeastExists ==
  ASSUME NEW S \in SUBSET Nat, S # {}
  PROVE  \E m \in S : \A k \in S : m <= k
<1>1. PICK m \in S : \A k \in S : ~(<<k, m>> \in OpToRel(<, Nat))
  BY NatLessThanWellFounded, WFMin
<1>2. ASSUME NEW k \in S PROVE m <= k
  <2>1. m \in Nat /\ k \in Nat
    OBVIOUS
  <2>2. k < m => <<k, m>> \in OpToRel(<, Nat)
    BY <2>1 DEF OpToRel
  <2>3. ~(k < m)
    BY <2>2, <1>1
  <2> QED BY <2>1, <2>3
<1> QED BY <1>2

\* A batch gives some ids a count each.
LEMMA BatchDomain ==
  ASSUME NEW b \in Batches
  PROVE  DOMAIN b \subseteq Ids /\ b \in [DOMAIN b -> 0..MaxAttempts]
BY DEF Batches

LEMMA BatchIntro ==
  ASSUME NEW S \in SUBSET Ids, NEW b \in [S -> 0..MaxAttempts]
  PROVE  b \in Batches /\ DOMAIN b = S
BY DEF Batches

LEMMA NoBatchFacts == NoBatch \in Batches /\ DOMAIN NoBatch = {}
<1>1. NoBatch \in [{} -> 0..MaxAttempts] /\ {} \in SUBSET Ids
  BY DEF NoBatch
<1> QED BY <1>1, BatchIntro

\* The current event is the least of the batch.
LEMMA CurrentIsLeast ==
  ASSUME Shape, NEW r \in Readers, InBatch(r) # {}
  PROVE  /\ Current(r) \in InBatch(r) /\ Current(r) \in Ids
         /\ \A k \in InBatch(r) : Current(r) <= k
<1>1. reader[r].batch \in Batches
  BY DEF Shape, ReaderRecs
<1>2. InBatch(r) \subseteq Ids
  BY <1>1, BatchDomain DEF InBatch
<1>3. InBatch(r) \in SUBSET Nat
  BY <1>2, BusAssumption DEF Ids
<1>4. \E m \in InBatch(r) : \A k \in InBatch(r) : m <= k
  BY <1>3, LeastExists
<1>5. /\ Current(r) \in InBatch(r)
      /\ \A k \in InBatch(r) : Current(r) <= k
  BY <1>4 DEF Current
<1> QED BY <1>2, <1>5

\* A fetched batch takes the first events there are, as the table has them.
LEMMA FetchFacts ==
  ASSUME Shape, NEW S \in SUBSET Ids
  PROVE  /\ Fetch(S) \in Batches
         /\ DOMAIN Fetch(S) \subseteq S
         /\ \A n \in DOMAIN Fetch(S) : Fetch(S)[n] = row[n].attempts
         /\ \A n \in DOMAIN Fetch(S), k \in S : k < n => k \in DOMAIN Fetch(S)
<1> DEFINE D == {n \in S : Cardinality({k \in S : k < n}) < BatchLimit}
<1>1. Fetch(S) = [n \in D |-> row[n].attempts]
  BY DEF Fetch
<1>2. \A n \in Ids : row[n].attempts \in 0..MaxAttempts
  BY DEF Shape, Rows
<1>3. D \in SUBSET Ids /\ D \subseteq S
  OBVIOUS
<1>4. Fetch(S) \in [D -> 0..MaxAttempts]
  BY <1>1, <1>2, <1>3
<1>5. Fetch(S) \in Batches /\ DOMAIN Fetch(S) = D
  BY <1>3, <1>4, BatchIntro
<1>6. ASSUME NEW n \in D, NEW k \in S, k < n
      PROVE  k \in D
  <2> DEFINE Upto(m) == {j \in S : j < m}
  <2>1. IsFiniteSet(Ids)
    BY FS_Interval, BusAssumption DEF Ids
  <2>2. IsFiniteSet(Upto(n))
    BY <2>1, FS_Subset
  <2>3. Upto(k) \in SUBSET Upto(n)
    <3>1. S \subseteq Nat
      BY BusAssumption DEF Ids
    <3> SUFFICES ASSUME NEW j \in Upto(k) PROVE j \in Upto(n)
      OBVIOUS
    <3>2. j \in Nat /\ k \in Nat /\ n \in Nat
      BY <3>1
    <3> QED BY <1>6, <3>2
  <2>4. IsFiniteSet(Upto(k)) /\ Cardinality(Upto(k)) <= Cardinality(Upto(n))
    BY <2>2, <2>3, FS_Subset
  <2>5. Cardinality(Upto(k)) \in Nat /\ Cardinality(Upto(n)) \in Nat
    BY <2>2, <2>4, FS_CardinalityType
  <2>6. Cardinality(Upto(n)) < BatchLimit
    OBVIOUS
  <2>7. Cardinality(Upto(k)) < BatchLimit
    BY <2>4, <2>5, <2>6, BusAssumption
  <2> QED BY <2>7
<1> HIDE DEF D
<1>7. \A n \in D : Fetch(S)[n] = row[n].attempts
  BY <1>1
<1> QED BY <1>3, <1>5, <1>6, <1>7

\* The last of the ids there is one of them, or nothing.
LEMMA LastOfFacts ==
  ASSUME NEW S \in SUBSET Ids
  PROVE  LastOf(S) \in S \cup {0}
<1> DEFINE T == S \cup {0}
           U == {k \in 0..MaxId : MaxId - k \in T}
<1>1. T \subseteq 0..MaxId
  BY BusAssumption DEF Ids
<1>2. U \in SUBSET Nat /\ MaxId \in U
  BY BusAssumption
<1>3. PICK u \in U : \A k \in U : u <= k
  BY <1>2, LeastExists
<1>4. \A k \in T : MaxId - k \in U
  <2> TAKE k \in T
  <2>1. k \in 0..MaxId
    BY <1>1
  <2>2. MaxId - k \in 0..MaxId /\ MaxId - (MaxId - k) = k
    BY <2>1, BusAssumption
  <2> QED BY <2>2
<1>5. MaxId - u \in T /\ u \in 0..MaxId
  BY <1>3
<1>6. \A k \in T : k <= MaxId - u
  <2> TAKE k \in T
  <2>1. k \in 0..MaxId /\ u <= MaxId - k
    BY <1>1, <1>3, <1>4
  <2> QED BY <1>5, <2>1, BusAssumption
<1>7. \E n \in T : \A k \in T : k <= n
  BY <1>5, <1>6
<1> QED BY <1>7 DEF LastOf

-----------------------------------------------------------------------------
(* The steps. *)

\* What no step takes back.
Grows ==
  /\ There \subseteq There'
  /\ handled \subseteq handled'
  /\ \A n \in Ids : raised[n] <= raised'[n]

\* A reader that does not move stays sound while the rest grows.
LEMMA StaysSound ==
  ASSUME Shape, Shape', Grows, NEW r \in Readers, Sound(r), reader'[r] = reader[r]
  PROVE  Sound(r)'
<1>1. InBatch(r)' = InBatch(r) /\ Current(r)' = Current(r) /\ Attempt(r)' = Attempt(r)
  BY DEF InBatch, Current, Attempt
<1>2. InBatch(r) \subseteq Ids
  BY BatchDomain DEF Shape, ReaderRecs, InBatch
<1>3. \A n \in Ids : raised[n] \in 0..MaxAttempts /\ raised'[n] \in 0..MaxAttempts
  BY DEF Shape
<1>4. \A n \in InBatch(r) : reader[r].batch[n] \in 0..MaxAttempts
  BY BatchDomain DEF Shape, ReaderRecs, InBatch
<1>5. Fetched(r)'
  BY <1>1, <1>2, <1>3, <1>4, BusAssumption DEF Fetched, Grows, Sound
<1>6. Outcome(r)'
  <2>1. CASE reader[r].outcome # "raised"
    BY <1>1, <2>1 DEF Outcome, Grows, Sound
  <2>2. CASE reader[r].outcome = "raised"
    <3>1. InBatch(r) # {}
      BY <2>2 DEF Sound, Outcome
    <3>2. Current(r) \in InBatch(r) /\ Current(r) \in Ids
      BY <3>1, CurrentIsLeast
    <3>3. Attempt(r) \in Int
      BY <1>4, <3>2 DEF Attempt
    <3> QED
      BY <1>1, <1>3, <2>2, <3>1, <3>2, <3>3, BusAssumption DEF Outcome, Grows, Sound
  <2> QED BY <2>1, <2>2
<1> QED BY <1>1, <1>5, <1>6 DEF Sound, Grows, Down

\* A row that no reader sees yet changes.
LEMMA UnseenRowChanges ==
  ASSUME BusInv, NEW n \in Ids, NEW x \in Rows, row' = [row EXCEPT ![n] = x],
         UNCHANGED <<reader, raised, handled>>,
         row[n].state # "there", Counted(n)'
  PROVE  BusInv'
<1> USE DEF BusInv
<1>1. row' \in [Ids -> Rows] /\ \A m \in Ids \ {n} : row'[m] = row[m]
  BY DEF Shape
<1>2. Shape'
  BY <1>1 DEF Shape
<1>3. There \subseteq There'
  BY <1>1 DEF There
<1>4. \A m \in Ids : raised[m] \in 0..MaxAttempts
  BY DEF Shape
<1>5. Grows
  BY <1>3, <1>4 DEF Grows
<1>6. Table'
  BY <1>1 DEF Table, Counted
<1> QED BY <1>2, <1>5, <1>6, StaysSound

\* publish() touches no row that a reader sees.
LEMMA PublishStep ==
  ASSUME BusInv, NEW n \in Ids, Insert(n) \/ Commit(n) \/ Rollback(n)
  PROVE  BusInv'
<1>1. row[n] \in Rows /\ row \in [Ids -> Rows] /\ Counted(n) /\ raised[n] \in 0..MaxAttempts
  BY DEF BusInv, Shape, Table
<1>2. UNCHANGED <<reader, raised, handled>>
  BY DEF Insert, Commit, Rollback
<1>3. CASE Insert(n)
  <2> DEFINE x == [row[n] EXCEPT !.state = "open"]
  <2>1. x \in Rows /\ x.dead = row[n].dead /\ x.delivered = row[n].delivered
        /\ x.attempts = row[n].attempts
    BY <1>1 DEF Rows
  <2>2. row' = [row EXCEPT ![n] = x] /\ row[n].state # "there"
    BY <1>3 DEF Insert
  <2> HIDE DEF x
  <2>3. Counted(n)'
    BY <1>1, <1>2, <2>1, <2>2 DEF Counted
  <2> QED BY <1>2, <2>1, <2>2, <2>3, UnseenRowChanges
<1>4. CASE Commit(n)
  <2> DEFINE x == [row[n] EXCEPT !.state = "there"]
  <2>1. x \in Rows /\ x.dead = row[n].dead /\ x.delivered = row[n].delivered
        /\ x.attempts = row[n].attempts
    BY <1>1 DEF Rows
  <2>2. row' = [row EXCEPT ![n] = x] /\ row[n].state # "there"
    BY <1>4 DEF Commit
  <2> HIDE DEF x
  <2>3. Counted(n)'
    BY <1>1, <1>2, <2>1, <2>2 DEF Counted
  <2> QED BY <1>2, <2>1, <2>2, <2>3, UnseenRowChanges
<1>5. CASE Rollback(n)
  <2>1. NoRow \in Rows
    BY BusAssumption DEF NoRow, Rows
  <2>2. row' = [row EXCEPT ![n] = NoRow] /\ row[n].state # "there"
    BY <1>5 DEF Rollback
  <2>3. Counted(n)'
    BY <1>1, <1>2, <2>2, BusAssumption DEF Counted, NoRow
  <2> QED BY <1>2, <2>1, <2>2, <2>3, UnseenRowChanges
<1> QED BY <1>3, <1>4, <1>5

\* The readers other than the one that moves.
LEMMA OneReaderMoves ==
  ASSUME BusInv, Shape', Table', Grows, NEW r \in Readers, Sound(r)',
         \A q \in Readers : q # r => reader'[q] = reader[q]
  PROVE  BusInv'
BY StaysSound DEF BusInv

\* Nothing but the reader moves.
LEMMA OnlyReaderMoves ==
  ASSUME BusInv, NEW r \in Readers, NEW x \in ReaderRecs,
         UNCHANGED <<row, raised, handled>>, reader' = [reader EXCEPT ![r] = x], Sound(r)'
  PROVE  BusInv'
<1>1. Shape'
  BY DEF BusInv, Shape
<1>2. Table'
  BY DEF BusInv, Table, Counted
<1>3. \A n \in Ids : raised[n] \in 0..MaxAttempts
  BY DEF BusInv, Shape
<1>4. Grows
  BY <1>3 DEF Grows, There
<1>5. \A q \in Readers : q # r => reader'[q] = reader[q]
  BY DEF BusInv, Shape
<1> QED BY <1>1, <1>2, <1>4, <1>5, OneReaderMoves

\* The fields of a reader.
LEMMA ReaderFields ==
  ASSUME Shape, NEW r \in Readers
  PROVE  /\ reader[r] \in ReaderRecs
         /\ reader[r].mode \in Modes /\ reader[r].cursor \in 0..MaxId
         /\ reader[r].batch \in Batches /\ reader[r].outcome \in Outcomes
         /\ reader[r].past \subseteq Ids
BY DEF Shape, ReaderRecs

\* A reader without a batch is sound when its cursor is.
LEMMA IdleReader ==
  ASSUME BusInv, NEW r \in Readers, NEW x \in ReaderRecs,
         x.batch = NoBatch, x.outcome = "none", x.cursor \in There \cup {0},
         x.mode = "down" => x = Down,
         UNCHANGED <<row, raised, handled>>, reader' = [reader EXCEPT ![r] = x]
  PROVE  BusInv'
<1>1. reader'[r] = x
  BY DEF BusInv, Shape
<1>2. InBatch(r)' = {}
  BY <1>1, NoBatchFacts DEF InBatch
<1>3. There' = There
  BY DEF There
<1>4. Sound(r)'
  BY <1>1, <1>2, <1>3 DEF Sound, Fetched, Outcome, Down
<1> QED BY <1>4, OnlyReaderMoves

LEMMA DownIsIdle == Down \in ReaderRecs
BY NoBatchFacts, BusAssumption DEF Down, ReaderRecs, Modes, Outcomes

\* The processes start and stop.
LEMMA StartOrStop ==
  ASSUME BusInv, NEW r \in Readers,
         SubscribeAtTail(r) \/ SubscribeAtBeginning(r) \/ Replay(r) \/ ReaderDies(r)
  PROVE  BusInv'
<1>1. There \subseteq Ids
  BY DEF There
<1>2. LastOf(There) \in There \cup {0} /\ LastOf(There) \in 0..MaxId
  <2>1. LastOf(There) \in There \cup {0}
    BY <1>1, LastOfFacts
  <2>2. There \cup {0} \subseteq 0..MaxId
    BY <1>1, BusAssumption DEF Ids
  <2> QED BY <2>1, <2>2
<1>3. CASE SubscribeAtTail(r)
  <2> DEFINE x == [Down EXCEPT !.mode = "poll", !.cursor = LastOf(There), !.past = There]
  <2>1. /\ x \in ReaderRecs /\ x.batch = NoBatch /\ x.outcome = "none"
        /\ x.cursor = LastOf(There) /\ x.mode # "down"
    BY <1>1, <1>2, NoBatchFacts DEF Down, ReaderRecs, Modes, Outcomes
  <2>2. UNCHANGED <<row, raised, handled>> /\ reader' = [reader EXCEPT ![r] = x]
    BY <1>3 DEF SubscribeAtTail
  <2> QED BY <1>2, <2>1, <2>2, IdleReader
<1>4. CASE SubscribeAtBeginning(r)
  <2> DEFINE x == [Down EXCEPT !.mode = "poll"]
  <2>1. /\ x \in ReaderRecs /\ x.batch = NoBatch /\ x.outcome = "none"
        /\ x.cursor = 0 /\ x.mode # "down"
    BY NoBatchFacts, BusAssumption DEF Down, ReaderRecs, Modes, Outcomes
  <2>2. UNCHANGED <<row, raised, handled>> /\ reader' = [reader EXCEPT ![r] = x]
    BY <1>4 DEF SubscribeAtBeginning
  <2> QED BY <2>1, <2>2, IdleReader
<1>5. CASE Replay(r)
  <2> DEFINE x == [Down EXCEPT !.mode = "replay"]
  <2>1. /\ x \in ReaderRecs /\ x.batch = NoBatch /\ x.outcome = "none"
        /\ x.cursor = 0 /\ x.mode # "down"
    BY NoBatchFacts, BusAssumption DEF Down, ReaderRecs, Modes, Outcomes
  <2>2. UNCHANGED <<row, raised, handled>> /\ reader' = [reader EXCEPT ![r] = x]
    BY <1>5 DEF Replay
  <2> QED BY <2>1, <2>2, IdleReader
<1>6. CASE ReaderDies(r)
  <2>1. UNCHANGED <<row, raised, handled>> /\ reader' = [reader EXCEPT ![r] = Down]
    BY <1>6 DEF ReaderDies
  <2>2. Down.batch = NoBatch /\ Down.outcome = "none" /\ Down.cursor = 0
    BY DEF Down
  <2> QED BY <2>1, <2>2, DownIsIdle, IdleReader
<1> QED BY <1>3, <1>4, <1>5, <1>6

\* A batch fetched from events beyond the cursor that are alive.
LEMMA FetchStep ==
  ASSUME BusInv, NEW r \in Readers, NEW S \in SUBSET Beyond(r),
         reader[r].mode # "down", InBatch(r) = {}, UNCHANGED <<row, raised, handled>>,
         reader' = [reader EXCEPT ![r] = [@ EXCEPT !.batch = Fetch(S)]]
  PROVE  BusInv'
<1> DEFINE x == [reader[r] EXCEPT !.batch = Fetch(S)]
<1>1. S \in SUBSET Ids
  BY DEF Beyond, There
<1>2. Fetch(S) \in Batches
  BY <1>1, FetchFacts DEF BusInv
<1>3. /\ x \in ReaderRecs /\ x.mode = reader[r].mode /\ x.cursor = reader[r].cursor
      /\ x.outcome = reader[r].outcome /\ x.batch = Fetch(S)
  BY <1>2, ReaderFields DEF BusInv, ReaderRecs
<1>4. reader'[r] = x /\ reader' = [reader EXCEPT ![r] = x]
  BY DEF BusInv, Shape
<1> HIDE DEF x
<1>5. reader[r].outcome = "none"
  BY ReaderFields DEF BusInv, Sound, Outcome, Outcomes
<1>6. There' = There
  BY DEF There
<1>7. InBatch(r)' = DOMAIN Fetch(S)
  BY <1>3, <1>4 DEF InBatch
<1>8. ASSUME NEW n \in DOMAIN Fetch(S)
      PROVE  /\ n \in There /\ n > reader[r].cursor
             /\ Fetch(S)[n] < MaxAttempts /\ Fetch(S)[n] <= raised[n]
  <2>1. n \in S /\ Fetch(S)[n] = row[n].attempts
    BY <1>1, FetchFacts DEF BusInv
  <2>2. n \in There /\ n > reader[r].cursor /\ ~row[n].dead /\ n \in Ids
    BY <2>1 DEF Beyond, There
  <2> QED BY <2>1, <2>2 DEF BusInv, Table, Counted
<1>9. Fetched(r)'
  BY <1>3, <1>4, <1>6, <1>7, <1>8 DEF Fetched
<1>10. Sound(r)'
  BY <1>3, <1>4, <1>5, <1>6, <1>9 DEF Sound, Outcome, BusInv
<1> QED BY <1>3, <1>4, <1>10, OnlyReaderMoves

LEMMA PollStep ==
  ASSUME BusInv, NEW r \in Readers, Poll(r)
  PROVE  BusInv'
BY FetchStep DEF Poll, Ready

LEMMA FetchUndeliveredStep ==
  ASSUME BusInv, NEW r \in Readers, FetchUndelivered(r)
  PROVE  BusInv'
<1> DEFINE left == {n \in Beyond(r) : ~row[n].delivered}
<1>1. left \in SUBSET Beyond(r) /\ reader[r].mode # "down" /\ InBatch(r) = {}
      /\ UNCHANGED <<row, raised, handled>>
  BY DEF FetchUndelivered, Ready
<1>2. CASE left = {}
  <2>1. reader' = [reader EXCEPT ![r] = Down]
    BY <1>2 DEF FetchUndelivered
  <2>2. Down.batch = NoBatch /\ Down.outcome = "none" /\ Down.cursor = 0
    BY DEF Down
  <2> QED BY <1>1, <2>1, <2>2, DownIsIdle, IdleReader
<1>3. CASE left # {}
  <2>1. reader' = [reader EXCEPT ![r] = [@ EXCEPT !.batch = Fetch(left)]]
    BY <1>3 DEF FetchUndelivered
  <2> QED BY <1>1, <2>1, FetchStep
<1> QED BY <1>2, <1>3

-----------------------------------------------------------------------------
(* The handler, and what is recorded of it. *)

\* The event a busy reader is at.
LEMMA AtCurrent ==
  ASSUME BusInv, NEW r \in Readers, InBatch(r) # {}
  PROVE  /\ Current(r) \in Ids /\ Current(r) \in InBatch(r) /\ Current(r) \in There
         /\ Current(r) > reader[r].cursor
         /\ reader[r].batch[Current(r)] \in 0..MaxAttempts
         /\ reader[r].batch[Current(r)] < MaxAttempts
         /\ reader[r].mode # "down"
<1>1. Current(r) \in Ids /\ Current(r) \in InBatch(r)
  BY CurrentIsLeast DEF BusInv
<1>2. reader[r].batch[Current(r)] \in 0..MaxAttempts
  BY <1>1, ReaderFields, BatchDomain DEF BusInv, InBatch
<1>3. reader[r].mode # "down"
  BY NoBatchFacts DEF BusInv, Sound, Down, InBatch
<1> QED BY <1>1, <1>2, <1>3 DEF BusInv, Sound, Fetched

\* A reader notes its handler's outcome, the batch and the cursor as they are.
LEMMA NoteOutcome ==
  ASSUME BusInv, NEW r \in Readers, NEW x \in ReaderRecs, Busy(r),
         reader' = [reader EXCEPT ![r] = x], UNCHANGED row, Shape', Table', Grows,
         x.mode = reader[r].mode, x.cursor = reader[r].cursor, x.batch = reader[r].batch,
         x.outcome = "ok" => Current(r) \in handled' /\ Current(r) \in x.past,
         x.outcome = "raised" =>
           Attempt(r) <= raised'[Current(r)] \/ raised'[Current(r)] = MaxAttempts
  PROVE  BusInv'
<1>1. reader'[r] = x /\ \A q \in Readers : q # r => reader'[q] = reader[q]
  BY DEF BusInv, Shape
<1>2. InBatch(r)' = InBatch(r) /\ Current(r)' = Current(r) /\ Attempt(r)' = Attempt(r)
  BY <1>1 DEF InBatch, Current, Attempt
<1>3. There' = There
  BY DEF There
<1>4. InBatch(r) \subseteq Ids /\ \A n \in InBatch(r) : reader[r].batch[n] \in 0..MaxAttempts
  BY ReaderFields, BatchDomain DEF BusInv, InBatch
<1>5. \A n \in Ids : raised[n] \in 0..MaxAttempts /\ raised'[n] \in 0..MaxAttempts
  BY DEF BusInv, Shape
<1>6. Fetched(r)'
  BY <1>1, <1>2, <1>3, <1>4, <1>5, BusAssumption DEF Fetched, Grows, BusInv, Sound
<1>7. Outcome(r)'
  BY <1>1, <1>2 DEF Outcome, Busy
<1>8. Sound(r)'
  BY <1>1, <1>3, <1>6, <1>7, AtCurrent DEF Sound, Busy, BusInv
<1> QED BY <1>1, <1>8, OneReaderMoves

LEMMA HandlerReturnsStep ==
  ASSUME BusInv, NEW r \in Readers, HandlerReturns(r)
  PROVE  BusInv'
<1> DEFINE n == Current(r)
           x == [reader[r] EXCEPT !.outcome = "ok", !.past = reader[r].past \cup {n}]
<1>1. Busy(r) /\ row' = row /\ raised' = raised /\ handled' = handled \cup {n}
      /\ reader' = [reader EXCEPT ![r] = x]
  <2>1. Busy(r) /\ row' = row /\ raised' = raised
    BY DEF HandlerReturns
  <2>2. handled' = handled \cup {n}
    BY DEF HandlerReturns
  <2>3. reader' = [reader EXCEPT ![r] = x]
    BY Zenon DEF HandlerReturns
  <2> QED BY <2>1, <2>2, <2>3
<1>2. n \in Ids
  BY <1>1, AtCurrent DEF Busy
<1>3. /\ x \in ReaderRecs /\ x.mode = reader[r].mode /\ x.cursor = reader[r].cursor
      /\ x.batch = reader[r].batch /\ x.outcome = "ok" /\ n \in x.past
  BY <1>2, ReaderFields DEF BusInv, ReaderRecs, Outcomes
<1> HIDE DEF n, x
<1>4. Shape'
  BY <1>1, <1>2, <1>3 DEF BusInv, Shape
<1>5. Table'
  BY <1>1 DEF BusInv, Table, Counted
<1>6. Grows
  BY <1>1 DEF Grows, There, BusInv, Shape
<1> QED BY <1>1, <1>3, <1>4, <1>5, <1>6, NoteOutcome DEF n

LEMMA HandlerRaisesStep ==
  ASSUME BusInv, NEW r \in Readers, HandlerRaises(r)
  PROVE  BusInv'
<1> DEFINE n == Current(r)
           x == [reader[r] EXCEPT !.outcome = "raised"]
<1>1. Busy(r) /\ UNCHANGED <<row, handled>>
      /\ raised' = [raised EXCEPT ![n] = IF @ = MaxAttempts THEN @ ELSE @ + 1]
      /\ reader' = [reader EXCEPT ![r] = x]
  BY DEF HandlerRaises
<1>2. n \in Ids /\ n \in InBatch(r) /\ reader[r].batch[n] \in 0..MaxAttempts
  BY <1>1, AtCurrent DEF Busy
<1>3. /\ x \in ReaderRecs /\ x.mode = reader[r].mode /\ x.cursor = reader[r].cursor
      /\ x.batch = reader[r].batch /\ x.outcome = "raised"
  BY ReaderFields DEF BusInv, ReaderRecs, Outcomes
<1>4. raised \in [Ids -> 0..MaxAttempts]
  BY DEF BusInv, Shape
<1>5. reader[r].batch[n] <= raised[n] /\ Attempt(r) = reader[r].batch[n] + 1
  BY <1>2 DEF BusInv, Sound, Fetched, Attempt
<1> HIDE DEF n, x
<1>6. /\ raised' \in [Ids -> 0..MaxAttempts]
      /\ \A m \in Ids : raised[m] <= raised'[m]
      /\ raised'[n] = MaxAttempts \/ raised'[n] = raised[n] + 1
  BY <1>1, <1>2, <1>4, BusAssumption
<1>7. Attempt(r) <= raised'[n] \/ raised'[n] = MaxAttempts
  BY <1>2, <1>4, <1>5, <1>6, BusAssumption
<1>8. Shape'
  BY <1>1, <1>3, <1>6 DEF BusInv, Shape
<1>9. Table'
  <2> SUFFICES ASSUME NEW m \in Ids PROVE Counted(m)'
    BY DEF Table
  <2>1. row[m].attempts \in 0..MaxAttempts
    BY DEF BusInv, Shape, Rows
  <2>2. raised[m] \in 0..MaxAttempts /\ raised'[m] \in 0..MaxAttempts /\ raised[m] <= raised'[m]
    BY <1>4, <1>6
  <2>3. Counted(m) /\ row' = row /\ handled' = handled
    BY <1>1 DEF BusInv, Table
  <2> QED BY <2>1, <2>2, <2>3, BusAssumption DEF Counted
<1>10. Grows
  BY <1>1, <1>6 DEF Grows, There
<1> QED BY <1>1, <1>3, <1>7, <1>8, <1>9, <1>10, NoteOutcome DEF n

\* The row at hand takes a count no greater than the failures there were.
LEMMA RecordRow ==
  ASSUME BusInv, NEW n \in There, NEW y \in Rows, row' = [row EXCEPT ![n] = y],
         UNCHANGED <<raised, handled>>, y.state = "there", reader' \in [Readers -> ReaderRecs],
         Counted(n)'
  PROVE  Shape' /\ Table' /\ Grows
<1>1. n \in Ids
  BY DEF There
<1>2. row' \in [Ids -> Rows] /\ row'[n] = y /\ \A m \in Ids \ {n} : row'[m] = row[m]
  BY <1>1 DEF BusInv, Shape
<1>3. Shape'
  BY <1>2 DEF BusInv, Shape
<1>4. Table'
  BY <1>2 DEF BusInv, Table, Counted
<1>5. \A m \in Ids : raised[m] \in 0..MaxAttempts
  BY DEF BusInv, Shape
<1>6. Grows
  BY <1>2, <1>5 DEF Grows, There
<1> QED BY <1>3, <1>4, <1>6

\* The reader as it is after Advance.
Advanced(r) ==
  [reader[r] EXCEPT !.cursor = Current(r), !.outcome = "none",
                    !.batch = Restrict(reader[r].batch, InBatch(r) \ {Current(r)})]

LEMMA AdvancedFacts ==
  ASSUME BusInv, NEW r \in Readers, InBatch(r) # {}
  PROVE  /\ Advanced(r) \in ReaderRecs
         /\ Advanced(r).mode = reader[r].mode /\ Advanced(r).past = reader[r].past
         /\ Advanced(r).cursor = Current(r) /\ Advanced(r).outcome = "none"
         /\ DOMAIN Advanced(r).batch = InBatch(r) \ {Current(r)}
         /\ \A n \in InBatch(r) \ {Current(r)} : Advanced(r).batch[n] = reader[r].batch[n]
<1> DEFINE D == InBatch(r) \ {Current(r)}
           b == Restrict(reader[r].batch, D)
<1>1. /\ InBatch(r) \subseteq Ids
      /\ \A n \in InBatch(r) : reader[r].batch[n] \in 0..MaxAttempts
  BY ReaderFields, BatchDomain DEF BusInv, InBatch
<1>2. b = [n \in D |-> reader[r].batch[n]] /\ D \in SUBSET Ids
  BY <1>1 DEF Restrict
<1>3. b \in [D -> 0..MaxAttempts]
  BY <1>1, <1>2
<1>4. b \in Batches /\ DOMAIN b = D /\ \A n \in D : b[n] = reader[r].batch[n]
  BY <1>2, <1>3, BatchIntro
<1>5. Current(r) \in 0..MaxId
  BY AtCurrent, BusAssumption DEF Ids
<1>6. Advanced(r) = [reader[r] EXCEPT !.cursor = Current(r), !.outcome = "none", !.batch = b]
  BY DEF Advanced
<1> HIDE DEF b, D
<1>7. /\ Advanced(r) \in ReaderRecs
      /\ Advanced(r).mode = reader[r].mode /\ Advanced(r).past = reader[r].past
      /\ Advanced(r).cursor = Current(r) /\ Advanced(r).outcome = "none" /\ Advanced(r).batch = b
  BY <1>4, <1>5, <1>6, ReaderFields DEF BusInv, ReaderRecs, Outcomes
<1> QED BY <1>4, <1>7 DEF D

\* A reader that goes on to the next event is sound.
LEMMA AdvanceSound ==
  ASSUME BusInv, NEW r \in Readers, InBatch(r) # {}, Advance(r), Grows, raised' = raised
  PROVE  Sound(r)'
<1>1. reader'[r] = Advanced(r)
  <2>1. reader' = [reader EXCEPT ![r] = Advanced(r)]
    BY Zenon DEF Advance, Advanced
  <2> QED BY <2>1 DEF BusInv, Shape
<1>2. InBatch(r)' = InBatch(r) \ {Current(r)}
  BY <1>1, AdvancedFacts DEF InBatch
<1>3. /\ Current(r) \in There /\ reader[r].mode # "down" /\ Current(r) \in Ids
      /\ InBatch(r) \subseteq Ids /\ \A n \in InBatch(r) : Current(r) <= n
  BY AtCurrent, CurrentIsLeast, ReaderFields, BatchDomain DEF BusInv, InBatch
<1>4. \A n \in InBatch(r) \ {Current(r)} : n > Current(r)
  BY <1>3, BusAssumption DEF Ids
<1>5. Fetched(r)'
  BY <1>1, <1>2, <1>4, AdvancedFacts DEF Fetched, BusInv, Sound, Grows
<1>6. Outcome(r)'
  BY <1>1, AdvancedFacts DEF Outcome
<1> QED BY <1>1, <1>3, <1>5, <1>6, AdvancedFacts DEF Sound, Grows

LEMMA AdvanceMoves ==
  ASSUME BusInv, NEW r \in Readers, InBatch(r) # {}, Advance(r)
  PROVE  /\ reader' \in [Readers -> ReaderRecs]
         /\ \A q \in Readers : q # r => reader'[q] = reader[q]
<1>1. reader' = [reader EXCEPT ![r] = Advanced(r)]
  BY Zenon DEF Advance, Advanced
<1> QED BY <1>1, AdvancedFacts DEF BusInv, Shape

LEMMA MarkDeliveredStep ==
  ASSUME BusInv, NEW r \in Readers, MarkDelivered(r)
  PROVE  BusInv'
<1>1. InBatch(r) # {} /\ Current(r) \in handled
  BY DEF BusInv, Sound, Outcome, MarkDelivered
<1>2. PICK n \in Ids : n = Current(r)
  BY <1>1, AtCurrent
<1> DEFINE y == [row[n] EXCEPT !.delivered = TRUE]
<1>3. /\ row' = [row EXCEPT ![n] = y]
      /\ Advance(r) /\ raised' = raised /\ handled' = handled
  BY <1>2 DEF MarkDelivered
<1>4. n \in There /\ row[n] \in Rows /\ row[n].state = "there"
  BY <1>1, <1>2, AtCurrent DEF BusInv, Shape, There
<1>5. /\ y \in Rows /\ y.state = "there" /\ y.dead = row[n].dead
      /\ y.attempts = row[n].attempts
  BY <1>4 DEF Rows
<1> HIDE DEF y
<1>6. row'[n] = y
  BY <1>3 DEF BusInv, Shape
<1>7. Counted(n)'
  BY <1>1, <1>2, <1>3, <1>5, <1>6 DEF Counted, BusInv, Table
<1>8. Shape' /\ Table' /\ Grows
  BY <1>1, <1>3, <1>4, <1>5, <1>7, AdvanceMoves, RecordRow
<1> QED BY <1>1, <1>3, <1>8, AdvanceSound, AdvanceMoves, OneReaderMoves

\* After a failure: the count, and whether it was the last.
LEMMA FailureRow ==
  ASSUME BusInv, NEW r \in Readers, reader[r].outcome = "raised", NEW y \in Rows,
         row' = [row EXCEPT ![Current(r)] = y], UNCHANGED <<raised, handled>>,
         reader' \in [Readers -> ReaderRecs],
         y.state = "there", y.delivered = row[Current(r)].delivered, y.attempts = Attempt(r),
         y.dead <=> row[Current(r)].dead \/ LastAttempt(r)
  PROVE  Shape' /\ Table' /\ Grows
<1>1. /\ InBatch(r) # {}
      /\ Attempt(r) <= raised[Current(r)] \/ raised[Current(r)] = MaxAttempts
  BY DEF BusInv, Sound, Outcome
<1>2. PICK n \in Ids : n = Current(r)
  BY <1>1, AtCurrent
<1>3. /\ n \in There /\ reader[r].batch[n] \in 0..MaxAttempts
      /\ reader[r].batch[n] < MaxAttempts
  BY <1>1, <1>2, AtCurrent
<1>4. Attempt(r) \in 1..MaxAttempts
  BY <1>2, <1>3, BusAssumption DEF Attempt
<1>5. row' = [row EXCEPT ![n] = y] /\ row'[n] = y
  BY <1>2 DEF BusInv, Shape
<1>6. raised[n] \in 0..MaxAttempts /\ Counted(n)
  BY DEF BusInv, Shape, Table
<1>7. Counted(n)'
  BY <1>1, <1>2, <1>4, <1>5, <1>6, BusAssumption DEF Counted, LastAttempt
<1> QED BY <1>3, <1>5, <1>7, RecordRow

LEMMA MarkDeadStep ==
  ASSUME BusInv, NEW r \in Readers, MarkDead(r)
  PROVE  BusInv'
<1> DEFINE n == Current(r)
           y == [row[n] EXCEPT !.attempts = Attempt(r), !.dead = TRUE]
<1>1. /\ reader[r].outcome = "raised" /\ LastAttempt(r) /\ row' = [row EXCEPT ![n] = y]
      /\ Advance(r) /\ raised' = raised /\ handled' = handled
  BY DEF MarkDead
<1>2. InBatch(r) # {}
  BY <1>1 DEF BusInv, Sound, Outcome
<1>3. /\ n \in Ids /\ row[n] \in Rows /\ row[n].state = "there"
      /\ reader[r].batch[n] \in 0..MaxAttempts /\ reader[r].batch[n] < MaxAttempts
  BY <1>2, AtCurrent DEF BusInv, Shape, There
<1>4. Attempt(r) \in 0..MaxAttempts
  BY <1>3, BusAssumption DEF Attempt
<1>5. /\ y \in Rows /\ y.state = "there" /\ y.dead /\ y.delivered = row[n].delivered
      /\ y.attempts = Attempt(r)
  BY <1>3, <1>4 DEF Rows
<1> HIDE DEF y
<1>6. Shape' /\ Table' /\ Grows
  BY <1>1, <1>2, <1>5, AdvanceMoves, FailureRow
<1> QED BY <1>1, <1>2, <1>6, AdvanceSound, AdvanceMoves, OneReaderMoves

\* A subscriber leaves its batch after a failure.
LEMMA LeaveBatch ==
  ASSUME BusInv, NEW r \in Readers, reader[r].mode # "down", Grows,
         reader' = [reader EXCEPT ![r] = [@ EXCEPT !.batch = NoBatch, !.outcome = "none"]]
  PROVE  /\ reader' \in [Readers -> ReaderRecs]
         /\ \A q \in Readers : q # r => reader'[q] = reader[q]
         /\ Sound(r)'
<1> DEFINE x == [reader[r] EXCEPT !.batch = NoBatch, !.outcome = "none"]
<1>1. /\ x \in ReaderRecs /\ x.mode = reader[r].mode /\ x.cursor = reader[r].cursor
      /\ x.batch = NoBatch /\ x.outcome = "none"
  BY ReaderFields, NoBatchFacts DEF BusInv, ReaderRecs, Outcomes
<1>2. reader' = [reader EXCEPT ![r] = x] /\ reader \in [Readers -> ReaderRecs]
  BY DEF BusInv, Shape
<1> HIDE DEF x
<1>3. /\ reader' \in [Readers -> ReaderRecs] /\ reader'[r] = x
      /\ \A q \in Readers : q # r => reader'[q] = reader[q]
  BY <1>1, <1>2
<1>4. InBatch(r)' = {}
  BY <1>1, <1>3, NoBatchFacts DEF InBatch
<1>5. Sound(r)'
  BY <1>1, <1>3, <1>4 DEF Sound, Fetched, Outcome, BusInv, Grows
<1> QED BY <1>3, <1>5

LEMMA BumpAttemptsStep ==
  ASSUME BusInv, NEW r \in Readers, BumpAttempts(r)
  PROVE  BusInv'
<1> DEFINE n == Current(r)
           y == [row[n] EXCEPT !.attempts = Attempt(r)]
<1>1. /\ reader[r].outcome = "raised" /\ ~LastAttempt(r) /\ row' = [row EXCEPT ![n] = y]
      /\ AfterFailure(r) /\ raised' = raised /\ handled' = handled
  BY DEF BumpAttempts, CountFailure
<1>2. InBatch(r) # {}
  BY <1>1 DEF BusInv, Sound, Outcome
<1>3. /\ n \in Ids /\ row[n] \in Rows /\ row[n].state = "there" /\ n \in There
      /\ reader[r].batch[n] \in 0..MaxAttempts /\ reader[r].batch[n] < MaxAttempts
      /\ reader[r].mode # "down"
  BY <1>2, AtCurrent DEF BusInv, Shape, There
<1>4. Attempt(r) \in 0..MaxAttempts
  BY <1>3, BusAssumption DEF Attempt
<1>5. /\ y \in Rows /\ y.state = "there" /\ y.dead = row[n].dead
      /\ y.delivered = row[n].delivered /\ y.attempts = Attempt(r)
  BY <1>3, <1>4 DEF Rows
<1> HIDE DEF y
<1>6. CASE reader[r].mode = "poll"
  <2>1. reader' = [reader EXCEPT ![r] = [@ EXCEPT !.batch = NoBatch, !.outcome = "none"]]
    BY <1>1, <1>6 DEF AfterFailure
  <2>2. There \subseteq There'
    BY <1>1, <1>3, <1>5 DEF There, BusInv, Shape
  <2>3. Grows
    BY <1>1, <2>2 DEF Grows, BusInv, Shape
  <2>4. /\ reader' \in [Readers -> ReaderRecs] /\ Sound(r)'
        /\ \A q \in Readers : q # r => reader'[q] = reader[q]
    BY <1>3, <2>1, <2>3, LeaveBatch
  <2>5. Shape' /\ Table'
    BY <1>1, <1>5, <2>4, FailureRow
  <2> QED BY <2>3, <2>4, <2>5, OneReaderMoves
<1>7. CASE reader[r].mode # "poll"
  <2>1. Advance(r)
    BY <1>1, <1>7 DEF AfterFailure
  <2>2. Shape' /\ Table' /\ Grows
    BY <1>1, <1>2, <1>5, <2>1, AdvanceMoves, FailureRow
  <2> QED BY <1>1, <1>2, <2>1, <2>2, AdvanceSound, AdvanceMoves, OneReaderMoves
<1> QED BY <1>6, <1>7

-----------------------------------------------------------------------------
(* The invariant, and what follows from it. *)

LEMMA InitSound == BusInit => BusInv
<1> SUFFICES ASSUME BusInit PROVE BusInv
  OBVIOUS
<1>1. NoRow \in Rows
  BY BusAssumption DEF NoRow, Rows
<1>2. Shape
  BY <1>1, DownIsIdle, BusAssumption DEF BusInit, Shape
<1>3. Table
  BY BusAssumption DEF BusInit, Table, Counted, NoRow
<1>4. ASSUME NEW r \in Readers PROVE Sound(r)
  <2>1. reader[r] = Down /\ InBatch(r) = {}
    BY NoBatchFacts DEF BusInit, InBatch, Down
  <2> QED BY <2>1 DEF Sound, Fetched, Outcome, Down
<1> QED BY <1>2, <1>3, <1>4 DEF BusInv

LEMMA StepSound == BusInv /\ [BusNext]_bvars => BusInv'
<1> SUFFICES ASSUME BusInv, [BusNext]_bvars PROVE BusInv'
  OBVIOUS
<1>1. CASE UNCHANGED bvars
  <2>1. Shape' /\ Table'
    BY <1>1 DEF bvars, BusInv, Shape, Table, Counted
  <2>2. Grows
    BY <1>1 DEF bvars, Grows, There, BusInv, Shape
  <2>3. \A r \in Readers : reader'[r] = reader[r]
    BY <1>1 DEF bvars
  <2> QED BY <2>1, <2>2, <2>3, StaysSound DEF BusInv
<1>2. ASSUME NEW n \in Ids, Insert(n) \/ Commit(n) \/ Rollback(n)
      PROVE  BusInv'
  BY <1>2, PublishStep
<1>3. ASSUME NEW r \in Readers,
             \/ SubscribeAtTail(r) \/ SubscribeAtBeginning(r) \/ Replay(r) \/ ReaderDies(r)
      PROVE  BusInv'
  BY <1>3, StartOrStop
<1>4. ASSUME NEW r \in Readers, ReaderStep(r)
      PROVE  BusInv'
  BY <1>4, PollStep, FetchUndeliveredStep, HandlerReturnsStep, HandlerRaisesStep,
     MarkDeliveredStep, MarkDeadStep, BumpAttemptsStep DEF ReaderStep
<1> QED BY <1>1, <1>2, <1>3, <1>4 DEF BusNext

LEMMA AlwaysSound == BusSpec => []BusInv
BY InitSound, StepSound, PTL DEF BusSpec

LEMMA SoundIsTyped == BusInv => BusTypeOK
<1> SUFFICES ASSUME BusInv PROVE BusTypeOK
  OBVIOUS
<1>1. ASSUME NEW r \in Readers
      PROVE  /\ reader[r].batch \in [InBatch(r) -> 0..MaxAttempts]
             /\ InBatch(r) \subseteq {n \in There : n > reader[r].cursor}
             /\ InBatch(r) = {} => reader[r].outcome = "none"
             /\ reader[r].mode = "down" => reader[r] = Down
  BY ReaderFields, BatchDomain DEF BusInv, Sound, Fetched, Outcome, InBatch
<1>2. ASSUME NEW r \in Readers
      PROVE  /\ reader[r].mode \in Modes /\ reader[r].cursor \in 0..MaxId
             /\ reader[r].outcome \in {"none", "ok", "raised"} /\ reader[r].past \subseteq Ids
  BY ReaderFields DEF BusInv, Outcomes
<1> QED BY <1>1, <1>2 DEF BusTypeOK, BusInv, Shape

\* The variables of the bus keep their types, and a batch holds only committed events
\* beyond its reader's cursor: nothing is fetched twice, or while it may be rolled back.
THEOREM BusTypeCorrect == BusSpec => []BusTypeOK
BY AlwaysSound, SoundIsTyped, PTL

\* delivered_at is set only on an event that some handler returned from: _attempt()
\* acknowledges after the handler, and no rollback or overwritten row undoes that.
THEOREM DeliveredWasHandledAlways == BusSpec => []DeliveredWasHandled
<1>1. BusInv => DeliveredWasHandled
  BY DEF BusInv, Table, Counted, DeliveredWasHandled
<1> QED BY <1>1, AlwaysSound, PTL

\* An event is dead only after max_attempts failures of handlers, for any number of
\* readers that overwrite each other's counts.
THEOREM DeadAfterMaxFailuresAlways == BusSpec => []DeadAfterMaxFailures
<1>1. BusInv => DeadAfterMaxFailures
  BY DEF BusInv, Table, Counted, DeadAfterMaxFailures
<1> QED BY <1>1, AlwaysSound, PTL

-----------------------------------------------------------------------------
(* Publishes that do not overlap: events come to be there in the order of their *)
(* ids, so a cursor never leaves one behind.                                    *)

\* At most one event is on its way, and it comes after all that are there.
Ordered ==
  /\ \A n, m \in Open : n = m
  /\ \A n \in Open, k \in There : k < n

\* Up to the cursor everything alive was handled; from there to any event of the batch
\* everything alive is in the batch.
Covered(r) ==
  reader[r].mode = "poll" =>
    /\ \A k \in There : k <= reader[r].cursor /\ ~row[k].dead => k \in reader[r].past
    /\ \A n \in InBatch(r), k \in There :
         k > reader[r].cursor /\ k < n /\ ~row[k].dead => k \in InBatch(r)

OrderInv == Ordered /\ \A r \in Readers : Covered(r)

\* No event comes back to life, and any that is new comes last.
InOrder ==
  /\ \A k \in There \cap There' : row[k].dead => row'[k].dead
  /\ \A n \in There' \ There, k \in There \cup {0} : k < n

\* A reader that does not move stays covered.
LEMMA StaysCovered ==
  ASSUME BusInv, BusInv', InOrder, NEW r \in Readers, Covered(r), reader'[r] = reader[r]
  PROVE  Covered(r)'
<1> SUFFICES ASSUME reader[r].mode = "poll" PROVE Covered(r)'
  BY DEF Covered
<1>1. InBatch(r)' = InBatch(r)
  BY DEF InBatch
<1>2. reader[r].cursor \in There \cup {0} /\ InBatch(r) \subseteq There
  BY DEF BusInv, Sound, Fetched
<1>3. There \subseteq Nat /\ There' \subseteq Nat
  BY BusAssumption DEF There, Ids
<1>4. ASSUME NEW k \in There', k <= reader[r].cursor, ~row'[k].dead
      PROVE  k \in reader[r].past
  <2>1. reader[r].cursor \in Nat /\ k \in Nat
    BY <1>3, ReaderFields, BusAssumption DEF BusInv
  <2>2. k \in There
    BY <1>2, <1>4, <2>1 DEF InOrder
  <2>3. ~row[k].dead
    BY <1>4, <2>2 DEF InOrder
  <2> QED BY <1>4, <2>2, <2>3 DEF Covered
<1>5. ASSUME NEW n \in InBatch(r), NEW k \in There', k > reader[r].cursor, k < n, ~row'[k].dead
      PROVE  k \in InBatch(r)
  <2>1. n \in There /\ n \in Nat /\ k \in Nat
    BY <1>2, <1>3
  <2>2. k \in There
    BY <1>5, <2>1 DEF InOrder
  <2>3. ~row[k].dead
    BY <1>5, <2>2 DEF InOrder
  <2> QED BY <1>5, <2>2, <2>3 DEF Covered
<1> QED BY <1>1, <1>4, <1>5 DEF Covered

\* publish() keeps the order as long as one transaction is open at a time.
LEMMA PublishInOrder ==
  ASSUME MaxOpen = 1, BusInv, Ordered, NEW n \in Ids, Insert(n) \/ Commit(n) \/ Rollback(n)
  PROVE  Ordered' /\ InOrder /\ UNCHANGED reader
<1>1. row \in [Ids -> Rows] /\ Ids \subseteq Nat /\ n > 0
  BY BusAssumption DEF BusInv, Shape, Ids
<1>2. CASE Insert(n)
  <2>1. row[n].state = "none" /\ row' = [row EXCEPT ![n] = [row[n] EXCEPT !.state = "open"]]
    BY <1>2 DEF Insert
  <2>2. /\ row'[n].state = "open"
        /\ \A k \in Ids \ {n} : row'[k] = row[k]
    BY <1>1, <2>1 DEF Rows
  <2>3. Open = {}
    <3>1. IsFiniteSet(Ids)
      BY FS_Interval, BusAssumption DEF Ids
    <3>2. IsFiniteSet(Open)
      BY <3>1, FS_Subset DEF Open
    <3>3. Cardinality(Open) \in Nat /\ Cardinality(Open) < 1
      BY <1>2, <3>2, FS_CardinalityType DEF Insert
    <3>4. Cardinality(Open) = 0
      BY <3>3
    <3> QED BY <3>2, <3>4, FS_EmptySet
  <2>4. There' = There /\ Open' = {n}
    BY <1>1, <2>1, <2>2, <2>3 DEF There, Open
  <2>5. \A k \in There : k < n
    <3> SUFFICES ASSUME NEW k \in There PROVE k < n
      OBVIOUS
    <3>1. k \in Ids /\ row[k].state = "there"
      BY DEF There
    <3>2. ~(k > n) /\ k # n
      BY <1>2, <2>1, <3>1 DEF Insert
    <3> QED BY <1>1, <3>1, <3>2
  <2>6. \A k \in There : row'[k] = row[k]
    BY <2>1, <2>2 DEF There
  <2> QED BY <1>2, <2>4, <2>5, <2>6 DEF Ordered, InOrder, Insert
<1>3. CASE Commit(n)
  <2>1. row[n].state = "open" /\ row' = [row EXCEPT ![n] = [row[n] EXCEPT !.state = "there"]]
    BY <1>3 DEF Commit
  <2>2. /\ row'[n].state = "there"
        /\ \A k \in Ids \ {n} : row'[k] = row[k]
    BY <1>1, <2>1 DEF Rows
  <2>3. There' = There \cup {n} /\ Open' = Open \ {n} /\ n \in Open /\ n \notin There
    BY <1>1, <2>1, <2>2 DEF There, Open
  <2>4. \A k \in There : row'[k] = row[k]
    BY <2>2, <2>3 DEF There
  <2>5. Open' = {}
    BY <2>3 DEF Ordered
  <2> QED BY <1>1, <1>3, <2>3, <2>4, <2>5 DEF Ordered, InOrder, Commit
<1>4. CASE Rollback(n)
  <2>1. row[n].state = "open" /\ row' = [row EXCEPT ![n] = NoRow]
    BY <1>4 DEF Rollback
  <2>2. /\ row'[n].state = "none"
        /\ \A k \in Ids \ {n} : row'[k] = row[k]
    BY <1>1, <2>1 DEF NoRow
  <2>3. There' = There /\ Open' \subseteq Open
    BY <1>1, <2>1, <2>2 DEF There, Open
  <2>4. \A k \in There : row'[k] = row[k]
    BY <2>1, <2>2 DEF There
  <2> QED BY <1>4, <2>3, <2>4 DEF Ordered, InOrder, Rollback
<1> QED BY <1>2, <1>3, <1>4

\* A reader only ever acknowledges, counts or buries a row that is there.
RowsKept ==
  \A k \in Ids : row'[k].state = row[k].state /\ (row[k].dead => row'[k].dead)

LEMMA KeptInOrder ==
  ASSUME BusInv, Ordered, RowsKept
  PROVE  Ordered' /\ InOrder /\ There' = There
<1>1. There' = There /\ Open' = Open
  BY DEF RowsKept, There, Open
<1> QED BY <1>1 DEF Ordered, InOrder, RowsKept, There

LEMMA RecordingKeepsRows ==
  ASSUME BusInv, NEW r \in Readers, MarkDelivered(r) \/ MarkDead(r) \/ BumpAttempts(r)
  PROVE  RowsKept /\ InBatch(r) # {}
<1>1. InBatch(r) # {}
  BY DEF MarkDelivered, MarkDead, BumpAttempts, BusInv, Sound, Outcome
<1>2. Current(r) \in Ids /\ row \in [Ids -> Rows]
  BY <1>1, AtCurrent DEF BusInv, Shape
<1>3. CASE MarkDelivered(r)
  BY <1>1, <1>2, <1>3 DEF MarkDelivered, RowsKept, Rows
<1>4. CASE MarkDead(r)
  BY <1>1, <1>2, <1>4 DEF MarkDead, RowsKept, Rows
<1>5. CASE BumpAttempts(r)
  BY <1>1, <1>2, <1>5 DEF BumpAttempts, CountFailure, RowsKept, Rows
<1> QED BY <1>1, <1>3, <1>4, <1>5

\* A reader whose moves touch no row, and who is covered after it.
LEMMA MovesAlone ==
  ASSUME BusInv, BusInv', OrderInv, NEW r \in Readers, RowsKept, Covered(r)',
         \A q \in Readers : q # r => reader'[q] = reader[q]
  PROVE  OrderInv'
BY KeptInOrder, StaysCovered DEF OrderInv

LEMMA StartOrStopCovered ==
  ASSUME BusInv, NEW r \in Readers,
         SubscribeAtTail(r) \/ SubscribeAtBeginning(r) \/ Replay(r) \/ ReaderDies(r)
  PROVE  /\ RowsKept /\ Covered(r)'
         /\ \A q \in Readers : q # r => reader'[q] = reader[q]
<1>1. row' = row /\ reader \in [Readers -> ReaderRecs]
  BY DEF SubscribeAtTail, SubscribeAtBeginning, Replay, ReaderDies, BusInv, Shape
<1>2. RowsKept /\ There' = There
  BY <1>1 DEF RowsKept, There
<1>3. \A q \in Readers : q # r => reader'[q] = reader[q]
  BY <1>1 DEF SubscribeAtTail, SubscribeAtBeginning, Replay, ReaderDies
<1>4. \A k \in There : ~(k <= 0)
  BY BusAssumption DEF There, Ids
<1>5. CASE SubscribeAtTail(r)
  <2>1. reader'[r].batch = NoBatch /\ reader'[r].past = There
    BY <1>1, <1>5 DEF SubscribeAtTail, Down
  <2> QED BY <1>2, <1>3, <2>1, NoBatchFacts DEF Covered, InBatch
<1>6. CASE SubscribeAtBeginning(r)
  <2>1. reader'[r].batch = NoBatch /\ reader'[r].cursor = 0
    BY <1>1, <1>6 DEF SubscribeAtBeginning, Down
  <2> QED BY <1>2, <1>3, <1>4, <2>1, NoBatchFacts DEF Covered, InBatch
<1>7. CASE Replay(r) \/ ReaderDies(r)
  <2>1. reader'[r].mode # "poll"
    BY <1>1, <1>7 DEF Replay, ReaderDies, Down
  <2> QED BY <1>2, <1>3, <2>1 DEF Covered
<1> QED BY <1>5, <1>6, <1>7

LEMMA PollCovered ==
  ASSUME BusInv, NEW r \in Readers, Covered(r), Poll(r)
  PROVE  /\ RowsKept /\ Covered(r)'
         /\ \A q \in Readers : q # r => reader'[q] = reader[q]
<1> DEFINE S == Beyond(r)
<1>1. /\ row' = row /\ reader \in [Readers -> ReaderRecs]
      /\ reader' = [reader EXCEPT ![r] = [@ EXCEPT !.batch = Fetch(S)]]
  BY DEF Poll, BusInv, Shape
<1>2. /\ reader'[r].batch = Fetch(S) /\ reader'[r].mode = reader[r].mode
      /\ reader'[r].cursor = reader[r].cursor /\ reader'[r].past = reader[r].past
      /\ \A q \in Readers : q # r => reader'[q] = reader[q]
  BY <1>1 DEF ReaderRecs
<1>3. RowsKept /\ There' = There
  BY <1>1 DEF RowsKept, There
<1>4. S \in SUBSET Ids
  BY DEF Beyond, There
<1>5. \A n \in DOMAIN Fetch(S), k \in S : k < n => k \in DOMAIN Fetch(S)
  BY <1>4, FetchFacts DEF BusInv
<1>6. ASSUME NEW n \in InBatch(r)', NEW k \in There,
             k > reader[r].cursor, k < n, ~row[k].dead
      PROVE  k \in InBatch(r)'
  <2>1. k \in S
    BY <1>6 DEF Beyond
  <2> QED BY <1>2, <1>5, <1>6, <2>1 DEF InBatch
<1> QED BY <1>1, <1>2, <1>3, <1>6 DEF Covered

LEMMA FetchUndeliveredCovered ==
  ASSUME BusInv, NEW r \in Readers, FetchUndelivered(r)
  PROVE  /\ RowsKept /\ Covered(r)'
         /\ \A q \in Readers : q # r => reader'[q] = reader[q]
<1>1. row' = row /\ reader \in [Readers -> ReaderRecs] /\ reader[r].mode = "replay"
  BY DEF FetchUndelivered, Ready, BusInv, Shape
<1>2. RowsKept
  BY <1>1 DEF RowsKept
<1>3. /\ reader'[r].mode # "poll"
      /\ \A q \in Readers : q # r => reader'[q] = reader[q]
  BY <1>1 DEF FetchUndelivered, Down, ReaderRecs
<1> QED BY <1>2, <1>3 DEF Covered

LEMMA HandlerCovered ==
  ASSUME BusInv, NEW r \in Readers, Covered(r), HandlerReturns(r) \/ HandlerRaises(r)
  PROVE  /\ RowsKept /\ Covered(r)'
         /\ \A q \in Readers : q # r => reader'[q] = reader[q]
<1>1. row' = row /\ reader \in [Readers -> ReaderRecs]
  BY DEF HandlerReturns, HandlerRaises, BusInv, Shape
<1>2. RowsKept /\ There' = There
  BY <1>1 DEF RowsKept, There
<1>3. /\ reader'[r].mode = reader[r].mode /\ reader'[r].batch = reader[r].batch
      /\ reader'[r].cursor = reader[r].cursor /\ reader[r].past \subseteq reader'[r].past
      /\ \A q \in Readers : q # r => reader'[q] = reader[q]
  <2>1. CASE HandlerReturns(r)
    <3>1. reader' = [reader EXCEPT ![r] = [@ EXCEPT !.outcome = "ok",
                                                    !.past = reader[r].past \cup {Current(r)}]]
      BY <2>1, Zenon DEF HandlerReturns
    <3> QED BY <1>1, <3>1 DEF ReaderRecs
  <2>2. CASE HandlerRaises(r)
    <3>1. reader' = [reader EXCEPT ![r] = [@ EXCEPT !.outcome = "raised"]]
      BY <2>2 DEF HandlerRaises
    <3> QED BY <1>1, <3>1 DEF ReaderRecs
  <2> QED BY <2>1, <2>2
<1> QED BY <1>1, <1>2, <1>3 DEF Covered, InBatch

\* The cursor goes over an event that was handled, or has just died.
LEMMA AdvanceCovered ==
  ASSUME BusInv, NEW r \in Readers, Covered(r), RowsKept, InBatch(r) # {}, Advance(r),
         Current(r) \in reader[r].past \/ row'[Current(r)].dead
  PROVE  Covered(r)'
<1> SUFFICES ASSUME reader[r].mode = "poll" PROVE Covered(r)'
  <2>1. reader'[r] = Advanced(r) /\ Advanced(r).mode = reader[r].mode
    <3>1. reader' = [reader EXCEPT ![r] = Advanced(r)]
      BY Zenon DEF Advance, Advanced
    <3> QED BY <3>1, AdvancedFacts DEF BusInv, Shape
  <2> QED BY <2>1 DEF Covered
<1> DEFINE c == Current(r)
<1>1. reader'[r] = Advanced(r)
  <2>1. reader' = [reader EXCEPT ![r] = Advanced(r)]
    BY Zenon DEF Advance, Advanced
  <2> QED BY <2>1 DEF BusInv, Shape
<1>2. /\ reader'[r].cursor = c /\ reader'[r].past = reader[r].past
      /\ InBatch(r)' = InBatch(r) \ {c}
  BY <1>1, AdvancedFacts DEF InBatch
<1>3. There' = There /\ There \subseteq Ids /\ Ids \subseteq Nat
  BY BusAssumption DEF RowsKept, There, Ids
<1>4. /\ c \in InBatch(r) /\ c \in Ids /\ c \in There /\ c > reader[r].cursor
      /\ \A k \in InBatch(r) : c <= k
  BY AtCurrent, CurrentIsLeast DEF BusInv
<1>5. reader[r].cursor \in 0..MaxId /\ InBatch(r) \subseteq There
  BY ReaderFields DEF BusInv, Sound, Fetched
<1> HIDE DEF c
<1>6. ASSUME NEW k \in There, k <= c, ~row'[k].dead
      PROVE  k \in reader[r].past
  <2>1. ~row[k].dead /\ k \in Nat /\ c \in Nat
    BY <1>3, <1>4, <1>6 DEF RowsKept
  <2>2. CASE k <= reader[r].cursor
    BY <2>1, <2>2 DEF Covered
  <2>3. CASE k = c
    BY <1>6, <2>3 DEF c
  <2>4. CASE k > reader[r].cursor /\ k # c
    <3>1. k < c
      BY <1>6, <2>1, <2>4
    <3>2. k \in InBatch(r)
      BY <1>4, <2>1, <2>4, <3>1 DEF Covered
    <3> QED BY <1>4, <2>1, <3>1, <3>2
  <2> QED BY <1>5, <2>1, <2>2, <2>3, <2>4, BusAssumption
<1>7. ASSUME NEW n \in InBatch(r) \ {c}, NEW k \in There, k > c, k < n, ~row'[k].dead
      PROVE  k \in InBatch(r) \ {c}
  <2>1. ~row[k].dead /\ k \in Nat /\ c \in Nat /\ reader[r].cursor \in Nat
    BY <1>3, <1>4, <1>5, <1>7, BusAssumption DEF RowsKept
  <2>2. k > reader[r].cursor
    BY <1>4, <1>7, <2>1
  <2>3. k \in InBatch(r)
    BY <1>7, <2>1, <2>2 DEF Covered
  <2> QED BY <1>7, <2>1, <2>3
<1> QED BY <1>1, <1>2, <1>3, <1>6, <1>7 DEF Covered

LEMMA RecordingCovered ==
  ASSUME BusInv, NEW r \in Readers, Covered(r),
         MarkDelivered(r) \/ MarkDead(r) \/ BumpAttempts(r)
  PROVE  /\ RowsKept /\ Covered(r)'
         /\ \A q \in Readers : q # r => reader'[q] = reader[q]
<1>1. RowsKept /\ InBatch(r) # {}
  BY RecordingKeepsRows
<1>2. CASE MarkDelivered(r)
  <2>1. Advance(r) /\ Current(r) \in reader[r].past
    BY <1>2 DEF MarkDelivered, BusInv, Sound, Outcome
  <2> QED BY <1>1, <2>1, AdvanceCovered, AdvanceMoves
<1>3. CASE MarkDead(r)
  <2>1. Advance(r)
    BY <1>3 DEF MarkDead
  <2>2. row'[Current(r)].dead
    <3>1. Current(r) \in Ids /\ row \in [Ids -> Rows]
      BY <1>1, AtCurrent DEF BusInv, Shape
    <3> QED BY <1>3, <3>1 DEF MarkDead, Rows
  <2> QED BY <1>1, <2>1, <2>2, AdvanceCovered, AdvanceMoves
<1>4. CASE BumpAttempts(r) /\ reader[r].mode = "poll"
  <2>1. /\ reader' = [reader EXCEPT ![r] = [@ EXCEPT !.batch = NoBatch, !.outcome = "none"]]
        /\ reader \in [Readers -> ReaderRecs]
    BY <1>4 DEF BumpAttempts, AfterFailure, BusInv, Shape
  <2>2. /\ reader'[r].batch = NoBatch /\ reader'[r].cursor = reader[r].cursor
        /\ reader'[r].past = reader[r].past
        /\ \A q \in Readers : q # r => reader'[q] = reader[q]
    BY <2>1 DEF ReaderRecs
  <2>3. There' = There /\ \A k \in There : row[k].dead => row'[k].dead
    BY <1>1 DEF RowsKept, There
  <2>4. \A k \in There : k <= reader[r].cursor /\ ~row[k].dead => k \in reader[r].past
    BY <1>4 DEF Covered
  <2>5. InBatch(r)' = {}
    BY <2>2, NoBatchFacts DEF InBatch
  <2>6. Covered(r)'
    BY <2>2, <2>3, <2>4, <2>5 DEF Covered
  <2> QED BY <1>1, <2>2, <2>6
<1>5. CASE BumpAttempts(r) /\ reader[r].mode # "poll"
  <2>1. Advance(r)
    BY <1>5 DEF BumpAttempts, AfterFailure
  <2>2. reader' = [reader EXCEPT ![r] = Advanced(r)]
    BY <2>1, Zenon DEF Advance, Advanced
  <2>3. reader'[r].mode = reader[r].mode
    BY <1>1, <2>2, AdvancedFacts DEF BusInv, Shape
  <2> QED BY <1>1, <1>5, <2>1, <2>3, AdvanceMoves DEF Covered
<1> QED BY <1>2, <1>3, <1>4, <1>5

LEMMA StepInOrder ==
  ASSUME MaxOpen = 1, BusInv, BusInv', OrderInv, [BusNext]_bvars
  PROVE  OrderInv'
<1>1. CASE UNCHANGED bvars
  <2>1. RowsKept /\ \A r \in Readers : reader'[r] = reader[r]
    BY <1>1 DEF bvars, RowsKept
  <2> QED BY <2>1, KeptInOrder, StaysCovered DEF OrderInv
<1>2. ASSUME NEW n \in Ids, Insert(n) \/ Commit(n) \/ Rollback(n)
      PROVE  OrderInv'
  BY <1>2, PublishInOrder, StaysCovered DEF OrderInv
<1>3. ASSUME NEW r \in Readers,
             SubscribeAtTail(r) \/ SubscribeAtBeginning(r) \/ Replay(r) \/ ReaderDies(r)
      PROVE  OrderInv'
  BY <1>3, StartOrStopCovered, MovesAlone
<1>4. ASSUME NEW r \in Readers, ReaderStep(r)
      PROVE  OrderInv'
  <2>1. Covered(r)
    BY DEF OrderInv
  <2> QED BY <1>4, <2>1, PollCovered, FetchUndeliveredCovered, HandlerCovered,
          RecordingCovered, MovesAlone DEF ReaderStep
<1> QED BY <1>1, <1>2, <1>3, <1>4 DEF BusNext

\* When publish() transactions do not overlap, no subscriber's cursor passes an event
\* that its handler did not return from, but a dead one: for any number of readers, any
\* batch, any failures, deaths and replays. The run event_gap shows that two
\* overlapping transactions break it.
THEOREM NoEventMissedInOrder ==
  MaxOpen = 1 => (BusSpec => []AtLeastOncePerSubscriber)
<1> SUFFICES ASSUME MaxOpen = 1 PROVE BusSpec => []AtLeastOncePerSubscriber
  OBVIOUS
<1>1. BusInit => OrderInv
  <2> SUFFICES ASSUME BusInit PROVE OrderInv
    OBVIOUS
  <2>1. Open = {} /\ There = {}
    BY DEF BusInit, Open, There, NoRow
  <2>2. \A r \in Readers : reader[r].mode = "down"
    BY DEF BusInit, Down
  <2> QED BY <2>1, <2>2 DEF OrderInv, Ordered, Covered
<1>2. BusInv /\ BusInv' /\ OrderInv /\ [BusNext]_bvars => OrderInv'
  BY StepInOrder
<1>3. OrderInv => AtLeastOncePerSubscriber
  BY DEF OrderInv, Covered, AtLeastOncePerSubscriber
<1> QED BY <1>1, <1>2, <1>3, AlwaysSound, PTL DEF BusSpec
=============================================================================
