---------------------------- MODULE StoresProofs ----------------------------
(***************************************************************************)
(* Theorems about what the services keep: the indexed news of Retrieval,   *)
(* the saved runs of Backtest, the subscriptions and staged orders of      *)
(* CopyTrading, the migrations of Schema and the transactions of Ledger;   *)
(* for every number of workers, users and calls, every capacity and every  *)
(* bound.                                                                  *)
(***************************************************************************)
EXTENDS Schema, Retrieval, Backtest, CopyTrading, Ledger, DataLemmas, SequenceTheorems

-----------------------------------------------------------------------------
(* Retrieval.                                                              *)

LEMMA InInserting ==
  ASSUME NEW row
  PROVE  row \in Inserting <=> \E k \in Fetchers : FetchAt(k, "insert") /\ row \in fetch[k].rows
BY DEF Inserting

LEMMA InUntrimmed ==
  ASSUME NEW row
  PROVE  row \in Untrimmed <=> row \in orphans \/ \E k \in Fetchers : FetchAt(k, "trim") /\ row \in fetch[k].rows
BY DEF Untrimmed

Distinct(rows) == \A r, q \in rows : r.id = q.id \/ r.key = q.key => r = q
NewerRows(n) == {row \in table : row.id > n}

FetchTypes ==
  /\ cached \in Batches \union {Unset} /\ fetch \in [Fetchers -> {Unset} \union FetchWork]
  /\ next_id \in Nat /\ trimmed \in Nat
  /\ table \subseteq ChunkRow /\ IsFiniteSet(table) /\ orphans \subseteq table
  /\ \A k \in Fetchers : fetch[k] # Unset =>
       /\ IsFiniteSet(fetch[k].rows)
       /\ fetch[k].step \in {"insert", "trim"} => fetch[k].place = Shared

IdsAreSpent == trimmed <= next_id /\ \A row \in table \union Inserting : row.id <= next_id

RowsAreDistinct == Distinct(table \union Inserting)

\* A trim leaves the newest rows, and no later one takes them without leaving newer ones.
NewestStay ==
  /\ trimmed > 0 => Cardinality(NewerRows(trimmed)) >= Capacity
  /\ Cardinality(table \ Untrimmed) <= Capacity
  /\ \A row \in table \ Untrimmed : row.id > trimmed

TableInv == FetchTypes /\ IdsAreSpent /\ RowsAreDistinct /\ NewestStay
-----------------------------------------------------------------------------
LEMMA FetchMoves ==
  ASSUME FetchTypes, NEW k \in Fetchers, NEW w \in {Unset} \union FetchWork, fetch' = [fetch EXCEPT ![k] = w]
  PROVE  /\ fetch' \in [Fetchers -> {Unset} \union FetchWork]
         /\ fetch'[k] = w /\ \A j \in Fetchers : j # k => fetch'[j] = fetch[j]
BY DEF FetchTypes

\* A request that has no rows in the table, before and after.
LEMMA QuietFetch ==
  ASSUME TableInv, NEW k \in Fetchers, NEW w \in {Unset} \union FetchWork, fetch' = [fetch EXCEPT ![k] = w],
         ~FetchAt(k, "insert"), ~FetchAt(k, "trim"),
         w # Unset => w.step \in {"fetch", "index"} /\ IsFiniteSet(w.rows),
         UNCHANGED <<table, next_id, trimmed, orphans>>, cached' \in Batches \union {Unset}
  PROVE  TableInv'
<1>1. /\ fetch' \in [Fetchers -> {Unset} \union FetchWork] /\ fetch'[k] = w
      /\ \A j \in Fetchers : j # k => fetch'[j] = fetch[j]
  BY FetchMoves DEF TableInv
<1>2. \A step \in {"insert", "trim"} : \A j \in Fetchers :
        /\ FetchAt(j, step)' <=> FetchAt(j, step)
        /\ FetchAt(j, step) => fetch'[j] = fetch[j]
  BY <1>1 DEF FetchAt
<1>3. Inserting' = Inserting
  BY <1>2 DEF Inserting
<1>4. Untrimmed' = Untrimmed
  BY <1>2 DEF Untrimmed
<1>5. FetchTypes'
  BY <1>1 DEF TableInv, FetchTypes
<1> QED BY <1>3, <1>4, <1>5 DEF TableInv, IdsAreSpent, RowsAreDistinct, NewestStay, NewerRows

LEMMA GetNewsKeeps ==
  ASSUME TableInv, NEW k \in Fetchers, NEW place \in Nodes \union {Shared}, GetNews(k, place)
  PROVE  TableInv'
<1> DEFINE w == [place |-> place, step |-> IF cached = Unset THEN "fetch" ELSE "index",
                 batch |-> IF cached = Unset THEN <<>> ELSE cached, rows |-> {}]
<1>1. fetch[k] = Unset /\ fetch' = [fetch EXCEPT ![k] = w] /\ UNCHANGED <<table, next_id, trimmed, orphans, cached>>
  BY DEF GetNews
<1>2. w \in FetchWork
  BY DEF FetchWork, TableInv, FetchTypes
<1>3. w.step \in {"fetch", "index"} /\ IsFiniteSet(w.rows)
  BY FS_EmptySet
<1> HIDE DEF w
<1>4. ~FetchAt(k, "insert") /\ ~FetchAt(k, "trim")
  BY <1>1 DEF FetchAt
<1>5. cached' \in Batches \union {Unset}
  BY <1>1 DEF TableInv, FetchTypes
<1> QED BY <1>1, <1>2, <1>3, <1>4, <1>5, QuietFetch

LEMMA FeedsAnswerKeeps ==
  ASSUME TableInv, NEW k \in Fetchers, NEW batch \in Batches, FeedsAnswer(k, batch)
  PROVE  TableInv'
<1> DEFINE w == [fetch[k] EXCEPT !.batch = batch, !.step = "index"]
<1>1. /\ FetchAt(k, "fetch") /\ fetch' = [fetch EXCEPT ![k] = w] /\ cached' = batch
      /\ UNCHANGED <<table, next_id, trimmed, orphans>>
  BY DEF FeedsAnswer, TableInv, FetchTypes
<1>2. fetch[k] \in FetchWork /\ IsFiniteSet(fetch[k].rows)
  BY <1>1 DEF FetchAt, TableInv, FetchTypes
<1>3. w \in FetchWork /\ w.step = "index" /\ w.rows = fetch[k].rows
  BY <1>2 DEF FetchWork
<1> HIDE DEF w
<1>4. ~FetchAt(k, "insert") /\ ~FetchAt(k, "trim")
  BY <1>1 DEF FetchAt
<1> QED BY <1>1, <1>2, <1>3, <1>4, QuietFetch

LEMMA IndexedKeeps ==
  ASSUME TableInv, NEW k \in Fetchers, IndexInMemory(k) \/ NothingToIndex(k)
  PROVE  TableInv'
<1>1. /\ FetchAt(k, "index") /\ fetch' = [fetch EXCEPT ![k] = Unset]
      /\ UNCHANGED <<table, next_id, trimmed, orphans, cached>>
  BY DEF IndexInMemory, NothingToIndex, news
<1>2. ~FetchAt(k, "insert") /\ ~FetchAt(k, "trim")
  BY <1>1 DEF FetchAt
<1>3. cached' \in Batches \union {Unset}
  BY <1>1 DEF TableInv, FetchTypes
<1> QED BY <1>1, <1>2, <1>3, QuietFetch

LEMMA StandingStill ==
  ASSUME TableInv, UNCHANGED <<table, next_id, trimmed, orphans, fetch>>, cached' \in Batches \union {Unset}
  PROVE  TableInv'
BY DEF TableInv, FetchTypes, IdsAreSpent, RowsAreDistinct, NewestStay, NewerRows, Inserting, Untrimmed, FetchAt

LEMMA SequenceOfSet ==
  ASSUME NEW S, IsFiniteSet(S)
  PROVE  /\ SetToSeq(S) \in [1..Cardinality(S) -> S] /\ Cardinality(S) \in Nat
         /\ \A i, j \in 1..Cardinality(S) : SetToSeq(S)[i] = SetToSeq(S)[j] => i = j
<1>1. Cardinality(S) \in Nat /\ ExistsBijection(1..Cardinality(S), S)
  BY FS_CardinalityType
<1>2. \E f \in [1..Cardinality(S) -> S] : IsInjective(f)
  <2>1. PICK f : f \in Bijection(1..Cardinality(S), S)
    BY <1>1 DEF ExistsBijection
  <2>2. f \in [1..Cardinality(S) -> S] /\ IsInjective(f)
    BY <2>1 DEF Bijection, Injection
  <2> QED BY <2>2
<1>3. SetToSeq(S) \in [1..Cardinality(S) -> S] /\ IsInjective(SetToSeq(S))
  BY <1>2 DEF SetToSeq
<1> QED BY <1>1, <1>3 DEF IsInjective

LEMMA BatchIsFinite == ASSUME NEW b \in Batches PROVE IsFiniteSet(ToSet(b))
<1>1. b \in Seq(ToSet(b))
  BY RetrievalAssumption
<1>2. DOMAIN b = 1..Len(b) /\ Len(b) \in Nat /\ b = [i \in 1..Len(b) |-> b[i]]
  BY <1>1
<1>3. IsFiniteSet(1..Len(b))
  <2> DEFINE n == Len(b)
  <2>1. 1 \in Int /\ n \in Int
    BY <1>2
  <2> HIDE DEF n
  <2>2. IsFiniteSet(1..n)
    BY <2>1, FS_Interval
  <2> QED BY <2>2 DEF n
<1>4. IsFiniteSet({b[i] : i \in 1..Len(b)})
  BY <1>2, <1>3, ImageIsFinite
<1> QED BY <1>2, <1>4 DEF ToSet

LEMMA InsertChunksKeeps ==
  ASSUME TableInv, NEW k \in Fetchers, InsertChunks(k)
  PROVE  TableInv'
<1> DEFINE fresh == ToSet(fetch[k].batch) \ Keys(table)
           n == Cardinality(fresh)
           new == SetToSeq(fresh)
           rows == {[id |-> next_id + i, key |-> new[i]] : i \in DOMAIN new}
           w == [fetch[k] EXCEPT !.step = "insert", !.rows = rows]
<1>1. /\ FetchAt(k, "index") /\ fetch[k].batch # <<>> /\ ToSet(fetch[k].batch) \intersect Keys(Inserting) = {}
      /\ fetch' = [fetch EXCEPT ![k] = w] /\ next_id' = next_id + Len(new)
      /\ UNCHANGED <<table, trimmed, orphans, cached>>
  BY DEF InsertChunks, news, TableInv, FetchTypes
<1>2. fetch[k] \in FetchWork /\ fetch[k].batch \in Batches
  BY <1>1 DEF FetchAt, FetchWork, TableInv, FetchTypes
<1>3. IsFiniteSet(fresh) /\ fresh \subseteq UNION {ToSet(b) : b \in Batches}
  BY <1>2, BatchIsFinite, FS_Subset
<1>4. /\ n \in Nat /\ new \in [1..n -> fresh] /\ \A i, j \in 1..n : new[i] = new[j] => i = j
  BY <1>3, SequenceOfSet
<1>5. /\ \A key \in fresh : \A row \in table \union Inserting : row.key # key
      /\ next_id \in Nat
  BY <1>1 DEF Keys, TableInv, FetchTypes
<1> HIDE DEF fresh, n, new
<1>6. Len(new) = n /\ DOMAIN new = 1..n
  BY <1>4
<1>7. rows \in SUBSET ChunkRow /\ IsFiniteSet(rows)
  <2> DEFINE f == [i \in 1..n |-> [id |-> next_id + i, key |-> new[i]]]
  <2>1. \A i \in 1..n : next_id + i \in Nat \ {0} /\ new[i] \in UNION {ToSet(b) : b \in Batches}
    BY <1>3, <1>4, <1>5
  <2>2. rows = {f[i] : i \in 1..n}
    BY <1>6
  <2>3. IsFiniteSet(1..n) /\ DOMAIN f = 1..n /\ f = [i \in 1..n |-> f[i]]
    BY <1>4, FS_Interval
  <2>4. rows \in SUBSET ChunkRow
    BY <1>6, <2>1 DEF ChunkRow
  <2> HIDE DEF f, rows
  <2> QED BY <2>2, <2>3, <2>4, ImageIsFinite
<1>8. \A row \in rows : \E i \in 1..n : row.id = next_id + i /\ row.key = new[i] /\ row = [id |-> next_id + i, key |-> new[i]]
  BY <1>6
<1> HIDE DEF rows
<1>9. w \in FetchWork /\ w.step = "insert" /\ w.rows = rows /\ w.place = Shared
  BY <1>1, <1>2, <1>7 DEF FetchWork, InsertChunks
<1> HIDE DEF w
<1>10. /\ fetch' \in [Fetchers -> {Unset} \union FetchWork] /\ fetch'[k] = w
       /\ \A j \in Fetchers : j # k => fetch'[j] = fetch[j]
  BY <1>1, <1>9, FetchMoves DEF TableInv
<1>11. \A row : row \in Inserting' <=> row \in Inserting \/ row \in rows
  <2>1. w # Unset
    BY <1>9, UnsetAssumption
  <2>2. \A j \in Fetchers : FetchAt(j, "insert")' <=> j = k \/ FetchAt(j, "insert")
    BY <1>9, <1>10, <2>1 DEF FetchAt
  <2>3. ~FetchAt(k, "insert")
    BY <1>1 DEF FetchAt
  <2> SUFFICES ASSUME NEW row PROVE row \in Inserting' <=> row \in Inserting \/ row \in rows
    OBVIOUS
  <2>4. row \in Inserting' <=> \E j \in Fetchers : FetchAt(j, "insert")' /\ row \in fetch'[j].rows
    BY DEF Inserting
  <2> QED BY <1>9, <1>10, <2>2, <2>3, <2>4, InInserting
<1>12. Untrimmed' = Untrimmed
  <2>1. \A j \in Fetchers : FetchAt(j, "trim")' <=> FetchAt(j, "trim")
    BY <1>1, <1>9, <1>10 DEF FetchAt
  <2>2. \A j \in Fetchers : FetchAt(j, "trim") => fetch'[j] = fetch[j]
    BY <1>1, <1>10 DEF FetchAt
  <2> QED BY <1>1, <2>1, <2>2 DEF Untrimmed
<1>13. FetchTypes'
  BY <1>1, <1>4, <1>5, <1>6, <1>7, <1>9, <1>10 DEF TableInv, FetchTypes
<1>14. IdsAreSpent'
  <2>1. \A row \in table \union Inserting : row.id \in Int /\ row.id <= next_id
    <3>1. \A row \in Inserting : row \in ChunkRow
      BY InInserting DEF FetchAt, FetchWork, TableInv, FetchTypes
    <3> QED BY <3>1 DEF TableInv, FetchTypes, IdsAreSpent, ChunkRow
  <2>2. \A row \in table' \union Inserting' : row \in table \union Inserting \/ row \in rows
    BY <1>1, <1>11
  <2>3. ASSUME NEW row \in table' \union Inserting' PROVE row.id <= next_id'
    <3>1. CASE row \in table \union Inserting
      BY <1>1, <1>4, <1>5, <1>6, <2>1, <3>1
    <3>2. CASE row \in rows
      BY <1>1, <1>4, <1>5, <1>6, <1>8, <3>2
    <3> QED BY <2>2, <3>1, <3>2
  <2>4. trimmed' <= next_id'
    BY <1>1, <1>4, <1>5, <1>6 DEF TableInv, FetchTypes, IdsAreSpent
  <2> QED BY <2>3, <2>4 DEF IdsAreSpent
<1>15. RowsAreDistinct'
  <2>1. \A r, q \in table \union Inserting : r.id = q.id \/ r.key = q.key => r = q
    BY DEF TableInv, RowsAreDistinct, Distinct
  <2>2. ASSUME NEW r \in rows, NEW q \in rows, r.id = q.id \/ r.key = q.key PROVE r = q
    <3>1. PICK i \in 1..n : r.id = next_id + i /\ r.key = new[i] /\ r = [id |-> next_id + i, key |-> new[i]]
      BY <1>8
    <3>2. PICK j \in 1..n : q.id = next_id + j /\ q.key = new[j] /\ q = [id |-> next_id + j, key |-> new[j]]
      BY <1>8
    <3>3. i = j
      BY <1>4, <1>5, <2>2, <3>1, <3>2
    <3> QED BY <3>1, <3>2, <3>3
  <2>3. ASSUME NEW r \in rows, NEW q \in table \union Inserting PROVE r.id # q.id /\ r.key # q.key
    <3>1. PICK i \in 1..n : r.id = next_id + i /\ r.key = new[i]
      BY <1>8
    <3>2. q.id \in Int /\ q.id <= next_id
      <4>1. q \in ChunkRow
        BY InInserting DEF FetchAt, FetchWork, TableInv, FetchTypes
      <4> QED BY <4>1 DEF TableInv, IdsAreSpent, ChunkRow
    <3> QED BY <1>4, <1>5, <3>1, <3>2
  <2>4. \A r \in table' \union Inserting' : r \in table \union Inserting \/ r \in rows
    BY <1>1, <1>11
  <2>5. \A r, q \in table' \union Inserting' : r.id = q.id \/ r.key = q.key => r = q
    BY <2>1, <2>2, <2>3, <2>4
  <2> QED BY <2>5 DEF RowsAreDistinct, Distinct
<1> QED BY <1>1, <1>12, <1>13, <1>14, <1>15 DEF TableInv, NewestStay, NewerRows

LEMMA CommitChunksKeeps ==
  ASSUME TableInv, NEW k \in Fetchers, CommitChunks(k)
  PROVE  TableInv'
<1> DEFINE rows == fetch[k].rows
           w == [fetch[k] EXCEPT !.step = "trim"]
<1>1. /\ FetchAt(k, "insert") /\ table' = table \union rows /\ fetch' = [fetch EXCEPT ![k] = w]
      /\ UNCHANGED <<next_id, trimmed, orphans, cached>>
  BY DEF CommitChunks, Goes, news, TableInv, FetchTypes
<1>2. /\ fetch[k] \in FetchWork /\ rows \subseteq ChunkRow /\ IsFiniteSet(rows) /\ rows \subseteq Inserting
      /\ fetch[k].place = Shared
  BY <1>1, InInserting DEF FetchAt, FetchWork, TableInv, FetchTypes
<1>3. w \in FetchWork /\ w.step = "trim" /\ w.rows = rows /\ w # Unset /\ w.place = Shared
  <2>1. w \in FetchWork /\ w.step = "trim" /\ w.rows = rows /\ w.place = Shared
    BY <1>2 DEF FetchWork
  <2> HIDE DEF w
  <2> QED BY <2>1, UnsetAssumption
<1> HIDE DEF rows, w
<1>4. /\ fetch' \in [Fetchers -> {Unset} \union FetchWork] /\ fetch'[k] = w
      /\ \A j \in Fetchers : j # k => fetch'[j] = fetch[j]
  BY <1>1, <1>3, FetchMoves DEF TableInv
<1>5. \A row : row \in Inserting' => row \in Inserting
  <2> SUFFICES ASSUME NEW row, row \in Inserting' PROVE row \in Inserting
    OBVIOUS
  <2>1. PICK j \in Fetchers : FetchAt(j, "insert")' /\ row \in fetch'[j].rows
    BY DEF Inserting
  <2>2. j # k
    BY <1>3, <1>4, <2>1 DEF FetchAt
  <2> QED BY <1>4, <2>1, <2>2, InInserting DEF FetchAt
<1>6. \A row : row \in Untrimmed \/ row \in rows => row \in Untrimmed'
  <2> SUFFICES ASSUME NEW row, row \in Untrimmed \/ row \in rows PROVE row \in Untrimmed'
    OBVIOUS
  <2>1. row \in Untrimmed' <=> row \in orphans' \/ \E j \in Fetchers : FetchAt(j, "trim")' /\ row \in fetch'[j].rows
    BY DEF Untrimmed
  <2>2. CASE row \in rows
    BY <1>3, <1>4, <2>1, <2>2 DEF FetchAt
  <2>3. CASE row \in Untrimmed
    <3>1. CASE row \in orphans
      BY <1>1, <2>1, <3>1
    <3>2. CASE row \notin orphans
      <4>1. PICK j \in Fetchers : FetchAt(j, "trim") /\ row \in fetch[j].rows
        BY <2>3, <3>2, InUntrimmed
      <4>2. j # k
        BY <1>1, <4>1 DEF FetchAt
      <4> QED BY <1>4, <2>1, <4>1, <4>2 DEF FetchAt
    <3> QED BY <3>1, <3>2
  <2> QED BY <2>2, <2>3
<1>7. FetchTypes'
  <2>1. IsFiniteSet(table')
    BY <1>1, <1>2, FS_Union DEF TableInv, FetchTypes
  <2> QED BY <1>1, <1>2, <1>3, <1>4, <2>1 DEF TableInv, FetchTypes
<1>8. IdsAreSpent' /\ RowsAreDistinct'
  BY <1>1, <1>2, <1>5 DEF TableInv, IdsAreSpent, RowsAreDistinct, Distinct
<1>9. NewestStay'
  <2>1. table' \ Untrimmed' \subseteq table \ Untrimmed /\ IsFiniteSet(table \ Untrimmed)
    <3>1. IsFiniteSet(table) /\ table \ Untrimmed \subseteq table
      BY DEF TableInv, FetchTypes
    <3> QED BY <1>1, <1>6, <3>1, FS_Subset
  <2>2. /\ Cardinality(table' \ Untrimmed') <= Cardinality(table \ Untrimmed)
        /\ Cardinality(table' \ Untrimmed') \in Nat /\ Cardinality(table \ Untrimmed) \in Nat
    BY <2>1, FS_Subset, FS_CardinalityType
  <2>3. Cardinality(table' \ Untrimmed') <= Capacity
    BY <2>2, RetrievalAssumption DEF TableInv, NewestStay
  <2>4. \A row \in table' \ Untrimmed' : row.id > trimmed'
    BY <1>1, <2>1 DEF TableInv, NewestStay
  <2>5. trimmed' > 0 => Cardinality(NewerRows(trimmed)') >= Capacity
    <3>1. NewerRows(trimmed) \subseteq NewerRows(trimmed)' /\ NewerRows(trimmed)' \subseteq table'
      BY <1>1 DEF NewerRows
    <3>2. IsFiniteSet(NewerRows(trimmed)')
      BY <1>7, <3>1, FS_Subset DEF FetchTypes
    <3>3. /\ Cardinality(NewerRows(trimmed)) <= Cardinality(NewerRows(trimmed)')
          /\ Cardinality(NewerRows(trimmed)) \in Nat /\ Cardinality(NewerRows(trimmed)') \in Nat
      BY <3>1, <3>2, FS_Subset, FS_CardinalityType
    <3> QED BY <1>1, <3>3, RetrievalAssumption DEF TableInv, NewestStay
  <2> QED BY <2>3, <2>4, <2>5 DEF NewestStay
<1> QED BY <1>7, <1>8, <1>9 DEF TableInv

\* What a request leaves behind is where no rows of its own are, and the rest is as it was.
LEMMA TrimTableKeeps ==
  ASSUME TableInv, NEW k \in Fetchers, TrimTable(k)
  PROVE  TableInv'
<1> DEFINE gone == Trimmed(table)
           key == [row \in table |-> row.id]
           old == {row.id : row \in gone}
<1>1. /\ FetchAt(k, "trim") /\ table' = table \ gone /\ trimmed' = Max({trimmed} \union {row.id : row \in gone})
      /\ fetch' = [fetch EXCEPT ![k] = Unset] /\ orphans' = orphans \intersect table'
      /\ UNCHANGED <<next_id, cached>>
  BY DEF TrimTable, news
<1>2. /\ IsFiniteSet(table) /\ key \in [table -> Int] /\ Capacity \in Nat /\ trimmed \in Nat /\ next_id \in Nat
      /\ \A row \in table : key[row] = row.id /\ row.id \in Nat \ {0} /\ row.id <= next_id
      /\ \A r, q \in table : key[r] = key[q] => r = q
  BY RetrievalAssumption DEF TableInv, FetchTypes, IdsAreSpent, RowsAreDistinct, Distinct, ChunkRow
<1>3. /\ gone \subseteq table /\ IsFiniteSet(gone)
      /\ \A r \in table : r \in gone <=> Cardinality(NewerOf(table, key, r)) >= Capacity
  <2>1. \A r \in table : NewerOf(table, key, r) = {q \in table : q.id > r.id}
    BY DEF NewerOf
  <2>2. gone \subseteq table
    BY DEF Trimmed
  <2> QED BY <1>2, <2>1, <2>2, FS_Subset DEF Trimmed
<1> HIDE DEF gone, key
<1>4. IsFiniteSet(old) /\ old \subseteq Int
  <2> DEFINE f == [row \in gone |-> row.id]
  <2>1. old = {f[row] : row \in gone} /\ DOMAIN f = gone /\ f = [row \in gone |-> f[row]]
    OBVIOUS
  <2>2. old \subseteq Int
    BY <1>2, <1>3
  <2> HIDE DEF f, old
  <2>3. IsFiniteSet({f[row] : row \in gone})
    BY <1>3, <2>1, ImageIsFinite
  <2> QED BY <2>1, <2>2, <2>3
<1>5. /\ trimmed' = Max({trimmed} \union old)
      /\ \A row \in gone : row.id \in old
      /\ \A id \in old : \E row \in gone : row.id = id
      /\ gone = {} => old = {}
  BY <1>1
<1> HIDE DEF old
<1>6. /\ trimmed' \in {trimmed} \union old /\ trimmed <= trimmed'
      /\ \A row \in gone : row.id <= trimmed'
  <2>1. IsFiniteSet({trimmed} \union old) /\ {trimmed} \union old \subseteq Int
    <3> DEFINE one == {trimmed}
    <3>1. IsFiniteSet(one) /\ one \subseteq Int
      <4>1. IsFiniteSet(one)
        BY FS_Singleton
      <4>2. one \subseteq Int
        BY <1>2
      <4> QED BY <4>1, <4>2
    <3> HIDE DEF one
    <3>2. IsFiniteSet(one \union old)
      BY <1>4, <3>1, FS_Union
    <3>3. one \union old \subseteq Int
      BY <1>4, <3>1
    <3> QED BY <3>2, <3>3 DEF one
  <2>2. /\ Max({trimmed} \union old) \in {trimmed} \union old
        /\ \A x \in {trimmed} \union old : x <= Max({trimmed} \union old)
    BY <2>1, LargestExists
  <2> QED BY <1>1, <1>5, <2>2
<1>7. IsFiniteSet(table') /\ table' \subseteq table /\ Cardinality(table') <= Capacity
  <2>1. \A r \in table' : Cardinality(NewerOf(table, key, r)) < Capacity
    <3> SUFFICES ASSUME NEW r \in table' PROVE Cardinality(NewerOf(table, key, r)) < Capacity
      OBVIOUS
    <3>1. Cardinality(NewerOf(table, key, r)) \in 0..(Cardinality(table) - 1)
      BY <1>1, <1>2, NewerIsFinite
    <3> QED BY <1>1, <1>2, <1>3, <3>1
  <2>2. table' \subseteq table
    BY <1>1
  <2> QED BY <1>2, <2>1, <2>2, NewestAreFew
<1>8. ASSUME NEW row \in table' PROVE row.id > trimmed'
  <2>1. row \in table /\ row \notin gone /\ row.id \in Nat \ {0}
    BY <1>1, <1>2
  <2>2. CASE trimmed' \in old
    <3>1. PICK g \in gone : trimmed' = g.id
      BY <1>5, <2>2
    <3>2. g \in table /\ key[g] = g.id /\ key[row] = row.id
      BY <1>2, <1>3, <2>1
    <3>3. /\ Cardinality(NewerOf(table, key, g)) \in Int /\ Cardinality(NewerOf(table, key, row)) \in Int
          /\ Cardinality(NewerOf(table, key, g)) >= Capacity /\ Cardinality(NewerOf(table, key, row)) < Capacity
      BY <1>2, <1>3, <2>1, <3>2, NewerIsFinite
    <3>4. ~(key[row] < key[g])
      BY <1>2, <2>1, <3>2, <3>3, RanksDiffer
    <3>5. key[row] # key[g]
      BY <1>2, <2>1, <3>2
    <3> QED BY <1>2, <2>1, <3>1, <3>2, <3>4, <3>5
  <2>3. CASE trimmed' = trimmed /\ trimmed > 0
    <3> SUFFICES ASSUME row.id <= trimmed PROVE FALSE
      BY <1>2, <2>1, <2>3
    <3>1. NewerRows(trimmed) \subseteq NewerOf(table, key, row)
      BY <1>2, <2>1 DEF NewerOf, NewerRows
    <3>2. IsFiniteSet(NewerOf(table, key, row))
      <4>1. NewerOf(table, key, row) \subseteq table
        BY DEF NewerOf
      <4> QED BY <1>2, <4>1, FS_Subset
    <3>3. /\ Cardinality(NewerRows(trimmed)) <= Cardinality(NewerOf(table, key, row))
          /\ Cardinality(NewerRows(trimmed)) \in Nat /\ Cardinality(NewerOf(table, key, row)) \in Nat
      BY <3>1, <3>2, FS_Subset, FS_CardinalityType
    <3>4. Cardinality(NewerRows(trimmed)) >= Capacity
      BY <2>3 DEF TableInv, NewestStay
    <3> QED BY <1>2, <1>3, <2>1, <3>3, <3>4
  <2>4. CASE trimmed' = trimmed /\ trimmed = 0
    BY <2>1, <2>4
  <2> QED BY <1>2, <1>6, <2>2, <2>3, <2>4
<1>9. trimmed' > 0 => Cardinality(NewerRows(trimmed)') >= Capacity
  <2>1. NewerRows(trimmed)' = table'
    BY <1>8 DEF NewerRows
  <2>2. CASE gone = {}
    <3>1. table' = table /\ old = {}
      BY <1>1, <1>5, <2>2
    <3>2. trimmed' = trimmed
      BY <1>6, <3>1
    <3>3. NewerRows(trimmed)' = NewerRows(trimmed)
      BY <3>1, <3>2 DEF NewerRows
    <3> QED BY <3>2, <3>3 DEF TableInv, NewestStay
  <2>3. CASE gone # {}
    <3>1. \E age \in [gone -> Int] : \A row \in gone : age[row] = key[row]
      <4> DEFINE age == [row \in gone |-> key[row]]
      <4>1. age \in [gone -> Int] /\ \A row \in gone : age[row] = key[row]
        BY <1>2, <1>3
      <4> HIDE DEF age
      <4> QED BY <4>1
    <3>2. PICK age \in [gone -> Int] : \A row \in gone : age[row] = key[row]
      BY <3>1
    <3>3. \A r, q \in gone : age[r] = age[q] => r = q
      BY <1>2, <1>3, <3>2
    <3>4. PICK g \in gone : \A row \in gone : age[row] <= age[g]
      BY <1>3, <2>3, <3>3, NewestExists
    <3>5. NewerOf(table, key, g) \subseteq table'
      <4> SUFFICES ASSUME NEW q \in table, key[q] > key[g], q \in gone PROVE FALSE
        BY <1>1 DEF NewerOf
      <4>1. key[q] <= key[g] /\ g \in table
        BY <1>3, <3>2, <3>4
      <4> QED BY <1>2, <4>1
    <3>6. /\ Cardinality(NewerOf(table, key, g)) <= Cardinality(table') /\ Cardinality(table') \in Nat
          /\ Cardinality(NewerOf(table, key, g)) \in Int /\ Cardinality(NewerOf(table, key, g)) >= Capacity
      <4>1. g \in table
        BY <1>3
      <4> QED BY <1>2, <1>3, <1>7, <3>5, <4>1, FS_Subset, FS_CardinalityType, NewerIsFinite
    <3> QED BY <1>2, <2>1, <3>6
  <2> QED BY <2>2, <2>3
<1>10. /\ fetch' \in [Fetchers -> {Unset} \union FetchWork] /\ fetch'[k] = Unset
      /\ \A j \in Fetchers : j # k => fetch'[j] = fetch[j]
  BY <1>1, FetchMoves DEF TableInv
<1>11. Inserting' = Inserting
  <2>1. \A j \in Fetchers : /\ FetchAt(j, "insert")' <=> FetchAt(j, "insert")
                            /\ FetchAt(j, "insert") => fetch'[j] = fetch[j]
    BY <1>1, <1>10 DEF FetchAt
  <2> QED BY <2>1 DEF Inserting
<1>12. trimmed' \in Nat /\ trimmed' <= next_id'
  BY <1>1, <1>2, <1>3, <1>5, <1>6 DEF TableInv, IdsAreSpent
<1>13. FetchTypes'
  BY <1>1, <1>7, <1>10, <1>12 DEF TableInv, FetchTypes
<1>14. IdsAreSpent' /\ RowsAreDistinct'
  BY <1>1, <1>7, <1>11, <1>12 DEF TableInv, IdsAreSpent, RowsAreDistinct, Distinct
<1>15. Cardinality(table' \ Untrimmed') <= Capacity
  <2>1. table' \ Untrimmed' \subseteq table'
    OBVIOUS
  <2> QED BY <1>2, <1>7, <2>1, FS_Subset, FS_CardinalityType
<1> QED BY <1>8, <1>9, <1>13, <1>14, <1>15 DEF TableInv, NewestStay

LEMMA WorkerDiesKeeps ==
  ASSUME TableInv, NEW k \in Fetchers, WorkerDies(k)
  PROVE  TableInv'
<1>1. /\ fetch[k] # Unset /\ UNCHANGED <<table, next_id, cached, trimmed>>
      /\ orphans' = IF fetch[k].step = "trim" THEN orphans \union (fetch[k].rows \intersect table) ELSE orphans
      /\ fetch' = [j \in Fetchers |-> IF j = k \/ InMemoryOf(j, fetch[k].place) THEN Unset ELSE fetch[j]]
  BY DEF WorkerDies
<1>2. fetch' \in [Fetchers -> {Unset} \union FetchWork] /\ \A j \in Fetchers : fetch'[j] \in {Unset, fetch[j]}
  BY <1>1 DEF TableInv, FetchTypes
<1>3. \A j \in Fetchers : j # k /\ FetchAt(j, "trim") => fetch'[j] = fetch[j]
  BY <1>1 DEF FetchAt, InMemoryOf, TableInv, FetchTypes
<1>4. \A row : row \in Inserting' => row \in Inserting
  <2> SUFFICES ASSUME NEW row, row \in Inserting' PROVE row \in Inserting
    OBVIOUS
  <2>1. PICK j \in Fetchers : FetchAt(j, "insert")' /\ row \in fetch'[j].rows
    BY DEF Inserting
  <2>2. fetch'[j] = fetch[j] /\ FetchAt(j, "insert")
    BY <1>2, <2>1 DEF FetchAt
  <2> QED BY <2>1, <2>2, InInserting
<1>5. table' \ Untrimmed' \subseteq table \ Untrimmed
  <2> SUFFICES ASSUME NEW row \in table, row \in Untrimmed PROVE row \in Untrimmed'
    BY <1>1
  <2>1. row \in Untrimmed' <=> row \in orphans' \/ \E j \in Fetchers : FetchAt(j, "trim")' /\ row \in fetch'[j].rows
    BY DEF Untrimmed
  <2>2. CASE row \in orphans
    BY <1>1, <2>1, <2>2
  <2>3. CASE row \notin orphans
    <3>1. PICK j \in Fetchers : FetchAt(j, "trim") /\ row \in fetch[j].rows
      BY <2>3, InUntrimmed
    <3>2. CASE j = k
      BY <1>1, <2>1, <3>1, <3>2 DEF FetchAt
    <3>3. CASE j # k
      BY <1>3, <2>1, <3>1, <3>3 DEF FetchAt
    <3> QED BY <3>2, <3>3
  <2> QED BY <2>2, <2>3
<1>6. FetchTypes'
  BY <1>1, <1>2 DEF TableInv, FetchTypes
<1>7. IdsAreSpent' /\ RowsAreDistinct'
  BY <1>1, <1>4 DEF TableInv, IdsAreSpent, RowsAreDistinct, Distinct
<1>8. Cardinality(table' \ Untrimmed') <= Capacity
  <2>1. IsFiniteSet(table \ Untrimmed)
    <3>1. IsFiniteSet(table) /\ table \ Untrimmed \subseteq table
      BY DEF TableInv, FetchTypes
    <3> QED BY <3>1, FS_Subset
  <2>2. /\ Cardinality(table' \ Untrimmed') <= Cardinality(table \ Untrimmed)
        /\ Cardinality(table' \ Untrimmed') \in Nat /\ Cardinality(table \ Untrimmed) \in Nat
    BY <1>5, <2>1, FS_Subset, FS_CardinalityType
  <2> QED BY <2>2, RetrievalAssumption DEF TableInv, NewestStay
<1>9. \A row \in table' \ Untrimmed' : row.id > trimmed'
  BY <1>1, <1>5 DEF TableInv, NewestStay
<1>10. trimmed' > 0 => Cardinality(NewerRows(trimmed)') >= Capacity
  BY <1>1 DEF TableInv, NewestStay, NewerRows
<1> QED BY <1>6, <1>7, <1>8, <1>9, <1>10 DEF TableInv, NewestStay

LEMMA TableInvHolds == RetrievalSpec => []TableInv
<1>1. RetrievalInit => TableInv
  <2> SUFFICES ASSUME RetrievalInit PROVE TableInv
    OBVIOUS
  <2>1. \A j \in Fetchers : fetch[j] = Unset
    BY DEF RetrievalInit
  <2>2. Inserting = {}
    BY <2>1 DEF Inserting, FetchAt
  <2>3. FetchTypes
    BY <2>1, FS_EmptySet DEF RetrievalInit, FetchTypes
  <2>4. table \ Untrimmed = {} /\ Cardinality({}) = 0
    BY FS_EmptySet DEF RetrievalInit
  <2> QED BY <2>2, <2>3, <2>4, RetrievalAssumption DEF RetrievalInit, TableInv, IdsAreSpent, RowsAreDistinct, Distinct, NewestStay
<1>2. TableInv /\ [RetrievalNext]_retrievalVars => TableInv'
  <2> SUFFICES ASSUME TableInv, [RetrievalNext]_retrievalVars PROVE TableInv'
    OBVIOUS
  <2>1. CASE UNCHANGED retrievalVars
    BY <2>1, StandingStill DEF retrievalVars, TableInv, FetchTypes
  <2>2. CASE CacheExpires
    BY <2>2, StandingStill DEF CacheExpires, TableInv, FetchTypes
  <2>3. CASE \E company \in Companies, filing \in Filings : Ingest(company, filing)
    BY <2>3, StandingStill DEF Ingest, TableInv, FetchTypes
  <2>4. CASE \E k \in Fetchers, place \in Nodes \union {Shared} : GetNews(k, place)
    BY <2>4, GetNewsKeeps
  <2>5. CASE \E k \in Fetchers, batch \in Batches : FeedsAnswer(k, batch)
    BY <2>5, FeedsAnswerKeeps
  <2>6. CASE \E k \in Fetchers : IndexInMemory(k) \/ NothingToIndex(k)
    BY <2>6, IndexedKeeps
  <2>7. CASE \E k \in Fetchers : InsertChunks(k)
    BY <2>7, InsertChunksKeeps
  <2>8. CASE \E k \in Fetchers : CommitChunks(k)
    BY <2>8, CommitChunksKeeps
  <2>9. CASE \E k \in Fetchers : TrimTable(k)
    BY <2>9, TrimTableKeeps
  <2>10. CASE \E k \in Fetchers : WorkerDies(k)
    BY <2>10, WorkerDiesKeeps
  <2> QED BY <2>1, <2>2, <2>3, <2>4, <2>5, <2>6, <2>7, <2>8, <2>9, <2>10 DEF RetrievalNext
<1> QED BY <1>1, <1>2, PTL DEF RetrievalSpec

LEMMA UntrimmedIsFinite == ASSUME TableInv PROVE IsFiniteSet(Untrimmed)
<1> DEFINE trims == {j \in Fetchers : FetchAt(j, "trim")}
           rowsOf == [j \in trims |-> fetch[j].rows]
           sets == {rowsOf[j] : j \in trims}
<1>1. IsFiniteSet(trims)
  <2>1. trims \subseteq Fetchers
    OBVIOUS
  <2> QED BY <2>1, RetrievalAssumption, FS_Subset
<1>2. Untrimmed = orphans \union (UNION sets) /\ \A rows \in sets : IsFiniteSet(rows)
  BY DEF Untrimmed, FetchAt, TableInv, FetchTypes
<1>3. DOMAIN rowsOf = trims /\ rowsOf = [j \in trims |-> rowsOf[j]]
  OBVIOUS
<1>4. IsFiniteSet(orphans)
  BY FS_Subset DEF TableInv, FetchTypes
<1> HIDE DEF trims, rowsOf
<1>5. IsFiniteSet(sets)
  BY <1>1, <1>3, ImageIsFinite
<1> HIDE DEF sets
<1>6. IsFiniteSet(UNION sets)
  BY <1>2, <1>5, FS_UNION
<1> QED BY <1>2, <1>4, <1>6, FS_Union

\* PgVectorStore.add_texts inserts, commits and trims: however the requests of all workers
\* interleave and die, rag_chunks holds no text twice, is over its capacity only by rows
\* whose request has not trimmed, and no other row outlives one that is newer.
THEOREM TableHonest == RetrievalSpec => []TableIsHonest
<1>1. TableInv => TableIsHonest
  <2> SUFFICES ASSUME TableInv PROVE TableIsHonest
    OBVIOUS
  <2>1. \A r, row \in table : r.key = row.key => r = row
    BY DEF TableInv, RowsAreDistinct, Distinct
  <2>2. IsFiniteSet(table) /\ IsFiniteSet(Untrimmed)
    BY UntrimmedIsFinite DEF TableInv, FetchTypes
  <2>3. /\ table = (table \ Untrimmed) \union (table \intersect Untrimmed)
        /\ table \ Untrimmed \subseteq table /\ table \intersect Untrimmed \subseteq Untrimmed
    OBVIOUS
  <2>4. /\ IsFiniteSet(table \ Untrimmed) /\ IsFiniteSet(table \intersect Untrimmed)
        /\ Cardinality(table \intersect Untrimmed) <= Cardinality(Untrimmed)
    BY <2>2, <2>3, FS_Subset
  <2>5. /\ Cardinality(table \ Untrimmed) \in Nat /\ Cardinality(table \intersect Untrimmed) \in Nat
        /\ Cardinality(Untrimmed) \in Nat /\ Cardinality(table) \in Nat
    BY <2>2, <2>4, FS_CardinalityType
  <2>6. Cardinality(table) = Cardinality(table \ Untrimmed) + Cardinality(table \intersect Untrimmed)
    <3> DEFINE a == table \ Untrimmed
               b == table \intersect Untrimmed
    <3>1. a \intersect b = {} /\ table = a \union b
      OBVIOUS
    <3>2. IsFiniteSet(a) /\ IsFiniteSet(b) /\ Cardinality(a) \in Nat /\ Cardinality(b) \in Nat
      BY <2>4, <2>5
    <3> HIDE DEF a, b
    <3>3. Cardinality(a \union b) = Cardinality(a) + Cardinality(b) - Cardinality(a \intersect b)
      BY <3>2, FS_Union
    <3>4. Cardinality(table) = Cardinality(a) + Cardinality(b)
      BY <3>1, <3>2, <3>3, FS_EmptySet
    <3> QED BY <3>4 DEF a, b
  <2>7. Cardinality(table) <= Capacity + Cardinality(Untrimmed)
    BY <2>4, <2>5, <2>6, RetrievalAssumption DEF TableInv, NewestStay
  <2>8. \A row \in table \ Untrimmed : row.id > trimmed
    BY DEF TableInv, NewestStay
  <2> QED BY <2>1, <2>7, <2>8 DEF TableIsHonest
<1> QED BY <1>1, TableInvHolds, PTL

-----------------------------------------------------------------------------
(* The index in memory.                                                    *)

\* Keys a chunk can have.
NewsKeys == UNION {ToSet(b) : b \in Batches}

\* What an index in memory is to be.
IndexRecord == [chunks : Seq(NewsKeys), seen : SUBSET NewsKeys]
IsIndex(s) ==
  /\ s \in IndexRecord
  /\ Len(s.chunks) <= Capacity /\ s.seen = ToSet(s.chunks) /\ IsInjective(s.chunks)

\* What AddTexts folds.
AddStep(s, r, key) == IF key \in s.seen \union r.seen THEN r ELSE AddText(r, key)
AddFold(s, batch) ==
  CHOOSE h : h = [p \in SUBSET (DOMAIN batch) |->
    IF p = {} THEN s ELSE AddStep(s, h[p \ {Max(p)}], batch[Max(p)])]

LEMMA AddTextsFolds == ASSUME NEW s, NEW batch PROVE AddTexts(s, batch) = AddFold(s, batch)[DOMAIN batch]
BY DEF AddTexts, FoldLeft, MapThenFoldSet, AddFold, AddStep

LEMMA DropsHead ==
  ASSUME NEW K, NEW c \in Seq(K), IsInjective(c), Len(c) > 0
  PROVE  /\ Tail(c) \in Seq(K) /\ Len(Tail(c)) = Len(c) - 1
         /\ IsInjective(Tail(c)) /\ ToSet(Tail(c)) = ToSet(c) \ {Head(c)}
<1>1. /\ Tail(c) \in Seq(K) /\ Len(Tail(c)) = Len(c) - 1
      /\ \A i \in 1..(Len(c) - 1) : Tail(c)[i] = c[i + 1]
      /\ DOMAIN Tail(c) = 1..(Len(c) - 1) /\ Head(c) = c[1] /\ DOMAIN c = 1..Len(c) /\ Len(c) \in Nat
  OBVIOUS
<1>2. \A i, j \in 1..Len(c) : c[i] = c[j] => i = j
  BY <1>1 DEF IsInjective
<1>3. IsInjective(Tail(c))
  <2>1. \A i \in 1..(Len(c) - 1) : i + 1 \in 1..Len(c)
    BY <1>1
  <2> QED BY <1>1, <1>2, <2>1 DEF IsInjective
<1>4. ToSet(Tail(c)) = {c[i + 1] : i \in 1..(Len(c) - 1)}
  BY <1>1 DEF ToSet
<1>5. ASSUME NEW x \in ToSet(c), x # Head(c) PROVE x \in ToSet(Tail(c))
  <2>1. PICK j \in 1..Len(c) : x = c[j]
    BY <1>1 DEF ToSet
  <2>2. j # 1 /\ j - 1 \in 1..(Len(c) - 1) /\ (j - 1) + 1 = j
    BY <1>1, <1>5, <2>1
  <2> QED BY <1>4, <2>1, <2>2
<1>6. ASSUME NEW x \in ToSet(Tail(c)) PROVE x \in ToSet(c) /\ x # Head(c)
  <2>1. PICK i \in 1..(Len(c) - 1) : x = c[i + 1]
    BY <1>4
  <2>2. i + 1 \in 1..Len(c) /\ 1 \in 1..Len(c) /\ i + 1 # 1
    BY <1>1
  <2> QED BY <1>1, <1>2, <2>1, <2>2 DEF ToSet
<1> QED BY <1>1, <1>3, <1>5, <1>6

LEMMA AppendsNew ==
  ASSUME NEW K, NEW c \in Seq(K), IsInjective(c), NEW x \in K, x \notin ToSet(c)
  PROVE  /\ Append(c, x) \in Seq(K) /\ Len(Append(c, x)) = Len(c) + 1
         /\ IsInjective(Append(c, x)) /\ ToSet(Append(c, x)) = ToSet(c) \union {x}
<1> DEFINE d == Append(c, x)
<1>1. /\ d \in Seq(K) /\ Len(d) = Len(c) + 1 /\ Len(c) \in Nat
      /\ DOMAIN d = 1..(Len(c) + 1) /\ DOMAIN c = 1..Len(c)
      /\ \A i \in 1..Len(c) : d[i] = c[i]
      /\ d[Len(c) + 1] = x
  OBVIOUS
<1> HIDE DEF d
<1>2. \A i \in DOMAIN d : i \in DOMAIN c \/ i = Len(c) + 1
  BY <1>1
<1>3. \A i \in DOMAIN c : c[i] # x /\ i \in DOMAIN d
  BY <1>1 DEF ToSet
<1>4. IsInjective(d)
  BY <1>1, <1>2, <1>3 DEF IsInjective
<1>5. ToSet(d) = ToSet(c) \union {x}
  <2>1. Len(c) + 1 \in DOMAIN d
    BY <1>1
  <2> QED BY <1>1, <1>2, <1>3, <2>1 DEF ToSet
<1> QED BY <1>1, <1>4, <1>5 DEF d

LEMMA AddTextKeeps ==
  ASSUME NEW r, IsIndex(r), NEW key \in NewsKeys, key \notin r.seen
  PROVE  IsIndex(AddText(r, key))
<1>1. /\ r.chunks \in Seq(NewsKeys) /\ Len(r.chunks) \in Nat /\ Len(r.chunks) <= Capacity
      /\ r.seen = ToSet(r.chunks) /\ IsInjective(r.chunks) /\ Capacity \in Nat \ {0}
  BY RetrievalAssumption DEF IsIndex, IndexRecord
<1> DEFINE full == Len(r.chunks) = Capacity
           c == IF full THEN Tail(r.chunks) ELSE r.chunks
           left == IF full THEN r.seen \ {Head(r.chunks)} ELSE r.seen
           a == AddText(r, key)
<1>2. a = [chunks |-> Append(c, key), seen |-> left \union {key}]
  BY DEF AddText
<1>3. c \in Seq(NewsKeys) /\ Len(c) < Capacity /\ IsInjective(c) /\ left = ToSet(c) /\ key \notin ToSet(c)
  <2>1. CASE full
    <3>1. Len(r.chunks) > 0
      BY <1>1, <2>1
    <3> QED BY <1>1, <2>1, <3>1, DropsHead
  <2>2. CASE ~full
    BY <1>1, <2>2
  <2> QED BY <2>1, <2>2
<1> HIDE DEF c, left
<1>4. /\ Append(c, key) \in Seq(NewsKeys) /\ Len(Append(c, key)) = Len(c) + 1 /\ Len(c) \in Nat
      /\ IsInjective(Append(c, key)) /\ ToSet(Append(c, key)) = left \union {key}
  BY <1>3, AppendsNew
<1>5. left \union {key} \subseteq NewsKeys
  BY <1>3 DEF ToSet
<1> HIDE DEF a
<1>6. a \in IndexRecord /\ a.chunks = Append(c, key) /\ a.seen = left \union {key}
  BY <1>2, <1>4, <1>5 DEF IndexRecord
<1> QED BY <1>1, <1>3, <1>4, <1>6 DEF IsIndex, a

LEMMA AddTextsKeeps ==
  ASSUME NEW s, IsIndex(s), NEW batch \in Seq(NewsKeys)
  PROVE  IsIndex(AddTexts(s, batch))
<1> DEFINE D == DOMAIN batch
           T == {r \in IndexRecord : IsIndex(r)}
           pick == [p \in SUBSET D |-> Max(p)]
           step == [a \in T \X D |-> AddStep(s, a[1], batch[a[2]])]
           h == AddFold(s, batch)
           IsFold(f) == f = [p \in SUBSET D |-> IF p = {} THEN s ELSE AddStep(s, f[p \ {Max(p)}], batch[Max(p)])]
<1>1. IsFiniteSet(D) /\ D \subseteq Int
  <2> DEFINE n == Len(batch)
  <2>1. D = 1..n /\ n \in Int /\ 1 \in Int
    OBVIOUS
  <2> HIDE DEF n
  <2> QED BY <2>1, FS_Interval
<1>2. \A i \in D : batch[i] \in NewsKeys
  OBVIOUS
<1>3. \A r \in T, i \in D : AddStep(s, r, batch[i]) \in T
  <2> SUFFICES ASSUME NEW r \in T, NEW i \in D PROVE AddStep(s, r, batch[i]) \in T
    OBVIOUS
  <2>1. CASE batch[i] \in s.seen \union r.seen
    BY <2>1 DEF AddStep
  <2>2. CASE batch[i] \notin s.seen \union r.seen
    <3>1. IsIndex(AddText(r, batch[i]))
      BY <1>2, <2>2, AddTextKeeps
    <3> QED BY <2>2, <3>1 DEF AddStep, IsIndex
  <2> QED BY <2>1, <2>2
<1>4. \A p \in SUBSET D : p # {} => Max(p) \in p
  <2> SUFFICES ASSUME NEW p \in SUBSET D, p # {} PROVE Max(p) \in p
    OBVIOUS
  <2>1. IsFiniteSet(p) /\ p \subseteq Int
    BY <1>1, FS_Subset
  <2> QED BY <2>1, LargestExists
<1>5. s \in T
  BY DEF IsIndex
<1> HIDE DEF D, T
<1>6. Picks(pick, D)
  BY <1>4 DEF Picks
<1>7. step \in [T \X D -> T]
  BY <1>3
<1>8. \E f \in [SUBSET D -> T] : FoldedBy(f, D, s, pick, step)
  <2> HIDE DEF pick, step
  <2> QED BY <1>1, <1>5, <1>6, <1>7, FoldExists
<1>9. PICK f \in [SUBSET D -> T] : FoldedBy(f, D, s, pick, step)
  BY <1>8
<1>10. \A p \in SUBSET D : p # {} => f[p] = AddStep(s, f[p \ {Max(p)}], batch[Max(p)])
  <2> SUFFICES ASSUME NEW p \in SUBSET D, p # {} PROVE f[p] = AddStep(s, f[p \ {Max(p)}], batch[Max(p)])
    OBVIOUS
  <2>1. Max(p) \in D /\ f[p \ {Max(p)}] \in T
    BY <1>4
  <2>2. f[p] = step[<<f[p \ {Max(p)}], Max(p)>>]
    BY <1>9 DEF FoldedBy
  <2> QED BY <2>1, <2>2
<1>11. IsFold(f)
  BY <1>9, <1>10 DEF FoldedBy
<1>12. IsFold(h)
  BY <1>11 DEF AddFold, D
<1>13. /\ h[{}] = s
       /\ \A p \in SUBSET D : p # {} => h[p] = AddStep(s, h[p \ {Max(p)}], batch[Max(p)])
  BY <1>12
<1> DEFINE good == [p \in SUBSET D |-> T]
<1> HIDE DEF h
<1>14. \A p \in SUBSET D : h[p] \in good[p]
  <2>1. h[{}] \in good[{}]
    BY <1>5, <1>13
  <2>2. ASSUME NEW p \in SUBSET D, p # {}
        PROVE  \E x \in p : h[p \ {x}] \in good[p \ {x}] => h[p] \in good[p]
    <3> DEFINE m == Max(p)
    <3>1. m \in p /\ m \in D
      BY <1>4, <2>2
    <3>2. h[p] = AddStep(s, h[p \ {m}], batch[m]) /\ good[p] = T /\ good[p \ {m}] = T
      BY <1>13, <2>2
    <3> HIDE DEF m, good
    <3>3. h[p \ {m}] \in good[p \ {m}] => h[p] \in good[p]
      BY <1>3, <3>1, <3>2
    <3> QED BY <3>1, <3>3
  <2> HIDE DEF good
  <2> QED BY <1>1, <2>1, <2>2, FoldKeeps
<1>15. h[D] \in T
  BY <1>14
<1>16. AddTexts(s, batch) = h[D]
  BY AddTextsFolds DEF h, D
<1> QED BY <1>15, <1>16 DEF T
-----------------------------------------------------------------------------
\* The index of each worker.
IndexOf(h) == [chunks |-> chunks[h], seen |-> seen[h]]
MemoryInv ==
  /\ chunks \in [Nodes -> Seq(NewsKeys)] /\ seen \in [Nodes -> SUBSET NewsKeys]
  /\ \A h \in Nodes : IsIndex(IndexOf(h))

LEMMA EmptyIndex == IsIndex([chunks |-> <<>>, seen |-> {}])
<1>1. ToSet(<<>>) = {} /\ IsInjective(<<>>) /\ Len(<<>>) = 0 /\ <<>> \in Seq(NewsKeys)
  BY DEF ToSet, IsInjective
<1> QED BY <1>1, RetrievalAssumption DEF IsIndex, IndexRecord

LEMMA MemoryMoves ==
  ASSUME MemoryInv, NEW h \in Nodes, NEW s, IsIndex(s),
         chunks' = [chunks EXCEPT ![h] = s.chunks], seen' = [seen EXCEPT ![h] = s.seen]
  PROVE  MemoryInv'
<1>1. s \in IndexRecord /\ s = [chunks |-> s.chunks, seen |-> s.seen]
  BY DEF IsIndex, IndexRecord
<1>2. chunks' \in [Nodes -> Seq(NewsKeys)] /\ seen' \in [Nodes -> SUBSET NewsKeys]
  BY <1>1 DEF MemoryInv, IndexRecord
<1>3. chunks'[h] = s.chunks /\ seen'[h] = s.seen
  BY DEF MemoryInv
<1>4. IndexOf(h)' = s
  BY <1>1, <1>3 DEF IndexOf
<1>5. \A g \in Nodes : g # h => IndexOf(g)' = IndexOf(g)
  BY DEF MemoryInv, IndexOf
<1>6. \A g \in Nodes : IsIndex(IndexOf(g)')
  BY <1>4, <1>5 DEF MemoryInv
<1> QED BY <1>2, <1>6 DEF MemoryInv, IsIndex, IndexRecord

LEMMA IndexInMemoryKeeps ==
  ASSUME TableInv, MemoryInv, NEW k \in Fetchers, IndexInMemory(k)
  PROVE  MemoryInv'
<1> DEFINE h == fetch[k].place
           b == fetch[k].batch
<1>1. h \in Nodes /\ b \in Seq(NewsKeys)
  <2>1. fetch[k] \in FetchWork /\ h # Shared /\ b # <<>>
    BY DEF IndexInMemory, FetchAt, TableInv, FetchTypes
  <2>2. h \in Nodes /\ b \in Batches
    BY <2>1 DEF FetchWork
  <2>3. b \in Seq(ToSet(b)) /\ ToSet(b) \subseteq NewsKeys
    BY <2>2, RetrievalAssumption DEF NewsKeys
  <2> QED BY <2>2, <2>3
<1>2. IsIndex(IndexOf(h))
  BY <1>1 DEF MemoryInv
<1> DEFINE s == AddTexts(IndexOf(h), b)
<1>3. IsIndex(s)
  <2> HIDE DEF h, b
  <2> QED BY <1>1, <1>2, AddTextsKeeps
<1>4. chunks' = [chunks EXCEPT ![h] = s.chunks] /\ seen' = [seen EXCEPT ![h] = s.seen]
  BY DEF IndexInMemory, IndexOf
<1> HIDE DEF s
<1> QED BY <1>1, <1>3, <1>4, MemoryMoves

LEMMA WorkerDiesForgets ==
  ASSUME TableInv, MemoryInv, NEW k \in Fetchers, WorkerDies(k)
  PROVE  MemoryInv'
<1> DEFINE h == fetch[k].place
<1>1. h \in Nodes \union {Shared}
  BY DEF WorkerDies, TableInv, FetchTypes, FetchWork
<1>2. CASE h = Shared
  <2>1. chunks' = chunks /\ seen' = seen
    BY <1>2 DEF WorkerDies
  <2> QED BY <2>1 DEF MemoryInv, IndexOf, IsIndex, IndexRecord
<1>3. CASE h # Shared
  <2>1. chunks' = [chunks EXCEPT ![h] = <<>>] /\ seen' = [seen EXCEPT ![h] = {}]
    BY <1>3 DEF WorkerDies
  <2> DEFINE e == [chunks |-> <<>>, seen |-> {}]
  <2>2. e.chunks = <<>> /\ e.seen = {} /\ IsIndex(e)
    BY EmptyIndex
  <2> HIDE DEF e, h
  <2> QED BY <1>1, <1>3, <2>1, <2>2, MemoryMoves
<1> QED BY <1>2, <1>3

LEMMA MemoryInvHolds == RetrievalSpec => []MemoryInv
<1>1. RetrievalInit => MemoryInv
  <2> SUFFICES ASSUME RetrievalInit PROVE MemoryInv
    OBVIOUS
  <2>1. \A h \in Nodes : IndexOf(h) = [chunks |-> <<>>, seen |-> {}]
    BY DEF RetrievalInit, IndexOf
  <2> QED BY <2>1, EmptyIndex DEF RetrievalInit, MemoryInv
<1>2. TableInv /\ MemoryInv /\ [RetrievalNext]_retrievalVars => MemoryInv'
  <2> SUFFICES ASSUME TableInv, MemoryInv, [RetrievalNext]_retrievalVars PROVE MemoryInv'
    OBVIOUS
  <2>1. CASE UNCHANGED <<chunks, seen>>
    BY <2>1 DEF MemoryInv, IndexOf
  <2>2. CASE \E k \in Fetchers : IndexInMemory(k)
    BY <2>2, IndexInMemoryKeeps
  <2>3. CASE \E k \in Fetchers : WorkerDies(k)
    BY <2>3, WorkerDiesForgets
  <2> QED BY <2>1, <2>2, <2>3 DEF RetrievalNext, retrievalVars, CacheExpires, GetNews, FeedsAnswer, NothingToIndex,
                                   InsertChunks, CommitChunks, TrimTable, Ingest
<1> QED BY <1>1, <1>2, TableInvHolds, PTL DEF RetrievalSpec

-----------------------------------------------------------------------------
(* Searches.                                                               *)

\* A finite set has a best member.
LEMMA BestExists ==
  ASSUME NEW S, IsFiniteSet(S), S # {}, NEW score, \A x \in S : score[x] \in Int
  PROVE  \E x \in S : \A y \in S : score[y] <= score[x]
<1> DEFINE worth == [x \in S |-> score[x]]
           all == {worth[x] : x \in S}
<1>1. IsFiniteSet(all)
  <2>1. DOMAIN worth = S /\ worth = [x \in S |-> worth[x]]
    OBVIOUS
  <2> HIDE DEF worth
  <2> QED BY <2>1, ImageIsFinite
<1>2. all \subseteq Int /\ all # {}
  OBVIOUS
<1>3. Max(all) \in all /\ \A v \in all : v <= Max(all)
  <2> HIDE DEF all
  <2> QED BY <1>1, <1>2, LargestExists
<1>4. PICK x \in S : Max(all) = worth[x]
  BY <1>3
<1>5. \A y \in S : worth[y] <= worth[x]
  BY <1>3, <1>4
<1> QED BY <1>5

\* A best part of a finite set: all of it, or so many that none left out is better.
BestOf(S, score, n, part) ==
  /\ part \subseteq S /\ Cardinality(part) <= n
  /\ part # S => Cardinality(part) = n /\ \A x \in part, y \in S \ part : score[x] >= score[y]

LEMMA BestPartExists ==
  ASSUME NEW S, IsFiniteSet(S), NEW score, \A x \in S : score[x] \in Int, NEW n \in Nat
  PROVE  \E part : BestOf(S, score, n, part)
<1> DEFINE Has(m) == \E part : BestOf(S, score, m, part)
           Q == {m \in Nat : ~Has(m)}
<1>1. Has(0)
  BY FS_EmptySet DEF BestOf
<1>2. ASSUME NEW m \in Nat, Has(m) PROVE Has(m + 1)
  <2>1. PICK part : BestOf(S, score, m, part)
    BY <1>2
  <2>2. part \subseteq S /\ IsFiniteSet(part) /\ Cardinality(part) \in Nat
    BY <2>1, FS_Subset, FS_CardinalityType DEF BestOf
  <2>3. CASE part = S
    BY <2>1, <2>2, <2>3 DEF BestOf
  <2>4. CASE part # S
    <3>1. IsFiniteSet(S \ part) /\ S \ part # {}
      BY <2>2, <2>4, FS_Subset
    <3>2. PICK best \in S \ part : \A y \in S \ part : score[y] <= score[best]
      BY <3>1, BestExists
    <3>3. Cardinality(part \union {best}) = m + 1
      BY <2>1, <2>2, <2>4, <3>2, FS_AddElement DEF BestOf
    <3>4. \A x \in part \union {best}, y \in S \ (part \union {best}) : score[x] >= score[y]
      BY <2>1, <2>4, <3>2 DEF BestOf
    <3>5. BestOf(S, score, m + 1, part \union {best})
      BY <2>2, <3>2, <3>3, <3>4 DEF BestOf
    <3> QED BY <3>5
  <2> QED BY <2>3, <2>4
<1>3. ASSUME Q # {} PROVE FALSE
  <2>1. PICK m \in Q : \A j \in Q : m <= j
    BY <1>3, LeastOf
  <2>2. m # 0 /\ m - 1 \in Nat
    BY <1>1, <2>1
  <2>3. Has(m - 1)
    BY <2>1, <2>2
  <2> HIDE DEF Has
  <2> QED BY <1>2, <2>1, <2>2, <2>3
<1> QED BY <1>3

AnswersFound(keys, q) ==
  LET answers == Answers(keys, q) IN
  /\ answers # {}
  /\ \A a, b \in answers : \A key \in a \ b : \E other \in b \ a : Score[q][key] = Score[q][other]

LEMMA SearchAnswers ==
  ASSUME NEW q \in Queries, NEW keys, keys \subseteq NewsKeys, IsFiniteSet(keys)
  PROVE  AnswersFound(keys, q)
<1> DEFINE score == Score[q]
           G == {key \in keys : score[key] >= MinScore}
<1>1. (\A x \in keys : score[x] \in Int) /\ TopK \in Nat /\ MinScore \in Nat
  <2>1. Score \in [Queries -> [NewsKeys -> Nat]] /\ TopK \in Nat /\ MinScore \in Nat
    BY RetrievalAssumption DEF NewsKeys
  <2>2. Score[q] \in [NewsKeys -> Nat]
    BY <2>1
  <2> QED BY <2>1, <2>2
<1>2. IsFiniteSet(G) /\ G \subseteq keys
  BY FS_Subset
<1>3. ASSUME NEW hits
      PROVE  hits \in Answers(keys, q) <=>
               /\ hits \subseteq G /\ Cardinality(hits) <= TopK
               /\ \A key \in G \ hits : Cardinality(hits) = TopK /\ \A hit \in hits : score[hit] >= score[key]
  BY <1>1 DEF Answers
<1>4. Answers(keys, q) # {}
  <2> HIDE DEF G, score
  <2>1. PICK part : BestOf(G, score, TopK, part)
    BY <1>1, <1>2, BestPartExists
  <2>2. part \in Answers(keys, q)
    BY <1>3, <2>1 DEF BestOf
  <2> QED BY <2>2
<1>5. ASSUME NEW a \in Answers(keys, q), NEW b \in Answers(keys, q), NEW key \in a \ b
      PROVE  \E other \in b \ a : score[key] = score[other]
  <2>1. a \subseteq G /\ b \subseteq G /\ key \in G \ b
    BY <1>3, <1>5
  <2>2. /\ IsFiniteSet(a) /\ IsFiniteSet(b) /\ Cardinality(a) <= TopK /\ Cardinality(b) = TopK
        /\ \A hit \in b : score[hit] >= score[key]
    BY <1>2, <1>3, <2>1, FS_Subset
  <2>3. ~(b \subseteq a)
    <3> SUFFICES ASSUME b \subseteq a PROVE FALSE
      OBVIOUS
    <3>1. Cardinality(b) <= Cardinality(a) /\ Cardinality(b) # Cardinality(a)
      BY <1>5, <2>2, FS_Subset
    <3> QED BY <1>1, <2>2, <3>1, FS_CardinalityType
  <2>4. PICK other \in b \ a : TRUE
    BY <2>3
  <2>5. score[key] >= score[other] /\ score[other] >= score[key]
    BY <1>3, <2>1, <2>2, <2>4
  <2>6. score[key] \in Int /\ score[other] \in Int
    BY <1>1, <1>2, <2>1, <2>4
  <2> QED BY <2>4, <2>5, <2>6
<1> QED BY <1>4, <1>5 DEF AnswersFound

\* add_texts of InMemoryVectorStore forgets a text with the chunk it evicts, and search of
\* either store ranks what is there: whatever is indexed, evicted, trimmed and lost, no index
\* holds a chunk twice, each knows exactly what it holds, and every search has an answer,
\* the same up to ties.
THEOREM IndexHonest == RetrievalSpec => []IndexIsHonest
<1>1. TableInv /\ MemoryInv /\ TableIsHonest => IndexIsHonest
  <2> SUFFICES ASSUME TableInv, MemoryInv, TableIsHonest PROVE IndexIsHonest
    OBVIOUS
  <2>1. ASSUME NEW h \in Nodes
        PROVE  seen[h] = ToSet(chunks[h]) /\ IsInjective(chunks[h]) /\ seen[h] \subseteq NewsKeys /\ chunks[h] \in Seq(NewsKeys)
    BY DEF MemoryInv, IsIndex, IndexOf
  <2>2. ASSUME NEW h \in Nodes, NEW q \in Queries PROVE AnswersFound(ToSet(chunks[h]), q)
    <3> DEFINE c == chunks[h]
               D == 1..Len(c)
    <3>1. DOMAIN c = D /\ IsFiniteSet(D) /\ c = [i \in D |-> c[i]]
      <4>1. Len(c) \in Int /\ 1 \in Int /\ DOMAIN c = 1..Len(c) /\ c = [i \in 1..Len(c) |-> c[i]]
        BY <2>1
      <4> HIDE DEF c
      <4> QED BY <4>1, FS_Interval
    <3> HIDE DEF D
    <3>2. IsFiniteSet({c[i] : i \in D})
      <4> HIDE DEF c
      <4> QED BY <3>1, ImageIsFinite
    <3>3. IsFiniteSet(ToSet(c)) /\ ToSet(c) \subseteq NewsKeys
      BY <2>1, <3>1, <3>2 DEF ToSet
    <3> QED BY <3>3, SearchAnswers
  <2>3. ASSUME NEW q \in Queries PROVE AnswersFound(Keys(table), q)
    <3> DEFINE key == [row \in table |-> row.key]
    <3>1. IsFiniteSet({key[row] : row \in table})
      <4>1. DOMAIN key = table /\ key = [row \in table |-> key[row]] /\ IsFiniteSet(table)
        BY DEF TableInv, FetchTypes
      <4> HIDE DEF key
      <4> QED BY <4>1, ImageIsFinite
    <3>2. Keys(table) = {key[row] : row \in table}
      BY DEF Keys
    <3>3. Keys(table) \subseteq NewsKeys
      BY DEF Keys, TableInv, FetchTypes, ChunkRow, NewsKeys
    <3> QED BY <3>1, <3>2, <3>3, SearchAnswers
  <2> QED BY <2>1, <2>2, <2>3 DEF IndexIsHonest, AnswersFound
<1> QED BY <1>1, TableInvHolds, MemoryInvHolds, TableHonest, PTL

-----------------------------------------------------------------------------
(* Filings.                                                                *)

\* What Sections folds: a section after what is filed.
Chunk(names) == [section : names, is_qa : BOOLEAN, sentiment : Int]
Filed(names) == [name : names, list : Seq(Chunk(names))]
NameAfter(r, sec) == IF sec.marker = "none" THEN r.name ELSE sec.marker
FileSection(r, sec) ==
  [name |-> NameAfter(r, sec),
   list |-> r.list \o [i \in DOMAIN sec.paras |->
     [section |-> NameAfter(r, sec), is_qa |-> sec.marker = "qa", sentiment |-> sec.paras[i]]]]
NothingFiled == [name |-> "overview", list |-> <<>>]
FilingFold(filing) ==
  CHOOSE h : h = [p \in SUBSET (DOMAIN filing) |->
    IF p = {} THEN NothingFiled ELSE FileSection(h[p \ {Max(p)}], filing[Max(p)])]

LEMMA SectionsFold == ASSUME NEW filing PROVE Sections(filing) = FilingFold(filing)[DOMAIN filing].list
BY DEF Sections, FoldLeft, MapThenFoldSet, FilingFold, FileSection, NameAfter, NothingFiled

\* A section adds a chunk for each of its paragraphs.
LEMMA FilesParagraphs ==
  ASSUME NEW names, NEW r \in Filed(names), NEW sec, sec.marker \in names, sec.paras \in Seq(Int)
  PROVE  /\ FileSection(r, sec) \in Filed(names)
         /\ Len(FileSection(r, sec).list) = Len(r.list) + Len(sec.paras)
<1> DEFINE name == NameAfter(r, sec)
           c == [i \in DOMAIN sec.paras |-> [section |-> name, is_qa |-> sec.marker = "qa", sentiment |-> sec.paras[i]]]
<1>1. name \in names /\ r.list \in Seq(Chunk(names))
  BY DEF NameAfter, Filed
<1>2. DOMAIN sec.paras = 1..Len(sec.paras) /\ Len(sec.paras) \in Nat /\ \A i \in DOMAIN sec.paras : sec.paras[i] \in Int
  OBVIOUS
<1>3. c \in Seq(Chunk(names)) /\ Len(c) = Len(sec.paras)
  <2>1. \A i \in 1..Len(sec.paras) : [section |-> name, is_qa |-> sec.marker = "qa", sentiment |-> sec.paras[i]] \in Chunk(names)
    <3>1. (sec.marker = "qa") \in BOOLEAN
      OBVIOUS
    <3> HIDE DEF name
    <3> QED BY <1>1, <1>2, <3>1 DEF Chunk
  <2>2. c = [i \in 1..Len(sec.paras) |-> [section |-> name, is_qa |-> sec.marker = "qa", sentiment |-> sec.paras[i]]]
    BY <1>2
  <2> HIDE DEF name, c
  <2> QED BY <1>2, <2>1, <2>2
<1>4. FileSection(r, sec) = [name |-> name, list |-> r.list \o c]
  BY DEF FileSection
<1> HIDE DEF name, c
<1>5. r.list \o c \in Seq(Chunk(names)) /\ Len(r.list \o c) = Len(r.list) + Len(c)
  BY <1>1, <1>3, ConcatProperties
<1> QED BY <1>1, <1>3, <1>4, <1>5 DEF Filed

FilingStep(names, sections) == [a \in Filed(names) \X sections |-> FileSection(a[1], a[2])]

\* A filing with a paragraph is kept with a chunk.
LEMMA FilingsHaveChunks ==
  ASSUME NEW filing \in Filings
  PROVE  Len(Sections(filing)) \in Nat \ {0}
<1> DEFINE sections == ToSet(filing)
           names == {"overview"} \union {sec.marker : sec \in sections}
           T == Filed(names)
           op == FilingStep(names, sections)
           IsFold(g) == g = [p \in SUBSET (DOMAIN filing) |->
             IF p = {} THEN NothingFiled ELSE FileSection(g[p \ {Max(p)}], filing[Max(p)])]
           h == FilingFold(filing)
           n == Len(filing)
<1>1. /\ filing \in Seq(sections) /\ n \in Nat /\ DOMAIN filing = 1..n
      /\ \A i \in 1..n : filing[i] \in sections /\ filing[i].paras \in Seq(Int)
  BY FilingsAssumption
<1>2. PICK j \in 1..n : filing[j].paras # <<>>
  BY <1>1, FilingsAssumption
<1>3. \A sec \in sections : sec.marker \in names /\ sec.paras \in Seq(Int)
  BY <1>1 DEF ToSet
<1>4. NothingFiled \in T
  BY DEF NothingFiled, Filed
<1>5. h = CHOOSE g : IsFold(g)
  BY DEF FilingFold
<1> HIDE DEF sections, names
<1>6. \A r \in T, sec \in sections :
        FileSection(r, sec) \in T /\ Len(FileSection(r, sec).list) = Len(r.list) + Len(sec.paras)
  BY <1>3, FilesParagraphs
<1>7. op \in [T \X sections -> T] /\ \A r \in T, sec \in sections : op[<<r, sec>>] = FileSection(r, sec)
  <2>1. \A a \in T \X sections : FileSection(a[1], a[2]) \in T
    BY <1>6
  <2> QED BY <2>1 DEF FilingStep
<1>8. \A r \in T : Len(r.list) \in Nat
  BY DEF Filed
<1> HIDE DEF T, op
<1>9. PICK g \in [SUBSET (DOMAIN filing) -> T] : Folded(g, op, NothingFiled, filing)
  BY <1>1, <1>4, <1>7, FoldOfSeq
<1>10. ASSUME NEW p \in SUBSET (DOMAIN filing), p # {} PROVE g[p] = FileSection(g[p \ {Max(p)}], filing[Max(p)])
  <2>1. g[p \ {Max(p)}] \in T /\ filing[Max(p)] \in sections
    BY <1>1, <1>9, <1>10 DEF Folded
  <2> QED BY <1>7, <1>9, <1>10, <2>1 DEF Folded
<1>11. IsFold(g)
  BY <1>9, <1>10 DEF Folded
<1>12. IsFold(h)
  BY <1>5, <1>11
<1>13. /\ h[{}] = NothingFiled
       /\ \A p \in SUBSET (DOMAIN filing) : p # {} => h[p] = FileSection(h[p \ {Max(p)}], filing[Max(p)])
  BY <1>12
<1>14. Sections(filing) = h[1..n].list
  BY <1>1, SectionsFold
<1> HIDE DEF h
<1>15. ASSUME NEW p \in SUBSET (DOMAIN filing), p # {}, h[p \ {Max(p)}] \in T
       PROVE  h[p] = op[<<h[p \ {Max(p)}], filing[Max(p)]>>]
  BY <1>1, <1>7, <1>9, <1>13, <1>15 DEF Folded
<1>16. FoldsBy(h, op, NothingFiled, filing, T)
  BY <1>13, <1>15 DEF FoldsBy
<1>17. RunsBy(h, op, filing, T)
  BY <1>1, <1>4, <1>7, <1>16, FoldRuns
<1>18. ASSUME NEW k \in 0..n
       PROVE  h[1..k] \in T /\ (k < n => h[1..(k + 1)] = FileSection(h[1..k], filing[k + 1]) /\ filing[k + 1] \in sections)
  <2>1. h[1..k] \in T /\ (k < n => h[1..(k + 1)] = op[<<h[1..k], filing[k + 1]>>])
    BY <1>17 DEF RunsBy
  <2>2. ASSUME k < n PROVE filing[k + 1] \in sections
    BY <1>1, <2>2
  <2> QED BY <1>7, <2>1, <2>2
<1> DEFINE size == [k \in 0..n |-> Len(h[1..k].list)]
<1>19. \A k \in 0..n : size[k] \in Nat
  BY <1>8, <1>18
<1>20. ASSUME NEW k \in 0..(n - 1) PROVE size[k + 1] = size[k] + Len(filing[k + 1].paras) /\ k + 1 \in 0..n /\ k \in 0..n /\ k + 1 \in 1..n
  <2>1. k \in 0..n /\ k < n /\ k + 1 \in 0..n /\ k + 1 \in 1..n
    BY <1>1
  <2> QED BY <1>6, <1>18, <2>1
<1>21. \A k \in 1..n : Len(filing[k].paras) \in Nat
  BY <1>1
<1> HIDE DEF n, size
<1> DEFINE good == {k \in 0..n : k >= j => size[k] > 0}
<1>22. 0 \in good
  BY <1>1
<1>23. ASSUME NEW k \in 0..(n - 1), k \in good PROVE k + 1 \in good
  <2>1. size[k] \in Nat /\ Len(filing[k + 1].paras) \in Nat
    BY <1>19, <1>20, <1>21
  <2>2. CASE k >= j
    BY <1>1, <1>20, <1>23, <2>1, <2>2
  <2>3. CASE k + 1 = j
    <3>1. Len(filing[j].paras) # 0
      BY <1>1, <1>2
    <3> QED BY <1>20, <2>1, <2>3, <3>1
  <2>4. CASE k + 1 < j
    BY <1>1, <1>20, <2>4
  <2> QED BY <1>1, <2>2, <2>3, <2>4
<1>24. 0..n \subseteq good
  <2> HIDE DEF good
  <2>1. good \subseteq 0..n
    BY DEF good
  <2> QED BY <1>1, <1>22, <1>23, <2>1, Upward
<1>25. n \in good /\ n \in 0..n
  BY <1>1, <1>24
<1>26. size[n] > 0 /\ size[n] \in Nat
  BY <1>1, <1>19, <1>25
<1>27. size[n] = Len(Sections(filing))
  BY <1>1, <1>14, <1>25 DEF size
<1> QED BY <1>26, <1>27

-----------------------------------------------------------------------------
\* What the type of Retrieval says beyond its invariants.
NewsBounds ==
  /\ fetches \in 0..MaxFetches /\ deaths \in 0..MaxDeaths
  /\ \E reports : documents \in Seq(reports)
  /\ \A i \in DOMAIN documents : documents[i].overall[2] > 0

LEMMA FilingIsKept ==
  ASSUME NewsBounds, NEW company, NEW filing \in Filings, Ingest(company, filing)
  PROVE  NewsBounds'
<1>1. PICK reports : documents \in Seq(reports)
  BY DEF NewsBounds
<1>2. PICK d : documents' = Append(documents, d) /\ d.overall[2] = Len(Sections(filing))
  <2> DEFINE list == Sections(filing)
  <2>1. \E shift : documents' = Append(documents, [symbol |-> company, overall |-> <<Tone(list), Len(list)>>, shift |-> shift])
    BY Zenon DEF Ingest
  <2>2. PICK shift : documents' = Append(documents, [symbol |-> company, overall |-> <<Tone(list), Len(list)>>, shift |-> shift])
    BY <2>1
  <2> HIDE DEF list
  <2>3. [symbol |-> company, overall |-> <<Tone(list), Len(list)>>, shift |-> shift].overall[2] = Len(list)
    OBVIOUS
  <2> QED BY <2>2, <2>3, Zenon DEF list
<1>3. documents \in Seq(reports \union {d})
  BY <1>1
<1>4. documents' \in Seq(reports \union {d})
  BY <1>2, <1>3
<1>5. /\ DOMAIN documents' = 1..(Len(documents) + 1) /\ DOMAIN documents = 1..Len(documents) /\ Len(documents) \in Nat
      /\ documents'[Len(documents) + 1] = d /\ \A i \in 1..Len(documents) : documents'[i] = documents[i]
  BY <1>2, <1>3
<1>6. d.overall[2] > 0
  <2>1. Len(Sections(filing)) \in Nat \ {0}
    BY FilingsHaveChunks
  <2> QED BY <1>2, <2>1
<1>7. \A i \in DOMAIN documents' : documents'[i].overall[2] > 0
  <2> SUFFICES ASSUME NEW i \in DOMAIN documents' PROVE documents'[i].overall[2] > 0
    OBVIOUS
  <2>1. CASE i \in DOMAIN documents
    BY <1>5, <2>1 DEF NewsBounds
  <2>2. CASE i = Len(documents) + 1
    BY <1>5, <1>6, <2>2
  <2> QED BY <1>5, <2>1, <2>2
<1>8. UNCHANGED <<fetches, deaths>>
  BY DEF Ingest
<1> QED BY <1>4, <1>7, <1>8 DEF NewsBounds

LEMMA NewsBoundsKept == NewsBounds /\ [RetrievalNext]_retrievalVars => NewsBounds'
<1> SUFFICES ASSUME NewsBounds, [RetrievalNext]_retrievalVars PROVE NewsBounds'
  OBVIOUS
<1>1. CASE \E company \in Companies, filing \in Filings : Ingest(company, filing)
  BY <1>1, FilingIsKept
<1>2. CASE \E k \in Fetchers, place \in Nodes \union {Shared} : GetNews(k, place)
  <2>1. fetches < MaxFetches /\ fetches' = fetches + 1 /\ UNCHANGED <<deaths, documents>>
    BY <1>2 DEF GetNews
  <2>2. fetches' \in 0..MaxFetches
    BY <2>1, RetrievalAssumption DEF NewsBounds
  <2> QED BY <2>1, <2>2 DEF NewsBounds
<1>3. CASE \E k \in Fetchers : WorkerDies(k)
  <2>1. deaths < MaxDeaths /\ deaths' = deaths + 1 /\ UNCHANGED <<fetches, documents>>
    BY <1>3 DEF WorkerDies
  <2>2. deaths' \in 0..MaxDeaths
    BY <2>1, RetrievalAssumption DEF NewsBounds
  <2> QED BY <2>1, <2>2 DEF NewsBounds
<1>4. CASE UNCHANGED <<fetches, deaths, documents>>
  BY <1>4 DEF NewsBounds
<1>5. CacheExpires => UNCHANGED <<fetches, deaths, documents>>
  BY DEF CacheExpires
<1>6. \A k \in Fetchers : (\E batch \in Batches : FeedsAnswer(k, batch)) => UNCHANGED <<fetches, deaths, documents>>
  BY DEF FeedsAnswer
<1>7. \A k \in Fetchers : NothingToIndex(k) \/ IndexInMemory(k) \/ InsertChunks(k) \/ CommitChunks(k) \/ TrimTable(k)
                          => UNCHANGED <<fetches, deaths, documents>>
  BY DEF NothingToIndex, IndexInMemory, InsertChunks, CommitChunks, TrimTable, news
<1>8. UNCHANGED retrievalVars => UNCHANGED <<fetches, deaths, documents>>
  BY DEF retrievalVars
<1> QED BY <1>1, <1>2, <1>3, <1>4, <1>5, <1>6, <1>7, <1>8 DEF RetrievalNext

LEMMA NewsBoundsAtFirst == RetrievalInit => NewsBounds
<1> SUFFICES ASSUME RetrievalInit PROVE NewsBounds
  OBVIOUS
<1>1. documents \in Seq({}) /\ DOMAIN documents = {}
  BY DEF RetrievalInit
<1>2. fetches \in 0..MaxFetches /\ deaths \in 0..MaxDeaths
  BY RetrievalAssumption DEF RetrievalInit
<1> QED BY <1>1, <1>2 DEF NewsBounds

LEMMA ReportsOfText == ASSUME NewsBounds, NEW company PROVE ShiftReport(company) = Unset \/ ShiftReport(company).prepared[2] > 0
<1> DEFINE mine == {i \in DOMAIN documents : documents[i].symbol = company}
<1>1. CASE mine = {}
  BY <1>1 DEF ShiftReport
<1>2. CASE mine # {}
  <2>1. PICK reports : documents \in Seq(reports)
    BY DEF NewsBounds
  <2>2. IsFiniteSet(mine) /\ mine \subseteq Int
    <3>1. DOMAIN documents = 1..Len(documents) /\ Len(documents) \in Nat
      BY <2>1
    <3>2. IsFiniteSet(1..Len(documents)) /\ mine \subseteq 1..Len(documents) /\ 1..Len(documents) \subseteq Int
      BY <3>1, FS_Interval
    <3> QED BY <3>2, FS_Subset
  <2>3. Max(mine) \in mine
    BY <1>2, <2>2, LargestExists
  <2>4. ShiftReport(company).prepared = documents[Max(mine)].overall
    BY <1>2 DEF ShiftReport
  <2> HIDE DEF mine
  <2>5. Max(mine) \in DOMAIN documents
    BY <2>3 DEF mine
  <2> QED BY <2>4, <2>5 DEF NewsBounds
<1> QED BY <1>1, <1>2

LEMMA RetrievalIsTyped == TableInv /\ MemoryInv /\ NewsBounds => RetrievalTypeOK
<1> SUFFICES ASSUME TableInv, MemoryInv, NewsBounds PROVE RetrievalTypeOK
  OBVIOUS
<1>1. \A h \in Nodes : Len(chunks[h]) <= Capacity
  BY DEF MemoryInv, IsIndex, IndexOf
<1>2. next_id \in Nat /\ trimmed \in 0..next_id /\ orphans \subseteq table
  BY DEF TableInv, FetchTypes, IdsAreSpent
<1>3. \A row \in table : row.id \in 1..next_id
  <2> SUFFICES ASSUME NEW row \in table PROVE row.id \in 1..next_id
    OBVIOUS
  <2>1. row.id \in Nat \ {0}
    BY DEF TableInv, FetchTypes, ChunkRow
  <2>2. row.id <= next_id
    BY DEF TableInv, IdsAreSpent
  <2> QED BY <1>2, <2>1, <2>2
<1>4. cached \in Batches \union {Unset} /\ \A k \in Fetchers : fetch[k] = Unset \/ fetch[k].step \in {"fetch", "index", "insert", "trim"}
  BY DEF TableInv, FetchTypes, FetchWork
<1>5. \A company \in Companies : ShiftReport(company) = Unset \/ ShiftReport(company).prepared[2] > 0
  BY ReportsOfText
<1> QED BY <1>1, <1>2, <1>3, <1>4, <1>5 DEF RetrievalTypeOK, NewsBounds

\* Both stores keep their types and bounds, and what is reported of a filing is of its text.
THEOREM RetrievalTypeCorrect == RetrievalSpec => []RetrievalTypeOK
<1>1. RetrievalSpec => []NewsBounds
  BY NewsBoundsAtFirst, NewsBoundsKept, PTL DEF RetrievalSpec
<1> QED BY <1>1, TableInvHolds, MemoryInvHolds, RetrievalIsTyped, PTL

-----------------------------------------------------------------------------
(* Backtest.                                                               *)

Committing(w) == save[w] # Resting /\ save[w].step = "commit"
Pruning(w) == save[w] # Resting /\ save[w].step = "prune"
PruningOf(u) == {w \in Savers : Pruning(w) /\ save[w].row.user = u}

SaveTypes ==
  /\ closes \in Seq(Closes) /\ Len(closes) <= MaxBars
  /\ runs \subseteq BacktestRow /\ IsFiniteSet(runs)
  /\ saves \in 0..MaxSaves /\ kills \in 0..MaxKills
  /\ save \in [Savers -> SaveWork \union {Resting}]

\* No two runs were made at one time, saved or about to be.
StampsDiffer ==
  /\ \A r \in runs : r.stamp <= saves
  /\ \A r, q \in runs : r.stamp = q.stamp => r = q
  /\ \A w \in Savers : Committing(w) =>
       /\ save[w].row.stamp <= saves
       /\ \A r \in runs : r.stamp # save[w].row.stamp
       /\ \A v \in Savers : Committing(v) /\ save[v].row.stamp = save[w].row.stamp => v = w

\* Each user apart: what is over the cap was saved by a worker of this user that has yet
\* to prune, or that died before it did.
OwnersCapped ==
  \A u \in Owners : Cardinality(RunsOf(u)) <= MaxRunsPerUser + kills + Cardinality(PruningOf(u))

SavesInv == SaveTypes /\ StampsDiffer /\ OwnersCapped
-----------------------------------------------------------------------------
LEMMA SaveMoves ==
  ASSUME SaveTypes, NEW w \in Savers, NEW v \in SaveWork \union {Resting}, save' = [save EXCEPT ![w] = v]
  PROVE  /\ save' \in [Savers -> SaveWork \union {Resting}]
         /\ save'[w] = v /\ \A x \in Savers : x # w => save'[x] = save[x]
BY DEF SaveTypes

LEMMA CountsAreNumbers ==
  ASSUME SaveTypes, NEW u
  PROVE  /\ IsFiniteSet(RunsOf(u)) /\ Cardinality(RunsOf(u)) \in Nat
         /\ IsFiniteSet(PruningOf(u)) /\ Cardinality(PruningOf(u)) \in Nat
<1>1. RunsOf(u) \subseteq runs /\ PruningOf(u) \subseteq Savers
  BY DEF RunsOf, PruningOf
<1>2. IsFiniteSet(RunsOf(u)) /\ IsFiniteSet(PruningOf(u))
  BY <1>1, FS_Subset, BacktestAssumption DEF SaveTypes
<1> QED BY <1>2, FS_CardinalityType

LEMMA RunBacktestKeeps ==
  ASSUME SavesInv, NEW w \in Savers, NEW u \in Owners, NEW req \in BacktestRequests, RunBacktest(w, u, req)
  PROVE  SavesInv'
<1> DEFINE report == Simulate(req, closes)
           v == [step |-> "commit", row |-> ToRow(u, req, saves', report)]
<1>1. /\ save[w] = Resting /\ saves < MaxSaves /\ closes # <<>> /\ saves' = saves + 1
      /\ save' = [save EXCEPT ![w] = v] /\ UNCHANGED <<closes, runs, kills>>
  BY DEF RunBacktest
<1>2. saves \in 0..MaxSaves /\ MaxSaves \in Nat /\ saves' \in 1..MaxSaves
  BY <1>1, BacktestAssumption DEF SavesInv, SaveTypes
<1>3. report \in {Simulate(q, c) : q \in BacktestRequests, c \in Histories}
  <2>1. /\ closes = [t \in 1..Len(closes) |-> closes[t]] /\ Len(closes) \in Nat /\ Len(closes) # 0
        /\ \A t \in 1..Len(closes) : closes[t] \in Closes
    BY <1>1 DEF SavesInv, SaveTypes
  <2>2. Len(closes) \in 1..MaxBars
    BY <2>1, BacktestAssumption DEF SavesInv, SaveTypes
  <2>3. closes \in [1..Len(closes) -> Closes]
    BY <2>1
  <2>4. closes \in Histories
    BY <2>2, <2>3 DEF Histories
  <2> QED BY <2>4
<1> HIDE DEF report
<1>4. v \in SaveWork /\ v.step = "commit" /\ v.row.stamp = saves'
  BY <1>2, <1>3 DEF SaveWork, BacktestRow, ToRow
<1> HIDE DEF v
<1>5. v # Resting
  BY <1>4, RestingAssumption
<1>6. /\ save' \in [Savers -> SaveWork \union {Resting}]
      /\ save'[w] = v /\ \A x \in Savers : x # w => save'[x] = save[x]
  BY <1>1, <1>4, SaveMoves DEF SavesInv
<1>7. /\ Committing(w)' /\ \A x \in Savers : x # w => (Committing(x)' <=> Committing(x))
      /\ ~Committing(w) /\ \A x \in Savers : Pruning(x)' <=> Pruning(x)
  BY <1>1, <1>4, <1>5, <1>6 DEF Committing, Pruning
<1>8. SaveTypes'
  BY <1>1, <1>2, <1>6 DEF SavesInv, SaveTypes
<1>9. StampsDiffer'
  <2>1. \A r \in runs' : r.stamp \in Nat /\ r.stamp <= saves /\ r.stamp <= saves'
    BY <1>1, <1>2 DEF SavesInv, SaveTypes, StampsDiffer, BacktestRow
  <2>2. \A r, q \in runs' : r.stamp = q.stamp => r = q
    BY <1>1 DEF SavesInv, StampsDiffer
  <2>3. ASSUME NEW x \in Savers, x # w, Committing(x)'
        PROVE  /\ save'[x] = save[x] /\ save[x].row.stamp \in Nat /\ save[x].row.stamp <= saves
               /\ \A r \in runs : r.stamp # save[x].row.stamp
    <3>1. Committing(x) /\ save[x] \in SaveWork
      BY <1>7, <2>3 DEF Committing, SavesInv, SaveTypes
    <3> QED BY <1>6, <2>3, <3>1 DEF SavesInv, StampsDiffer, SaveWork, BacktestRow
  <2>4. ASSUME NEW x \in Savers, Committing(x)'
        PROVE  /\ save'[x].row.stamp <= saves' /\ \A r \in runs' : r.stamp # save'[x].row.stamp
    <3>1. CASE x = w
      BY <1>1, <1>2, <1>4, <1>6, <2>1, <3>1
    <3>2. CASE x # w
      BY <1>1, <1>2, <2>3, <2>4, <3>2
    <3> QED BY <3>1, <3>2
  <2>5. ASSUME NEW x \in Savers, Committing(x)', NEW y \in Savers, Committing(y)', save'[x].row.stamp = save'[y].row.stamp
        PROVE  x = y
    <3>1. CASE x # w /\ y # w
      BY <1>6, <1>7, <2>5, <3>1 DEF SavesInv, StampsDiffer
    <3>2. CASE x = w /\ y # w
      BY <1>1, <1>2, <1>4, <1>6, <2>3, <2>5, <3>2
    <3>3. CASE x # w /\ y = w
      BY <1>1, <1>2, <1>4, <1>6, <2>3, <2>5, <3>3
    <3> QED BY <3>1, <3>2, <3>3
  <2> QED BY <2>1, <2>2, <2>4, <2>5 DEF StampsDiffer, Committing
<1>10. OwnersCapped'
  <2>1. \A o : PruningOf(o)' = PruningOf(o)
    BY <1>1, <1>6, <1>7 DEF PruningOf, Pruning
  <2>2. \A o : RunsOf(o)' = RunsOf(o)
    BY <1>1 DEF RunsOf
  <2> QED BY <1>1, <2>1, <2>2 DEF SavesInv, OwnersCapped
<1> QED BY <1>8, <1>9, <1>10 DEF SavesInv

LEMMA SaveRunKeeps ==
  ASSUME SavesInv, NEW w \in Savers, SaveRun(w)
  PROVE  SavesInv'
<1> DEFINE row == save[w].row
           v == [save[w] EXCEPT !.step = "prune"]
<1>1. /\ Committing(w) /\ runs' = runs \union {row} /\ save' = [save EXCEPT ![w] = v]
      /\ UNCHANGED <<closes, saves, kills>>
  BY DEF SaveRun, Committing, SavesInv, SaveTypes
<1>2. save[w] \in SaveWork /\ row \in BacktestRow
  BY <1>1 DEF Committing, SavesInv, SaveTypes, SaveWork
<1>3. v \in SaveWork /\ v.step = "prune" /\ v.row = row
  BY <1>2 DEF SaveWork
<1> HIDE DEF v, row
<1>4. v # Resting
  BY <1>3, RestingAssumption
<1>5. /\ save' \in [Savers -> SaveWork \union {Resting}]
      /\ save'[w] = v /\ \A x \in Savers : x # w => save'[x] = save[x]
  BY <1>1, <1>3, SaveMoves DEF SavesInv
<1>6. /\ Pruning(w)' /\ ~Pruning(w) /\ ~Committing(w)'
      /\ \A x \in Savers : x # w => (Committing(x)' <=> Committing(x)) /\ (Pruning(x)' <=> Pruning(x))
  BY <1>1, <1>3, <1>4, <1>5 DEF Committing, Pruning
<1>7. SaveTypes'
  BY <1>1, <1>2, <1>5, FS_AddElement DEF SavesInv, SaveTypes
<1>8. StampsDiffer'
  <2>1. row.stamp <= saves /\ \A r \in runs : r.stamp # row.stamp
    BY <1>1 DEF row, SavesInv, StampsDiffer
  <2>2. \A x \in Savers : Committing(x)' => x # w /\ Committing(x) /\ save'[x] = save[x]
    BY <1>5, <1>6
  <2>3. \A x \in Savers : x # w /\ Committing(x) => save[x].row.stamp # row.stamp
    BY <1>1 DEF row, SavesInv, StampsDiffer
  <2> QED BY <1>1, <2>1, <2>2, <2>3 DEF SavesInv, StampsDiffer
<1>9. OwnersCapped'
  <2> SUFFICES ASSUME NEW u \in Owners
               PROVE  Cardinality(RunsOf(u)') <= MaxRunsPerUser + kills' + Cardinality(PruningOf(u)')
    BY DEF OwnersCapped
  <2>1. /\ IsFiniteSet(RunsOf(u)) /\ Cardinality(RunsOf(u)) \in Nat
        /\ IsFiniteSet(PruningOf(u)) /\ Cardinality(PruningOf(u)) \in Nat
    BY CountsAreNumbers DEF SavesInv
  <2>2. Cardinality(RunsOf(u)) <= MaxRunsPerUser + kills + Cardinality(PruningOf(u))
    BY DEF SavesInv, OwnersCapped
  <2>3. kills \in Nat /\ MaxRunsPerUser \in Nat
    BY BacktestAssumption DEF SavesInv, SaveTypes
  <2>4. CASE row.user = u
    <3>1. RunsOf(u)' = RunsOf(u) \union {row}
      BY <1>1, <2>4 DEF RunsOf
    <3>2. PruningOf(u)' = PruningOf(u) \union {w} /\ w \notin PruningOf(u)
      BY <1>3, <1>5, <1>6, <2>4 DEF PruningOf
    <3>3. Cardinality(RunsOf(u)') <= Cardinality(RunsOf(u)) + 1 /\ Cardinality(RunsOf(u)') \in Nat
      <4>1. Cardinality(RunsOf(u) \union {row}) \in {Cardinality(RunsOf(u)), Cardinality(RunsOf(u)) + 1}
        BY <2>1, FS_AddElement
      <4> QED BY <2>1, <3>1, <4>1
    <3>4. Cardinality(PruningOf(u)') = Cardinality(PruningOf(u)) + 1
      <4>1. Cardinality(PruningOf(u) \union {w}) = Cardinality(PruningOf(u)) + 1
        BY <2>1, <3>2, FS_AddElement
      <4> QED BY <3>2, <4>1
    <3> QED BY <1>1, <2>1, <2>2, <2>3, <3>3, <3>4
  <2>5. CASE row.user # u
    <3>1. RunsOf(u)' = RunsOf(u)
      BY <1>1, <2>5 DEF RunsOf
    <3>2. PruningOf(u)' = PruningOf(u)
      BY <1>3, <1>5, <1>6, <2>5 DEF PruningOf
    <3> QED BY <1>1, <2>2, <3>1, <3>2
  <2> QED BY <2>4, <2>5
<1> QED BY <1>7, <1>8, <1>9 DEF SavesInv

\* What is left of a worker that prunes, or dies instead.
LEMMA Rested ==
  ASSUME SavesInv, NEW w \in Savers, Pruning(w), save' = [save EXCEPT ![w] = Resting]
  PROVE  /\ save' \in [Savers -> SaveWork \union {Resting}]
         /\ \A x \in Savers : Committing(x)' => Committing(x) /\ save'[x] = save[x]
         /\ \A u : PruningOf(u)' = PruningOf(u) \ {w}
         /\ \A u : w \in PruningOf(u) <=> u = save[w].row.user
<1>1. /\ save' \in [Savers -> SaveWork \union {Resting}]
      /\ save'[w] = Resting /\ \A x \in Savers : x # w => save'[x] = save[x]
  BY SaveMoves DEF SavesInv
<1>2. /\ \A x \in Savers : Committing(x)' => Committing(x) /\ save'[x] = save[x]
      /\ \A x \in Savers : Pruning(x)' <=> x # w /\ Pruning(x)
  BY <1>1 DEF Committing, Pruning
<1>3. \A u : PruningOf(u)' = PruningOf(u) \ {w}
  BY <1>1, <1>2 DEF PruningOf
<1> QED BY <1>1, <1>2, <1>3 DEF PruningOf

\* Rows go, and no worker begins anything.
LEMMA RowsGo ==
  ASSUME StampsDiffer, runs' \subseteq runs, UNCHANGED saves,
         \A x \in Savers : Committing(x)' => Committing(x) /\ save'[x] = save[x]
  PROVE  StampsDiffer'
BY DEF StampsDiffer

LEMMA PruneKeeps ==
  ASSUME SavesInv, NEW w \in Savers, Prune(w)
  PROVE  SavesInv'
<1> DEFINE o == save[w].row.user
<1>1. /\ Pruning(w) /\ runs' = runs \ Stale(o) /\ save' = [save EXCEPT ![w] = Resting]
      /\ UNCHANGED <<closes, saves, kills>>
  BY DEF Prune, Pruning
<1> HIDE DEF o
<1>2. /\ save' \in [Savers -> SaveWork \union {Resting}]
      /\ \A x \in Savers : Committing(x)' => Committing(x) /\ save'[x] = save[x]
      /\ \A u : PruningOf(u)' = PruningOf(u) \ {w}
      /\ \A u : w \in PruningOf(u) <=> u = o
  BY <1>1, Rested DEF o
<1>3. SaveTypes'
  BY <1>1, <1>2, FS_Subset DEF SavesInv, SaveTypes
<1>4. StampsDiffer'
  BY <1>1, <1>2, RowsGo DEF SavesInv
<1>5. ASSUME NEW u, u = o PROVE IsFiniteSet(RunsOf(u)') /\ Cardinality(RunsOf(u)') <= MaxRunsPerUser
  <2> DEFINE R == RunsOf(u)
             key == [r \in R |-> r.stamp]
  <2>1. IsFiniteSet(R) /\ R \subseteq runs
    BY CountsAreNumbers DEF SavesInv, RunsOf
  <2>2. key \in [R -> Int] /\ \A r \in R : key[r] = r.stamp
    BY <2>1 DEF SavesInv, SaveTypes, BacktestRow
  <2>3. \A a, b \in R : key[a] = key[b] => a = b
    BY <2>1, <2>2 DEF SavesInv, StampsDiffer
  <2> HIDE DEF key
  <2>4. \A r \in R : NewerOf(R, key, r) = {q \in RunsOf(u) : Newer(q, r)}
    BY <2>2 DEF NewerOf, Newer
  <2>5. \A r \in R : r \in runs' => ~(Cardinality(NewerOf(R, key, r)) >= MaxRunsPerUser)
    BY <1>1, <1>5, <2>4 DEF Stale
  <2>6. RunsOf(u)' \subseteq R /\ \A r \in RunsOf(u)' : r \in runs'
    BY <1>1 DEF RunsOf
  <2> HIDE DEF R
  <2>7. \A r \in RunsOf(u)' : Cardinality(NewerOf(R, key, r)) < MaxRunsPerUser
    <3> SUFFICES ASSUME NEW r \in RunsOf(u)' PROVE Cardinality(NewerOf(R, key, r)) < MaxRunsPerUser
      OBVIOUS
    <3>1. Cardinality(NewerOf(R, key, r)) \in 0..(Cardinality(R) - 1)
      BY <2>1, <2>2, <2>6, NewerIsFinite
    <3> QED BY <2>5, <2>6, <3>1, BacktestAssumption
  <2> QED BY <2>1, <2>2, <2>3, <2>6, <2>7, NewestAreFew, BacktestAssumption
<1>6. OwnersCapped'
  <2> SUFFICES ASSUME NEW u \in Owners
               PROVE  Cardinality(RunsOf(u)') <= MaxRunsPerUser + kills' + Cardinality(PruningOf(u)')
    BY DEF OwnersCapped
  <2>1. CASE u = o
    <3>1. Cardinality(RunsOf(u)') \in Nat /\ Cardinality(PruningOf(u)') \in Nat
      <4>1. IsFiniteSet(PruningOf(u)')
        <5>1. IsFiniteSet(PruningOf(u)) /\ PruningOf(u)' = PruningOf(u) \ {w}
          BY <1>2, CountsAreNumbers DEF SavesInv
        <5>2. PruningOf(u) \ {w} \subseteq PruningOf(u)
          OBVIOUS
        <5>3. IsFiniteSet(PruningOf(u) \ {w})
          BY <5>1, <5>2, FS_Subset
        <5> QED BY <5>1, <5>3
      <4> QED BY <1>5, <2>1, <4>1, FS_CardinalityType
    <3>2. kills' \in Nat /\ MaxRunsPerUser \in Nat
      BY <1>3, BacktestAssumption DEF SaveTypes
    <3> QED BY <1>5, <2>1, <3>1, <3>2
  <2>2. CASE u # o
    <3>1. RunsOf(u)' = RunsOf(u)
      BY <1>1, <2>2 DEF RunsOf, Stale
    <3>2. PruningOf(u)' = PruningOf(u)
      BY <1>2, <2>2
    <3> QED BY <1>1, <3>1, <3>2 DEF SavesInv, OwnersCapped
  <2> QED BY <2>1, <2>2
<1> QED BY <1>3, <1>4, <1>6 DEF SavesInv

LEMMA KillSaverKeeps ==
  ASSUME SavesInv, NEW w \in Savers, KillSaver(w)
  PROVE  SavesInv'
<1>1. /\ Pruning(w) /\ kills < MaxKills /\ kills' = kills + 1 /\ save' = [save EXCEPT ![w] = Resting]
      /\ UNCHANGED <<closes, runs, saves>>
  BY DEF KillSaver, Pruning
<1>2. /\ save' \in [Savers -> SaveWork \union {Resting}]
      /\ \A x \in Savers : Committing(x)' => Committing(x) /\ save'[x] = save[x]
      /\ \A u : PruningOf(u)' = PruningOf(u) \ {w}
  BY <1>1, Rested
<1>3. kills \in Nat /\ kills' \in 0..MaxKills /\ MaxRunsPerUser \in Nat
  BY <1>1, BacktestAssumption DEF SavesInv, SaveTypes
<1>4. SaveTypes'
  BY <1>1, <1>2, <1>3 DEF SavesInv, SaveTypes
<1>5. StampsDiffer'
  BY <1>1, <1>2, RowsGo DEF SavesInv
<1>6. OwnersCapped'
  <2> SUFFICES ASSUME NEW u \in Owners
               PROVE  Cardinality(RunsOf(u)') <= MaxRunsPerUser + kills' + Cardinality(PruningOf(u)')
    BY DEF OwnersCapped
  <2>1. /\ IsFiniteSet(RunsOf(u)) /\ Cardinality(RunsOf(u)) \in Nat
        /\ IsFiniteSet(PruningOf(u)) /\ Cardinality(PruningOf(u)) \in Nat
    BY CountsAreNumbers DEF SavesInv
  <2>2. RunsOf(u)' = RunsOf(u)
    BY <1>1 DEF RunsOf
  <2>3. Cardinality(PruningOf(u)') \in Nat /\ Cardinality(PruningOf(u)') >= Cardinality(PruningOf(u)) - 1
    <3>1. /\ IsFiniteSet(PruningOf(u) \ {w})
          /\ Cardinality(PruningOf(u) \ {w}) \in {Cardinality(PruningOf(u)), Cardinality(PruningOf(u)) - 1}
      BY <2>1, FS_RemoveElement
    <3>2. Cardinality(PruningOf(u) \ {w}) \in Nat
      BY <3>1, FS_CardinalityType
    <3>3. PruningOf(u)' = PruningOf(u) \ {w}
      BY <1>2
    <3> QED BY <2>1, <3>1, <3>2, <3>3
  <2>4. Cardinality(RunsOf(u)) <= MaxRunsPerUser + kills + Cardinality(PruningOf(u))
    BY DEF SavesInv, OwnersCapped
  <2> QED BY <1>1, <1>3, <2>1, <2>2, <2>3, <2>4
<1> QED BY <1>4, <1>5, <1>6 DEF SavesInv

LEMMA DeleteRunKeeps ==
  ASSUME SavesInv, NEW u \in Owners, NEW r \in runs, DeleteRun(u, r)
  PROVE  SavesInv'
<1>1. runs' = runs \ {r} /\ UNCHANGED <<closes, save, saves, kills>>
  BY DEF DeleteRun
<1>2. SaveTypes'
  BY <1>1, FS_Subset DEF SavesInv, SaveTypes
<1>3. StampsDiffer'
  BY <1>1, RowsGo DEF SavesInv, Committing
<1>4. OwnersCapped'
  <2> SUFFICES ASSUME NEW o \in Owners
               PROVE  Cardinality(RunsOf(o)') <= MaxRunsPerUser + kills' + Cardinality(PruningOf(o)')
    BY DEF OwnersCapped
  <2>1. /\ IsFiniteSet(RunsOf(o)) /\ Cardinality(RunsOf(o)) \in Nat /\ Cardinality(PruningOf(o)) \in Nat
    BY CountsAreNumbers DEF SavesInv
  <2>2. RunsOf(o)' \subseteq RunsOf(o) /\ PruningOf(o)' = PruningOf(o)
    BY <1>1 DEF RunsOf, PruningOf, Pruning
  <2>3. Cardinality(RunsOf(o)') <= Cardinality(RunsOf(o)) /\ Cardinality(RunsOf(o)') \in Nat
    BY <2>1, <2>2, FS_Subset, FS_CardinalityType
  <2>4. Cardinality(RunsOf(o)) <= MaxRunsPerUser + kills + Cardinality(PruningOf(o)) /\ kills \in Nat /\ MaxRunsPerUser \in Nat
    BY BacktestAssumption DEF SavesInv, OwnersCapped, SaveTypes
  <2> QED BY <1>1, <2>1, <2>2, <2>3, <2>4
<1> QED BY <1>2, <1>3, <1>4 DEF SavesInv

\* The history grows, or nothing does.
LEMMA NoSaveMoves ==
  ASSUME SavesInv, UNCHANGED <<runs, save, saves, kills>>, closes' \in Seq(Closes), Len(closes') <= MaxBars
  PROVE  SavesInv'
BY DEF SavesInv, SaveTypes, StampsDiffer, OwnersCapped, RunsOf, PruningOf, Committing, Pruning

LEMMA SavesInvHolds == BacktestSpec => []SavesInv
<1>1. BacktestInit => SavesInv
  <2> SUFFICES ASSUME BacktestInit PROVE SavesInv
    OBVIOUS
  <2>1. \A w \in Savers : save[w] = Resting
    BY DEF BacktestInit
  <2>2. SaveTypes
    BY FS_EmptySet, BacktestAssumption DEF BacktestInit, SaveTypes
  <2>3. StampsDiffer
    BY <2>1 DEF BacktestInit, StampsDiffer, Committing
  <2>4. OwnersCapped
    <3> SUFFICES ASSUME NEW u \in Owners PROVE Cardinality(RunsOf(u)) <= MaxRunsPerUser + kills + Cardinality(PruningOf(u))
      BY DEF OwnersCapped
    <3>1. Cardinality(RunsOf(u)) = 0
      BY FS_EmptySet DEF BacktestInit, RunsOf
    <3>2. Cardinality(PruningOf(u)) \in Nat
      BY <2>2, CountsAreNumbers
    <3> QED BY <3>1, <3>2, BacktestAssumption DEF BacktestInit
  <2> QED BY <2>2, <2>3, <2>4 DEF SavesInv
<1>2. SavesInv /\ [BacktestNext]_backtestVars => SavesInv'
  <2> SUFFICES ASSUME SavesInv, [BacktestNext]_backtestVars PROVE SavesInv'
    OBVIOUS
  <2>1. CASE UNCHANGED backtestVars
    BY <2>1, NoSaveMoves DEF backtestVars, SavesInv, SaveTypes
  <2>2. CASE \E price \in Closes : NewBar(price)
    <3>1. PICK price \in Closes : NewBar(price)
      BY <2>2
    <3>2. closes' \in Seq(Closes) /\ Len(closes') <= MaxBars
      BY <3>1, BacktestAssumption DEF NewBar, SavesInv, SaveTypes
    <3> QED BY <3>1, <3>2, NoSaveMoves DEF NewBar
  <2>3. CASE \E w \in Savers, u \in Owners, req \in BacktestRequests : RunBacktest(w, u, req)
    BY <2>3, RunBacktestKeeps
  <2>4. CASE \E w \in Savers : SaveRun(w)
    BY <2>4, SaveRunKeeps
  <2>5. CASE \E w \in Savers : Prune(w)
    BY <2>5, PruneKeeps
  <2>6. CASE \E w \in Savers : KillSaver(w)
    BY <2>6, KillSaverKeeps
  <2>7. CASE \E u \in Owners : \E r \in runs : DeleteRun(u, r)
    BY <2>7, DeleteRunKeeps
  <2> QED BY <2>1, <2>2, <2>3, <2>4, <2>5, <2>6, <2>7 DEF BacktestNext
<1> QED BY <1>1, <1>2, PTL DEF BacktestSpec

\* The rows of backtest_service.py keep their types, with the report of a simulation of
\* a history of the symbol in each, and none carries a time that is still to come.
THEOREM BacktestTypeCorrect == BacktestSpec => []BacktestTypeOK
<1>1. SavesInv => BacktestTypeOK
  BY DEF SavesInv, SaveTypes, StampsDiffer, BacktestTypeOK
<1> QED BY <1>1, SavesInvHolds, PTL

\* However the commits and the prunes of backtest_service.py interleave, a user keeps no
\* more runs than the cap, the saves not yet pruned, and those that died before they were.
THEOREM HistoryCapped == BacktestSpec => []HistoryIsCapped
<1>1. SavesInv => HistoryIsCapped
  <2> SUFFICES ASSUME SavesInv, NEW u \in Owners
               PROVE  Cardinality(RunsOf(u)) <=
                        MaxRunsPerUser + kills + Cardinality({w \in Savers : save[w] # Resting /\ save[w].step = "prune"})
    BY DEF HistoryIsCapped
  <2> DEFINE all == {w \in Savers : save[w] # Resting /\ save[w].step = "prune"}
  <2>1. PruningOf(u) \subseteq all /\ all \subseteq Savers
    BY DEF PruningOf, Pruning
  <2> HIDE DEF all
  <2>2. IsFiniteSet(all)
    BY <2>1, FS_Subset, BacktestAssumption
  <2>3. Cardinality(PruningOf(u)) <= Cardinality(all) /\ Cardinality(PruningOf(u)) \in Nat /\ Cardinality(all) \in Nat
    BY <2>1, <2>2, FS_Subset, FS_CardinalityType
  <2>4. Cardinality(RunsOf(u)) <= MaxRunsPerUser + kills + Cardinality(PruningOf(u)) /\ Cardinality(RunsOf(u)) \in Nat
    BY CountsAreNumbers DEF SavesInv, OwnersCapped
  <2>5. kills \in Nat /\ MaxRunsPerUser \in Nat
    BY BacktestAssumption DEF SavesInv, SaveTypes
  <2>6. Cardinality(RunsOf(u)) <= MaxRunsPerUser + kills + Cardinality(all)
    BY <2>3, <2>4, <2>5
  <2> QED BY <2>6 DEF all
<1> QED BY <1>1, SavesInvHolds, PTL

-----------------------------------------------------------------------------
(* Backtest: the simulation.                                               *)

\* What the simulation keeps.
Trade == [entry : Nat, exit : Nat, quantity : Fractions, pnl : Fractions, at : Nat]
Simulations == [cash : Fractions, shares : Fractions, entry : Nat, trades : Seq(Trade), curve : Seq(Fractions)]
Opening == [cash |-> Whole(Capital), shares |-> Nought, entry |-> 0, trades |-> <<>>, curve |-> <<>>]

\* A bar buys, sells or does neither.
Buys(req, c, st, t) == Signal(req, c, t) = "BUY" /\ st.shares[1] = 0
Sells(req, c, st, t) == Signal(req, c, t) = "SELL" /\ st.shares[1] > 0
Equity(st, price) == Plus(st.cash, Times(price, st.shares))
Bought(st, price) == [st EXCEPT !.shares = <<st.cash[1], st.cash[2] * price>>, !.entry = price, !.cash = Nought]
Sold(st, price, t) ==
  [st EXCEPT !.trades = Append(@, CloseTrade(st.entry, price, st.shares, t)),
             !.cash = Times(price, st.shares), !.shares = Nought, !.entry = 0]
AtPrice(st, price) == [st EXCEPT !.curve = Append(@, Equity(st, price))]

LEMMA BarMoves ==
  ASSUME NEW req, NEW c, NEW st, NEW t
  PROVE  /\ Buys(req, c, st, t) => Bar(req, c, st, t) = AtPrice(Bought(st, c[t]), c[t])
         /\ Sells(req, c, st, t) => Bar(req, c, st, t) = AtPrice(Sold(st, c[t], t), c[t])
         /\ ~Buys(req, c, st, t) /\ ~Sells(req, c, st, t) => Bar(req, c, st, t) = AtPrice(st, c[t])
<1> DEFINE price == c[t]
           moved == CASE Signal(req, c, t) = "BUY" /\ st.shares[1] = 0 -> Bought(st, price)
                      [] Signal(req, c, t) = "SELL" /\ st.shares[1] > 0 -> Sold(st, price, t)
                      [] OTHER -> st
<1>1. Bar(req, c, st, t) = AtPrice(moved, price)
  BY DEF Bar, AtPrice, Equity, Bought, Sold
<1>2. /\ Buys(req, c, st, t) => moved = Bought(st, price)
      /\ Sells(req, c, st, t) => moved = Sold(st, price, t)
      /\ ~Buys(req, c, st, t) /\ ~Sells(req, c, st, t) => moved = st
  BY DEF Buys, Sells
<1> HIDE DEF moved
<1> QED BY <1>1, <1>2

\* It only moves after the warm-up and at a price.
LEMMA SignalWhen ==
  ASSUME NEW req, NEW c, NEW t, Signal(req, c, t) # "HOLD"
  PROVE  t > Warmup(req) /\ c[t] > 0
BY DEF Signal

LEMMA NoughtIs ==
  /\ Nought = <<0, 1>> /\ Nought \in Fractions
  /\ \A D \in Nat \ {0} : Over(Nought, D, 0)
BY DEF Nought, Whole, Fractions, Over

LEMMA AtPriceIs ==
  ASSUME NEW st \in Simulations, NEW price \in Nat
  PROVE  AtPrice(st, price) \in Simulations /\ Equity(st, price) \in Fractions
<1>1. st.cash \in Fractions /\ st.shares \in Fractions /\ price \in Int /\ st.curve \in Seq(Fractions)
  BY DEF Simulations
<1>2. Equity(st, price) \in Fractions
  BY <1>1, FractionsClosed DEF Equity
<1>3. Append(st.curve, Equity(st, price)) \in Seq(Fractions)
  BY <1>1, <1>2
<1> QED BY <1>2, <1>3 DEF AtPrice, Simulations

LEMMA BoughtIs ==
  ASSUME NEW st \in Simulations, NEW price \in Nat, price > 0
  PROVE  Bought(st, price) \in Simulations
<1>1. st.cash \in Fractions
  BY DEF Simulations
<1>2. PICK D \in Nat \ {0}, n \in Int : Over(st.cash, D, n)
  BY <1>1, OverOwn
<1>3. <<st.cash[1], st.cash[2] * price>> \in Fractions
  <2> DEFINE cash == st.cash
  <2>1. cash \in Fractions /\ Over(cash, D, n) /\ price \in Nat \ {0}
    BY <1>1, <1>2
  <2> HIDE DEF cash
  <2>2. <<cash[1], cash[2] * price>> \in Fractions
    BY <2>1, OverShare
  <2> QED BY <2>2 DEF cash
<1> QED BY <1>3, NoughtIs DEF Bought, Simulations

LEMMA ClosedIs ==
  ASSUME NEW entry \in Nat, NEW exit \in Nat, NEW qty \in Fractions, NEW t \in Nat
  PROVE  CloseTrade(entry, exit, qty, t) \in Trade
<1>1. exit - entry \in Int
  OBVIOUS
<1>2. Times(exit - entry, qty) \in Fractions
  BY <1>1, FractionsClosed
<1> QED BY <1>2 DEF CloseTrade, Trade

LEMMA SoldIs ==
  ASSUME NEW st \in Simulations, NEW price \in Nat, NEW t \in Nat
  PROVE  Sold(st, price, t) \in Simulations
<1>1. st.shares \in Fractions /\ st.entry \in Nat /\ st.trades \in Seq(Trade) /\ price \in Int
  BY DEF Simulations
<1>2. CloseTrade(st.entry, price, st.shares, t) \in Trade
  BY <1>1, ClosedIs
<1>3. Append(st.trades, CloseTrade(st.entry, price, st.shares, t)) \in Seq(Trade)
  BY <1>1, <1>2
<1>4. Times(price, st.shares) \in Fractions
  BY <1>1, FractionsClosed
<1> QED BY <1>3, <1>4, NoughtIs DEF Sold, Simulations

LEMMA BarIs ==
  ASSUME NEW req, NEW c \in Seq(Nat), NEW st \in Simulations, NEW t \in DOMAIN c
  PROVE  Bar(req, c, st, t) \in Simulations
<1>1. c[t] \in Nat /\ t \in Nat
  OBVIOUS
<1>2. CASE Buys(req, c, st, t)
  <2>1. c[t] > 0
    BY <1>2, SignalWhen DEF Buys
  <2> QED BY <1>1, <1>2, <2>1, BarMoves, BoughtIs, AtPriceIs
<1>3. CASE Sells(req, c, st, t)
  BY <1>1, <1>3, BarMoves, SoldIs, AtPriceIs
<1>4. CASE ~Buys(req, c, st, t) /\ ~Sells(req, c, st, t)
  BY <1>1, <1>4, BarMoves, AtPriceIs
<1> QED BY <1>2, <1>3, <1>4

LEMMA OpeningIs == Opening \in Simulations
<1>1. Whole(Capital) \in Fractions
  BY BacktestAssumption DEF Whole, Fractions
<1>2. <<>> \in Seq(Trade) /\ <<>> \in Seq(Fractions)
  OBVIOUS
<1> QED BY <1>1, <1>2, NoughtIs DEF Opening, Simulations
-----------------------------------------------------------------------------
\* The bars of a history, and what FoldLeft chooses over them.
Bars(c) == [t \in DOMAIN c |-> t]
SimulationFold(req, c) ==
  CHOOSE h : h = [p \in SUBSET (DOMAIN Bars(c)) |->
    IF p = {} THEN Opening ELSE Bar(req, c, h[p \ {Max(p)}], Bars(c)[Max(p)])]

\* The state after k bars.
After(req, c, k) == SimulationFold(req, c)[1..k]

LEMMA SimulateFolds ==
  ASSUME NEW req, NEW c \in Seq(Nat)
  PROVE  Simulate(req, c) = ReportOf(c, After(req, c, Len(c)))
<1>1. Simulate(req, c) = ReportOf(c, SimulationFold(req, c)[DOMAIN Bars(c)])
  BY DEF Simulate, FoldLeft, MapThenFoldSet, SimulationFold, Bars, Opening
<1>2. DOMAIN Bars(c) = 1..Len(c)
  BY DEF Bars
<1> QED BY <1>1, <1>2 DEF After

Running(req, c) == [a \in Simulations \X DOMAIN c |-> Bar(req, c, a[1], a[2])]

LEMMA RunningIs ==
  ASSUME NEW req, NEW c \in Seq(Nat)
  PROVE  /\ Running(req, c) \in [Simulations \X DOMAIN c -> Simulations]
         /\ \A st \in Simulations, t \in DOMAIN c : Running(req, c)[<<st, t>>] = Bar(req, c, st, t)
<1>1. \A a \in Simulations \X DOMAIN c : Bar(req, c, a[1], a[2]) \in Simulations
  BY BarIs
<1> QED BY <1>1 DEF Running

\* One bar after the other.
Runs(req, c) ==
  /\ After(req, c, 0) = Opening
  /\ \A k \in 0..Len(c) : After(req, c, k) \in Simulations
  /\ \A k \in 0..Len(c) : k < Len(c) => After(req, c, k + 1) = Bar(req, c, After(req, c, k), k + 1)

LEMMA SimulationRuns ==
  ASSUME NEW req, NEW c \in Seq(Nat)
  PROVE  Runs(req, c)
<1> DEFINE txs == Bars(c)
           op == Running(req, c)
           E == DOMAIN c
           IsFold(h) == h = [p \in SUBSET (DOMAIN txs) |->
             IF p = {} THEN Opening ELSE Bar(req, c, h[p \ {Max(p)}], txs[Max(p)])]
           h == SimulationFold(req, c)
<1>1. txs \in Seq(E) /\ DOMAIN txs = 1..Len(c) /\ Len(txs) = Len(c) /\ E = 1..Len(c) /\ \A i \in DOMAIN txs : txs[i] = i /\ txs[i] \in E
  BY DEF Bars
<1>2. op \in [Simulations \X E -> Simulations] /\ Opening \in Simulations
  BY RunningIs, OpeningIs
<1>3. \A st \in Simulations, t \in E : op[<<st, t>>] = Bar(req, c, st, t)
  BY RunningIs
<1> HIDE DEF txs, op, E
<1>4. PICK g \in [SUBSET (DOMAIN txs) -> Simulations] : Folded(g, op, Opening, txs)
  BY <1>1, <1>2, FoldOfSeq
<1>5. ASSUME NEW p \in SUBSET (DOMAIN txs), p # {} PROVE g[p] = Bar(req, c, g[p \ {Max(p)}], txs[Max(p)])
  <2>1. g[p \ {Max(p)}] \in Simulations /\ txs[Max(p)] \in E
    BY <1>1, <1>4, <1>5 DEF Folded
  <2> QED BY <1>3, <1>4, <1>5, <2>1 DEF Folded
<1>6. IsFold(g)
  BY <1>4, <1>5 DEF Folded
<1>7. IsFold(h)
  BY <1>6 DEF SimulationFold, txs
<1>8. /\ h[{}] = Opening
      /\ \A p \in SUBSET (DOMAIN txs) : p # {} => h[p] = Bar(req, c, h[p \ {Max(p)}], txs[Max(p)])
  BY <1>7
<1> HIDE DEF h
<1>9. ASSUME NEW p \in SUBSET (DOMAIN txs), p # {}, h[p \ {Max(p)}] \in Simulations
      PROVE  h[p] = op[<<h[p \ {Max(p)}], txs[Max(p)]>>]
  BY <1>1, <1>3, <1>4, <1>8, <1>9 DEF Folded
<1>10. FoldsBy(h, op, Opening, txs, Simulations)
  BY <1>8, <1>9 DEF FoldsBy
<1>11. RunsBy(h, op, txs, Simulations)
  BY <1>1, <1>2, <1>10, FoldRuns
<1>12. ASSUME NEW k \in 0..Len(c)
       PROVE  h[1..k] \in Simulations /\ (k < Len(c) => h[1..(k + 1)] = Bar(req, c, h[1..k], k + 1))
  <2>1. h[1..k] \in Simulations /\ (k < Len(txs) => h[1..(k + 1)] = op[<<h[1..k], txs[k + 1]>>])
    BY <1>1, <1>11 DEF RunsBy
  <2>2. ASSUME k < Len(c) PROVE h[1..(k + 1)] = Bar(req, c, h[1..k], k + 1)
    <3>1. k + 1 \in DOMAIN txs
      BY <1>1, <2>2
    <3>2. txs[k + 1] = k + 1 /\ k + 1 \in E
      BY <1>1, <3>1
    <3>3. h[1..(k + 1)] = op[<<h[1..k], k + 1>>] /\ h[1..k] \in Simulations
      BY <1>1, <2>1, <2>2, <3>2
    <3> QED BY <1>3, <3>2, <3>3
  <2> QED BY <2>1, <2>2
<1>13. h[1..0] = Opening
  <2>1. 1..0 = {}
    OBVIOUS
  <2> QED BY <1>8, <2>1
<1> QED BY <1>12, <1>13 DEF Runs, After, h

-----------------------------------------------------------------------------
(* The past alone. *)

LEMMA WarmupIs ==
  ASSUME NEW req \in BacktestRequests
  PROVE  Warmup(req) \in Nat /\ Warmup(req) >= req.warmup /\ Warmup(req) > RsiWindow /\ req.warmup \in Nat \ {0}
BY BacktestAssumption DEF Warmup

\* The rule sees the closes up to its bar.
LEMMA SignalsAgree ==
  ASSUME NEW req \in BacktestRequests, NEW c, NEW d, NEW t \in Nat \ {0}, \A j \in 1..t : c[j] = d[j]
  PROVE  Signal(req, c, t) = Signal(req, d, t)
<1>1. c[t] = d[t] /\ Warmup(req) \in Nat /\ Warmup(req) > RsiWindow /\ RsiWindow \in Nat
  BY WarmupIs, BacktestAssumption
<1>2. CASE t > Warmup(req)
  <2>1. \A j \in t - RsiWindow + 1..t : j \in 1..t /\ j - 1 \in 1..t
    BY <1>1, <1>2
  <2>2. \A j \in t - RsiWindow + 1..t : c[j] = d[j] /\ c[j - 1] = d[j - 1]
    BY <2>1
  <2>3. ASSUME NEW direction PROVE Moves(c, t, direction) = Moves(d, t, direction)
    <3> DEFINE w == t - RsiWindow + 1..t
               f == [j \in w |-> LET move == direction * (c[j] - c[j - 1]) IN IF move > 0 THEN move ELSE 0]
               g == [j \in w |-> LET move == direction * (d[j] - d[j - 1]) IN IF move > 0 THEN move ELSE 0]
    <3>1. f = g
      BY <2>2
    <3>2. Moves(c, t, direction) = SumFunction(f) /\ Moves(d, t, direction) = SumFunction(g)
      BY DEF Moves
    <3> HIDE DEF f, g
    <3> QED BY <3>1, <3>2
  <2>4. Rsi(c, t) = Rsi(d, t)
    BY <2>3 DEF Rsi
  <2> QED BY <1>1, <2>4 DEF Signal
<1>3. CASE ~(t > Warmup(req))
  BY <1>3 DEF Signal
<1> QED BY <1>2, <1>3

LEMMA BarsAgree ==
  ASSUME NEW req \in BacktestRequests, NEW c, NEW d, NEW t \in Nat \ {0}, \A j \in 1..t : c[j] = d[j], NEW st
  PROVE  Bar(req, c, st, t) = Bar(req, d, st, t)
<1>1. c[t] = d[t] /\ Signal(req, c, t) = Signal(req, d, t)
  BY SignalsAgree
<1> QED BY <1>1, BarMoves DEF Buys, Sells

\* A history's first bars lead to the same states, whatever comes later.
LEMMA AfterFirst ==
  ASSUME NEW req \in BacktestRequests, NEW c \in Seq(Nat), NEW d \in Seq(Nat),
         Len(d) <= Len(c), \A j \in 1..Len(d) : c[j] = d[j]
  PROVE  \A k \in 0..Len(d) : After(req, d, k) = After(req, c, k)
<1> DEFINE n == Len(d)
           good == {k \in 0..n : After(req, d, k) = After(req, c, k)}
<1>1. n \in Nat /\ Len(c) \in Nat
  OBVIOUS
<1>2. Runs(req, c) /\ Runs(req, d)
  BY SimulationRuns
<1>3. 0 \in good
  BY <1>1, <1>2 DEF Runs
<1>4. ASSUME NEW k \in 0..(n - 1), k \in good PROVE k + 1 \in good
  <2>1. k \in 0..Len(d) /\ k < Len(d) /\ k \in 0..Len(c) /\ k < Len(c) /\ k + 1 \in 0..n /\ k + 1 \in Nat \ {0}
    BY <1>1
  <2>2. After(req, d, k + 1) = Bar(req, d, After(req, d, k), k + 1) /\ After(req, c, k + 1) = Bar(req, c, After(req, c, k), k + 1)
    BY <1>2, <2>1 DEF Runs
  <2>3. \A j \in 1..(k + 1) : c[j] = d[j]
    BY <2>1
  <2>4. Bar(req, c, After(req, c, k), k + 1) = Bar(req, d, After(req, c, k), k + 1)
    BY <2>1, <2>3, BarsAgree
  <2> QED BY <1>4, <2>1, <2>2, <2>4
<1>5. 0..n \subseteq good
  <2> HIDE DEF good, n
  <2> QED BY <1>1, <1>3, <1>4, Upward
<1> QED BY <1>5
-----------------------------------------------------------------------------
(* Trades and curve. *)

\* After k bars there are k points, and every trade was made after the warm-up.
Paced(req, st, k) ==
  /\ Len(st.curve) = k
  /\ \A i \in 1..Len(st.trades) : st.trades[i].at > Warmup(req) /\ st.trades[i].at <= k

\* Nothing has moved yet.
Untouched(st) ==
  /\ st.cash = Whole(Capital) /\ st.shares = Nought /\ st.trades = <<>>
  /\ \A i \in 1..Len(st.curve) : SameAmount(st.curve[i], Whole(Capital))

LEMMA AtPriceParts ==
  ASSUME NEW st \in Simulations, NEW price \in Nat
  PROVE  LET m == AtPrice(st, price) IN
         /\ m.curve = Append(st.curve, Equity(st, price)) /\ m.trades = st.trades
         /\ m.cash = st.cash /\ m.shares = st.shares /\ m.entry = st.entry
BY DEF AtPrice, Simulations

\* What the rule does before the mark.
Moved(req, c, st, t) ==
  IF Buys(req, c, st, t) THEN Bought(st, c[t]) ELSE IF Sells(req, c, st, t) THEN Sold(st, c[t], t) ELSE st

LEMMA MovedIs ==
  ASSUME NEW req, NEW c \in Seq(Nat), NEW st \in Simulations, NEW t \in DOMAIN c
  PROVE  /\ Bar(req, c, st, t) = AtPrice(Moved(req, c, st, t), c[t])
         /\ Moved(req, c, st, t) \in Simulations /\ c[t] \in Nat /\ t \in Nat
<1>1. c[t] \in Nat /\ t \in Nat
  OBVIOUS
<1>2. CASE Buys(req, c, st, t)
  <2>1. c[t] > 0
    BY <1>2, SignalWhen DEF Buys
  <2> QED BY <1>1, <1>2, <2>1, BarMoves, BoughtIs DEF Moved
<1>3. CASE Sells(req, c, st, t)
  <2>1. ~Buys(req, c, st, t)
    BY <1>3 DEF Buys, Sells
  <2> QED BY <1>1, <1>3, <2>1, BarMoves, SoldIs DEF Moved
<1>4. CASE ~Buys(req, c, st, t) /\ ~Sells(req, c, st, t)
  BY <1>1, <1>4, BarMoves DEF Moved
<1> QED BY <1>2, <1>3, <1>4

\* A bar adds a point to the curve and at most one trade, after the warm-up.
BarAdded(req, st, next, deal, t) ==
  /\ \E e \in Fractions : next.curve = Append(st.curve, e)
  /\ \/ next.trades = st.trades
     \/ next.trades = Append(st.trades, deal) /\ t > Warmup(req)
  /\ deal \in Trade /\ deal.at = t

LEMMA BarAdds ==
  ASSUME NEW req, NEW c \in Seq(Nat), NEW st \in Simulations, NEW t \in DOMAIN c
  PROVE  BarAdded(req, st, Bar(req, c, st, t), CloseTrade(st.entry, c[t], st.shares, t), t)
<1> DEFINE next == Bar(req, c, st, t)
           deal == CloseTrade(st.entry, c[t], st.shares, t)
           m == Moved(req, c, st, t)
           price == c[t]
           e == Equity(m, price)
<1>1. next = AtPrice(m, price) /\ m \in Simulations /\ price \in Nat /\ t \in Nat
  BY MovedIs
<1>2. e \in Fractions
  BY <1>1, AtPriceIs
<1>3. st.shares \in Fractions /\ st.entry \in Nat
  BY DEF Simulations
<1>4. deal \in Trade /\ deal.at = t
  BY <1>1, <1>3, ClosedIs DEF CloseTrade
<1>5. next.curve = Append(m.curve, e) /\ next.trades = m.trades
  <2> HIDE DEF next, m, price
  <2> QED BY <1>1, AtPriceParts
<1>6. CASE Buys(req, c, st, t)
  <2>1. m = Bought(st, price)
    BY <1>6 DEF Moved
  <2>2. m.curve = st.curve /\ m.trades = st.trades
    BY <2>1 DEF Bought, Simulations
  <2> QED BY <1>2, <1>4, <1>5, <2>2 DEF BarAdded
<1>7. CASE ~Buys(req, c, st, t) /\ Sells(req, c, st, t)
  <2>1. m = Sold(st, price, t)
    BY <1>7 DEF Moved
  <2>2. m.curve = st.curve /\ m.trades = Append(st.trades, deal)
    BY <2>1 DEF Sold, Simulations
  <2>3. t > Warmup(req)
    BY <1>7, SignalWhen DEF Sells
  <2> QED BY <1>2, <1>4, <1>5, <2>2, <2>3 DEF BarAdded
<1>8. CASE ~Buys(req, c, st, t) /\ ~Sells(req, c, st, t)
  <2>1. m = st
    BY <1>8 DEF Moved
  <2> QED BY <1>2, <1>4, <1>5, <2>1 DEF BarAdded
<1> QED BY <1>6, <1>7, <1>8

LEMMA BarPaces ==
  ASSUME NEW req \in BacktestRequests, NEW c \in Seq(Nat), NEW st \in Simulations, NEW k \in Nat, k + 1 \in DOMAIN c,
         Paced(req, st, k)
  PROVE  /\ Paced(req, Bar(req, c, st, k + 1), k + 1)
         /\ Begins(st.curve, Bar(req, c, st, k + 1).curve) /\ Begins(st.trades, Bar(req, c, st, k + 1).trades)
<1> DEFINE t == k + 1
           next == Bar(req, c, st, t)
           deal == CloseTrade(st.entry, c[t], st.shares, t)
<1>1. t \in Nat /\ t \in DOMAIN c /\ Warmup(req) \in Nat
  BY WarmupIs
<1>2. st.curve \in Seq(Fractions) /\ st.trades \in Seq(Trade) /\ Len(st.curve) = k
  BY DEF Simulations, Paced
<1> HIDE DEF t, deal
<1>3. BarAdded(req, st, next, deal, t)
  BY <1>1, BarAdds DEF deal
<1>4. PICK e \in Fractions : next.curve = Append(st.curve, e)
  BY <1>3 DEF BarAdded
<1>5. \/ next.trades = st.trades
      \/ next.trades = Append(st.trades, deal) /\ t > Warmup(req)
  BY <1>3 DEF BarAdded
<1> HIDE DEF next
<1>6. Len(next.curve) = k + 1 /\ Begins(st.curve, next.curve)
  BY <1>2, <1>4, BeginsAppended DEF Begins
<1>7. Begins(st.trades, next.trades)
  <2>1. Begins(st.trades, st.trades)
    BY <1>2 DEF Begins
  <2> QED BY <1>2, <1>3, <1>5, <2>1, BeginsAppended DEF BarAdded
<1>8. ASSUME NEW i \in 1..Len(next.trades) PROVE next.trades[i].at > Warmup(req) /\ next.trades[i].at <= k + 1
  <2>1. \A j \in 1..Len(st.trades) : st.trades[j].at > Warmup(req) /\ st.trades[j].at <= k /\ st.trades[j].at \in Nat
    <3>1. \A j \in 1..Len(st.trades) : st.trades[j] \in Trade
      BY <1>2
    <3> QED BY <3>1 DEF Paced, Trade
  <2>2. CASE next.trades = st.trades
    BY <1>8, <2>1, <2>2
  <2>3. CASE next.trades = Append(st.trades, deal) /\ t > Warmup(req)
    <3>1. i = Len(st.trades) + 1 \/ i \in 1..Len(st.trades)
      BY <1>2, <1>8, <2>3
    <3>2. CASE i = Len(st.trades) + 1
      <4>1. next.trades[i] = deal
        BY <1>2, <2>3, <3>2
      <4> QED BY <1>1, <1>3, <2>3, <4>1 DEF t, BarAdded
    <3>3. CASE i \in 1..Len(st.trades)
      <4>1. next.trades[i] = st.trades[i]
        BY <1>2, <2>3, <3>3
      <4> QED BY <2>1, <3>3, <4>1
    <3> QED BY <3>1, <3>2, <3>3
  <2> QED BY <1>5, <2>2, <2>3
<1>9. Paced(req, next, k + 1)
  BY <1>6, <1>8 DEF Paced
<1> QED BY <1>6, <1>7, <1>9 DEF next, t

\* What has been reported of the first k bars is kept.
Grows(req, c, k) ==
  /\ Paced(req, After(req, c, k), k)
  /\ \A j \in 0..k : /\ Begins(After(req, c, j).curve, After(req, c, k).curve)
                     /\ Begins(After(req, c, j).trades, After(req, c, k).trades)

LEMMA SimulationGrows ==
  ASSUME NEW req \in BacktestRequests, NEW c \in Seq(Nat)
  PROVE  \A k \in 0..Len(c) : Grows(req, c, k)
<1> DEFINE n == Len(c)
           good == {k \in 0..n : Grows(req, c, k)}
<1>1. n \in Nat /\ DOMAIN c = 1..n /\ Runs(req, c)
  BY SimulationRuns
<1>2. 0 \in good
  <2>1. After(req, c, 0) = Opening /\ 0 \in 0..n /\ \A j \in 0..0 : j = 0
    BY <1>1 DEF Runs
  <2>2. Grows(req, c, 0)
    BY <2>1 DEF Grows, Paced, Begins, Opening
  <2> QED BY <2>1, <2>2
<1>3. ASSUME NEW k \in 0..(n - 1), k \in good PROVE k + 1 \in good
  <2> DEFINE st == After(req, c, k)
             next == After(req, c, k + 1)
  <2>1. k \in Nat /\ k \in 0..Len(c) /\ k < Len(c) /\ k + 1 \in DOMAIN c /\ k + 1 \in 0..n
    BY <1>1
  <2>2. st \in Simulations /\ next = Bar(req, c, st, k + 1) /\ next \in Simulations
    BY <1>1, <2>1 DEF Runs
  <2>3. Grows(req, c, k)
    BY <1>3
  <2> HIDE DEF st, next
  <2>4. Paced(req, next, k + 1) /\ Begins(st.curve, next.curve) /\ Begins(st.trades, next.trades)
    BY <2>1, <2>2, <2>3, BarPaces DEF Grows, st
  <2>5. ASSUME NEW j \in 0..(k + 1)
        PROVE  /\ Begins(After(req, c, j).curve, next.curve)
               /\ Begins(After(req, c, j).trades, next.trades)
    <3>1. CASE j = k + 1
      BY <3>1, <2>2 DEF Begins, next, Simulations
    <3>2. CASE j # k + 1
      <4> DEFINE old == After(req, c, j)
      <4>1. j \in 0..k /\ j \in 0..Len(c)
        BY <2>1, <3>2
      <4>2. old \in Simulations /\ Begins(old.curve, st.curve) /\ Begins(old.trades, st.trades)
        BY <1>1, <2>3, <4>1 DEF Grows, Runs, st
      <4> HIDE DEF old
      <4>3. Begins(old.curve, next.curve) /\ Begins(old.trades, next.trades)
        <5>1. Len(old.curve) \in Nat /\ Len(st.curve) \in Nat /\ Len(next.curve) \in Nat
              /\ Len(old.trades) \in Nat /\ Len(st.trades) \in Nat /\ Len(next.trades) \in Nat
          BY <2>2, <4>2 DEF Simulations
        <5>2. Begins(old.curve, next.curve)
          BY <2>4, <4>2, <5>1, BeginsOn
        <5> QED BY <2>4, <4>2, <5>1, <5>2, BeginsOn
      <4> QED BY <4>3 DEF old
    <3> QED BY <3>1, <3>2
  <2>6. Grows(req, c, k + 1)
    BY <2>4, <2>5 DEF Grows, next
  <2> QED BY <2>1, <2>6
<1>4. 0..n \subseteq good
  <2> HIDE DEF good, n
  <2> QED BY <1>1, <1>2, <1>3, Upward
<1> QED BY <1>4

-----------------------------------------------------------------------------
\* What is reported: the trades that were made, and one that closes what is open.
LEMMA ReportParts ==
  ASSUME NEW c \in Seq(Nat), NEW st \in Simulations
  PROVE  LET report == ReportOf(c, st)
             deal == CloseTrade(st.entry, Last(c), st.shares, Len(c)) IN
         /\ report.curve = st.curve /\ report.bars = Len(c)
         /\ report.metrics.final = IF st.curve = <<>> THEN Whole(Capital) ELSE Last(st.curve)
         /\ report.trades = IF st.shares[1] > 0 THEN Append(st.trades, deal) ELSE st.trades
         /\ deal.at = Len(c)
BY DEF ReportOf, Metrics, CloseTrade

\* The same strategy does the same again when the history has grown.
LEMMA ReplaysTheSame ==
  ASSUME NEW req \in BacktestRequests, NEW c \in Seq(Nat), NEW d \in Seq(Nat),
         Len(d) <= Len(c), \A j \in 1..Len(d) : c[j] = d[j]
  PROVE  /\ IsPrefix(Simulate(req, d).curve, Simulate(req, c).curve)
         /\ Simulate(req, d).bars = Len(d)
         /\ \A i \in DOMAIN Simulate(req, d).trades :
              Simulate(req, d).trades[i].at < Len(d) =>
                i \in DOMAIN Simulate(req, c).trades /\ Simulate(req, c).trades[i] = Simulate(req, d).trades[i]
<1> DEFINE n == Len(d)
           m == Len(c)
           then == After(req, d, n)
           now == After(req, c, m)
<1>1. n \in 0..m /\ m \in 0..m /\ n \in 0..n /\ n \in Nat /\ m \in Nat
  OBVIOUS
<1>2. then = After(req, c, n)
  BY <1>1, AfterFirst
<1>3. then \in Simulations /\ now \in Simulations
  BY <1>1, <1>2, SimulationRuns DEF Runs
<1>4. Begins(then.curve, now.curve) /\ Begins(then.trades, now.trades)
  <2>1. Grows(req, c, m)
    BY <1>1, SimulationGrows
  <2> QED BY <1>1, <1>2, <2>1 DEF Grows
<1>5. Simulate(req, d) = ReportOf(d, then) /\ Simulate(req, c) = ReportOf(c, now)
  BY SimulateFolds
<1> DEFINE first == Simulate(req, d)
           second == Simulate(req, c)
           x == CloseTrade(then.entry, Last(d), then.shares, n)
           y == CloseTrade(now.entry, Last(c), now.shares, m)
<1>6. /\ first.curve = then.curve /\ second.curve = now.curve /\ first.bars = n
      /\ first.trades = IF then.shares[1] > 0 THEN Append(then.trades, x) ELSE then.trades
      /\ second.trades = IF now.shares[1] > 0 THEN Append(now.trades, y) ELSE now.trades
      /\ x.at = n
  BY <1>3, <1>5, ReportParts
<1> HIDE DEF then, now, first, second, x, y
<1>7. then.curve \in Seq(Fractions) /\ now.curve \in Seq(Fractions) /\ then.trades \in Seq(Trade) /\ now.trades \in Seq(Trade)
  BY <1>3 DEF Simulations
<1>8. IsPrefix(first.curve, second.curve)
  BY <1>4, <1>6, <1>7, BeginsIsPrefix
<1>9. ASSUME NEW i \in DOMAIN first.trades, first.trades[i].at < n
      PROVE  i \in DOMAIN second.trades /\ second.trades[i] = first.trades[i]
  <2>1. i \in 1..Len(then.trades) /\ first.trades[i] = then.trades[i]
    <3>1. CASE then.shares[1] > 0
      <4>1. first.trades = Append(then.trades, x)
        BY <1>6, <3>1
      <4>2. i \in 1..(Len(then.trades) + 1) /\ Len(then.trades) \in Nat
        BY <1>7, <1>9, <4>1
      <4>3. i # Len(then.trades) + 1
        <5>1. Append(then.trades, x)[Len(then.trades) + 1] = x
          BY <1>7
        <5> QED BY <1>1, <1>6, <1>9, <4>1, <5>1
      <4>4. i \in 1..Len(then.trades)
        BY <4>2, <4>3
      <4> QED BY <1>7, <4>1, <4>4
    <3>2. CASE ~(then.shares[1] > 0)
      BY <1>6, <1>7, <1>9, <3>2
    <3> QED BY <3>1, <3>2
  <2>2. i \in 1..Len(now.trades) /\ now.trades[i] = then.trades[i]
    <3>1. Len(then.trades) \in Nat /\ Len(now.trades) \in Nat
      BY <1>7
    <3> QED BY <1>4, <2>1, <3>1 DEF Begins
  <2>3. i \in DOMAIN second.trades /\ second.trades[i] = now.trades[i]
    <3>1. CASE now.shares[1] > 0
      <4>1. second.trades = Append(now.trades, y)
        BY <1>6, <3>1
      <4>2. DOMAIN Append(now.trades, y) = 1..(Len(now.trades) + 1) /\ Len(now.trades) \in Nat /\ Append(now.trades, y)[i] = now.trades[i]
        BY <1>7, <2>2
      <4> QED BY <2>2, <4>1, <4>2
    <3>2. CASE ~(now.shares[1] > 0)
      BY <1>6, <1>7, <2>2, <3>2
    <3> QED BY <3>1, <3>2
  <2> QED BY <2>1, <2>2, <2>3
<1> QED BY <1>6, <1>8, <1>9 DEF first, second
-----------------------------------------------------------------------------
(* Money. *)

\* What trades have earned.
Earned(trades) == TotalOf([i \in DOMAIN trades |-> trades[i].pnl])

TotalFold(amounts) ==
  CHOOSE h : h = [p \in SUBSET (DOMAIN amounts) |->
    IF p = {} THEN Nought ELSE Plus(h[p \ {Max(p)}], amounts[Max(p)])]

Summing == [a \in Fractions \X Fractions |-> Plus(a[1], a[2])]

LEMMA TotalFoldIs ==
  ASSUME NEW amounts \in Seq(Fractions)
  PROVE  /\ TotalOf(amounts) = TotalFold(amounts)[DOMAIN amounts]
         /\ FoldsBy(TotalFold(amounts), Summing, Nought, amounts, Fractions)
         /\ Summing \in [Fractions \X Fractions -> Fractions]
<1> DEFINE IsFold(h) == h = [p \in SUBSET (DOMAIN amounts) |->
             IF p = {} THEN Nought ELSE Plus(h[p \ {Max(p)}], amounts[Max(p)])]
           h == TotalFold(amounts)
<1>1. TotalOf(amounts) = h[DOMAIN amounts]
  BY DEF TotalOf, FoldLeft, MapThenFoldSet, TotalFold
<1>2. \A a \in Fractions, b \in Fractions : Plus(a, b) \in Fractions
  <2>1. 0 \in Int
    OBVIOUS
  <2> QED BY <2>1, FractionsClosed
<1>3. /\ Summing \in [Fractions \X Fractions -> Fractions]
      /\ \A a \in Fractions, b \in Fractions : Summing[<<a, b>>] = Plus(a, b)
  BY <1>2 DEF Summing
<1>4. \A i \in DOMAIN amounts : amounts[i] \in Fractions
  OBVIOUS
<1>5. PICK g \in [SUBSET (DOMAIN amounts) -> Fractions] : Folded(g, Summing, Nought, amounts)
  BY <1>3, NoughtIs, FoldOfSeq
<1>6. ASSUME NEW p \in SUBSET (DOMAIN amounts), p # {} PROVE g[p] = Plus(g[p \ {Max(p)}], amounts[Max(p)])
  <2>1. g[p \ {Max(p)}] \in Fractions /\ amounts[Max(p)] \in Fractions
    BY <1>4, <1>5, <1>6 DEF Folded
  <2> QED BY <1>3, <1>5, <1>6, <2>1 DEF Folded
<1>7. IsFold(g)
  BY <1>5, <1>6 DEF Folded
<1>8. IsFold(h)
  BY <1>7 DEF TotalFold
<1>9. /\ h[{}] = Nought
      /\ \A p \in SUBSET (DOMAIN amounts) : p # {} => h[p] = Plus(h[p \ {Max(p)}], amounts[Max(p)])
  BY <1>8
<1> HIDE DEF h
<1>10. ASSUME NEW p \in SUBSET (DOMAIN amounts), p # {}, h[p \ {Max(p)}] \in Fractions
       PROVE  h[p] = Summing[<<h[p \ {Max(p)}], amounts[Max(p)]>>]
  BY <1>3, <1>4, <1>5, <1>9, <1>10 DEF Folded
<1>11. FoldsBy(h, Summing, Nought, amounts, Fractions)
  BY <1>9, <1>10 DEF FoldsBy
<1> QED BY <1>1, <1>3, <1>11 DEF h

LEMMA EarnedOfNone == Earned(<<>>) = Nought
<1>1. <<>> \in Seq(Fractions) /\ DOMAIN <<>> = {}
  OBVIOUS
<1>2. [i \in DOMAIN <<>> |-> <<>>[i].pnl] = <<>>
  OBVIOUS
<1>3. TotalOf(<<>>) = Nought
  BY <1>1, TotalFoldIs DEF FoldsBy
<1> QED BY <1>2, <1>3 DEF Earned

LEMMA EarnedOfMore ==
  ASSUME NEW trades \in Seq(Trade), NEW deal \in Trade
  PROVE  /\ Earned(trades) \in Fractions
         /\ Earned(Append(trades, deal)) = Plus(Earned(trades), deal.pnl)
<1> DEFINE amounts == [i \in DOMAIN trades |-> trades[i].pnl]
           more == Append(trades, deal)
           longer == [i \in DOMAIN more |-> more[i].pnl]
           e == deal.pnl
<1>1. e \in Fractions /\ Len(trades) \in Nat /\ DOMAIN trades = 1..Len(trades) /\ \A i \in DOMAIN trades : trades[i] \in Trade
  <2>1. \A i \in DOMAIN trades : trades[i] \in Trade
    OBVIOUS
  <2> QED BY <2>1 DEF Trade
<1>2. /\ more \in Seq(Trade) /\ DOMAIN more = 1..(Len(trades) + 1)
      /\ (\A i \in 1..Len(trades) : more[i] = trades[i]) /\ more[Len(trades) + 1] = deal
  OBVIOUS
<1>3. amounts \in Seq(Fractions) /\ DOMAIN amounts = 1..Len(trades) /\ Len(amounts) = Len(trades)
  <2>1. \A i \in 1..Len(trades) : trades[i].pnl \in Fractions
    BY <1>1 DEF Trade
  <2>2. amounts = [i \in 1..Len(trades) |-> trades[i].pnl]
    BY <1>1
  <2> HIDE DEF amounts
  <2> QED BY <1>1, <2>1, <2>2
<1>4. longer = Append(amounts, e)
  <2>1. DOMAIN longer = 1..(Len(trades) + 1) /\ \A i \in 1..(Len(trades) + 1) : longer[i] = more[i].pnl
    BY <1>2
  <2>2. DOMAIN Append(amounts, e) = 1..(Len(trades) + 1)
    BY <1>1, <1>3
  <2>3. ASSUME NEW i \in 1..(Len(trades) + 1) PROVE longer[i] = Append(amounts, e)[i]
    <3>1. CASE i \in 1..Len(trades)
      <4>1. Append(amounts, e)[i] = amounts[i] /\ amounts[i] = trades[i].pnl
        BY <1>1, <1>3, <3>1
      <4> QED BY <1>2, <2>1, <3>1, <4>1
    <3>2. CASE i = Len(trades) + 1
      <4>1. Append(amounts, e)[i] = e
        BY <1>1, <1>3, <3>2
      <4> QED BY <1>2, <2>1, <3>2, <4>1
    <3> QED BY <1>1, <3>1, <3>2
  <2>4. longer \in Seq(Fractions) /\ Append(amounts, e) \in Seq(Fractions) /\ Len(longer) = Len(Append(amounts, e))
    <3>1. Append(amounts, e) \in Seq(Fractions) /\ Len(Append(amounts, e)) = Len(trades) + 1
      BY <1>1, <1>3
    <3>2. \A i \in 1..(Len(trades) + 1) : longer[i] \in Fractions
      <4>1. \A i \in 1..(Len(trades) + 1) : Append(amounts, e)[i] \in Fractions
        BY <2>2, <3>1
      <4> HIDE DEF longer
      <4> QED BY <2>3, <4>1
    <3>3. longer = [i \in 1..(Len(trades) + 1) |-> more[i].pnl]
      BY <1>2
    <3>4. longer \in Seq(Fractions) /\ Len(longer) = Len(trades) + 1
      <4> HIDE DEF longer, more
      <4> QED BY <1>1, <2>1, <3>2, <3>3
    <3> QED BY <3>1, <3>4
  <2> HIDE DEF longer, amounts, e
  <2> QED BY <1>1, <1>3, <2>3, <2>4, <2>2, SeqEqual
<1> HIDE DEF amounts, longer, e, more
<1>5. Append(amounts, e) \in Seq(Fractions)
  BY <1>1, <1>3
<1> DEFINE f == TotalFold(amounts)
           g == TotalFold(Append(amounts, e))
<1>6. StepFrom(f, g, Summing, amounts, e, Fractions)
  <2>1. /\ FoldsBy(f, Summing, Nought, amounts, Fractions)
        /\ FoldsBy(g, Summing, Nought, Append(amounts, e), Fractions)
        /\ Summing \in [Fractions \X Fractions -> Fractions]
    BY <1>3, <1>5, TotalFoldIs
  <2> HIDE DEF f, g
  <2> QED BY <1>1, <1>3, <2>1, NoughtIs, FoldOfLonger
<1>7. TotalOf(amounts) = f[DOMAIN amounts] /\ TotalOf(Append(amounts, e)) = g[DOMAIN Append(amounts, e)]
  BY <1>3, <1>5, TotalFoldIs
<1> HIDE DEF f, g
<1>8. TotalOf(amounts) \in Fractions /\ TotalOf(Append(amounts, e)) = Summing[<<TotalOf(amounts), e>>]
  BY <1>6, <1>7 DEF StepFrom
<1>9. TotalOf(Append(amounts, e)) = Plus(TotalOf(amounts), e)
  BY <1>1, <1>8 DEF Summing
<1> QED BY <1>4, <1>8, <1>9 DEF Earned, amounts, longer, more, e

-----------------------------------------------------------------------------
\* Cash and shares at their cost are the capital and what the closed trades have earned.
Squares(a, b, z, entry, D) == a + entry * b = Capital * D + z
Weighs(st, D, a, b, z) ==
  /\ Over(st.cash, D, a) /\ Over(st.shares, D, b) /\ Over(Earned(st.trades), D, z)
  /\ Squares(a, b, z, st.entry, D)
Positive(a) == a[1] >= 0
Balanced(st) ==
  /\ Positive(st.cash) /\ Positive(st.shares) /\ (st.cash[1] = 0 \/ st.shares[1] = 0)
  /\ \E D \in Nat \ {0}, a, b, z \in Int : Weighs(st, D, a, b, z)

LEMMA EarnedIs ==
  ASSUME NEW st \in Simulations
  PROVE  st.cash \in Fractions /\ st.shares \in Fractions /\ st.entry \in Nat /\ Earned(st.trades) \in Fractions
<1>1. st.trades \in Seq(Trade) /\ Nought \in Fractions
  BY NoughtIs DEF Simulations
<1>2. CloseTrade(0, 0, Nought, 0) \in Trade
  BY <1>1, ClosedIs
<1>3. Earned(st.trades) \in Fractions
  BY <1>1, <1>2, EarnedOfMore
<1> QED BY <1>3 DEF Simulations

LEMMA BoughtBalanced ==
  ASSUME NEW st \in Simulations, NEW price \in Nat, price > 0, Balanced(st), st.shares[1] = 0
  PROVE  Balanced(Bought(st, price))
<1> DEFINE cash == st.cash
           z0 == Earned(st.trades)
           next == Bought(st, price)
<1>1. /\ cash \in Fractions /\ st.shares \in Fractions /\ st.entry \in Nat /\ z0 \in Fractions
      /\ price \in Nat \ {0} /\ price \in Int /\ Capital \in Int
  BY EarnedIs, BacktestAssumption
<1>2. PICK D \in Nat \ {0}, a \in Int, b \in Int, z \in Int : Weighs(st, D, a, b, z)
  BY DEF Balanced
<1>3. b = 0
  BY <1>1, <1>2, OverSign DEF Weighs
<1>4. a = Capital * D + z
  <2>1. st.entry * 0 = 0 /\ a + st.entry * b = Capital * D + z /\ st.entry \in Int /\ D \in Int
    BY <1>1, <1>2, <1>3 DEF Weighs, Squares
  <2> QED BY <1>1, <1>3, <2>1
<1>5. /\ next.cash = Nought /\ next.shares = <<cash[1], cash[2] * price>>
      /\ next.entry = price /\ next.trades = st.trades
  BY DEF Bought, Simulations
<1> HIDE DEF cash, z0, next
<1>6. /\ D * price \in Nat \ {0}
      /\ Over(<<cash[1], cash[2] * price>>, D * price, a)
      /\ Over(z0, D * price, z * price)
  <2>1. Over(cash, D, a) /\ Over(z0, D, z)
    BY <1>2 DEF Weighs, cash, z0
  <2> QED BY <1>1, <2>1, OverShare
<1>7. Over(Nought, D * price, 0)
  BY <1>6, NoughtIs
<1>8. Squares(0, a, z * price, price, D * price)
  <2>1. price * (Capital * D + z) = Capital * (D * price) + z * price
    BY <1>1
  <2> QED BY <1>4, <2>1 DEF Squares
<1>9. z * price \in Int /\ 0 \in Int
  BY <1>1
<1> DEFINE E == D * price
           y == z * price
<1>10. Weighs(next, E, 0, a, y)
  BY <1>5, <1>6, <1>7, <1>8 DEF Weighs, z0
<1>11. E \in Nat \ {0} /\ y \in Int
  BY <1>6, <1>9
<1> HIDE DEF E, y
<1>12. Positive(next.cash) /\ Positive(next.shares) /\ next.cash[1] = 0
  BY <1>5, NoughtIs DEF Balanced, Positive, cash
<1> QED BY <1>9, <1>10, <1>11, <1>12 DEF Balanced, next

LEMMA SoldBalanced ==
  ASSUME NEW st \in Simulations, NEW price \in Nat, NEW t \in Nat, Balanced(st), st.shares[1] > 0
  PROVE  Balanced(Sold(st, price, t))
<1> DEFINE shares == st.shares
           entry == st.entry
           z0 == Earned(st.trades)
           next == Sold(st, price, t)
           deal == CloseTrade(entry, price, shares, t)
<1>1. /\ st.cash \in Fractions /\ shares \in Fractions /\ entry \in Nat /\ z0 \in Fractions
      /\ price \in Int /\ entry \in Int /\ price - entry \in Int /\ Capital \in Int
  <2>1. st.entry \in Nat
    BY EarnedIs
  <2> QED BY <2>1, EarnedIs, BacktestAssumption
<1>2. PICK D \in Nat \ {0}, a \in Int, b \in Int, z \in Int : Weighs(st, D, a, b, z)
  BY DEF Balanced
<1>3. a = 0
  <2>1. st.cash[1] = 0
    BY DEF Balanced
  <2> QED BY <1>1, <1>2, <2>1, OverSign DEF Weighs
<1>4. entry * b = Capital * D + z
  <2>1. a + entry * b = Capital * D + z
    BY <1>2 DEF Weighs, Squares
  <2> QED BY <1>1, <1>3, <2>1
<1>5. /\ next.cash = Times(price, shares) /\ next.shares = Nought /\ next.entry = 0
      /\ next.trades = Append(st.trades, deal)
  BY DEF Sold, Simulations
<1>6. deal \in Trade /\ deal.pnl = Times(price - entry, shares) /\ st.trades \in Seq(Trade)
  BY <1>1, ClosedIs DEF CloseTrade, Simulations
<1>7. Earned(next.trades) = Plus(z0, deal.pnl)
  <2> HIDE DEF deal, next
  <2> QED BY <1>5, <1>6, EarnedOfMore
<1> HIDE DEF shares, entry, z0, next, deal
<1>8. Over(shares, D, b) /\ Over(z0, D, z)
  BY <1>2 DEF Weighs, shares, z0
<1> DEFINE gain == (price - entry) * b
<1>9. gain \in Int /\ price * b \in Int /\ z + gain \in Int /\ 0 \in Int
  BY <1>1
<1>10. Over(next.cash, D, price * b)
  BY <1>1, <1>5, <1>8, OverTimes
<1>11. Over(Earned(next.trades), D, z + gain)
  <2>1. deal.pnl \in Fractions /\ Over(deal.pnl, D, gain)
    BY <1>1, <1>6, <1>8, OverTimes
  <2> HIDE DEF gain
  <2> QED BY <1>1, <1>7, <1>8, <1>9, <2>1, OverPlus
<1>12. Over(next.shares, D, 0)
  BY <1>5, NoughtIs
<1>13. Squares(price * b, 0, z + gain, next.entry, D)
  <2>1. gain = price * b - entry * b
    BY <1>1
  <2>2. price * b = Capital * D + (z + gain)
    <3> DEFINE x == entry * b  y == price * b  w == Capital * D
    <3>1. x \in Int /\ y \in Int /\ w \in Int /\ gain = y - x /\ x = w + z
      BY <1>1, <1>4, <2>1
    <3> HIDE DEF x, y, w, gain
    <3>2. y = w + (z + gain)
      BY <3>1
    <3> QED BY <3>2 DEF x, y, w
  <2>3. next.entry * 0 = 0 /\ price * b + 0 = price * b
    BY <1>5, <1>9
  <2> QED BY <2>2, <2>3 DEF Squares
<1> DEFINE p == price * b
           y == z + gain
<1>14. Weighs(next, D, p, 0, y) /\ p \in Int /\ y \in Int
  BY <1>9, <1>10, <1>11, <1>12, <1>13 DEF Weighs
<1> HIDE DEF p, y
<1>15. Positive(next.cash) /\ Positive(next.shares) /\ next.shares[1] = 0
  <2>1. price * shares[1] >= 0
    <3>1. shares[1] \in Nat
      BY <1>1 DEF shares, Fractions
    <3> QED BY <3>1
  <2> QED BY <1>5, <2>1, NoughtIs DEF Positive, Times
<1> QED BY <1>9, <1>14, <1>15 DEF Balanced, next

LEMMA MovedBalanced ==
  ASSUME NEW req, NEW c \in Seq(Nat), NEW st \in Simulations, NEW t \in DOMAIN c, Balanced(st)
  PROVE  Balanced(Moved(req, c, st, t))
<1>1. c[t] \in Nat /\ t \in Nat
  OBVIOUS
<1>2. CASE Buys(req, c, st, t)
  <2>1. c[t] > 0 /\ st.shares[1] = 0
    BY <1>2, SignalWhen DEF Buys
  <2> QED BY <1>1, <1>2, <2>1, BoughtBalanced DEF Moved
<1>3. CASE ~Buys(req, c, st, t) /\ Sells(req, c, st, t)
  BY <1>1, <1>3, SoldBalanced DEF Moved, Sells
<1>4. CASE ~Buys(req, c, st, t) /\ ~Sells(req, c, st, t)
  BY <1>4 DEF Moved
<1> QED BY <1>2, <1>3, <1>4

LEMMA AtPriceBalanced ==
  ASSUME NEW st \in Simulations, NEW price \in Nat, Balanced(st)
  PROVE  Balanced(AtPrice(st, price))
<1> DEFINE m == AtPrice(st, price)
<1>1. m.trades = st.trades /\ m.cash = st.cash /\ m.shares = st.shares /\ m.entry = st.entry
  BY AtPriceParts
<1> HIDE DEF m
<1>2. \A D, a, b, z : Weighs(st, D, a, b, z) <=> Weighs(m, D, a, b, z)
  BY <1>1 DEF Weighs
<1> QED BY <1>1, <1>2 DEF Balanced, m

LEMMA OpeningBalanced == Balanced(Opening)
<1>1. /\ Opening.cash = Whole(Capital) /\ Opening.shares = Nought /\ Opening.entry = 0 /\ Opening.trades = <<>>
  BY DEF Opening
<1>2. Earned(Opening.trades) = Nought
  BY <1>1, EarnedOfNone
<1>3. Over(Opening.cash, 1, Capital) /\ Over(Opening.shares, 1, 0) /\ Over(Earned(Opening.trades), 1, 0)
  BY <1>1, <1>2, BacktestAssumption DEF Whole, Nought, Over
<1>4. Squares(Capital, 0, 0, Opening.entry, 1)
  BY <1>1, BacktestAssumption DEF Squares
<1>5. Weighs(Opening, 1, Capital, 0, 0)
  BY <1>3, <1>4 DEF Weighs
<1>6. Positive(Opening.cash) /\ Positive(Opening.shares) /\ Opening.shares[1] = 0
  BY <1>1, BacktestAssumption DEF Positive, Nought, Whole
<1>7. 1 \in Nat \ {0} /\ Capital \in Int /\ 0 \in Int
  BY BacktestAssumption
<1> QED BY <1>5, <1>6, <1>7 DEF Balanced

\* The state after k bars balances, and its last point is its equity at the last price.
Settles(req, c, k) ==
  LET st == After(req, c, k) IN
  /\ Balanced(st)
  /\ k > 0 => st.curve # <<>> /\ Last(st.curve) = Equity(st, c[k])

LEMMA SimulationSettles ==
  ASSUME NEW req, NEW c \in Seq(Nat)
  PROVE  \A k \in 0..Len(c) : Settles(req, c, k)
<1> DEFINE n == Len(c)
           good == {k \in 0..n : Settles(req, c, k)}
<1>1. n \in Nat /\ DOMAIN c = 1..n /\ Runs(req, c)
  BY SimulationRuns
<1>2. 0 \in good
  BY <1>1, OpeningBalanced DEF Runs, Settles
<1>3. ASSUME NEW k \in 0..(n - 1), k \in good PROVE k + 1 \in good
  <2> DEFINE st == After(req, c, k)
             next == After(req, c, k + 1)
             m == Moved(req, c, st, k + 1)
             price == c[k + 1]
  <2>1. k \in 0..Len(c) /\ k < Len(c) /\ k + 1 \in DOMAIN c /\ k + 1 \in 0..n
    BY <1>1
  <2>2. st \in Simulations /\ next = Bar(req, c, st, k + 1)
    BY <1>1, <2>1 DEF Runs
  <2>3. Balanced(st)
    BY <1>3 DEF Settles
  <2> HIDE DEF st, next
  <2>4. next = AtPrice(m, price) /\ m \in Simulations /\ price \in Nat
    BY <2>1, <2>2, MovedIs
  <2>5. Balanced(m)
    BY <2>1, <2>2, <2>3, MovedBalanced
  <2> HIDE DEF m, price
  <2>6. Balanced(next)
    BY <2>4, <2>5, AtPriceBalanced
  <2>7. /\ next.curve = Append(m.curve, Equity(m, price))
        /\ next.cash = m.cash /\ next.shares = m.shares
    BY <2>4, AtPriceParts
  <2>8. m.curve \in Seq(Fractions) /\ Equity(m, price) \in Fractions
    BY <2>4, AtPriceIs DEF Simulations
  <2>9. next.curve # <<>> /\ Last(next.curve) = Equity(m, price)
    <3> DEFINE s == m.curve
               e == Equity(m, price)
    <3>1. s \in Seq(Fractions) /\ e \in Fractions /\ next.curve = Append(s, e)
      BY <2>7, <2>8
    <3> HIDE DEF s, e
    <3>2. Append(s, e) # <<>> /\ Last(Append(s, e)) = e
      <4>1. Len(Append(s, e)) = Len(s) + 1 /\ Len(s) \in Nat /\ Append(s, e)[Len(s) + 1] = e
        BY <3>1
      <4>2. Last(Append(s, e)) = e
        BY <4>1 DEF Last
      <4>3. Append(s, e) # <<>>
        <5>1. Len(Append(s, e)) # 0 /\ Len(<<>>) = 0
          BY <4>1
        <5> QED BY <5>1
      <4> QED BY <4>2, <4>3
    <3> QED BY <3>1, <3>2 DEF e
  <2>10. Equity(next, price) = Equity(m, price)
    BY <2>7 DEF Equity
  <2>11. Settles(req, c, k + 1)
    BY <2>6, <2>9, <2>10 DEF Settles, next, price
  <2> QED BY <2>1, <2>11
<1>4. 0..n \subseteq good
  <2> HIDE DEF good, n
  <2> QED BY <1>1, <1>2, <1>3, Upward
<1> QED BY <1>4

\* What is open and what was closed come to the last point of the curve.
LEMMA TradesExplain ==
  ASSUME NEW req, NEW c \in Seq(Nat), c # <<>>
  PROVE  SameAmount(Plus(Whole(Capital), Earned(Simulate(req, c).trades)), Simulate(req, c).metrics.final)
<1> DEFINE n == Len(c)
           end == After(req, c, n)
           report == Simulate(req, c)
           price == Last(c)
           deal == CloseTrade(end.entry, price, end.shares, n)
<1>1. n \in Nat \ {0} /\ n \in 0..Len(c) /\ price = c[n] /\ price \in Nat
  BY DEF Last
<1>2. end \in Simulations /\ Settles(req, c, n)
  BY <1>1, SimulationRuns, SimulationSettles DEF Runs
<1>3. Balanced(end) /\ end.curve # <<>> /\ Last(end.curve) = Equity(end, price)
  BY <1>1, <1>2 DEF Settles
<1>4. /\ report.metrics.final = Equity(end, price)
      /\ report.trades = IF end.shares[1] > 0 THEN Append(end.trades, deal) ELSE end.trades
  BY <1>2, <1>3, SimulateFolds, ReportParts
<1> DEFINE entry == end.entry
           z0 == Earned(end.trades)
           shares == end.shares
<1>5. /\ end.cash \in Fractions /\ shares \in Fractions /\ entry \in Nat /\ z0 \in Fractions
      /\ price \in Int /\ entry \in Int /\ price - entry \in Int /\ Capital \in Int
  <2>1. end.entry \in Nat
    BY <1>2, EarnedIs
  <2> QED BY <1>1, <1>2, <2>1, EarnedIs, BacktestAssumption
<1>6. PICK D \in Nat \ {0}, a \in Int, b \in Int, z \in Int : Weighs(end, D, a, b, z)
  BY <1>3 DEF Balanced
<1>7. Over(end.cash, D, a) /\ Over(shares, D, b) /\ Over(z0, D, z) /\ a + entry * b = Capital * D + z
  BY <1>6 DEF Weighs, Squares
<1>8. deal \in Trade /\ deal.pnl = Times(price - entry, shares) /\ end.trades \in Seq(Trade)
  BY <1>1, <1>2, <1>5, ClosedIs DEF CloseTrade, Simulations
<1> HIDE DEF end, report, price, deal, entry, z0, shares, n
<1> DEFINE gain == (price - entry) * b
           worth == price * b
<1>9. gain \in Int /\ worth \in Int /\ gain = worth - entry * b /\ entry * b \in Int /\ Capital * D \in Int
  BY <1>5
<1>10. Over(Whole(Capital), D, Capital * D) /\ Whole(Capital) \in Fractions
  BY <1>5, OverWhole
<1>11. Equity(end, price) \in Fractions /\ Over(Equity(end, price), D, a + worth)
  <2>1. Times(price, shares) \in Fractions /\ Over(Times(price, shares), D, worth)
    BY <1>5, <1>7, OverTimes
  <2> HIDE DEF worth
  <2> QED BY <1>5, <1>7, <1>9, <2>1, OverPlus DEF Equity, shares
<1>12. PICK y \in Int : Earned(report.trades) \in Fractions /\ Over(Earned(report.trades), D, y) /\ Capital * D + y = a + worth
  <2>1. CASE end.shares[1] > 0
    <3>1. Earned(report.trades) = Plus(z0, deal.pnl)
      BY <1>4, <1>8, <2>1, EarnedOfMore DEF z0
    <3>2. deal.pnl \in Fractions /\ Over(deal.pnl, D, gain)
      BY <1>5, <1>7, <1>8, OverTimes
    <3> HIDE DEF gain
    <3>3. Earned(report.trades) \in Fractions /\ Over(Earned(report.trades), D, z + gain) /\ z + gain \in Int
      BY <1>5, <1>7, <1>9, <3>1, <3>2, OverPlus
    <3> DEFINE x == entry * b
               w == Capital * D
    <3>4. x \in Int /\ w \in Int /\ worth \in Int /\ gain = worth - x /\ a + x = w + z
      BY <1>7, <1>9
    <3> HIDE DEF x, w, worth
    <3>5. w + (z + gain) = a + worth
      BY <3>4
    <3> DEFINE v == z + gain
    <3>6. v \in Int /\ Earned(report.trades) \in Fractions /\ Over(Earned(report.trades), D, v)
      BY <3>3
    <3>7. Capital * D + v = a + worth
      BY <3>5 DEF w
    <3> HIDE DEF v
    <3> QED BY <3>6, <3>7
  <2>2. CASE ~(end.shares[1] > 0)
    <3>1. end.shares[1] = 0
      <4>1. end.shares[1] \in Int /\ end.shares[1] >= 0
        BY <1>3, <1>5 DEF Balanced, Positive, Fractions, shares
      <4> QED BY <2>2, <4>1
    <3>2. b = 0
      BY <1>5, <1>7, <3>1, OverSign DEF shares
    <3>3. Capital * D + z = a + worth
      <4>1. entry * b = 0 /\ worth = 0
        BY <1>5, <3>2
      <4> HIDE DEF worth
      <4> QED BY <1>7, <4>1
    <3>4. report.trades = end.trades
      BY <1>4, <2>2
    <3> QED BY <1>5, <1>7, <3>3, <3>4 DEF z0
  <2> QED BY <2>1, <2>2
<1> DEFINE sum == Plus(Whole(Capital), Earned(report.trades))
           w == Capital * D
           all == a + worth
<1>13. sum \in Fractions /\ Over(sum, D, w + y)
  <2>1. w \in Int
    BY <1>9
  <2> QED BY <1>10, <1>12, <2>1, OverPlus
<1>14. w + y = all /\ all \in Int
  BY <1>9, <1>12
<1> HIDE DEF sum, w, all
<1>15. SameAmount(sum, Equity(end, price))
  <2>1. Over(sum, D, all) /\ Over(Equity(end, price), D, all)
    BY <1>11, <1>13, <1>14 DEF all
  <2> QED BY <1>11, <1>13, <1>14, <2>1, OverSame
<1> QED BY <1>4, <1>15 DEF sum, report

-----------------------------------------------------------------------------
\* Up to the warm-up nothing moves.
LEMMA WarmsUp ==
  ASSUME NEW req \in BacktestRequests, NEW c \in Seq(Nat)
  PROVE  \A k \in 0..Len(c) : k <= Warmup(req) => Untouched(After(req, c, k))
<1> DEFINE n == Len(c)
           good == {k \in 0..n : k <= Warmup(req) => Untouched(After(req, c, k))}
<1>1. n \in Nat /\ DOMAIN c = 1..n /\ Runs(req, c) /\ Warmup(req) \in Nat
  BY SimulationRuns, WarmupIs
<1>2. 0 \in good
  <2>1. Untouched(Opening)
    BY DEF Untouched, Opening
  <2> QED BY <1>1, <2>1 DEF Runs
<1>3. ASSUME NEW k \in 0..(n - 1), k \in good PROVE k + 1 \in good
  <2> DEFINE st == After(req, c, k)
             next == After(req, c, k + 1)
             price == c[k + 1]
             e == Equity(st, price)
  <2>1. k \in 0..Len(c) /\ k < Len(c) /\ k + 1 \in DOMAIN c /\ k + 1 \in 0..n /\ price \in Nat
    BY <1>1
  <2>2. SUFFICES ASSUME k + 1 <= Warmup(req) PROVE Untouched(next)
    BY <2>1
  <2>3. st \in Simulations /\ next = Bar(req, c, st, k + 1)
    BY <1>1, <2>1 DEF Runs
  <2>4. Untouched(st)
    BY <1>1, <1>3, <2>1, <2>2
  <2>5. ~Buys(req, c, st, k + 1) /\ ~Sells(req, c, st, k + 1)
    <3>1. ~(k + 1 > Warmup(req))
      BY <1>1, <2>1, <2>2
    <3> QED BY <3>1 DEF Buys, Sells, Signal
  <2>6. next = AtPrice(st, price)
    BY <2>3, <2>5, BarMoves
  <2> HIDE DEF st, next, price
  <2>7. e \in Fractions /\ st.curve \in Seq(Fractions)
    BY <2>1, <2>3, AtPriceIs DEF Simulations
  <2>8. next.curve = Append(st.curve, e) /\ next.cash = st.cash /\ next.shares = st.shares /\ next.trades = st.trades
    BY <2>1, <2>3, <2>6, AtPriceParts
  <2>9. SameAmount(e, Whole(Capital))
    BY <2>1, <2>4, BacktestAssumption DEF Untouched, Equity, Whole, Nought, Plus, Times, SameAmount
  <2> HIDE DEF e
  <2>10. ASSUME NEW i \in 1..Len(next.curve) PROVE SameAmount(next.curve[i], Whole(Capital))
    <3>1. (i \in 1..Len(st.curve) /\ next.curve[i] = st.curve[i]) \/ next.curve[i] = e
      BY <2>7, <2>8, <2>10
    <3> QED BY <2>4, <2>9, <3>1 DEF Untouched
  <2> QED BY <2>4, <2>8, <2>10 DEF Untouched
<1>4. 0..n \subseteq good
  <2> HIDE DEF good, n
  <2> QED BY <1>1, <1>2, <1>3, Upward
<1> QED BY <1>4

\* A simulation of n bars that has seen them up to its warm-up only starts from the
\* capital, and then trades.
Patient(req, c, report) ==
  /\ DOMAIN report.curve = 1..Len(c)
  /\ \A t \in 1..Len(c) : t <= Warmup(req) => SameAmount(report.curve[t], Whole(Capital))
  /\ \A i \in DOMAIN report.trades :
       report.trades[i].at \in Nat /\ (report.trades[i].at > Warmup(req) \/ report.trades[i].at = Len(c))

LEMMA SimulationPatient ==
  ASSUME NEW req \in BacktestRequests, NEW c \in Seq(Nat)
  PROVE  Patient(req, c, Simulate(req, c))
<1> DEFINE n == Len(c)
           end == After(req, c, n)
           report == Simulate(req, c)
           deal == CloseTrade(end.entry, Last(c), end.shares, n)
<1>1. n \in Nat /\ n \in 0..Len(c) /\ Runs(req, c) /\ Grows(req, c, n)
  BY SimulationRuns, SimulationGrows
<1>2. end \in Simulations
  BY <1>1 DEF Runs
<1>3. /\ report.curve = end.curve /\ deal.at = n
      /\ report.trades = IF end.shares[1] > 0 THEN Append(end.trades, deal) ELSE end.trades
  BY <1>2, SimulateFolds, ReportParts
<1>4. end.curve \in Seq(Fractions) /\ end.trades \in Seq(Trade) /\ Len(end.curve) = n
  BY <1>1, <1>2 DEF Simulations, Grows, Paced
<1>5. \A i \in 1..Len(end.trades) : end.trades[i].at \in Nat /\ end.trades[i].at > Warmup(req)
  <2>1. \A i \in 1..Len(end.trades) : end.trades[i] \in Trade
    BY <1>4
  <2> QED BY <1>1, <2>1 DEF Grows, Paced, Trade
<1>6. ASSUME NEW t \in 1..n, t <= Warmup(req) PROVE SameAmount(end.curve[t], Whole(Capital))
  <2> DEFINE st == After(req, c, t)
  <2>1. t \in 0..Len(c) /\ t \in 0..n
    BY <1>1
  <2>2. Untouched(st) /\ Grows(req, c, t) /\ Begins(st.curve, end.curve)
    BY <1>1, <1>6, <2>1, WarmsUp, SimulationGrows DEF Grows
  <2>3. Len(st.curve) = t
    BY <2>2 DEF Grows, Paced
  <2> HIDE DEF st
  <2>4. t \in 1..Len(st.curve)
    BY <2>3
  <2> QED BY <2>2, <2>4 DEF Untouched, Begins
<1>7. ASSUME NEW i \in DOMAIN report.trades
      PROVE  report.trades[i].at \in Nat /\ (report.trades[i].at > Warmup(req) \/ report.trades[i].at = n)
  <2> HIDE DEF end, report, deal, n
  <2>1. CASE end.shares[1] > 0
    <3>1. report.trades = Append(end.trades, deal)
      BY <1>3, <2>1
    <3>2. (i \in 1..Len(end.trades) /\ report.trades[i] = end.trades[i]) \/ report.trades[i] = deal
      BY <1>4, <1>7, <3>1
    <3> QED BY <1>1, <1>3, <1>5, <3>2 DEF n
  <2>2. CASE ~(end.shares[1] > 0)
    BY <1>3, <1>4, <1>5, <1>7, <2>2
  <2> QED BY <2>1, <2>2
<1>8. DOMAIN report.curve = 1..n
  BY <1>3, <1>4
<1> HIDE DEF end, report, deal
<1>9. Patient(req, c, report)
  BY <1>3, <1>6, <1>7, <1>8 DEF Patient
<1> QED BY <1>9 DEF report
-----------------------------------------------------------------------------
(* Walk-forward validation. *)

\* Where the bars of fold k + 1 begin.
Edge(first, test, k) == first + k * test
Steps(first, test) == \A k \in Nat : Edge(first, test, k) \in Int /\ Edge(first, test, k + 1) = Edge(first, test, k) + test
Ordered(first, test) == \A j, k \in Nat : j <= k => Edge(first, test, j) <= Edge(first, test, k)

LEMMA EdgesAre ==
  ASSUME NEW first \in Int, NEW test \in Nat \ {0}
  PROVE  Steps(first, test) /\ Ordered(first, test) /\ Edge(first, test, 0) = first
<1>1. ASSUME NEW k \in Nat PROVE Edge(first, test, k) \in Int /\ Edge(first, test, k + 1) = Edge(first, test, k) + test
  BY DEF Edge
<1>2. ASSUME NEW j \in Nat, NEW k \in Nat, j <= k PROVE Edge(first, test, j) <= Edge(first, test, k)
  <2>1. (k - j) * test >= 0
    <3>1. k - j \in Nat /\ test \in Nat
      BY <1>2
    <3> QED BY <3>1
  <2>2. (k - j) * test = k * test - j * test
    OBVIOUS
  <2>3. k * test \in Int /\ j * test \in Int
    OBVIOUS
  <2> HIDE <2>1
  <2> QED BY <2>1, <2>2, <2>3 DEF Edge
<1> QED BY <1>1, <1>2 DEF Steps, Ordered, Edge

\* Every bar after the first window is between two edges next to each other, and no others.
LEMMA OneFold ==
  ASSUME NEW first \in Int, NEW test \in Nat \ {0}, NEW n \in Nat,
         NEW t \in Int, first < t, t <= Edge(first, test, n)
  PROVE  Cardinality({k \in 1..n : Edge(first, test, k - 1) < t /\ t <= Edge(first, test, k)}) = 1
<1> DEFINE E(k) == Edge(first, test, k)
           S == {k \in 1..n : E(k - 1) < t /\ t <= E(k)}
           Q == {k \in Nat : t <= E(k)}
<1>1. /\ \A k \in Nat : E(k) \in Int
      /\ \A j, k \in Nat : j <= k => E(j) <= E(k)
      /\ E(0) = first
  BY EdgesAre DEF Steps, Ordered
<1>2. Q \subseteq Nat /\ n \in Q
  OBVIOUS
<1>3. PICK k \in Q : \A m \in Q : k <= m
  <2> HIDE DEF Q
  <2> QED BY <1>2, LeastOf
<1> HIDE DEF E
<1>4. k \in Nat /\ t <= E(k) /\ k <= n /\ k # 0 /\ k - 1 \in Nat
  BY <1>1, <1>2, <1>3
<1>5. E(k - 1) < t
  <2>1. k - 1 \notin Q
    BY <1>3, <1>4
  <2>2. ~(t <= E(k - 1)) /\ E(k - 1) \in Int
    BY <1>1, <1>4, <2>1
  <2> QED BY <2>2
<1>6. k \in S
  BY <1>4, <1>5
<1>7. ASSUME NEW j \in S PROVE j = k
  <2>1. j \in Nat /\ j - 1 \in Nat /\ E(j - 1) < t /\ t <= E(j) /\ E(j) \in Int /\ E(j - 1) \in Int
    BY <1>1, <1>7
  <2>2. ~(j <= k - 1)
    <3>1. SUFFICES ASSUME j <= k - 1 PROVE FALSE
      OBVIOUS
    <3>2. E(j) <= E(k - 1) /\ E(k - 1) \in Int
      BY <1>1, <1>4, <2>1, <3>1
    <3> QED BY <1>5, <2>1, <3>2
  <2>3. ~(k <= j - 1)
    <3>1. SUFFICES ASSUME k <= j - 1 PROVE FALSE
      OBVIOUS
    <3>2. E(k) <= E(j - 1) /\ E(k) \in Int
      BY <1>1, <1>4, <2>1, <3>1
    <3> QED BY <1>4, <2>1, <3>2
  <2> QED BY <1>4, <2>1, <2>2, <2>3
<1>8. S = {k}
  <2> HIDE DEF S
  <2> QED BY <1>6, <1>7
<1>9. Cardinality(S) = 1
  <2> HIDE DEF S
  <2> QED BY <1>8, FS_Singleton
<1> QED BY <1>9 DEF E

\* The bars of fold k.
FoldOf(req, c, k) ==
  LET trainEnd == Edge(Len(c) - req.folds * req.test, req.test, k - 1)
      testStart == IF trainEnd > req.warmup THEN trainEnd - req.warmup ELSE 0 IN
  [trainEnd |-> trainEnd, testStart |-> testStart, testEnd |-> trainEnd + req.test,
   train |-> Simulate(req, SubSeq(c, 1, trainEnd)),
   test |-> Simulate(req, SubSeq(c, testStart + 1, trainEnd + req.test))]

LEMMA FoldsAre ==
  ASSUME NEW req, NEW c
  PROVE  \/ Folds(req, c) = <<>>
         \/ /\ Folds(req, c) = [k \in 1..req.folds |-> FoldOf(req, c, k)]
            /\ ~(Len(c) - req.folds * req.test < IF req.warmup + Slack > LeastTrain THEN req.warmup + Slack ELSE LeastTrain)
BY DEF Folds, FoldOf, Edge

LEMMA RequestIs ==
  ASSUME NEW req \in BacktestRequests
  PROVE  /\ req.warmup \in Nat \ {0} /\ req.test \in Nat \ {0} /\ req.folds \in Nat \ {0}
         /\ req.warmup \in Int /\ req.test \in Int /\ req.folds \in Int
<1>1. req \in [buy : 1..99, sell : 1..99, warmup : Nat \ {0}, folds : Nat \ {0}, test : Nat \ {0}]
  BY BacktestAssumption
<1> QED BY <1>1

\* The window of a test: w bars before the edge e, and m after it.
LEMMA WindowIs ==
  ASSUME NEW e \in Nat, NEW w \in Nat \ {0}, NEW m \in Nat \ {0}, NEW n \in Nat, e >= w, e + m <= n,
         NEW s, s = IF e > w THEN e - w ELSE 0
  PROVE  s \in Nat /\ s + w = e /\ s + 1 \in 1..n /\ e + m \in 1..n /\ (e + m) - (s + 1) + 1 = w + m
OBVIOUS

\* It is tested on the warm-up before the edge and the bars up to the next.
Apart(test, s, e) ==
  /\ SameAmount(test.curve[1], Whole(Capital))
  /\ \A t \in DOMAIN test.curve : s + t <= e => SameAmount(test.curve[t], Whole(Capital))
  /\ \A i \in DOMAIN test.trades : s + test.trades[i].at > e

LEMMA TestIsApart ==
  ASSUME NEW req \in BacktestRequests, NEW d \in Seq(Nat), NEW w \in Nat \ {0}, NEW m \in Nat \ {0}, w = req.warmup,
         Len(d) = w + m, NEW s \in Nat, NEW e \in Nat, s + w = e
  PROVE  Apart(Simulate(req, d), s, e)
<1> DEFINE test == Simulate(req, d)
           warm == Warmup(req)
           n == Len(d)
<1>1. warm \in Nat /\ warm >= w /\ n \in Nat /\ n = w + m
  BY WarmupIs
<1>2. /\ DOMAIN test.curve = 1..n
      /\ \A t \in 1..n : t <= warm => SameAmount(test.curve[t], Whole(Capital))
      /\ \A i \in DOMAIN test.trades :
           test.trades[i].at \in Nat /\ (test.trades[i].at > warm \/ test.trades[i].at = n)
  BY SimulationPatient DEF Patient
<1> HIDE DEF test, warm, n
<1>3. \A t \in 1..n : s + t <= e => t <= warm
  BY <1>1
<1>4. 1 \in 1..n /\ 1 <= warm
  BY <1>1
<1>5. ASSUME NEW i \in DOMAIN test.trades PROVE s + test.trades[i].at > e
  <2> DEFINE at == test.trades[i].at
  <2>1. at \in Nat /\ (at > warm \/ at = n)
    BY <1>2
  <2> HIDE DEF at
  <2>2. s + at > e
    BY <1>1, <2>1
  <2> QED BY <2>2 DEF at
<1>6. Apart(test, s, e)
  BY <1>2, <1>3, <1>4, <1>5 DEF Apart
<1> QED BY <1>6 DEF test

\* What is asked of a fold.
LEMMA FoldIsApart ==
  ASSUME NEW req \in BacktestRequests, NEW c \in Seq(Nat), NEW k \in 1..req.folds,
         Len(c) - req.folds * req.test >= req.warmup
  PROVE  LET fold == FoldOf(req, c, k) IN
         Apart(fold.test, fold.testStart, fold.trainEnd)
<1> DEFINE w == req.warmup
           m == req.test
           f == req.folds
           n == Len(c)
           first == n - f * m
           e == Edge(first, m, k - 1)
           s == IF e > w THEN e - w ELSE 0
           d == SubSeq(c, s + 1, e + m)
           fold == FoldOf(req, c, k)
<1>1. w \in Nat \ {0} /\ m \in Nat \ {0} /\ f \in Nat \ {0} /\ n \in Nat /\ first \in Int /\ first >= w /\ f * m \in Int
  BY RequestIs
<1>2. fold.trainEnd = e /\ fold.testStart = s /\ fold.test = Simulate(req, d)
  BY DEF FoldOf
<1>3. k \in Nat /\ k - 1 \in Nat /\ k <= f /\ (k - 1) + 1 = k
  BY <1>1
<1> HIDE DEF w, m, f, n, fold
<1>4. first = n - f * m
  OBVIOUS
<1> HIDE DEF first
<1>5. e \in Int /\ first <= e /\ e + m <= n
  <2>1. Edge(first, m, 0) = first /\ Edge(first, m, f) = n
    BY <1>1, <1>4 DEF Edge
  <2>2. Edge(first, m, 0) <= Edge(first, m, k - 1)
    BY <1>1, <1>3, EdgesAre DEF Ordered
  <2>3. Edge(first, m, k) <= Edge(first, m, f)
    BY <1>1, <1>3, EdgesAre DEF Ordered
  <2>4. e \in Int /\ Edge(first, m, k) = e + m
    <3>1. Steps(first, m)
      BY <1>1, EdgesAre
    <3>2. Edge(first, m, k - 1) \in Int /\ Edge(first, m, (k - 1) + 1) = Edge(first, m, k - 1) + m
      BY <1>3, <3>1 DEF Steps
    <3> QED BY <1>3, <3>2
  <2> QED BY <2>1, <2>2, <2>3, <2>4
<1> HIDE DEF e
<1>6. e \in Nat /\ e >= w
  BY <1>1, <1>5
<1>7. s = IF e > w THEN e - w ELSE 0
  OBVIOUS
<1> HIDE DEF s
<1>8. s \in Nat /\ s + w = e /\ s + 1 \in 1..n /\ e + m \in 1..n /\ (e + m) - (s + 1) + 1 = w + m
  BY <1>1, <1>5, <1>6, <1>7, WindowIs
<1>9. d \in Seq(Nat) /\ Len(d) = w + m
  <2>1. s + 1 <= e + m
    BY <1>1, <1>8
  <2> QED BY <1>8, <2>1, PartIs DEF n
<1> HIDE DEF d
<1>10. Apart(Simulate(req, d), s, e)
  BY <1>1, <1>6, <1>8, <1>9, TestIsApart DEF w
<1> QED BY <1>2, <1>10 DEF fold

\* The folds of a strategy, whatever the history.
LEMMA FoldsHeldOut ==
  ASSUME NEW req \in BacktestRequests, closes \in Seq(Nat)
  PROVE  HeldOut(Folds(req, closes))
<1> DEFINE w == req.warmup
           m == req.test
           f == req.folds
           n == Len(closes)
           first == n - f * m
           folds == Folds(req, closes)
<1>1. w \in Nat \ {0} /\ m \in Nat \ {0} /\ f \in Nat \ {0} /\ n \in Nat /\ first \in Int /\ f * m \in Int
  BY RequestIs
<1>2. SUFFICES ASSUME folds # <<>> PROVE HeldOut(folds)
  BY DEF HeldOut
<1>3. /\ folds = [k \in 1..f |-> FoldOf(req, closes, k)]
      /\ ~(first < IF w + Slack > LeastTrain THEN w + Slack ELSE LeastTrain)
  BY <1>2, FoldsAre
<1>4. first >= w
  <2>1. Slack \in Nat /\ LeastTrain \in Nat
    BY BacktestAssumption
  <2> HIDE DEF first, w
  <2> QED BY <1>1, <1>3, <2>1
<1>5. \A k \in 1..f : Apart(folds[k].test, folds[k].testStart, folds[k].trainEnd)
  BY <1>3, <1>4, FoldIsApart
<1>6. /\ DOMAIN folds = 1..f
      /\ \A k \in 1..f : folds[k].trainEnd = Edge(first, m, k - 1) /\ folds[k].testEnd = Edge(first, m, k - 1) + m
  BY <1>3 DEF FoldOf
<1>7. Edge(first, m, 0) = first /\ Edge(first, m, f) = n /\ Steps(first, m)
  <2>1. first = n - f * m
    OBVIOUS
  <2> HIDE DEF first, m, f, n
  <2>2. Edge(first, m, f) = n
    BY <1>1, <2>1 DEF Edge
  <2> QED BY <1>1, <2>2, EdgesAre
<1> HIDE DEF w, m, f, n, folds, first
<1>8. \A k \in 1..f : folds[k].testEnd = Edge(first, m, k)
  <2> SUFFICES ASSUME NEW k \in 1..f PROVE folds[k].testEnd = Edge(first, m, k)
    OBVIOUS
  <2>1. k - 1 \in Nat /\ (k - 1) + 1 = k
    BY <1>1
  <2>2. Edge(first, m, (k - 1) + 1) = Edge(first, m, k - 1) + m
    BY <1>7, <2>1 DEF Steps
  <2> QED BY <1>6, <2>1, <2>2
<1>9. folds[1].trainEnd = first
  <2>1. 1 \in 1..f /\ 1 - 1 = 0
    BY <1>1
  <2> QED BY <1>6, <1>7, <2>1
<1>10. ASSUME NEW t \in folds[1].trainEnd + 1..n
       PROVE  Cardinality({k \in DOMAIN folds : folds[k].trainEnd < t /\ t <= folds[k].testEnd}) = 1
  <2>1. t \in Int /\ first < t /\ t <= Edge(first, m, f)
    BY <1>1, <1>7, <1>9
  <2>2. {k \in DOMAIN folds : folds[k].trainEnd < t /\ t <= folds[k].testEnd}
          = {k \in 1..f : Edge(first, m, k - 1) < t /\ t <= Edge(first, m, k)}
    BY <1>6, <1>8
  <2>3. f \in Nat
    BY <1>1
  <2> QED BY <1>1, <2>1, <2>2, <2>3, OneFold
<1> QED BY <1>5, <1>6, <1>10 DEF HeldOut, Apart, n
-----------------------------------------------------------------------------
(* What is saved.                                                          *)

\* A report is that of a simulation of the first bars of the history as it is now.
Made(row) ==
  row.req \in BacktestRequests /\ \E n \in 1..Len(closes) : row.report = Simulate(row.req, SubSeq(closes, 1, n))

\* Runs that are saved, and runs that are about to be.
RunsAreMade ==
  /\ \A r \in runs : Made(r)
  /\ \A w \in Savers : Committing(w) => Made(save[w].row)

\* The first bars stay the first when another comes.
LEMMA FirstBarsStay ==
  ASSUME NEW c \in Seq(Closes), NEW price \in Closes, NEW n \in 1..Len(c)
  PROVE  n \in 1..Len(Append(c, price)) /\ SubSeq(Append(c, price), 1, n) = SubSeq(c, 1, n)
<1> DEFINE d == Append(c, price)
<1>1. d \in Seq(Closes) /\ Len(d) = Len(c) + 1 /\ Len(c) \in Nat /\ \A i \in 1..Len(c) : d[i] = c[i]
  OBVIOUS
<1> HIDE DEF d
<1>2. n \in 1..Len(d) /\ 1 \in 1..Len(c) /\ 1 \in 1..Len(d) /\ n \in Nat
  BY <1>1
<1>3. SubSeq(c, 1, n) \in Seq(Closes) /\ Len(SubSeq(c, 1, n)) = n /\ \A i \in 1..n : SubSeq(c, 1, n)[i] = c[i]
  <2>1. \A i \in 1..n : 1 + i - 1 = i
    BY <1>2
  <2>2. n - 1 + 1 = n /\ 1 <= n
    BY <1>2
  <2> QED BY <1>2, <2>1, <2>2, SubSeqProperties
<1>4. SubSeq(d, 1, n) \in Seq(Closes) /\ Len(SubSeq(d, 1, n)) = n /\ \A i \in 1..n : SubSeq(d, 1, n)[i] = d[i]
  <2>1. \A i \in 1..n : 1 + i - 1 = i
    BY <1>2
  <2>2. n - 1 + 1 = n /\ 1 <= n
    BY <1>2
  <2> QED BY <1>1, <1>2, <2>1, <2>2, SubSeqProperties
<1>5. \A i \in 1..n : SubSeq(d, 1, n)[i] = SubSeq(c, 1, n)[i]
  BY <1>1, <1>3, <1>4
<1>6. SubSeq(d, 1, n) = SubSeq(c, 1, n)
  BY <1>3, <1>4, <1>5, SeqEqual
<1> QED BY <1>2, <1>6 DEF d

LEMMA MadeStays ==
  ASSUME closes \in Seq(Closes), NEW price \in Closes, closes' = Append(closes, price), NEW row, Made(row)
  PROVE  Made(row)'
<1>1. PICK n \in 1..Len(closes) : row.report = Simulate(row.req, SubSeq(closes, 1, n))
  BY DEF Made
<1>2. n \in 1..Len(closes') /\ SubSeq(closes', 1, n) = SubSeq(closes, 1, n)
  BY FirstBarsStay
<1> QED BY <1>1, <1>2 DEF Made

LEMMA RunsMadeHolds == BacktestSpec => []RunsAreMade
<1>1. BacktestInit => RunsAreMade
  BY DEF BacktestInit, RunsAreMade, Committing
<1>2. SavesInv /\ RunsAreMade /\ [BacktestNext]_backtestVars => RunsAreMade'
  <2> SUFFICES ASSUME SavesInv, RunsAreMade, [BacktestNext]_backtestVars PROVE RunsAreMade'
    OBVIOUS
  <2>1. closes \in Seq(Closes) /\ save \in [Savers -> SaveWork \union {Resting}] /\ SaveTypes
    BY DEF SavesInv, SaveTypes
  <2>2. ASSUME UNCHANGED closes, NEW row, Made(row) PROVE Made(row)'
    BY <2>2 DEF Made
  <2>3. ASSUME UNCHANGED closes, runs' \subseteq runs,
               \A x \in Savers : Committing(x)' => Committing(x) /\ save'[x] = save[x]
        PROVE  RunsAreMade'
    <3>1. \A r \in runs' : Made(r)'
      BY <2>2, <2>3 DEF RunsAreMade
    <3>2. ASSUME NEW x \in Savers, Committing(x)' PROVE Made(save[x].row)'
      BY <2>2, <2>3, <3>2 DEF RunsAreMade
    <3> QED BY <3>1, <3>2 DEF RunsAreMade, Made
  <2>4. CASE UNCHANGED backtestVars
    BY <2>3, <2>4 DEF backtestVars, Committing
  <2>5. CASE \E price \in Closes : NewBar(price)
    <3>1. PICK price \in Closes : NewBar(price)
      BY <2>5
    <3>2. closes' = Append(closes, price) /\ UNCHANGED <<runs, save>>
      BY <3>1 DEF NewBar
    <3>3. \A row : Made(row) => Made(row)'
      BY <2>1, <3>2, MadeStays
    <3> QED BY <3>2, <3>3 DEF RunsAreMade, Committing, Made
  <2>6. CASE \E w \in Savers, u \in Owners, req \in BacktestRequests : RunBacktest(w, u, req)
    <3>1. PICK w \in Savers, u \in Owners, req \in BacktestRequests : RunBacktest(w, u, req)
      BY <2>6
    <3> DEFINE row == ToRow(u, req, saves', Simulate(req, closes))
               v == [step |-> "commit", row |-> row]
    <3>2. save' = [save EXCEPT ![w] = v] /\ UNCHANGED <<closes, runs>> /\ closes # <<>>
      BY <3>1 DEF RunBacktest
    <3>3. Made(row)
      <4>1. Len(closes) \in 1..Len(closes) /\ SubSeq(closes, 1, Len(closes)) = closes
        <5>1. Len(closes) \in Nat /\ Len(closes) # 0
          BY <2>1, <3>2
        <5> QED BY <2>1, <5>1, SubSeqFull
      <4>2. row.req = req /\ row.report = Simulate(req, closes)
        BY DEF ToRow
      <4> HIDE DEF row
      <4> QED BY <4>1, <4>2 DEF Made
    <3> HIDE DEF row
    <3>4. save'[w].row = row /\ \A x \in Savers : x # w => save'[x] = save[x]
      BY <2>1, <3>2
    <3>5. ASSUME NEW x \in Savers, Committing(x)' PROVE Made(save[x].row)'
      <4>1. CASE x = w
        BY <2>2, <3>2, <3>3, <3>4, <4>1
      <4>2. CASE x # w
        <5>1. Committing(x) /\ save'[x] = save[x]
          BY <3>4, <3>5, <4>2 DEF Committing
        <5> QED BY <2>2, <3>2, <5>1 DEF RunsAreMade
      <4> QED BY <4>1, <4>2
    <3>6. \A r \in runs' : Made(r)'
      BY <2>2, <3>2 DEF RunsAreMade
    <3> QED BY <3>5, <3>6 DEF RunsAreMade, Made
  <2>7. CASE \E w \in Savers : SaveRun(w)
    <3>1. PICK w \in Savers : SaveRun(w)
      BY <2>7
    <3> DEFINE row == save[w].row
               v == [save[w] EXCEPT !.step = "prune"]
    <3>2. Committing(w) /\ runs' = runs \union {row} /\ save' = [save EXCEPT ![w] = v] /\ UNCHANGED closes
      BY <2>1, <3>1 DEF SaveRun, Committing
    <3>3. save[w] \in SaveWork
      BY <2>1, <3>2 DEF Committing
    <3>4. v.step = "prune"
      BY <3>3 DEF SaveWork
    <3> HIDE DEF v
    <3>5. save'[w] = v /\ \A x \in Savers : x # w => save'[x] = save[x]
      BY <2>1, <3>2
    <3>6. \A x \in Savers : Committing(x)' => Committing(x) /\ save'[x] = save[x]
      BY <3>4, <3>5 DEF Committing
    <3>7. \A r \in runs' : Made(r)'
      BY <2>2, <3>2 DEF RunsAreMade
    <3>8. ASSUME NEW x \in Savers, Committing(x)' PROVE Made(save[x].row)'
      BY <2>2, <3>2, <3>6, <3>8 DEF RunsAreMade
    <3> QED BY <3>7, <3>8 DEF RunsAreMade, Made
  <2>8. CASE \E w \in Savers : Prune(w) \/ KillSaver(w)
    <3>1. PICK w \in Savers : Prune(w) \/ KillSaver(w)
      BY <2>8
    <3>2. Pruning(w) /\ runs' \subseteq runs /\ save' = [save EXCEPT ![w] = Resting] /\ UNCHANGED closes
      BY <3>1 DEF Prune, KillSaver, Pruning
    <3>3. \A x \in Savers : Committing(x)' => Committing(x) /\ save'[x] = save[x]
      BY <3>2, Rested
    <3> QED BY <2>3, <3>2, <3>3
  <2>9. CASE \E u \in Owners : \E r \in runs : DeleteRun(u, r)
    BY <2>3, <2>9 DEF DeleteRun, Committing
  <2> QED BY <2>4, <2>5, <2>6, <2>7, <2>8, <2>9 DEF BacktestNext
<1> QED BY <1>1, <1>2, SavesInvHolds, PTL DEF BacktestSpec

\* A run that was made is honest.
LEMMA MadeIsHonest ==
  ASSUME closes \in Seq(Nat), NEW r, Made(r)
  PROVE  Replayable(r) /\ TradesExplainReturn(r)
<1>1. PICK n \in 1..Len(closes) : r.report = Simulate(r.req, SubSeq(closes, 1, n))
  BY DEF Made
<1> DEFINE req == r.req
           d == SubSeq(closes, 1, n)
<1>2. req \in BacktestRequests
  BY DEF Made
<1>3. d \in Seq(Nat) /\ Len(d) = n /\ Len(closes) \in Nat /\ \A j \in 1..n : d[j] = closes[j]
  <2>1. 1 \in 1..Len(closes) /\ n \in Nat /\ 1 <= n /\ n - 1 + 1 = n /\ \A j \in 1..n : 1 + j - 1 = j
    OBVIOUS
  <2> QED BY <2>1, PartIs
<1>4. r.report = Simulate(req, d)
  BY <1>1
<1> HIDE DEF req, d
<1>5. Len(d) <= Len(closes) /\ d # <<>> /\ \A j \in 1..Len(d) : closes[j] = d[j]
  BY <1>3
<1>6. Replayable(r)
  <2> DEFINE report == r.report
             now == Simulate(req, closes)
  <2>1. /\ IsPrefix(report.curve, now.curve)
        /\ report.bars = Len(d)
        /\ \A i \in DOMAIN report.trades :
             report.trades[i].at < Len(d) => i \in DOMAIN now.trades /\ now.trades[i] = report.trades[i]
    BY <1>2, <1>3, <1>4, <1>5, ReplaysTheSame
  <2> HIDE DEF report, now
  <2>2. \A i \in DOMAIN report.trades :
          report.trades[i].at < report.bars => i \in DOMAIN now.trades /\ now.trades[i] = report.trades[i]
    BY <2>1
  <2> QED BY <2>1, <2>2 DEF Replayable, req, report, now
<1>7. TradesExplainReturn(r)
  BY <1>3, <1>4, <1>5, TradesExplain DEF TradesExplainReturn, Earned
<1> QED BY <1>6, <1>7

\* A saved run knows no later bar and its trades explain its result, and walk_forward
\* keeps the bars of training and test apart, for every history and every strategy.
THEOREM BacktestsAreHonest == BacktestSpec => []BacktestIsHonest
<1>1. SavesInv /\ RunsAreMade => BacktestIsHonest
  <2> SUFFICES ASSUME SavesInv, RunsAreMade PROVE BacktestIsHonest
    OBVIOUS
  <2>1. closes \in Seq(Nat)
    <3>1. closes \in Seq(Closes) /\ Closes \subseteq Nat
      BY BacktestAssumption DEF SavesInv, SaveTypes
    <3>2. /\ closes = [i \in 1..Len(closes) |-> closes[i]] /\ Len(closes) \in Nat
          /\ \A i \in 1..Len(closes) : closes[i] \in Nat
      BY <3>1
    <3> QED BY <3>2
  <2>2. \A r \in runs : Replayable(r) /\ TradesExplainReturn(r)
    BY <2>1, MadeIsHonest DEF RunsAreMade
  <2>3. \A folds \in {Folds(req, closes) : req \in BacktestRequests} : HeldOut(folds)
    BY <2>1, FoldsHeldOut
  <2> QED BY <2>2, <2>3 DEF BacktestIsHonest
<1> QED BY <1>1, SavesInvHolds, RunsMadeHolds, PTL

\* What backtest_service.py answers can be believed, and what it keeps of it is bounded.
THEOREM BacktestsHold == BacktestSpec => []BacktestHolds
<1>1. BacktestIsHonest /\ HistoryIsCapped => BacktestHolds
  BY DEF BacktestHolds
<1> QED BY <1>1, BacktestsAreHonest, HistoryCapped, PTL

-----------------------------------------------------------------------------
(* CopyTrading.                                                            *)

CopyWork == SubscribeCall \union BroadcastCall \union CommitCall
Subscribing(c, s) == call[c] # Vacant /\ call[c].kind = "subscribe" /\ call[c].strategy = s
CommittingFor(c, t) == call[c] # Vacant /\ call[c].kind = "commit" /\ call[c].trader = t
Subscribers(s) == {sub.subscriber : sub \in Active(s)}

CallTypes ==
  /\ call \in [Calls -> CopyWork \union {Vacant}] /\ collided \subseteq Strategies \union Traders

MarketplaceTypes ==
  /\ listings \in [Strategies -> Listing \union {Vacant}] /\ signals \in 0..MaxSignals
  /\ subscriptions \subseteq Subscription /\ IsFiniteSet(subscriptions) /\ copies \subseteq CopyRecord

\* A row is found again by its id, and belongs to a listing.
IdsAreOwn ==
  /\ \A sub \in subscriptions : sub.id \in 1..Cardinality(subscriptions) /\ listings[sub.strategy] # Vacant
  /\ \A sub, other \in subscriptions : sub.id = other.id => sub = other

\* What a subscription has read is still so, unless another has come between.
CountsAreKnown ==
  /\ \A s \in Strategies : listings[s] # Vacant => listings[s].count <= Cardinality(subscriptions)
  /\ \A c \in Calls, s \in Strategies : Subscribing(c, s) =>
       /\ listings[s] # Vacant /\ call[c].count <= Cardinality(subscriptions)
       /\ s \notin collided =>
            /\ call[c].count = listings[s].count
            /\ call[c].existing = {} <=> \A sub \in Active(s) : sub.subscriber # call[c].trader

MarketplaceInv == MarketplaceTypes /\ IdsAreOwn /\ CountsAreKnown /\ SubscribersCounted

StagingTypes ==
  /\ intents \in Seq(Intent) /\ Len(intents) <= MaxIntents
  /\ bundles \in Seq(Bundle) /\ pushes \in Seq(1..MaxIntents)

\* What a commit has read is its trader's, and still staged unless another came between.
StagedAreRead ==
  \A c \in Calls, t \in Traders : CommittingFor(c, t) =>
    /\ call[c].rows # {} /\ \A i \in call[c].rows : i \in DOMAIN intents /\ intents[i].trader = t
    /\ t \notin collided => \A i \in call[c].rows : intents[i].status = "STAGED"

StagingInv == StagingTypes /\ StagedAreRead /\ IntentsBundledOnce

CopyInv == CallTypes /\ MarketplaceInv /\ StagingInv
-----------------------------------------------------------------------------
(* Calls.                                                                  *)

LEMMA CallMoves ==
  ASSUME CallTypes, NEW c \in Calls, NEW q \in CopyWork \union {Vacant}, call' = [call EXCEPT ![c] = q]
  PROVE  /\ call' \in [Calls -> CopyWork \union {Vacant}]
         /\ call'[c] = q /\ \A d \in Calls : d # c => call'[d] = call[d]
BY DEF CallTypes

LEMMA CallKinds ==
  ASSUME CallTypes, NEW c \in Calls, call[c] # Vacant
  PROVE  /\ call[c].kind = "subscribe" => call[c] \in SubscribeCall
         /\ call[c].kind = "broadcast" => call[c] \in BroadcastCall
         /\ call[c].kind = "commit" => call[c] \in CommitCall
BY DEF CallTypes, CopyWork, SubscribeCall, BroadcastCall, CommitCall

LEMMA CallsAreNotVacant == ASSUME NEW q \in CopyWork PROVE q # Vacant
BY VacantAssumption DEF CopyWork

\* A call that ends takes its own reading with it, and no other.
LEMMA CallEnds ==
  ASSUME CallTypes, NEW c \in Calls, call' = [call EXCEPT ![c] = Vacant]
  PROVE  /\ call' \in [Calls -> CopyWork \union {Vacant}] /\ call'[c] = Vacant
         /\ \A d \in Calls : \A s : Subscribing(d, s)' => d # c /\ Subscribing(d, s) /\ call'[d] = call[d]
         /\ \A d \in Calls : \A t : CommittingFor(d, t)' => d # c /\ CommittingFor(d, t) /\ call'[d] = call[d]
<1>1. /\ call' \in [Calls -> CopyWork \union {Vacant}]
      /\ call'[c] = Vacant /\ \A d \in Calls : d # c => call'[d] = call[d]
  BY CallMoves
<1> QED BY <1>1 DEF Subscribing, CommittingFor

\* Finish tells who overlapped.
LEMMA Overlapped ==
  ASSUME CallTypes, NEW c \in Calls, call[c] # Vacant, call[c].kind \in {"subscribe", "commit"}, Finish(c)
  PROVE  /\ call' = [call EXCEPT ![c] = Vacant] /\ collided \subseteq collided' /\ CallTypes'
         /\ collided' \subseteq collided \union {Topic(c)}
         /\ \A d \in Calls : d # c /\ call[d] # Vacant /\ call[d].kind = call[c].kind /\ Topic(d) = Topic(c)
              => Topic(c) \in collided'
<1>1. call' = [call EXCEPT ![c] = Vacant]
  BY DEF Finish
<1>2. collided' = IF \E d \in Calls \ {c} : call[d] # Vacant /\ call[d].kind = call[c].kind /\ Topic(d) = Topic(c)
                  THEN collided \union {Topic(c)} ELSE collided
  BY DEF Finish
<1>3. Topic(c) \in Strategies \union Traders
  BY CallKinds DEF Topic, SubscribeCall, CommitCall
<1>4. CallTypes'
  BY <1>1, <1>2, <1>3, CallEnds DEF CallTypes
<1> QED BY <1>1, <1>2, <1>4

LEMMA MarketStays ==
  ASSUME MarketplaceInv, MarketplaceTypes', UNCHANGED <<listings, subscriptions>>, collided \subseteq collided',
         \A d \in Calls : \A s : Subscribing(d, s)' => Subscribing(d, s) /\ call'[d] = call[d]
  PROVE  MarketplaceInv'
<1>1. IdsAreOwn'
  BY DEF MarketplaceInv, IdsAreOwn
<1>2. \A s \in Strategies : Active(s)' = Active(s)
  BY DEF Active
<1>3. SubscribersCounted'
  BY <1>2 DEF MarketplaceInv, SubscribersCounted
<1>4. CountsAreKnown'
  BY <1>2 DEF MarketplaceInv, CountsAreKnown
<1> QED BY <1>1, <1>3, <1>4 DEF MarketplaceInv

LEMMA StagingStays ==
  ASSUME StagingInv, UNCHANGED staging, collided \subseteq collided',
         \A d \in Calls : \A t : CommittingFor(d, t)' => CommittingFor(d, t) /\ call'[d] = call[d]
  PROVE  StagingInv'
<1>1. UNCHANGED <<intents, bundles, pushes>>
  BY DEF staging
<1>2. StagingTypes' /\ StagedAreRead'
  BY <1>1 DEF StagingInv, StagingTypes, StagedAreRead
<1>3. \A t \in Traders : Gone(t)' = Gone(t) /\ BundlesOf(t)' = BundlesOf(t)
  BY <1>1 DEF Gone, BundlesOf
<1>4. IntentsBundledOnce'
  BY <1>1, <1>3 DEF StagingInv, IntentsBundledOnce
<1> QED BY <1>2, <1>4 DEF StagingInv
-----------------------------------------------------------------------------
(* The marketplace.                                                        *)

LEMMA CreateStrategyKeeps ==
  ASSUME CopyInv, NEW s \in Strategies, NEW publisher \in Traders, CreateStrategy(s, publisher)
  PROVE  CopyInv'
<1> DEFINE row == [publisher |-> publisher, count |-> 0]
<1>1. /\ listings[s] = Vacant /\ listings' = [listings EXCEPT ![s] = row]
      /\ UNCHANGED <<subscriptions, copies, signals, staging, call, collided>>
  BY DEF CreateStrategy
<1>2. row \in Listing /\ row.count = 0
  BY DEF Listing
<1> HIDE DEF row
<1>3. row # Vacant
  BY <1>2, VacantAssumption
<1>4. /\ listings' \in [Strategies -> Listing \union {Vacant}]
      /\ listings'[s] = row /\ \A t \in Strategies : t # s => listings'[t] = listings[t]
  BY <1>1, <1>2 DEF CopyInv, MarketplaceInv, MarketplaceTypes
<1>5. MarketplaceTypes'
  BY <1>1, <1>4 DEF CopyInv, MarketplaceInv, MarketplaceTypes
<1>6. CallTypes' /\ StagingInv'
  BY <1>1, StagingStays DEF CopyInv, CallTypes, CommittingFor
<1>7. IdsAreOwn'
  <2>1. \A sub \in subscriptions : sub.strategy \in Strategies
    BY DEF CopyInv, MarketplaceInv, MarketplaceTypes, Subscription
  <2> QED BY <1>1, <1>3, <1>4, <2>1 DEF CopyInv, MarketplaceInv, IdsAreOwn
<1>8. \A t \in Strategies : Active(t)' = Active(t)
  BY <1>1 DEF Active
<1>9. Active(s) = {}
  BY <1>1 DEF CopyInv, MarketplaceInv, IdsAreOwn, Active
<1>10. Cardinality(subscriptions) \in Nat
  BY FS_CardinalityType DEF CopyInv, MarketplaceInv, MarketplaceTypes
<1>11. CountsAreKnown'
  <2>1. \A c \in Calls, t \in Strategies : Subscribing(c, t)' => Subscribing(c, t) /\ t # s
    BY <1>1 DEF CopyInv, MarketplaceInv, CountsAreKnown, Subscribing
  <2>2. \A t \in Strategies : listings'[t] # Vacant => listings'[t].count <= Cardinality(subscriptions)
    BY <1>1, <1>2, <1>4, <1>10 DEF CopyInv, MarketplaceInv, CountsAreKnown
  <2> QED BY <1>1, <1>4, <1>8, <2>1, <2>2 DEF CopyInv, MarketplaceInv, CountsAreKnown
<1>12. SubscribersCounted'
  <2>1. Cardinality({sub.subscriber : sub \in Active(s)}) = 0
    BY <1>9, FS_EmptySet
  <2> SUFFICES ASSUME NEW t \in Strategies, t \notin collided, listings'[t] # Vacant
               PROVE  /\ listings'[t].count = Cardinality({sub.subscriber : sub \in Active(t)})
                      /\ \A sub, other \in Active(t) : sub.subscriber = other.subscriber => sub = other
    BY <1>1, <1>8 DEF SubscribersCounted
  <2>2. CASE t = s
    BY <1>2, <1>4, <1>9, <2>1, <2>2
  <2>3. CASE t # s
    BY <1>4, <2>3 DEF CopyInv, MarketplaceInv, SubscribersCounted
  <2> QED BY <2>2, <2>3
<1> QED BY <1>5, <1>6, <1>7, <1>11, <1>12 DEF CopyInv, MarketplaceInv

\* A call that begins, and what it is not.
LEMMA CallBegins ==
  ASSUME CallTypes, NEW c \in Calls, NEW q \in CopyWork, Start(c, q)
  PROVE  /\ call[c] = Vacant /\ call' \in [Calls -> CopyWork \union {Vacant}] /\ call'[c] = q /\ q # Vacant
         /\ \A d \in Calls : d # c => call'[d] = call[d]
<1>1. call[c] = Vacant /\ call' = [call EXCEPT ![c] = q]
  BY DEF Start
<1> QED BY <1>1, CallMoves, CallsAreNotVacant

LEMMA SubscribeBeginKeeps ==
  ASSUME CopyInv, NEW c \in Calls, NEW trader \in Traders, NEW s \in Strategies, NEW mode \in Modes,
         SubscribeBegin(c, trader, s, mode)
  PROVE  CopyInv'
<1> DEFINE q == [kind |-> "subscribe", trader |-> trader, strategy |-> s, mode |-> mode,
                 existing |-> {sub \in Active(s) : sub.subscriber = trader}, count |-> listings[s].count]
<1>1. listings[s] # Vacant /\ Start(c, q) /\ UNCHANGED <<market, staging, collided>>
  BY DEF SubscribeBegin
<1>2. /\ UNCHANGED <<listings, subscriptions, copies, signals>> /\ listings[s] \in Listing /\ Active(s) \subseteq Subscription
  BY <1>1 DEF market, CopyInv, MarketplaceInv, MarketplaceTypes, Active
<1>3. /\ q \in SubscribeCall /\ q.kind = "subscribe" /\ q.strategy = s /\ q.trader = trader /\ q.count = listings[s].count
      /\ q.existing = {sub \in Active(s) : sub.subscriber = trader}
  BY <1>2 DEF SubscribeCall, Listing
<1> HIDE DEF q
<1>4. /\ call[c] = Vacant /\ call' \in [Calls -> CopyWork \union {Vacant}] /\ call'[c] = q /\ q # Vacant
      /\ \A d \in Calls : d # c => call'[d] = call[d]
  BY <1>1, <1>3, CallBegins DEF CopyInv, CopyWork
<1>5. CallTypes'
  BY <1>1, <1>4 DEF CopyInv, CallTypes
<1>6. StagingInv'
  <2>1. \A d \in Calls : \A t : CommittingFor(d, t)' => CommittingFor(d, t) /\ call'[d] = call[d]
    BY <1>3, <1>4 DEF CommittingFor
  <2> QED BY <1>1, <2>1, StagingStays DEF CopyInv
<1>7. \A t \in Strategies : Active(t)' = Active(t)
  BY <1>2 DEF Active
<1>8. MarketplaceTypes' /\ IdsAreOwn' /\ SubscribersCounted'
  <2>1. MarketplaceTypes'
    BY <1>2 DEF CopyInv, MarketplaceInv, MarketplaceTypes
  <2>2. IdsAreOwn'
    BY <1>2 DEF CopyInv, MarketplaceInv, IdsAreOwn
  <2>3. SubscribersCounted'
    BY <1>1, <1>2, <1>7 DEF CopyInv, MarketplaceInv, SubscribersCounted
  <2> QED BY <2>1, <2>2, <2>3
<1>9. CountsAreKnown'
  <2>1. ASSUME NEW d \in Calls, NEW t \in Strategies, Subscribing(d, t)'
        PROVE  /\ listings[t] # Vacant /\ call'[d].count <= Cardinality(subscriptions)
               /\ t \notin collided =>
                    /\ call'[d].count = listings[t].count
                    /\ call'[d].existing = {} <=> \A sub \in Active(t) : sub.subscriber # call'[d].trader
    <3>1. CASE d = c
      <4>1. t = s
        BY <1>3, <1>4, <2>1, <3>1 DEF Subscribing
      <4> QED BY <1>1, <1>3, <1>4, <3>1, <4>1 DEF CopyInv, MarketplaceInv, CountsAreKnown
    <3>2. CASE d # c
      <4>1. Subscribing(d, t) /\ call'[d] = call[d]
        BY <1>4, <2>1, <3>2 DEF Subscribing
      <4> QED BY <4>1 DEF CopyInv, MarketplaceInv, CountsAreKnown
    <3> QED BY <3>1, <3>2
  <2> QED BY <1>1, <1>2, <1>7, <2>1 DEF CopyInv, MarketplaceInv, CountsAreKnown
<1> QED BY <1>5, <1>6, <1>8, <1>9 DEF CopyInv, MarketplaceInv

LEMMA BroadcastBeginKeeps ==
  ASSUME CopyInv, NEW c \in Calls, NEW trader \in Traders, NEW s \in Strategies, BroadcastBegin(c, trader, s)
  PROVE  CopyInv'
<1> DEFINE q == [kind |-> "broadcast", trader |-> trader, strategy |-> s, number |-> signals + 1, rows |-> Active(s)]
<1>1. /\ signals < MaxSignals /\ signals' = signals + 1 /\ Start(c, q)
      /\ UNCHANGED <<listings, subscriptions, copies, staging, collided>>
  BY DEF BroadcastBegin
<1>2. signals + 1 \in 1..MaxSignals /\ Active(s) \subseteq Subscription
  BY <1>1, CopyAssumption DEF CopyInv, MarketplaceInv, MarketplaceTypes, Active
<1>3. q \in BroadcastCall /\ q.kind = "broadcast"
  BY <1>2 DEF BroadcastCall
<1> HIDE DEF q
<1>4. /\ call[c] = Vacant /\ call' \in [Calls -> CopyWork \union {Vacant}] /\ call'[c] = q
      /\ \A d \in Calls : d # c => call'[d] = call[d]
  BY <1>1, <1>3, CallBegins DEF CopyInv, CopyWork
<1>5. /\ \A d \in Calls : \A t : CommittingFor(d, t)' => CommittingFor(d, t) /\ call'[d] = call[d]
      /\ \A d \in Calls : \A t : Subscribing(d, t)' => Subscribing(d, t) /\ call'[d] = call[d]
  BY <1>3, <1>4 DEF CommittingFor, Subscribing
<1>6. MarketplaceTypes'
  BY <1>1, <1>2, CopyAssumption DEF CopyInv, MarketplaceInv, MarketplaceTypes
<1>7. CallTypes'
  BY <1>1, <1>4 DEF CopyInv, CallTypes
<1>8. MarketplaceInv'
  BY <1>1, <1>5, <1>6, MarketStays DEF CopyInv
<1>9. StagingInv'
  BY <1>1, <1>5, StagingStays DEF CopyInv
<1> QED BY <1>7, <1>8, <1>9 DEF CopyInv

LEMMA BroadcastCommitKeeps ==
  ASSUME CopyInv, NEW c \in Calls, BroadcastCommit(c)
  PROVE  CopyInv'
<1> DEFINE record(sub) == [signal |-> call[c].number, subscription |-> sub.id, subscriber |-> sub.subscriber,
                           status |-> IF sub.mode = "paper" THEN "EXECUTED" ELSE "GATED_LIVE_PENDING"]
<1>1. /\ call[c] # Vacant /\ call[c].kind = "broadcast" /\ copies' = copies \union {record(sub) : sub \in call[c].rows}
      /\ call' = [call EXCEPT ![c] = Vacant] /\ UNCHANGED <<listings, subscriptions, signals, staging, collided>>
  BY DEF BroadcastCommit
<1>2. call[c] \in BroadcastCall
  BY <1>1, CallKinds DEF CopyInv
<1>3. \A sub \in call[c].rows : record(sub) \in CopyRecord
  BY <1>2 DEF BroadcastCall, Subscription, CopyRecord
<1> HIDE DEF record
<1>4. MarketplaceTypes'
  BY <1>1, <1>3 DEF CopyInv, MarketplaceInv, MarketplaceTypes
<1>5. /\ call' \in [Calls -> CopyWork \union {Vacant}]
      /\ \A d \in Calls : \A s : Subscribing(d, s)' => Subscribing(d, s) /\ call'[d] = call[d]
      /\ \A d \in Calls : \A t : CommittingFor(d, t)' => CommittingFor(d, t) /\ call'[d] = call[d]
  BY <1>1, CallEnds DEF CopyInv
<1>6. CallTypes'
  BY <1>1, <1>5 DEF CopyInv, CallTypes
<1>7. MarketplaceInv'
  BY <1>1, <1>4, <1>5, MarketStays DEF CopyInv
<1>8. StagingInv'
  BY <1>1, <1>5, StagingStays DEF CopyInv
<1> QED BY <1>6, <1>7, <1>8 DEF CopyInv

LEMMA AbortKeeps ==
  ASSUME CopyInv, NEW c \in Calls, Abort(c)
  PROVE  CopyInv'
<1>1. /\ call' = [call EXCEPT ![c] = Vacant] /\ UNCHANGED <<listings, subscriptions, copies, signals, staging, collided>>
  BY DEF Abort, market
<1>2. /\ call' \in [Calls -> CopyWork \union {Vacant}]
      /\ \A d \in Calls : \A s : Subscribing(d, s)' => Subscribing(d, s) /\ call'[d] = call[d]
      /\ \A d \in Calls : \A t : CommittingFor(d, t)' => CommittingFor(d, t) /\ call'[d] = call[d]
  BY <1>1, CallEnds DEF CopyInv
<1>3. MarketplaceTypes' /\ CallTypes'
  BY <1>1, <1>2 DEF CopyInv, MarketplaceInv, MarketplaceTypes, CallTypes
<1>4. MarketplaceInv'
  BY <1>1, <1>2, <1>3, MarketStays DEF CopyInv
<1>5. StagingInv'
  BY <1>1, <1>2, StagingStays DEF CopyInv
<1> QED BY <1>3, <1>4, <1>5 DEF CopyInv

\* Rows may be rewritten, as long as each keeps its id, its subscriber and its strategy.
LEMMA RowsRewritten ==
  ASSUME MarketplaceTypes, IdsAreOwn, NEW f, DOMAIN f = subscriptions, f = [sub \in subscriptions |-> f[sub]],
         subscriptions' = {f[sub] : sub \in subscriptions},
         \A sub \in subscriptions : /\ f[sub] \in Subscription /\ f[sub].id = sub.id
                                   /\ f[sub].subscriber = sub.subscriber /\ f[sub].strategy = sub.strategy
  PROVE  /\ subscriptions' \subseteq Subscription /\ IsFiniteSet(subscriptions')
         /\ Cardinality(subscriptions') = Cardinality(subscriptions)
         /\ \A sub, other \in subscriptions' : sub.id = other.id => sub = other
         /\ \A s \in Strategies :
              /\ \A row \in Active(s)' : \E sub \in Active(s) : row = f[sub]
              /\ \A sub \in Active(s) : f[sub] \in Active(s)'
<1>1. \A x, y \in subscriptions : f[x] = f[y] => x = y
  BY DEF IdsAreOwn
<1>2. IsFiniteSet(subscriptions') /\ Cardinality(subscriptions') = Cardinality(subscriptions)
  BY <1>1, ImageIsAsLarge DEF MarketplaceTypes
<1>3. \A sub, other \in subscriptions' : sub.id = other.id => sub = other
  BY DEF IdsAreOwn
<1>4. ASSUME NEW s \in Strategies
      PROVE  /\ \A row \in Active(s)' : \E sub \in Active(s) : row = f[sub]
             /\ \A sub \in Active(s) : f[sub] \in Active(s)'
  BY DEF Active
<1> QED BY <1>2, <1>3, <1>4

\* A renewal: the count of the listing stays, and so do the subscribers.
LEMMA RenewalKeeps ==
  ASSUME CallTypes, MarketplaceInv, NEW c \in Calls, call[c] # Vacant, call[c].kind = "subscribe", SubscribeCommit(c),
         call[c].existing # {}
  PROVE  MarketplaceInv'
<1> DEFINE q == call[c]
           row == CHOOSE sub \in q.existing : TRUE
           f == [sub \in subscriptions |-> IF sub.id = row.id THEN [sub EXCEPT !.mode = q.mode] ELSE sub]
<1>1. /\ q \in SubscribeCall /\ UNCHANGED <<listings, copies, signals>>
      /\ subscriptions' = {IF sub.id = row.id THEN [sub EXCEPT !.mode = q.mode] ELSE sub : sub \in subscriptions}
      /\ Finish(c)
  <2>1. Subscribed(q) = q.count
    BY DEF Subscribed
  <2> QED BY <2>1, CallKinds DEF SubscribeCommit
<1>2. subscriptions' = {f[sub] : sub \in subscriptions} /\ DOMAIN f = subscriptions /\ f = [sub \in subscriptions |-> f[sub]]
  BY <1>1
<1>3. \A sub \in subscriptions : /\ f[sub] \in Subscription /\ f[sub].id = sub.id
                                /\ f[sub].subscriber = sub.subscriber /\ f[sub].strategy = sub.strategy
  BY <1>1 DEF MarketplaceInv, MarketplaceTypes, Subscription, SubscribeCall
<1> HIDE DEF f, row
<1>4. /\ subscriptions' \subseteq Subscription /\ IsFiniteSet(subscriptions')
      /\ Cardinality(subscriptions') = Cardinality(subscriptions)
      /\ \A sub, other \in subscriptions' : sub.id = other.id => sub = other
      /\ \A s \in Strategies :
           /\ \A new \in Active(s)' : \E sub \in Active(s) : new = f[sub]
           /\ \A sub \in Active(s) : f[sub] \in Active(s)'
  BY <1>2, <1>3, RowsRewritten DEF MarketplaceInv
<1>5. /\ call' = [call EXCEPT ![c] = Vacant] /\ collided \subseteq collided'
      /\ \A d \in Calls : \A s : Subscribing(d, s)' => Subscribing(d, s) /\ call'[d] = call[d]
  BY <1>1, Overlapped, CallEnds
<1>6. \A s \in Strategies : Active(s) \subseteq subscriptions
  BY DEF Active
<1>7. MarketplaceTypes'
  BY <1>1, <1>4 DEF MarketplaceInv, MarketplaceTypes
<1>8. IdsAreOwn'
  <2>1. \A new \in subscriptions' : new.id \in 1..Cardinality(subscriptions') /\ listings'[new.strategy] # Vacant
    BY <1>1, <1>2, <1>3, <1>4 DEF MarketplaceInv, IdsAreOwn
  <2> QED BY <1>4, <2>1 DEF IdsAreOwn
<1>9. SubscribersCounted'
  <2> SUFFICES ASSUME NEW s \in Strategies, s \notin collided, listings[s] # Vacant
               PROVE  /\ listings[s].count = Cardinality({sub.subscriber : sub \in Active(s)'})
                      /\ \A sub, other \in Active(s)' : sub.subscriber = other.subscriber => sub = other
    BY <1>1, <1>5 DEF SubscribersCounted
  <2>1. {sub.subscriber : sub \in Active(s)'} = {sub.subscriber : sub \in Active(s)}
    BY <1>3, <1>4, <1>6
  <2>2. \A sub, other \in Active(s) : sub.subscriber = other.subscriber => sub = other
    BY DEF MarketplaceInv, SubscribersCounted
  <2>3. ASSUME NEW sub \in Active(s)', NEW other \in Active(s)', sub.subscriber = other.subscriber PROVE sub = other
    <3>1. PICK a \in Active(s) : sub = f[a]
      BY <1>4
    <3>2. PICK b \in Active(s) : other = f[b]
      BY <1>4
    <3>3. a.subscriber = b.subscriber
      BY <1>3, <1>6, <2>3, <3>1, <3>2
    <3> QED BY <2>2, <3>1, <3>2, <3>3
  <2> QED BY <2>1, <2>3 DEF MarketplaceInv, SubscribersCounted
<1>10. CountsAreKnown'
  <2>1. \A s \in Strategies : \A p : (\A sub \in Active(s)' : sub.subscriber # p) <=> (\A sub \in Active(s) : sub.subscriber # p)
    BY <1>3, <1>4, <1>6
  <2>2. \A s \in Strategies : listings'[s] # Vacant => listings'[s].count <= Cardinality(subscriptions')
    BY <1>1, <1>4 DEF MarketplaceInv, CountsAreKnown
  <2>3. ASSUME NEW d \in Calls, NEW s \in Strategies, Subscribing(d, s)'
        PROVE  /\ listings'[s] # Vacant /\ call'[d].count <= Cardinality(subscriptions')
               /\ s \notin collided' =>
                    /\ call'[d].count = listings'[s].count
                    /\ call'[d].existing = {} <=> \A sub \in Active(s)' : sub.subscriber # call'[d].trader
    <3>1. Subscribing(d, s) /\ call'[d] = call[d]
      BY <1>5, <2>3
    <3>2. /\ listings[s] # Vacant /\ call[d].count <= Cardinality(subscriptions)
          /\ s \notin collided =>
               /\ call[d].count = listings[s].count
               /\ call[d].existing = {} <=> \A sub \in Active(s) : sub.subscriber # call[d].trader
      BY <3>1 DEF MarketplaceInv, CountsAreKnown
    <3>3. (\A sub \in Active(s)' : sub.subscriber # call[d].trader) <=> \A sub \in Active(s) : sub.subscriber # call[d].trader
      BY <2>1
    <3>4. s \notin collided' => s \notin collided
      BY <1>5
    <3> QED BY <1>1, <1>4, <3>1, <3>2, <3>3, <3>4
  <2> QED BY <2>2, <2>3 DEF CountsAreKnown
<1> QED BY <1>7, <1>8, <1>9, <1>10 DEF MarketplaceInv

\* A new subscription, and one more in the listing.
LEMMA FirstSubscriptionKeeps ==
  ASSUME CallTypes, MarketplaceInv, NEW c \in Calls, call[c] # Vacant, call[c].kind = "subscribe", SubscribeCommit(c),
         call[c].existing = {}
  PROVE  MarketplaceInv'
<1> DEFINE q == call[c]
           s == q.strategy
           n == Cardinality(subscriptions)
           new == [id |-> n + 1, subscriber |-> q.trader, strategy |-> s, mode |-> q.mode]
<1>1. q \in SubscribeCall /\ s \in Strategies /\ q.count \in Nat /\ Subscribing(c, s)
  BY CallKinds DEF SubscribeCall, Subscribing
<1>2. n \in Nat
  BY FS_CardinalityType DEF MarketplaceInv, MarketplaceTypes
<1>3. /\ subscriptions' = subscriptions \union {new} /\ UNCHANGED <<copies, signals>> /\ Finish(c)
      /\ listings' = [listings EXCEPT ![s].count = q.count + 1]
  <2>1. Subscribed(q) = q.count + 1 /\ Subscribed(q) # q.count
    BY <1>1 DEF Subscribed
  <2> QED BY <2>1 DEF SubscribeCommit
<1>4. new \in Subscription /\ new.id = n + 1 /\ new.subscriber = q.trader /\ new.strategy = s
  BY <1>1, <1>2 DEF SubscribeCall, Subscription
<1> HIDE DEF new
<1>5. /\ listings[s] # Vacant /\ listings[s] \in Listing /\ q.count <= n
      /\ s \notin collided => /\ q.count = listings[s].count
                             /\ \A sub \in Active(s) : sub.subscriber # q.trader
  BY <1>1 DEF MarketplaceInv, MarketplaceTypes, CountsAreKnown
<1>6. /\ listings'[s].count = q.count + 1 /\ listings'[s] \in Listing
      /\ listings' \in [Strategies -> Listing \union {Vacant}]
      /\ \A t \in Strategies : t # s => listings'[t] = listings[t]
  BY <1>1, <1>3, <1>5 DEF MarketplaceInv, MarketplaceTypes, Listing
<1>7. \A t \in Strategies : listings'[t] # Vacant <=> listings[t] # Vacant
  BY <1>5, <1>6, VacantAssumption
<1>8. IsFiniteSet(subscriptions') /\ Cardinality(subscriptions') = n + 1 /\ new \notin subscriptions
  <2>1. new \notin subscriptions
    BY <1>2, <1>4 DEF MarketplaceInv, IdsAreOwn
  <2>2. IsFiniteSet(subscriptions \union {new}) /\ Cardinality(subscriptions \union {new}) = n + 1
    BY <2>1, FS_AddElement DEF MarketplaceInv, MarketplaceTypes
  <2> QED BY <1>3, <2>1, <2>2
<1>9. /\ call' = [call EXCEPT ![c] = Vacant] /\ collided \subseteq collided'
      /\ \A d \in Calls : \A t : Subscribing(d, t)' => d # c /\ Subscribing(d, t) /\ call'[d] = call[d]
  BY <1>3, Overlapped, CallEnds
<1>10. ASSUME NEW d \in Calls, NEW t, t = s, Subscribing(d, t)' PROVE t \in collided'
  <2>1. d # c /\ call[d] # Vacant /\ call[d].kind = call[c].kind /\ Topic(d) = t
    BY <1>9, <1>10 DEF Subscribing, Topic
  <2>2. Topic(c) = t
    BY <1>10 DEF Topic
  <2>3. \A e \in Calls : e # c /\ call[e] # Vacant /\ call[e].kind = call[c].kind /\ Topic(e) = Topic(c)
              => Topic(c) \in collided'
    BY <1>3, Overlapped
  <2> QED BY <2>1, <2>2, <2>3
<1>11. \A t \in Strategies : Active(t)' = IF t = s THEN Active(s) \union {new} ELSE Active(t)
  BY <1>3, <1>4 DEF Active
<1>12. MarketplaceTypes'
  BY <1>3, <1>4, <1>6, <1>8 DEF MarketplaceInv, MarketplaceTypes
<1>13. IdsAreOwn'
  <2>1. \A sub \in subscriptions : /\ sub.id \in 1..n /\ sub.strategy \in Strategies /\ listings[sub.strategy] # Vacant
    BY DEF MarketplaceInv, MarketplaceTypes, IdsAreOwn, Subscription
  <2>2. \A sub \in subscriptions' : sub.id \in 1..(n + 1) /\ listings'[sub.strategy] # Vacant
    BY <1>1, <1>2, <1>3, <1>4, <1>5, <1>7, <2>1
  <2>3. \A sub, other \in subscriptions' : sub.id = other.id => sub = other
    BY <1>2, <1>3, <1>4, <2>1 DEF MarketplaceInv, IdsAreOwn
  <2> QED BY <1>8, <2>2, <2>3 DEF IdsAreOwn
<1>14. SubscribersCounted'
  <2> SUFFICES ASSUME NEW t \in Strategies, t \notin collided, listings'[t] # Vacant
               PROVE  /\ listings'[t].count = Cardinality({sub.subscriber : sub \in Active(t)'})
                      /\ \A sub, other \in Active(t)' : sub.subscriber = other.subscriber => sub = other
    BY <1>9 DEF SubscribersCounted
  <2>1. CASE t # s
    BY <1>6, <1>11, <2>1 DEF MarketplaceInv, SubscribersCounted
  <2>2. CASE t = s
    <3> DEFINE old == {sub.subscriber : sub \in Active(s)}
    <3>1. Active(t)' = Active(s) \union {new}
      BY <1>11, <2>2
    <3>2. {sub.subscriber : sub \in Active(t)'} = old \union {q.trader}
      BY <1>4, <3>1
    <3>3. q.trader \notin old
      BY <1>5, <2>2
    <3>4. IsFiniteSet(old)
      <4> DEFINE g == [sub \in Active(s) |-> sub.subscriber]
      <4>1. IsFiniteSet(Active(s))
        <5>1. Active(s) \subseteq subscriptions
          BY DEF Active
        <5> QED BY <5>1, FS_Subset DEF MarketplaceInv, MarketplaceTypes
      <4>2. old = {g[sub] : sub \in Active(s)} /\ DOMAIN g = Active(s) /\ g = [sub \in Active(s) |-> g[sub]]
        OBVIOUS
      <4> HIDE DEF g, old
      <4>3. IsFiniteSet({g[sub] : sub \in Active(s)})
        BY <4>1, <4>2, ImageIsFinite
      <4> QED BY <4>2, <4>3
    <3>5. /\ listings[s].count = Cardinality(old)
          /\ \A sub, other \in Active(s) : sub.subscriber = other.subscriber => sub = other
      BY <1>1, <1>5, <2>2 DEF MarketplaceInv, SubscribersCounted
    <3> HIDE DEF old
    <3>6. Cardinality(old \union {q.trader}) = Cardinality(old) + 1
      BY <3>3, <3>4, FS_AddElement
    <3>7. listings'[t].count = Cardinality({sub.subscriber : sub \in Active(t)'})
      BY <1>5, <1>6, <2>2, <3>2, <3>5, <3>6
    <3>8. \A sub, other \in Active(t)' : sub.subscriber = other.subscriber => sub = other
      BY <1>4, <1>5, <2>2, <3>1, <3>5
    <3> QED BY <3>7, <3>8
  <2> QED BY <2>1, <2>2
<1>15. CountsAreKnown'
  <2>1. \A t \in Strategies : listings'[t] # Vacant => listings'[t].count <= Cardinality(subscriptions')
    <3> SUFFICES ASSUME NEW t \in Strategies, listings'[t] # Vacant PROVE listings'[t].count <= n + 1
      BY <1>8
    <3>1. CASE t = s
      BY <1>1, <1>2, <1>5, <1>6, <3>1
    <3>2. CASE t # s
      <4>1. listings[t] \in Listing /\ listings[t].count <= n /\ listings'[t] = listings[t]
        BY <1>6, <3>2 DEF MarketplaceInv, MarketplaceTypes, CountsAreKnown
      <4>2. listings[t].count \in Nat
        BY <4>1 DEF Listing
      <4> QED BY <1>2, <4>1, <4>2
    <3> QED BY <3>1, <3>2
  <2>2. ASSUME NEW d \in Calls, NEW t \in Strategies, Subscribing(d, t)'
        PROVE  /\ listings'[t] # Vacant /\ call'[d].count <= Cardinality(subscriptions')
               /\ t \notin collided' =>
                    /\ call'[d].count = listings'[t].count
                    /\ call'[d].existing = {} <=> \A sub \in Active(t)' : sub.subscriber # call'[d].trader
    <3>1. Subscribing(d, t) /\ call'[d] = call[d]
      BY <1>9, <2>2
    <3>2. call[d].count \in Nat /\ call[d].count <= n /\ listings[t] # Vacant
      BY <3>1, CallKinds DEF MarketplaceInv, CountsAreKnown, Subscribing, SubscribeCall
    <3>3. CASE t = s
      BY <1>2, <1>7, <1>8, <1>10, <2>2, <3>1, <3>2, <3>3
    <3>4. CASE t # s
      <4>1. Active(t)' = Active(t) /\ listings'[t] = listings[t]
        BY <1>6, <1>11, <3>4
      <4> QED BY <1>2, <1>8, <1>9, <3>1, <3>2, <4>1 DEF MarketplaceInv, CountsAreKnown
    <3> QED BY <3>3, <3>4
  <2> QED BY <2>1, <2>2 DEF CountsAreKnown
<1> QED BY <1>12, <1>13, <1>14, <1>15 DEF MarketplaceInv

LEMMA SubscribeCommitKeeps ==
  ASSUME CopyInv, NEW c \in Calls, SubscribeCommit(c)
  PROVE  CopyInv'
<1>1. call[c] # Vacant /\ call[c].kind = "subscribe" /\ Finish(c) /\ UNCHANGED staging
  BY DEF SubscribeCommit
<1>2. MarketplaceInv'
  BY <1>1, RenewalKeeps, FirstSubscriptionKeeps DEF CopyInv
<1>3. /\ CallTypes' /\ collided \subseteq collided'
      /\ \A d \in Calls : \A t : CommittingFor(d, t)' => CommittingFor(d, t) /\ call'[d] = call[d]
  BY <1>1, Overlapped, CallEnds DEF CopyInv
<1>4. StagingInv'
  BY <1>1, <1>3, StagingStays DEF CopyInv
<1> QED BY <1>2, <1>3, <1>4 DEF CopyInv
-----------------------------------------------------------------------------
(* The staging area.                                                       *)

\* An intent that left the staging area is in a bundle of its trader, and the other way.
BundledFor(t, i) == \E b \in BundlesOf(t) : i \in bundles[b].rows

LEMMA GoneIsBundled ==
  ASSUME IntentsBundledOnce, NEW t \in Traders, NEW i
  PROVE  i \in Gone(t) <=> BundledFor(t, i)
BY DEF IntentsBundledOnce, BundledFor

\* IntentsBundledOnce, intent by intent.
LEMMA BundledOnceFrom ==
  ASSUME \A t \in Traders :
           /\ \A i : i \in Gone(t) <=> BundledFor(t, i)
           /\ \A b \in BundlesOf(t) : bundles[b].orders_count = Cardinality(bundles[b].rows)
           /\ t \notin collided =>
                \A b, other \in BundlesOf(t) : \A i : i \in bundles[b].rows /\ i \in bundles[other].rows => b = other
  PROVE  IntentsBundledOnce
BY DEF IntentsBundledOnce, BundledFor

LEMMA CommitBeginKeeps ==
  ASSUME CopyInv, NEW c \in Calls, NEW trader \in Traders, CommitBegin(c, trader)
  PROVE  CopyInv'
<1> DEFINE q == [kind |-> "commit", trader |-> trader, rows |-> Staged(trader)]
<1>1. Staged(trader) # {} /\ Start(c, q) /\ UNCHANGED <<market, staging, collided>>
  BY DEF CommitBegin
<1>2. \A i \in Staged(trader) : i \in DOMAIN intents /\ intents[i].trader = trader /\ intents[i].status = "STAGED"
  BY DEF Staged
<1>3. Staged(trader) \subseteq 1..MaxIntents
  <2>1. DOMAIN intents = 1..Len(intents) /\ Len(intents) \in Nat /\ Len(intents) <= MaxIntents
    BY DEF CopyInv, StagingInv, StagingTypes
  <2> QED BY <1>2, <2>1, CopyAssumption
<1>4. q \in CommitCall /\ q.kind = "commit" /\ q.trader = trader /\ q.rows = Staged(trader)
  BY <1>3 DEF CommitCall
<1> HIDE DEF q
<1>5. /\ call[c] = Vacant /\ call' \in [Calls -> CopyWork \union {Vacant}] /\ call'[c] = q
      /\ \A d \in Calls : d # c => call'[d] = call[d]
  BY <1>1, <1>4, CallBegins DEF CopyInv, CopyWork
<1>6. CallTypes'
  BY <1>1, <1>5 DEF CopyInv, CallTypes
<1>7. UNCHANGED <<intents, bundles, pushes, listings, subscriptions, copies, signals, collided>>
  BY <1>1 DEF staging, market
<1>8. MarketplaceInv'
  <2>1. \A d \in Calls : \A s : Subscribing(d, s)' => Subscribing(d, s) /\ call'[d] = call[d]
    BY <1>4, <1>5 DEF Subscribing
  <2>2. MarketplaceTypes'
    BY <1>7 DEF CopyInv, MarketplaceInv, MarketplaceTypes
  <2> QED BY <1>7, <2>1, <2>2, MarketStays DEF CopyInv
<1>9. StagedAreRead'
  <2> SUFFICES ASSUME NEW d \in Calls, NEW t \in Traders, CommittingFor(d, t)'
               PROVE  /\ call'[d].rows # {} /\ \A i \in call'[d].rows : i \in DOMAIN intents /\ intents[i].trader = t
                      /\ t \notin collided => \A i \in call'[d].rows : intents[i].status = "STAGED"
    BY <1>7 DEF StagedAreRead
  <2>1. CASE d = c
    <3>1. call'[d] = q /\ t = trader
      BY <1>4, <1>5, <2>1 DEF CommittingFor
    <3> QED BY <1>1, <1>2, <1>4, <3>1
  <2>2. CASE d # c
    <3>1. CommittingFor(d, t) /\ call'[d] = call[d]
      BY <1>5, <2>2 DEF CommittingFor
    <3> QED BY <3>1 DEF CopyInv, StagingInv, StagedAreRead
  <2> QED BY <2>1, <2>2
<1>10. StagingTypes'
  BY <1>7 DEF CopyInv, StagingInv, StagingTypes
<1>11. \A t \in Traders : Gone(t)' = Gone(t) /\ BundlesOf(t)' = BundlesOf(t)
  BY <1>7 DEF Gone, BundlesOf
<1>12. IntentsBundledOnce'
  BY <1>7, <1>11 DEF CopyInv, StagingInv, IntentsBundledOnce
<1> QED BY <1>6, <1>8, <1>9, <1>10, <1>12 DEF CopyInv, StagingInv

LEMMA StageKeeps ==
  ASSUME CopyInv, NEW trader \in Traders, NEW symbol \in Instruments, NEW action \in {"BUY", "SELL"}, NEW lot \in Lots,
         Stage(trader, symbol, action, lot)
  PROVE  CopyInv'
<1> DEFINE new == [trader |-> trader, symbol |-> symbol, action |-> action, quantity |-> lot, status |-> "STAGED"]
           n == Len(intents)
<1>1. /\ n < MaxIntents /\ intents' = Append(intents, new)
      /\ UNCHANGED <<listings, subscriptions, copies, signals, bundles, pushes, call, collided>>
  BY DEF Stage, market
<1>2. new \in Intent /\ new.status = "STAGED"
  BY DEF Intent
<1> HIDE DEF new
<1>3. /\ intents' \in Seq(Intent) /\ Len(intents') = n + 1 /\ n \in Nat
      /\ DOMAIN intents = 1..n /\ DOMAIN intents' = 1..(n + 1)
      /\ intents'[n + 1] = new /\ \A i \in 1..n : intents'[i] = intents[i]
  BY <1>1, <1>2 DEF CopyInv, StagingInv, StagingTypes
<1> HIDE DEF n
<1>4. StagingTypes'
  BY <1>1, <1>3, CopyAssumption DEF CopyInv, StagingInv, StagingTypes
<1>5. \A d \in Calls : \A t : CommittingFor(d, t)' <=> CommittingFor(d, t)
  BY <1>1 DEF CommittingFor
<1>6. StagedAreRead'
  <2>1. \A i \in 1..n : i \in 1..(n + 1) /\ intents'[i] = intents[i]
    BY <1>3
  <2> QED BY <1>1, <1>3, <1>5, <2>1 DEF CopyInv, StagingInv, StagedAreRead
<1>7. \A t \in Traders : Gone(t)' = Gone(t) /\ BundlesOf(t)' = BundlesOf(t)
  <2> SUFFICES ASSUME NEW t \in Traders PROVE Gone(t)' = Gone(t) /\ BundlesOf(t)' = BundlesOf(t)
    OBVIOUS
  <2>1. \A i : i \in 1..(n + 1) <=> i \in 1..n \/ i = n + 1
    BY <1>3
  <2>2. Gone(t)' = {i \in 1..(n + 1) : intents'[i].trader = t /\ intents'[i].status # "STAGED"}
    BY <1>3 DEF Gone
  <2>3. Gone(t) = {i \in 1..n : intents[i].trader = t /\ intents[i].status # "STAGED"}
    BY <1>3 DEF Gone
  <2>4. \A i : i \in Gone(t)' <=> i \in Gone(t)
    BY <1>2, <1>3, <2>1, <2>2, <2>3
  <2> QED BY <1>1, <2>4 DEF BundlesOf, Gone
<1>8. IntentsBundledOnce'
  BY <1>1, <1>7 DEF CopyInv, StagingInv, IntentsBundledOnce
<1>9. MarketplaceInv' /\ CallTypes'
  <2>1. \A d \in Calls : \A s : Subscribing(d, s)' => Subscribing(d, s) /\ call'[d] = call[d]
    BY <1>1 DEF Subscribing
  <2>2. MarketplaceTypes' /\ CallTypes'
    BY <1>1 DEF CopyInv, MarketplaceInv, MarketplaceTypes, CallTypes
  <2> QED BY <1>1, <2>1, <2>2, MarketStays DEF CopyInv
<1> QED BY <1>4, <1>6, <1>8, <1>9 DEF CopyInv, StagingInv

LEMMA PushKeeps ==
  ASSUME CopyInv, NEW b \in DOMAIN bundles, Push(b)
  PROVE  CopyInv'
<1> DEFINE new == [bundles[b] EXCEPT !.status = "PUSHED_TO_BROKER"]
<1>1. /\ bundles' = [bundles EXCEPT ![b] = new] /\ pushes' = Append(pushes, bundles[b].orders_count)
      /\ UNCHANGED <<listings, subscriptions, copies, signals, intents, call, collided>>
  BY DEF Push, market
<1>2. bundles[b] \in Bundle
  BY DEF CopyInv, StagingInv, StagingTypes
<1>3. /\ new \in Bundle /\ new.trader = bundles[b].trader /\ new.rows = bundles[b].rows
      /\ new.orders_count = bundles[b].orders_count /\ bundles[b].orders_count \in 1..MaxIntents
  BY <1>2 DEF Bundle
<1> HIDE DEF new
<1>4. /\ bundles' \in Seq(Bundle) /\ DOMAIN bundles' = DOMAIN bundles
      /\ \A x \in DOMAIN bundles : /\ bundles'[x].trader = bundles[x].trader /\ bundles'[x].rows = bundles[x].rows
                                   /\ bundles'[x].orders_count = bundles[x].orders_count
  BY <1>1, <1>3 DEF CopyInv, StagingInv, StagingTypes
<1>5. pushes' \in Seq(1..MaxIntents)
  BY <1>1, <1>3, AppendProperties DEF CopyInv, StagingInv, StagingTypes
<1>6. StagingTypes'
  BY <1>1, <1>4, <1>5 DEF CopyInv, StagingInv, StagingTypes
<1>7. StagedAreRead'
  BY <1>1 DEF CopyInv, StagingInv, StagedAreRead, CommittingFor
<1>8. \A t \in Traders : Gone(t)' = Gone(t) /\ BundlesOf(t)' = BundlesOf(t) /\ BundlesOf(t) \subseteq DOMAIN bundles
  BY <1>1, <1>4 DEF Gone, BundlesOf
<1>9. IntentsBundledOnce'
  <2> SUFFICES ASSUME NEW t \in Traders
               PROVE  /\ Gone(t)' = UNION {bundles'[x].rows : x \in BundlesOf(t)'}
                      /\ \A x \in BundlesOf(t)' : bundles'[x].orders_count = Cardinality(bundles'[x].rows)
                      /\ t \notin collided =>
                           \A x, other \in BundlesOf(t)' : x # other => bundles'[x].rows \intersect bundles'[other].rows = {}
    BY <1>1 DEF IntentsBundledOnce
  <2>1. /\ Gone(t) = UNION {bundles[x].rows : x \in BundlesOf(t)}
        /\ \A x \in BundlesOf(t) : bundles[x].orders_count = Cardinality(bundles[x].rows)
        /\ t \notin collided =>
             \A x, other \in BundlesOf(t) : x # other => bundles[x].rows \intersect bundles[other].rows = {}
    BY DEF CopyInv, StagingInv, IntentsBundledOnce
  <2>2. {bundles'[x].rows : x \in BundlesOf(t)'} = {bundles[x].rows : x \in BundlesOf(t)}
    BY <1>4, <1>8
  <2> QED BY <1>4, <1>8, <2>1, <2>2
<1>10. MarketplaceInv' /\ CallTypes'
  <2>1. \A d \in Calls : \A s : Subscribing(d, s)' => Subscribing(d, s) /\ call'[d] = call[d]
    BY <1>1 DEF Subscribing
  <2>2. MarketplaceTypes' /\ CallTypes'
    BY <1>1 DEF CopyInv, MarketplaceInv, MarketplaceTypes, CallTypes
  <2> QED BY <1>1, <2>1, <2>2, MarketStays DEF CopyInv
<1> QED BY <1>6, <1>7, <1>9, <1>10 DEF CopyInv, StagingInv

LEMMA CommitStagedKeeps ==
  ASSUME CopyInv, NEW c \in Calls, CommitStaged(c)
  PROVE  CopyInv'
<1> DEFINE q == call[c]
           t == q.trader
           R == q.rows
           m == Len(bundles)
           new == [trader |-> t, rows |-> R, orders_count |-> Cardinality(R), status |-> "COMMITTED"]
<1>1. /\ q # Vacant /\ q.kind = "commit" /\ Finish(c) /\ UNCHANGED <<listings, subscriptions, copies, signals, pushes>>
      /\ intents' = [i \in DOMAIN intents |-> IF i \in R THEN [intents[i] EXCEPT !.status = "COMMITTED"] ELSE intents[i]]
      /\ bundles' = Append(bundles, new)
  BY DEF CommitStaged, Marked, market
<1>2. q \in CommitCall /\ t \in Traders /\ R \subseteq 1..MaxIntents /\ CommittingFor(c, t)
  BY <1>1, CallKinds DEF CopyInv, CommitCall, CommittingFor
<1>3. /\ R # {} /\ \A i \in R : i \in DOMAIN intents /\ intents[i].trader = t
      /\ t \notin collided => \A i \in R : intents[i].status = "STAGED"
  BY <1>2 DEF CopyInv, StagingInv, StagedAreRead
<1>4. new \in Bundle /\ new.trader = t /\ new.rows = R /\ new.orders_count = Cardinality(R)
  <2>1. IsFiniteSet(1..MaxIntents) /\ Cardinality(1..MaxIntents) = MaxIntents
    BY FS_Interval, CopyAssumption
  <2>2. IsFiniteSet(R) /\ Cardinality(R) <= MaxIntents
    BY <1>2, <2>1, FS_Subset
  <2>3. Cardinality(R) \in Nat /\ Cardinality(R) # 0
    BY <1>3, <2>2, FS_EmptySet, FS_CardinalityType
  <2>4. Cardinality(R) \in 1..MaxIntents
    BY <2>2, <2>3, CopyAssumption
  <2> QED BY <1>2, <2>4 DEF Bundle
<1>5. /\ call' = [call EXCEPT ![c] = Vacant] /\ collided \subseteq collided' /\ CallTypes'
      /\ \A d \in Calls : \A s : Subscribing(d, s)' => Subscribing(d, s) /\ call'[d] = call[d]
      /\ \A d \in Calls : \A u : CommittingFor(d, u)' => d # c /\ CommittingFor(d, u) /\ call'[d] = call[d]
  BY <1>1, Overlapped, CallEnds DEF CopyInv
<1>6. ASSUME NEW d \in Calls, NEW u, u = t, CommittingFor(d, u)' PROVE u \in collided'
  <2>1. d # c /\ call[d] # Vacant /\ call[d].kind = call[c].kind /\ Topic(d) = u
    BY <1>1, <1>5, <1>6 DEF CommittingFor, Topic
  <2>2. Topic(c) = u
    BY <1>1, <1>6 DEF Topic
  <2>3. \A e \in Calls : e # c /\ call[e] # Vacant /\ call[e].kind = call[c].kind /\ Topic(e) = Topic(c)
              => Topic(c) \in collided'
    BY <1>1, Overlapped DEF CopyInv
  <2> QED BY <2>1, <2>2, <2>3
<1>7. MarketplaceInv'
  <2>1. MarketplaceTypes'
    BY <1>1 DEF CopyInv, MarketplaceInv, MarketplaceTypes
  <2> QED BY <1>1, <1>5, <2>1, MarketStays DEF CopyInv
<1> HIDE DEF new, R, t, q
<1>8. /\ intents' \in Seq(Intent) /\ Len(intents') <= MaxIntents /\ DOMAIN intents' = DOMAIN intents
      /\ \A i \in DOMAIN intents : /\ intents'[i].trader = intents[i].trader
                                   /\ intents'[i].status = IF i \in R THEN "COMMITTED" ELSE intents[i].status
  <2>1. intents \in Seq(Intent) /\ Len(intents) <= MaxIntents /\ DOMAIN intents = 1..Len(intents) /\ Len(intents) \in Nat
    BY DEF CopyInv, StagingInv, StagingTypes
  <2>2. \A i \in DOMAIN intents : intents[i] \in Intent
    BY <2>1
  <2>3. \A i \in DOMAIN intents : /\ intents'[i] \in Intent /\ intents'[i].trader = intents[i].trader
                                 /\ intents'[i].status = IF i \in R THEN "COMMITTED" ELSE intents[i].status
    BY <1>1, <2>2 DEF Intent
  <2>4. intents' \in Seq(Intent) /\ Len(intents') = Len(intents) /\ DOMAIN intents' = DOMAIN intents
    BY <1>1, <2>1, <2>3
  <2> QED BY <2>1, <2>3, <2>4
<1>9. /\ bundles' \in Seq(Bundle) /\ m \in Nat /\ DOMAIN bundles = 1..m /\ DOMAIN bundles' = 1..(m + 1)
      /\ bundles'[m + 1] = new /\ \A b \in 1..m : bundles'[b] = bundles[b]
  BY <1>1, <1>4 DEF CopyInv, StagingInv, StagingTypes
<1>10. StagingTypes'
  BY <1>1, <1>8, <1>9 DEF CopyInv, StagingInv, StagingTypes
<1>11. StagedAreRead'
  <2> SUFFICES ASSUME NEW d \in Calls, NEW u \in Traders, CommittingFor(d, u)'
               PROVE  /\ call'[d].rows # {} /\ \A i \in call'[d].rows : i \in DOMAIN intents' /\ intents'[i].trader = u
                      /\ u \notin collided' => \A i \in call'[d].rows : intents'[i].status = "STAGED"
    BY DEF StagedAreRead
  <2>1. CommittingFor(d, u) /\ call'[d] = call[d]
    BY <1>5
  <2>2. /\ call[d].rows # {} /\ \A i \in call[d].rows : i \in DOMAIN intents /\ intents[i].trader = u
        /\ u \notin collided => \A i \in call[d].rows : intents[i].status = "STAGED"
    BY <2>1 DEF CopyInv, StagingInv, StagedAreRead
  <2>3. u \notin collided' => u # t /\ u \notin collided
    BY <1>5, <1>6
  <2> QED BY <1>3, <1>8, <2>1, <2>2, <2>3
<1> HIDE DEF m
<1>12. \A u \in Traders : \A i : i \in Gone(u)' <=> i \in Gone(u) \/ (u = t /\ i \in R)
  <2> SUFFICES ASSUME NEW u \in Traders, NEW i PROVE i \in Gone(u)' <=> i \in Gone(u) \/ (u = t /\ i \in R)
    OBVIOUS
  <2>1. i \in Gone(u)' <=> i \in DOMAIN intents' /\ intents'[i].trader = u /\ intents'[i].status # "STAGED"
    BY DEF Gone
  <2>2. i \in Gone(u) <=> i \in DOMAIN intents /\ intents[i].trader = u /\ intents[i].status # "STAGED"
    BY DEF Gone
  <2> QED BY <1>3, <1>8, <2>1, <2>2
<1>13. \A u \in Traders : \A b : b \in BundlesOf(u)' <=> b \in BundlesOf(u) \/ (u = t /\ b = m + 1)
  <2> SUFFICES ASSUME NEW u \in Traders, NEW b PROVE b \in BundlesOf(u)' <=> b \in BundlesOf(u) \/ (u = t /\ b = m + 1)
    OBVIOUS
  <2>1. b \in BundlesOf(u)' <=> b \in DOMAIN bundles' /\ bundles'[b].trader = u
    BY DEF BundlesOf
  <2>2. b \in BundlesOf(u) <=> b \in DOMAIN bundles /\ bundles[b].trader = u
    BY DEF BundlesOf
  <2>3. b \in 1..(m + 1) <=> b \in 1..m \/ b = m + 1
    BY <1>9
  <2>4. m + 1 \notin 1..m
    BY <1>9
  <2> QED BY <1>4, <1>9, <2>1, <2>2, <2>3, <2>4
<1>14. \A u \in Traders : \A b \in BundlesOf(u) : b \in 1..m /\ b # m + 1 /\ bundles'[b] = bundles[b]
  BY <1>9 DEF BundlesOf
<1>15. IntentsBundledOnce'
  <2>1. ASSUME NEW u \in Traders, NEW i PROVE i \in Gone(u)' <=> BundledFor(u, i)'
    <3>1. BundledFor(u, i)' <=> \E b \in BundlesOf(u)' : i \in bundles'[b].rows
      BY DEF BundledFor
    <3>2. BundledFor(u, i)' <=> (\E b \in BundlesOf(u) : i \in bundles[b].rows) \/ (u = t /\ i \in R)
      BY <1>4, <1>9, <1>13, <1>14, <3>1
    <3>3. i \in Gone(u) <=> \E b \in BundlesOf(u) : i \in bundles[b].rows
      BY GoneIsBundled DEF BundledFor, CopyInv, StagingInv
    <3> QED BY <1>12, <3>2, <3>3
  <2>2. ASSUME NEW u \in Traders, NEW b \in BundlesOf(u)' PROVE bundles'[b].orders_count = Cardinality(bundles'[b].rows)
    <3>1. CASE b \in BundlesOf(u)
      BY <1>14, <3>1 DEF CopyInv, StagingInv, IntentsBundledOnce
    <3>2. CASE b = m + 1
      BY <1>4, <1>9, <3>2
    <3> QED BY <1>13, <3>1, <3>2
  <2>3. ASSUME NEW u \in Traders, u \notin collided', NEW b \in BundlesOf(u)', NEW other \in BundlesOf(u)', NEW i,
               i \in bundles'[b].rows, i \in bundles'[other].rows
        PROVE  b = other
    <3>1. u \notin collided
      BY <1>5, <2>3
    <3>2. ASSUME NEW x \in BundlesOf(u), i \in bundles[x].rows, u = t PROVE i \notin R
      <4>1. i \in Gone(u)
        BY <3>2, GoneIsBundled DEF BundledFor, CopyInv, StagingInv
      <4> QED BY <1>3, <3>1, <3>2, <4>1 DEF Gone
    <3>3. CASE b \in BundlesOf(u) /\ other \in BundlesOf(u)
      <4>1. bundles'[b] = bundles[b] /\ bundles'[other] = bundles[other]
        BY <1>14, <3>3
      <4>2. b # other => bundles[b].rows \intersect bundles[other].rows = {}
        BY <3>1, <3>3 DEF CopyInv, StagingInv, IntentsBundledOnce
      <4> QED BY <2>3, <4>1, <4>2
    <3>4. CASE b \in BundlesOf(u) /\ other = m + 1 /\ u = t
      BY <1>4, <1>9, <1>14, <2>3, <3>2, <3>4
    <3>5. CASE b = m + 1 /\ u = t /\ other \in BundlesOf(u)
      BY <1>4, <1>9, <1>14, <2>3, <3>2, <3>5
    <3>6. CASE b = m + 1 /\ other = m + 1
      BY <3>6
    <3> QED BY <1>13, <3>3, <3>4, <3>5, <3>6
  <2> QED BY <2>1, <2>2, <2>3 DEF IntentsBundledOnce, BundledFor
<1> QED BY <1>5, <1>7, <1>10, <1>11, <1>15 DEF CopyInv, StagingInv
-----------------------------------------------------------------------------
LEMMA CopyInvHolds == CopySpec => []CopyInv
<1>1. CopyInit => CopyInv
  <2> SUFFICES ASSUME CopyInit PROVE CopyInv
    OBVIOUS
  <2>1. \A c \in Calls : call[c] = Vacant
    BY DEF CopyInit
  <2>2. \A s \in Strategies : listings[s] = Vacant
    BY DEF CopyInit
  <2>3. CallTypes
    BY DEF CopyInit, CallTypes
  <2>4. MarketplaceTypes
    BY FS_EmptySet, CopyAssumption DEF CopyInit, MarketplaceTypes
  <2>5. MarketplaceInv
    BY <2>1, <2>2, <2>4 DEF CopyInit, MarketplaceInv, IdsAreOwn, CountsAreKnown, SubscribersCounted, Subscribing
  <2>6. StagingTypes /\ StagedAreRead
    BY <2>1, CopyAssumption DEF CopyInit, StagingTypes, StagedAreRead, CommittingFor
  <2>7. IntentsBundledOnce
    <3>1. \A t \in Traders : Gone(t) = {} /\ BundlesOf(t) = {}
      BY DEF CopyInit, Gone, BundlesOf
    <3> QED BY <3>1 DEF IntentsBundledOnce
  <2> QED BY <2>3, <2>5, <2>6, <2>7 DEF CopyInv, StagingInv
<1>2. CopyInv /\ [CopyNext]_copyVars => CopyInv'
  <2> SUFFICES ASSUME CopyInv, [CopyNext]_copyVars PROVE CopyInv'
    OBVIOUS
  <2>1. CASE UNCHANGED copyVars
    <3>1. UNCHANGED <<listings, subscriptions, copies, signals, staging, call, collided>>
      BY <2>1 DEF copyVars, staging
    <3>2. MarketplaceTypes' /\ CallTypes'
      BY <3>1 DEF CopyInv, MarketplaceInv, MarketplaceTypes, CallTypes
    <3>3. /\ \A d \in Calls : \A s : Subscribing(d, s)' => Subscribing(d, s) /\ call'[d] = call[d]
          /\ \A d \in Calls : \A t : CommittingFor(d, t)' => CommittingFor(d, t) /\ call'[d] = call[d]
      BY <3>1 DEF Subscribing, CommittingFor
    <3>4. MarketplaceInv'
      BY <3>1, <3>2, <3>3, MarketStays DEF CopyInv
    <3>5. StagingInv'
      BY <3>1, <3>3, StagingStays DEF CopyInv
    <3> QED BY <3>2, <3>4, <3>5 DEF CopyInv
  <2>2. CASE \E s \in Strategies, trader \in Traders : CreateStrategy(s, trader)
    BY <2>2, CreateStrategyKeeps
  <2>3. CASE \E c \in Calls, trader \in Traders, s \in Strategies, mode \in Modes : SubscribeBegin(c, trader, s, mode)
    BY <2>3, SubscribeBeginKeeps
  <2>4. CASE \E c \in Calls, trader \in Traders, s \in Strategies : BroadcastBegin(c, trader, s)
    BY <2>4, BroadcastBeginKeeps
  <2>5. CASE \E c \in Calls, trader \in Traders : CommitBegin(c, trader)
    BY <2>5, CommitBeginKeeps
  <2>6. CASE \E c \in Calls : SubscribeCommit(c)
    BY <2>6, SubscribeCommitKeeps
  <2>7. CASE \E c \in Calls : BroadcastCommit(c)
    BY <2>7, BroadcastCommitKeeps
  <2>8. CASE \E c \in Calls : CommitStaged(c)
    BY <2>8, CommitStagedKeeps
  <2>9. CASE \E c \in Calls : Abort(c)
    BY <2>9, AbortKeeps
  <2>10. CASE \E trader \in Traders, symbol \in Instruments, action \in {"BUY", "SELL"}, lot \in Lots :
                Stage(trader, symbol, action, lot)
    BY <2>10, StageKeeps
  <2>11. CASE \E b \in DOMAIN bundles : Push(b)
    BY <2>11, PushKeeps
  <2> QED BY <2>1, <2>2, <2>3, <2>4, <2>5, <2>6, <2>7, <2>8, <2>9, <2>10, <2>11 DEF CopyNext
<1> QED BY <1>1, <1>2, PTL DEF CopySpec

\* The rows of copy_trading_service.py and git_trading_service.py keep their types, and no
\* listing counts more subscribers than there are subscriptions.
THEOREM CopyTypeCorrect == CopySpec => []CopyTypeOK
<1>1. CopyInv => CopyTypeOK
  BY DEF CopyInv, CallTypes, CopyWork, MarketplaceInv, MarketplaceTypes, CountsAreKnown, StagingInv, StagingTypes, CopyTypeOK
<1> QED BY <1>1, CopyInvHolds, PTL

\* subscribe of copy_trading_service.py reads the count and writes it back: unless two of a
\* strategy overlap, however subscriptions, renewals, broadcasts and failures interleave, the
\* count is the number of subscribers and nobody is subscribed twice.
THEOREM SubscribersAreCounted == CopySpec => []SubscribersCounted
<1>1. CopyInv => SubscribersCounted
  BY DEF CopyInv, MarketplaceInv
<1> QED BY <1>1, CopyInvHolds, PTL

\* commit_staged of git_trading_service.py marks what it has read: every intent that
\* left the staging area is in a bundle, and unless two commits of a trader overlap in one.
THEOREM IntentsAreBundledOnce == CopySpec => []IntentsBundledOnce
<1>1. CopyInv => IntentsBundledOnce
  BY DEF CopyInv, StagingInv
<1> QED BY <1>1, CopyInvHolds, PTL

-----------------------------------------------------------------------------
(* The diff.                                                               *)

\* What Diff folds.
DiffStep(trader, h, order) == IF order.trader = trader /\ order.status = "STAGED" THEN Applied(h, order) ELSE h
DiffFold(trader) ==
  CHOOSE d : d = [p \in SUBSET (DOMAIN intents) |->
    IF p = {} THEN OpeningHoldings ELSE DiffStep(trader, d[p \ {Max(p)}], intents[Max(p)])]

LEMMA DiffFolds == ASSUME NEW trader PROVE Diff(trader) = DiffFold(trader)[DOMAIN intents]
BY DEF Diff, FoldLeft, MapThenFoldSet, DiffFold, DiffStep

Holdings == [Instruments -> Int]

LEMMA OrderIs ==
  ASSUME NEW order \in Intent
  PROVE  /\ order.symbol \in Instruments /\ order.quantity \in Int
         /\ Signed(order) \in Int /\ Promised(order) \in Int
<1>1. Lots \subseteq Nat /\ Hundredth \in Int
  BY CopyAssumption
<1>2. order.symbol \in Instruments /\ order.quantity \in Lots
  BY DEF Intent
<1>3. order.quantity \in Int
  <2>1. order.quantity \in Nat
    BY <1>1, <1>2
  <2> QED BY <2>1
<1>4. Signed(order) \in Int
  BY <1>3 DEF Signed
<1>5. Promised(order) \in Int
  BY <1>1, <1>4 DEF Promised
<1> QED BY <1>2, <1>3, <1>4, <1>5

\* Rounding takes away at most half a hundredth.
LEMMA ToHundredthIs ==
  ASSUME NEW n \in Nat
  PROVE  ToHundredth(n) \in Int /\ 2 * ToHundredth(n) >= 2 * n - Hundredth
<1> DEFINE r == n % Hundredth
           below == n - r
           Near(c) == 2 * (n - c) <= Hundredth /\ 2 * (c - n) <= Hundredth
           c == CHOOSE x \in {below, below + Hundredth} : Near(x)
<1>1. Hundredth \in Nat \ {0} /\ n \in Int
  BY CopyAssumption
<1>2. r \in 0..(Hundredth - 1)
  BY <1>1
<1> HIDE DEF r
<1>3. below \in Int /\ below + Hundredth \in Int
  BY <1>1, <1>2
<1>4. Near(below) \/ Near(below + Hundredth)
  BY <1>1, <1>2
<1> HIDE DEF below, Near
<1>5. c \in {below, below + Hundredth} /\ Near(c)
  BY <1>4
<1> HIDE DEF c
<1>6. c \in Int
  BY <1>3, <1>5
<1>7. 2 * c >= 2 * n - Hundredth
  BY <1>1, <1>5, <1>6 DEF Near
<1>8. ToHundredth(n) = c
  BY DEF ToHundredth, c, below, Near, r
<1> QED BY <1>6, <1>7, <1>8

\* What an order makes of a symbol of which the trader's staged orders are shown.
ShowsIn(trader, s, order) == order.trader = trader /\ order.status = "STAGED" /\ order.symbol = s

LEMMA DiffStepIs ==
  ASSUME NEW trader, NEW h \in Holdings, NEW order \in Intent
  PROVE  /\ DiffStep(trader, h, order) \in Holdings
         /\ \A s \in Instruments :
              /\ ~ShowsIn(trader, s, order) => DiffStep(trader, h, order)[s] = h[s]
              /\ ShowsIn(trader, s, order) => 2 * DiffStep(trader, h, order)[s] >= 2 * h[s] + Promised(order)
<1> DEFINE t == order.symbol
           d == Signed(order)
           rest == h[t] + d
           kept == IF rest < 0 THEN 0 ELSE rest
           after == ToHundredth(kept)
<1>1. t \in Instruments /\ d \in Int /\ Hundredth \in Int /\ h[t] \in Int
  BY OrderIs, CopyAssumption DEF Holdings
<1>2. Applied(h, order) = [h EXCEPT ![t] = after]
  BY DEF Applied
<1>3. Promised(order) = 2 * d - Hundredth
  BY DEF Promised
<1> HIDE DEF d
<1>4. kept \in Nat /\ kept >= rest /\ rest \in Int
  BY <1>1
<1> HIDE DEF kept
<1>5. after \in Int /\ 2 * after >= 2 * kept - Hundredth
  BY <1>4, ToHundredthIs
<1> HIDE DEF after
<1>6. 2 * after >= 2 * h[t] + Promised(order)
  BY <1>1, <1>3, <1>4, <1>5
<1> HIDE DEF rest
<1>7. /\ Applied(h, order) \in Holdings /\ Applied(h, order)[t] = after
      /\ \A s \in Instruments : s # t => Applied(h, order)[s] = h[s]
  BY <1>1, <1>2, <1>5 DEF Holdings
<1> QED BY <1>6, <1>7 DEF DiffStep, ShowsIn

LEMMA PositionsOf ==
  ASSUME NEW K, NEW c \in Seq(K)
  PROVE  IsFiniteSet(DOMAIN c) /\ DOMAIN c \subseteq Int /\ \A i \in DOMAIN c : c[i] \in K
<1> DEFINE n == Len(c)
<1>1. DOMAIN c = 1..n /\ n \in Int /\ 1 \in Int /\ \A i \in 1..n : c[i] \in K
  OBVIOUS
<1> HIDE DEF n
<1> QED BY <1>1, FS_Interval

\* Positions of a trader's staged orders of a symbol.
OrdersOf(trader, s, p) == {i \in p : ShowsIn(trader, s, intents[i])}

Promises == [i \in DOMAIN intents |-> Promised(intents[i])]

LEMMA PromisesAdd ==
  ASSUME CopyTypeOK, NEW trader, NEW s
  PROVE  SumFunctionOnSet(Promises, OrdersOf(trader, s, DOMAIN intents)) \in Int
<1> DEFINE p == OrdersOf(trader, s, DOMAIN intents)
<1>1. /\ IsFiniteSet(DOMAIN intents)
      /\ \A i \in DOMAIN intents : intents[i] \in Intent
  BY PositionsOf DEF CopyTypeOK
<1>2. p \subseteq DOMAIN intents
  BY DEF OrdersOf
<1>3. IsFiniteSet(p) /\ \A i \in p : Promises[i] \in Int
  BY <1>1, <1>2, FS_Subset, OrderIs DEF Promises
<1> HIDE DEF p
<1>4. SumFunctionOnSet(Promises, p) \in Int
  BY <1>3, SumFoldIs, SumChosen
<1> QED BY <1>4 DEF p

\* Twice what the diff shows at least of a symbol after the orders at p.
Shown(trader, s, p) == 2 * OpeningHoldings[s] + SumFunctionOnSet(Promises, OrdersOf(trader, s, p))

LEMMA OneMoreOrder ==
  ASSUME CopyTypeOK, NEW trader, NEW s \in Instruments, NEW p, p \subseteq DOMAIN intents, NEW m \in p
  PROVE  /\ Shown(trader, s, p \ {m}) \in Int
         /\ Shown(trader, s, p) = Shown(trader, s, p \ {m}) +
              (IF ShowsIn(trader, s, intents[m]) THEN Promised(intents[m]) ELSE 0)
<1> DEFINE A == OrdersOf(trader, s, p \ {m})
           B == OrdersOf(trader, s, p)
           hit == ShowsIn(trader, s, intents[m])
           x == SumFunctionOnSet(Promises, A)
           z == Promised(intents[m])
<1>1. /\ IsFiniteSet(DOMAIN intents)
      /\ \A i \in DOMAIN intents : intents[i] \in Intent /\ Promises[i] = Promised(intents[i]) /\ Promises[i] \in Int
  <2>1. IsFiniteSet(DOMAIN intents) /\ \A i \in DOMAIN intents : intents[i] \in Intent
    BY PositionsOf DEF CopyTypeOK
  <2>2. \A i \in DOMAIN intents : Promised(intents[i]) \in Int
    BY <2>1, OrderIs
  <2> QED BY <2>1, <2>2 DEF Promises
<1>2. A \subseteq DOMAIN intents /\ m \notin A
  BY DEF OrdersOf
<1>3. IsFiniteSet(A)
  BY <1>1, <1>2, FS_Subset
<1>4. \A i \in A \union {m} : Promises[i] \in Int
  BY <1>1, <1>2
<1>5. B = IF hit THEN A \union {m} ELSE A
  BY DEF OrdersOf
<1>6. z = Promises[m] /\ z \in Int
  BY <1>1
<1> HIDE DEF A, B, hit, z
<1>7. x \in Int /\ SumFunctionOnSet(Promises, A \union {m}) = Promises[m] + x
  BY <1>2, <1>3, <1>4, SumOfOneMore
<1>8. SumFunctionOnSet(Promises, B) = x + (IF hit THEN z ELSE 0)
  <2> HIDE DEF x
  <2>1. CASE hit
    BY <1>5, <1>6, <1>7, <2>1
  <2>2. CASE ~hit
    BY <1>5, <1>7, <2>2 DEF x
  <2> QED BY <2>1, <2>2
<1>9. OpeningHoldings[s] \in Int
  BY CopyAssumption
<1>10. Shown(trader, s, p \ {m}) = 2 * OpeningHoldings[s] + x
  BY DEF Shown, A
<1>11. Shown(trader, s, p) = 2 * OpeningHoldings[s] + SumFunctionOnSet(Promises, B)
  BY DEF Shown, B
<1> HIDE DEF x
<1>12. /\ Shown(trader, s, p \ {m}) \in Int
       /\ Shown(trader, s, p) = Shown(trader, s, p \ {m}) + (IF hit THEN z ELSE 0)
  BY <1>6, <1>7, <1>8, <1>9, <1>10, <1>11
<1> QED BY <1>12 DEF hit, z

\* The diff shows every purchase up to its rounding.
LEMMA DiffShows ==
  ASSUME CopyTypeOK, NEW trader, NEW s \in Instruments
  PROVE  Diff(trader)[s] \in Int /\ 2 * Diff(trader)[s] >= Shown(trader, s, DOMAIN intents)
<1> DEFINE D == DOMAIN intents
           pick == [p \in SUBSET D |-> Max(p)]
           step == [a \in Holdings \X D |-> DiffStep(trader, a[1], intents[a[2]])]
           d == DiffFold(trader)
           IsFold(f) == f = [p \in SUBSET D |-> IF p = {} THEN OpeningHoldings ELSE DiffStep(trader, f[p \ {Max(p)}], intents[Max(p)])]
<1>1. /\ IsFiniteSet(D) /\ D \subseteq Int
      /\ \A i \in D : intents[i] \in Intent
  BY PositionsOf DEF CopyTypeOK
<1>2. \A h \in Holdings, i \in D : DiffStep(trader, h, intents[i]) \in Holdings
  BY <1>1, DiffStepIs
<1>3. \A p \in SUBSET D : p # {} => Max(p) \in p
  <2> SUFFICES ASSUME NEW p \in SUBSET D, p # {} PROVE Max(p) \in p
    OBVIOUS
  <2>1. IsFiniteSet(p) /\ p \subseteq Int
    BY <1>1, FS_Subset
  <2> QED BY <2>1, LargestExists
<1>4. OpeningHoldings \in Holdings
  BY CopyAssumption DEF Holdings
<1> HIDE DEF D
<1>5. Picks(pick, D)
  BY <1>3 DEF Picks
<1>6. step \in [Holdings \X D -> Holdings]
  BY <1>2
<1>7. \E f \in [SUBSET D -> Holdings] : FoldedBy(f, D, OpeningHoldings, pick, step)
  <2> HIDE DEF pick, step
  <2> QED BY <1>1, <1>4, <1>5, <1>6, FoldExists
<1>8. PICK f \in [SUBSET D -> Holdings] : FoldedBy(f, D, OpeningHoldings, pick, step)
  BY <1>7
<1>9. \A p \in SUBSET D : p # {} => f[p] = DiffStep(trader, f[p \ {Max(p)}], intents[Max(p)])
  <2> SUFFICES ASSUME NEW p \in SUBSET D, p # {}
               PROVE  f[p] = DiffStep(trader, f[p \ {Max(p)}], intents[Max(p)])
    OBVIOUS
  <2>1. Max(p) \in D /\ f[p \ {Max(p)}] \in Holdings
    BY <1>3
  <2>2. f[p] = step[<<f[p \ {Max(p)}], Max(p)>>]
    BY <1>8 DEF FoldedBy
  <2> QED BY <2>1, <2>2
<1>10. IsFold(f)
  BY <1>8, <1>9 DEF FoldedBy
<1>11. IsFold(d)
  BY <1>10 DEF DiffFold, D
<1>12. /\ d[{}] = OpeningHoldings
       /\ \A p \in SUBSET D : p # {} => d[p] = DiffStep(trader, d[p \ {Max(p)}], intents[Max(p)])
  BY <1>11
<1> DEFINE good == [p \in SUBSET D |-> {h \in Holdings : 2 * h[s] >= Shown(trader, s, p)}]
<1> HIDE DEF d
<1>13. d[{}] \in good[{}]
  <2>1. OrdersOf(trader, s, {}) = {}
    BY DEF OrdersOf
  <2>2. Shown(trader, s, {}) = 2 * OpeningHoldings[s] + 0 /\ OpeningHoldings[s] \in Int
    <3>1. SumFunctionOnSet(Promises, {}) = 0
      BY SumOfNone
    <3>2. OpeningHoldings[s] \in Int
      BY CopyAssumption
    <3> QED BY <2>1, <3>1, <3>2 DEF Shown
  <2> QED BY <1>4, <1>12, <2>2
<1>14. ASSUME NEW p \in SUBSET D, p # {}
       PROVE  \E x \in p : d[p \ {x}] \in good[p \ {x}] => d[p] \in good[p]
  <2> DEFINE m == Max(p)
             h == d[p \ {m}]
  <2>1. m \in p /\ m \in D /\ intents[m] \in Intent
    BY <1>1, <1>3, <1>14
  <2>2. d[p] = DiffStep(trader, h, intents[m])
    BY <1>12, <1>14
  <2>3. /\ good[p] = {k \in Holdings : 2 * k[s] >= Shown(trader, s, p)}
        /\ good[p \ {m}] = {k \in Holdings : 2 * k[s] >= Shown(trader, s, p \ {m})}
    OBVIOUS
  <2> HIDE DEF m, good, h
  <2>4. ASSUME h \in Holdings, 2 * h[s] >= Shown(trader, s, p \ {m})
        PROVE  d[p] \in Holdings /\ 2 * d[p][s] >= Shown(trader, s, p)
    <3> DEFINE hit == ShowsIn(trader, s, intents[m])
               change == Promised(intents[m])
    <3>1. /\ Shown(trader, s, p \ {m}) \in Int
          /\ Shown(trader, s, p) = Shown(trader, s, p \ {m}) + (IF hit THEN change ELSE 0)
      BY <2>1, OneMoreOrder DEF D
    <3>2. /\ d[p] \in Holdings
          /\ ~hit => d[p][s] = h[s]
          /\ hit => 2 * d[p][s] >= 2 * h[s] + change
      <4> DEFINE o == intents[m]
                 e == DiffStep(trader, h, o)
      <4>1. h \in Holdings /\ o \in Intent /\ d[p] = e
        BY <2>1, <2>2, <2>4
      <4>2. e \in Holdings /\ (~ShowsIn(trader, s, o) => e[s] = h[s]) /\ (ShowsIn(trader, s, o) => 2 * e[s] >= 2 * h[s] + Promised(o))
        <5> HIDE DEF o
        <5> QED BY <4>1, DiffStepIs
      <4> HIDE DEF e
      <4> QED BY <4>1, <4>2
    <3>3. h[s] \in Int /\ d[p][s] \in Int /\ change \in Int
      BY <2>1, <2>4, <3>2, OrderIs DEF Holdings
    <3> HIDE DEF hit, change
    <3> QED BY <2>4, <3>1, <3>2, <3>3
  <2>5. h \in good[p \ {m}] => d[p] \in good[p]
    BY <2>3, <2>4
  <2> QED BY <2>1, <2>5 DEF h
<1>15. \A p \in SUBSET D : d[p] \in good[p]
  <2> HIDE DEF good
  <2> QED BY <1>1, <1>13, <1>14, FoldKeeps
<1>16. D \in SUBSET D /\ good[D] = {h \in Holdings : 2 * h[s] >= Shown(trader, s, D)}
  OBVIOUS
<1>17. d[D][s] \in Int /\ 2 * d[D][s] >= Shown(trader, s, D)
  <2> HIDE DEF good
  <2> QED BY <1>15, <1>16 DEF Holdings
<1> QED BY <1>17, DiffFolds DEF d, D

\* copy_trading_service.py and git_trading_service.py: subscribers and orders are counted
\* once unless two calls collide, and the holdings get_diff shows, which it does not let
\* fall below zero and rounds to hundredths after each order, fall behind what is staged by
\* no more than that rounding, whatever is staged and in whatever order.
THEOREM CopiesCounted == CopySpec => []CopiesAddUp
<1>1. CopyTypeOK => DiffShowsPurchases
  <2> SUFFICES ASSUME CopyTypeOK, NEW trader \in Traders, NEW s \in Instruments
               PROVE  2 * (Diff(trader)[s] - OpeningHoldings[s]) >=
                        SumFunctionOnSet(Promises, {i \in Staged(trader) : intents[i].symbol = s})
    BY DEF DiffShowsPurchases, Promises
  <2> DEFINE sum == SumFunctionOnSet(Promises, {i \in Staged(trader) : intents[i].symbol = s})
  <2>1. OrdersOf(trader, s, DOMAIN intents) = {i \in Staged(trader) : intents[i].symbol = s}
    BY DEF OrdersOf, ShowsIn, Staged
  <2>2. Diff(trader)[s] \in Int /\ 2 * Diff(trader)[s] >= 2 * OpeningHoldings[s] + sum
    BY <2>1, DiffShows DEF Shown
  <2>3. sum \in Int
    BY <2>1, PromisesAdd
  <2>4. OpeningHoldings[s] \in Int
    BY CopyAssumption
  <2> HIDE DEF sum
  <2>5. 2 * (Diff(trader)[s] - OpeningHoldings[s]) >= sum
    BY <2>2, <2>3, <2>4
  <2> QED BY <2>5 DEF sum
<1>2. CopyTypeOK /\ SubscribersCounted /\ IntentsBundledOnce => CopiesAddUp
  BY <1>1 DEF CopiesAddUp
<1> QED BY <1>2, CopyTypeCorrect, SubscribersAreCounted, IntentsAreBundledOnce, PTL

-----------------------------------------------------------------------------
(* Schema.                                                                 *)

(* The migrations.                                                         *)

\* The migration that creates a table, 0 for those no migration creates.
BornIn(t) ==
  CASE t \in {"user", "transaction", "alert"} -> 1
    [] t = "brokercredential" -> 2
    [] t \in {"tradeorder", "tradeauditlog", "risksetting", "equitysnapshot"} -> 3
    [] t = "backtestrun" -> 7 [] t = "watchlistitem" -> 12
    [] t \in {"paperaccount", "paperfill"} -> 13 [] t = "paperautomationrule" -> 14
    [] t = "portfoliogoal" -> 15 [] t = "activityevent" -> 17 [] t = "apiconsumerkey" -> 18
    [] OTHER -> 0

\* The migration that adds a column to a table that is there.
AddedIn(name) ==
  CASE name = "manual_halt" -> 4 [] name = "confidence" -> 5 [] name = "client_order_id" -> 6
    [] name = "auto_halt_tripped_on" -> 8 [] name \in {"stop_loss", "take_profit"} -> 10
    [] name \in {"max_daily_trades", "max_position_weight_pct", "require_protective_stop"} -> 11
    [] name = "target_price" -> 16 [] OTHER -> 0

CreatesOnly(r, names) == Revisions[r].creates = names /\ Revisions[r].adds = {}
AddsOnly(r, altered, columns) ==
  Revisions[r].creates = {} /\ Revisions[r].alters = altered /\ Revisions[r].adds = columns

LEMMA RevisionTable ==
  /\ DOMAIN Revisions = 1..18
  /\ CreatesOnly(1, {"user", "transaction", "alert"}) /\ CreatesOnly(2, {"brokercredential"})
  /\ CreatesOnly(3, {"tradeorder", "tradeauditlog", "risksetting", "equitysnapshot"})
  /\ AddsOnly(4, "risksetting", {Optional("manual_halt")})
  /\ AddsOnly(5, "tradeauditlog", {Optional("confidence")})
  /\ AddsOnly(6, "tradeorder", {Optional("client_order_id")})
  /\ CreatesOnly(7, {"backtestrun"})
  /\ AddsOnly(8, "risksetting", {Optional("auto_halt_tripped_on")})
  /\ AddsOnly(9, "equitysnapshot", {})
  /\ AddsOnly(10, "tradeorder", {Optional("stop_loss"), Optional("take_profit")})
  /\ AddsOnly(11, "risksetting", {Optional("max_daily_trades"), Optional("max_position_weight_pct"),
                                  Optional("require_protective_stop")})
  /\ CreatesOnly(12, {"watchlistitem"}) /\ CreatesOnly(13, {"paperaccount", "paperfill"})
  /\ CreatesOnly(14, {"paperautomationrule"}) /\ CreatesOnly(15, {"portfoliogoal"})
  /\ AddsOnly(16, "watchlistitem", {Optional("target_price")})
  /\ CreatesOnly(17, {"activityevent"}) /\ CreatesOnly(18, {"apiconsumerkey"})
<1>1. DOMAIN Revisions = 1..18
  BY DEF Revisions
<1>2. /\ Revisions[1] = InitialLedger /\ Revisions[2] = BrokerCredentials /\ Revisions[3] = ExecutionAndRisk
      /\ Revisions[4] = ManualHalt /\ Revisions[5] = AuditConfidence /\ Revisions[6] = OrderIdempotency
      /\ Revisions[7] = BacktestRuns /\ Revisions[8] = AutoHaltTrip /\ Revisions[9] = DecimalMoney
  BY DEF Revisions
<1>3. /\ Revisions[10] = OrderBrackets /\ Revisions[11] = AccountRiskLimits /\ Revisions[12] = Watchlist
      /\ Revisions[13] = PaperDesk /\ Revisions[14] = PaperAutomations /\ Revisions[15] = PortfolioGoals
      /\ Revisions[16] = WatchlistTargets /\ Revisions[17] = ActivityTimeline /\ Revisions[18] = ConsumerKeys
  BY DEF Revisions
<1>4. /\ CreatesOnly(1, {"user", "transaction", "alert"}) /\ CreatesOnly(2, {"brokercredential"})
      /\ CreatesOnly(3, {"tradeorder", "tradeauditlog", "risksetting", "equitysnapshot"})
      /\ CreatesOnly(7, {"backtestrun"}) /\ CreatesOnly(12, {"watchlistitem"})
      /\ CreatesOnly(13, {"paperaccount", "paperfill"}) /\ CreatesOnly(14, {"paperautomationrule"})
      /\ CreatesOnly(15, {"portfoliogoal"}) /\ CreatesOnly(17, {"activityevent"})
      /\ CreatesOnly(18, {"apiconsumerkey"})
  <2>1. ASSUME NEW k, NEW ts, Revisions[k] = Creates(ts) PROVE CreatesOnly(k, ts)
    <3>1. Creates(ts).creates = ts /\ Creates(ts).adds = {}
      BY DEF Creates
    <3> QED BY <2>1, <3>1 DEF CreatesOnly
  <2>2. /\ CreatesOnly(1, {"user", "transaction", "alert"}) /\ CreatesOnly(2, {"brokercredential"})
        /\ CreatesOnly(3, {"tradeorder", "tradeauditlog", "risksetting", "equitysnapshot"})
        /\ CreatesOnly(7, {"backtestrun"})
    BY <1>2, <2>1 DEF InitialLedger, BrokerCredentials, ExecutionAndRisk, BacktestRuns
  <2>3. /\ CreatesOnly(12, {"watchlistitem"}) /\ CreatesOnly(13, {"paperaccount", "paperfill"})
        /\ CreatesOnly(14, {"paperautomationrule"}) /\ CreatesOnly(15, {"portfoliogoal"})
    BY <1>3, <2>1 DEF Watchlist, PaperDesk, PaperAutomations, PortfolioGoals
  <2>4. CreatesOnly(17, {"activityevent"}) /\ CreatesOnly(18, {"apiconsumerkey"})
    BY <1>3, <2>1 DEF ActivityTimeline, ConsumerKeys
  <2> QED BY <2>2, <2>3, <2>4
<1>5. /\ AddsOnly(4, "risksetting", {Optional("manual_halt")})
      /\ AddsOnly(5, "tradeauditlog", {Optional("confidence")})
      /\ AddsOnly(6, "tradeorder", {Optional("client_order_id")})
      /\ AddsOnly(8, "risksetting", {Optional("auto_halt_tripped_on")})
      /\ AddsOnly(9, "equitysnapshot", {})
  BY <1>2 DEF AddsOnly, Adds, ManualHalt, AuditConfidence, OrderIdempotency, AutoHaltTrip, DecimalMoney
<1>6. /\ AddsOnly(10, "tradeorder", {Optional("stop_loss"), Optional("take_profit")})
      /\ AddsOnly(11, "risksetting", {Optional("max_daily_trades"), Optional("max_position_weight_pct"),
                                      Optional("require_protective_stop")})
      /\ AddsOnly(16, "watchlistitem", {Optional("target_price")})
  BY <1>3 DEF AddsOnly, Adds, OrderBrackets, AccountRiskLimits, WatchlistTargets
<1> QED BY <1>1, <1>4, <1>5, <1>6

\* A migration creates tables nobody has, or adds optional columns of its own to a
\* table of an earlier one.
RevisionIsSound(r) ==
  /\ \A t \in Revisions[r].creates : BornIn(t) = r /\ t \notin Unmigrated
  /\ \A c \in Revisions[r].adds : c.needed = FALSE /\ AddedIn(c.name) = r
  /\ Revisions[r].adds # {} =>
       \E q \in DOMAIN Revisions : q < r /\ Revisions[r].alters \in Revisions[q].creates

LEMMA OptionalColumn == ASSUME NEW name PROVE Optional(name).name = name /\ Optional(name).needed = FALSE
BY DEF Optional, Column

LEMMA RevisionsAreSound == \A r \in DOMAIN Revisions : RevisionIsSound(r)
<1>1. ASSUME NEW r \in 1..18, NEW names, CreatesOnly(r, names),
             \A t \in names : BornIn(t) = r /\ t \notin Unmigrated
      PROVE  RevisionIsSound(r)
  BY <1>1 DEF CreatesOnly, RevisionIsSound
<1>2. ASSUME NEW r \in 1..18, NEW q \in 1..18, q < r, NEW altered \in Revisions[q].creates,
             NEW names, AddsOnly(r, altered, {Optional(name) : name \in names}),
             \A name \in names : AddedIn(name) = r
      PROVE  RevisionIsSound(r)
  <2>1. q \in DOMAIN Revisions
    BY RevisionTable
  <2>2. Revisions[r].creates = {} /\ Revisions[r].alters = altered
        /\ Revisions[r].adds = {Optional(name) : name \in names}
    BY <1>2 DEF AddsOnly
  <2>3. \A c \in Revisions[r].adds : c.needed = FALSE /\ AddedIn(c.name) = r
    <3> SUFFICES ASSUME NEW name \in names
                 PROVE  Optional(name).needed = FALSE /\ AddedIn(Optional(name).name) = r
      BY <2>2
    <3> QED BY <1>2, OptionalColumn
  <2>4. \E p \in DOMAIN Revisions : p < r /\ Revisions[r].alters \in Revisions[p].creates
    BY <1>2, <2>1, <2>2
  <2> QED BY <2>2, <2>3, <2>4 DEF RevisionIsSound
<1>3. RevisionIsSound(1) /\ RevisionIsSound(2) /\ RevisionIsSound(3)
  <2>1. \A t \in {"user", "transaction", "alert"} : BornIn(t) = 1 /\ t \notin Unmigrated
    BY DEF BornIn, Unmigrated, Marketplace, GitTrading, Documents
  <2>2. \A t \in {"brokercredential"} : BornIn(t) = 2 /\ t \notin Unmigrated
    BY DEF BornIn, Unmigrated, Marketplace, GitTrading, Documents
  <2>3. \A t \in {"tradeorder", "tradeauditlog", "risksetting", "equitysnapshot"} : BornIn(t) = 3 /\ t \notin Unmigrated
    BY DEF BornIn, Unmigrated, Marketplace, GitTrading, Documents
  <2> QED BY <1>1, <2>1, <2>2, <2>3, RevisionTable
<1>4. RevisionIsSound(7) /\ RevisionIsSound(12) /\ RevisionIsSound(13)
  <2>1. \A t \in {"backtestrun"} : BornIn(t) = 7 /\ t \notin Unmigrated
    BY DEF BornIn, Unmigrated, Marketplace, GitTrading, Documents
  <2>2. \A t \in {"watchlistitem"} : BornIn(t) = 12 /\ t \notin Unmigrated
    BY DEF BornIn, Unmigrated, Marketplace, GitTrading, Documents
  <2>3. \A t \in {"paperaccount", "paperfill"} : BornIn(t) = 13 /\ t \notin Unmigrated
    BY DEF BornIn, Unmigrated, Marketplace, GitTrading, Documents
  <2> QED BY <1>1, <2>1, <2>2, <2>3, RevisionTable
<1>5. RevisionIsSound(14) /\ RevisionIsSound(15) /\ RevisionIsSound(17) /\ RevisionIsSound(18)
  <2>1. \A t \in {"paperautomationrule"} : BornIn(t) = 14 /\ t \notin Unmigrated
    BY DEF BornIn, Unmigrated, Marketplace, GitTrading, Documents
  <2>2. \A t \in {"portfoliogoal"} : BornIn(t) = 15 /\ t \notin Unmigrated
    BY DEF BornIn, Unmigrated, Marketplace, GitTrading, Documents
  <2>3. \A t \in {"activityevent"} : BornIn(t) = 17 /\ t \notin Unmigrated
    BY DEF BornIn, Unmigrated, Marketplace, GitTrading, Documents
  <2>4. \A t \in {"apiconsumerkey"} : BornIn(t) = 18 /\ t \notin Unmigrated
    BY DEF BornIn, Unmigrated, Marketplace, GitTrading, Documents
  <2> QED BY <1>1, <2>1, <2>2, <2>3, <2>4, RevisionTable
<1>6. /\ "risksetting" \in Revisions[3].creates /\ "tradeauditlog" \in Revisions[3].creates
      /\ "tradeorder" \in Revisions[3].creates /\ "equitysnapshot" \in Revisions[3].creates
      /\ "watchlistitem" \in Revisions[12].creates
  BY RevisionTable DEF CreatesOnly
<1>7. ASSUME NEW r \in {4, 5, 6, 8, 16},
             NEW column, NEW t, NEW q \in {3, 12}, q < r, t \in Revisions[q].creates,
             AddsOnly(r, t, {Optional(column)}), AddedIn(column) = r
      PROVE  RevisionIsSound(r)
  <2>1. {Optional(n) : n \in {column}} = {Optional(column)}
    OBVIOUS
  <2>2. AddsOnly(r, t, {Optional(n) : n \in {column}})
    BY <1>7, <2>1
  <2>3. \A n \in {column} : AddedIn(n) = r
    BY <1>7
  <2>4. r \in 1..18 /\ q \in 1..18
    OBVIOUS
  <2> QED BY <1>2, <1>7, <2>2, <2>3, <2>4
<1>8. RevisionIsSound(4) /\ RevisionIsSound(5) /\ RevisionIsSound(6) /\ RevisionIsSound(8) /\ RevisionIsSound(16)
  <2>1. AddedIn("manual_halt") = 4 /\ AddedIn("confidence") = 5 /\ AddedIn("client_order_id") = 6
        /\ AddedIn("auto_halt_tripped_on") = 8 /\ AddedIn("target_price") = 16
    BY DEF AddedIn
  <2>2. AddsOnly(4, "risksetting", {Optional("manual_halt")}) /\ AddsOnly(5, "tradeauditlog", {Optional("confidence")})
        /\ AddsOnly(6, "tradeorder", {Optional("client_order_id")})
        /\ AddsOnly(8, "risksetting", {Optional("auto_halt_tripped_on")})
        /\ AddsOnly(16, "watchlistitem", {Optional("target_price")})
    BY RevisionTable
  <2>3. RevisionIsSound(4)
    BY <1>6, <1>7, <2>1, <2>2
  <2>4. RevisionIsSound(5)
    BY <1>6, <1>7, <2>1, <2>2
  <2>5. RevisionIsSound(6)
    BY <1>6, <1>7, <2>1, <2>2
  <2>6. RevisionIsSound(8)
    BY <1>6, <1>7, <2>1, <2>2
  <2>7. RevisionIsSound(16)
    BY <1>6, <1>7, <2>1, <2>2
  <2> QED BY <2>3, <2>4, <2>5, <2>6, <2>7
<1>9. RevisionIsSound(9)
  BY RevisionTable DEF AddsOnly, RevisionIsSound
<1>10. RevisionIsSound(10)
  <2>1. \A name \in {"stop_loss", "take_profit"} : AddedIn(name) = 10
    BY DEF AddedIn
  <2>2. {Optional(n) : n \in {"stop_loss", "take_profit"}} = {Optional("stop_loss"), Optional("take_profit")}
    OBVIOUS
  <2>3. AddsOnly(10, "tradeorder", {Optional(n) : n \in {"stop_loss", "take_profit"}})
    BY <2>2, RevisionTable
  <2>4. 10 \in 1..18 /\ 3 \in 1..18 /\ 3 < 10
    OBVIOUS
  <2> QED BY <1>2, <1>6, <2>1, <2>3, <2>4
<1>11. RevisionIsSound(11)
  <2> DEFINE names == {"max_daily_trades", "max_position_weight_pct", "require_protective_stop"}
  <2>1. \A name \in names : AddedIn(name) = 11
    BY DEF AddedIn
  <2>2. {Optional(n) : n \in names} = {Optional("max_daily_trades"), Optional("max_position_weight_pct"),
                                       Optional("require_protective_stop")}
    OBVIOUS
  <2>3. AddsOnly(11, "risksetting", {Optional(n) : n \in names})
    BY <2>2, RevisionTable
  <2>4. 11 \in 1..18 /\ 3 \in 1..18 /\ 3 < 11
    OBVIOUS
  <2> HIDE DEF names
  <2> QED BY <1>2, <1>6, <2>1, <2>3, <2>4
<1>12. \A r \in 1..18 : r \in {1, 2, 3, 4, 5, 6, 7, 8, 9, 10, 11, 12, 13, 14, 15, 16, 17, 18}
  OBVIOUS
<1> QED BY <1>3, <1>4, <1>5, <1>8, <1>9, <1>10, <1>11, <1>12, RevisionTable
-----------------------------------------------------------------------------
(* What a release expects, as migrations follow one another.               *)

Migrations == Between(0, 18)
BaseColumn == Column("base", TRUE)

LEMMA BaseIsNeeded == BaseColumn.name = "base" /\ BaseColumn.needed = TRUE
BY DEF BaseColumn, Column

LEMMA BetweenTwo ==
  ASSUME NEW m \in Int, NEW n \in Int, NEW r
  PROVE  r \in Between(m, n) <=> r \in 1..18 /\ m < r /\ r <= n
BY RevisionTable DEF Between

LEMMA InTables ==
  ASSUME NEW n \in 0..18, NEW t
  PROVE  /\ t \in Unmigrated => t \in TablesOf(n)
         /\ t \in TablesOf(n) => t \in Unmigrated \/ \E r \in 1..18 : r <= n /\ t \in Revisions[r].creates
         /\ \A r \in 1..18 : r <= n /\ t \in Revisions[r].creates => t \in TablesOf(n) /\ t \notin Unmigrated
<1>1. \A r : r \in Between(0, n) <=> r \in 1..18 /\ r <= n
  BY BetweenTwo
<1>2. \A r \in 1..18 : t \in Revisions[r].creates => t \notin Unmigrated
  BY RevisionsAreSound, RevisionTable DEF RevisionIsSound
<1>3. t \in TablesOf(n) <=> t \in Unmigrated \/ \E r \in Between(0, n) : t \in Revisions[r].creates
  BY DEF TablesOf
<1> QED BY <1>1, <1>2, <1>3

LEMMA InColumns ==
  ASSUME NEW n \in 0..18, NEW t, NEW c
  PROVE  c \in ColumnsOf(t, n) <=>
           c = BaseColumn \/ \E r \in 1..18 : r <= n /\ Revisions[r].alters = t /\ c \in Revisions[r].adds
<1>1. \A r : r \in Between(0, n) <=> r \in 1..18 /\ r <= n
  BY BetweenTwo
<1>2. c \in ColumnsOf(t, n) <=>
        c = BaseColumn \/ \E r \in Between(0, n) : Revisions[r].alters = t /\ c \in Revisions[r].adds
  BY DEF ColumnsOf, BaseColumn
<1> QED BY <1>1, <1>2

LEMMA ReleasesGrow ==
  ASSUME NEW m \in 0..18, NEW n \in 0..18, m <= n
  PROVE  TablesOf(m) \subseteq TablesOf(n) /\ \A t : ColumnsOf(t, m) \subseteq ColumnsOf(t, n)
<1>1. \A r \in 1..18 : r <= m => r <= n
  OBVIOUS
<1>2. ASSUME NEW t \in TablesOf(m) PROVE t \in TablesOf(n)
  BY <1>1, InTables
<1>3. ASSUME NEW t, NEW c \in ColumnsOf(t, m) PROVE c \in ColumnsOf(t, n)
  BY <1>1, InColumns
<1> QED BY <1>2, <1>3

\* No migration alters a table before it was created, or one that no migration creates.
LEMMA UnalteredBefore ==
  ASSUME NEW n \in 0..18, NEW t, t \in Unmigrated \/ t \notin TablesOf(n)
  PROVE  ColumnsOf(t, n) = {BaseColumn}
<1>1. ASSUME NEW r \in 1..18, r <= n, Revisions[r].alters = t PROVE Revisions[r].adds = {}
  <2> SUFFICES ASSUME Revisions[r].adds # {} PROVE FALSE
    OBVIOUS
  <2>1. PICK q \in 1..18 : q < r /\ t \in Revisions[q].creates
    BY <1>1, RevisionsAreSound, RevisionTable DEF RevisionIsSound
  <2>2. q <= n
    BY <1>1, <2>1
  <2>3. t \in TablesOf(n) /\ t \notin Unmigrated
    BY <2>1, <2>2, InTables
  <2> QED BY <2>3
<1>2. \A c : c \in ColumnsOf(t, n) <=> c = BaseColumn
  BY <1>1, InColumns
<1> QED BY <1>2

LEMMA OnlyBaseNeeded ==
  ASSUME NEW n \in 0..18, NEW t, NEW c \in ColumnsOf(t, n)
  PROVE  c.needed = FALSE \/ c.name = "base"
<1>1. c = BaseColumn \/ \E r \in 1..18 : c \in Revisions[r].adds
  BY InColumns
<1>2. \A r \in 1..18 : c \in Revisions[r].adds => c.needed = FALSE
  BY RevisionsAreSound, RevisionTable DEF RevisionIsSound
<1> QED BY <1>1, <1>2, BaseIsNeeded
-----------------------------------------------------------------------------
SchemaWork == [step : {"upgrade", "init", "create", "serve"}, release : Releases, read : 0..18,
               missing : SUBSET TablesOf(18)]

SchemaTypes ==
  /\ version \in 0..18 /\ duplicates \in BOOLEAN /\ deploys \in 0..MaxDeploys
  /\ instance \in [Instances -> {Down} \union SchemaWork]

\* The tables are those of the present revision, with its columns and none that a row
\* needs beyond; create_all has at most added tables no migration creates.
TablesAreMigrated ==
  /\ DOMAIN tables \subseteq TablesOf(version) /\ TablesOf(version) \ Unmigrated \subseteq DOMAIN tables
  /\ \A t \in DOMAIN tables :
       /\ ColumnsOf(t, version) \subseteq tables[t]
       /\ \A c \in tables[t] : c.needed = FALSE \/ c.name = "base"

\* Whoever runs is of a release the database has reached.
InstanceFits(i) ==
  instance[i] # Down =>
    /\ instance[i].step = "upgrade" => instance[i].read <= instance[i].release
    /\ instance[i].step # "upgrade" => instance[i].release <= version
    /\ instance[i].step = "create" =>
         instance[i].missing \subseteq Unmigrated /\ Unmigrated \subseteq DOMAIN tables \union instance[i].missing
    /\ instance[i].step = "serve" => Unmigrated \subseteq DOMAIN tables

OneOpening == version >= OnePerDay => ~duplicates

SchemaInv == SchemaTypes /\ TablesAreMigrated /\ OneOpening /\ \A i \in Instances : InstanceFits(i)
-----------------------------------------------------------------------------
LEMMA ReleaseRange == ASSUME NEW n \in Releases PROVE n \in 0..18
BY SchemaAssumption

LEMMA InstanceMoves ==
  ASSUME SchemaInv, NEW i \in Instances, NEW w \in {Down} \union SchemaWork,
         instance' = [instance EXCEPT ![i] = w]
  PROVE  /\ instance' \in [Instances -> {Down} \union SchemaWork]
         /\ instance'[i] = w /\ \A j \in Instances : j # i => instance'[j] = instance[j]
BY DEF SchemaInv, SchemaTypes

\* Those that stand by while the revision does not fall and no table goes.
LEMMA OthersFit ==
  ASSUME SchemaInv, NEW j \in Instances, instance'[j] = instance[j],
         version' \in 0..18, version <= version', DOMAIN tables \subseteq DOMAIN tables'
  PROVE  InstanceFits(j)'
<1>1. instance[j] # Down => instance[j] \in SchemaWork
  BY DEF SchemaInv, SchemaTypes
<1>2. instance[j] # Down => instance[j].release \in 0..18
  BY <1>1, ReleaseRange DEF SchemaWork
<1>3. version \in 0..18 /\ InstanceFits(j)
  BY DEF SchemaInv, SchemaTypes
<1>4. instance[j] # Down /\ instance[j].step # "upgrade" => instance[j].release <= version'
  BY <1>2, <1>3 DEF InstanceFits
<1> QED BY <1>3, <1>4 DEF InstanceFits

LEMMA SchemaQuietStep ==
  ASSUME SchemaInv, UNCHANGED <<version, tables, duplicates>>, deploys' \in 0..MaxDeploys,
         NEW i \in Instances, NEW w \in {Down} \union SchemaWork, instance' = [instance EXCEPT ![i] = w],
         InstanceFits(i)'
  PROVE  SchemaInv'
<1>1. /\ instance' \in [Instances -> {Down} \union SchemaWork]
      /\ \A j \in Instances : j # i => instance'[j] = instance[j]
  BY InstanceMoves
<1>2. SchemaTypes' /\ TablesAreMigrated' /\ OneOpening'
  BY <1>1 DEF SchemaInv, SchemaTypes, TablesAreMigrated, OneOpening
<1>3. ASSUME NEW j \in Instances PROVE InstanceFits(j)'
  <2>1. version' \in 0..18 /\ version <= version'
    BY DEF SchemaInv, SchemaTypes
  <2> QED BY <1>1, <2>1, OthersFit
<1> QED BY <1>2, <1>3 DEF SchemaInv

LEMMA UpgradeBeginKeeps ==
  ASSUME SchemaInv, NEW i \in Instances, NEW n \in Releases, UpgradeBegin(i, n)
  PROVE  SchemaInv'
<1> DEFINE w == [step |-> "upgrade", release |-> n, read |-> version, missing |-> {}]
<1>1. /\ deploys < MaxDeploys /\ version <= n /\ deploys' = deploys + 1 /\ instance' = [instance EXCEPT ![i] = w]
      /\ UNCHANGED <<version, tables, duplicates>>
  BY DEF UpgradeBegin
<1>2. w \in SchemaWork
  BY DEF SchemaWork, SchemaInv, SchemaTypes
<1>3. w.step = "upgrade" /\ w.read = version /\ w.release = n
  OBVIOUS
<1> HIDE DEF w
<1>4. deploys' \in 0..MaxDeploys
  BY <1>1, SchemaAssumption DEF SchemaInv, SchemaTypes
<1>5. instance'[i] = w
  BY <1>1, <1>2, InstanceMoves
<1>6. InstanceFits(i)'
  BY <1>1, <1>3, <1>5 DEF InstanceFits
<1> QED BY <1>1, <1>2, <1>4, <1>6, SchemaQuietStep

LEMMA MigratedColumns ==
  ASSUME SchemaInv, NEW n \in 0..18, version <= n, NEW t \in DOMAIN Migrated(version, n)
  PROVE  /\ ColumnsOf(t, n) \subseteq Migrated(version, n)[t]
         /\ \A c \in Migrated(version, n)[t] : c.needed = FALSE \/ c.name = "base"
<1> DEFINE m == version
           added == UNION {Revisions[r].adds : r \in {q \in Between(m, n) : Revisions[q].alters = t}}
           old == IF t \in DOMAIN tables THEN tables[t] ELSE {BaseColumn}
<1>1. m \in 0..18 /\ m \in Int /\ n \in Int
  BY DEF SchemaInv, SchemaTypes
<1>2. /\ DOMAIN Migrated(m, n) = DOMAIN tables \union (TablesOf(n) \ (TablesOf(m) \union Unmigrated))
      /\ Migrated(m, n)[t] = old \union added
  BY DEF Migrated, BaseColumn
<1>3. \A r : r \in Between(m, n) <=> r \in 1..18 /\ m < r /\ r <= n
  BY <1>1, BetweenTwo
<1>4. \A c : c \in added <=> \E r \in 1..18 : m < r /\ r <= n /\ Revisions[r].alters = t /\ c \in Revisions[r].adds
  BY <1>3
<1> HIDE DEF added
<1>5. ColumnsOf(t, m) \subseteq old
  <2>1. CASE t \in DOMAIN tables
    BY <2>1 DEF SchemaInv, TablesAreMigrated
  <2>2. CASE t \notin DOMAIN tables
    <3>1. t \notin TablesOf(m)
      BY <1>2, <2>2
    <3> QED BY <1>1, <2>2, <3>1, UnalteredBefore
  <2> QED BY <2>1, <2>2
<1>6. ASSUME NEW c \in ColumnsOf(t, n) PROVE c \in old \union added
  <2>1. CASE c = BaseColumn
    <3>1. c \in ColumnsOf(t, m)
      BY <1>1, <2>1, InColumns
    <3> QED BY <1>5, <3>1
  <2>2. CASE c # BaseColumn
    <3>1. PICK r \in 1..18 : r <= n /\ Revisions[r].alters = t /\ c \in Revisions[r].adds
      BY <1>6, <2>2, InColumns
    <3>2. CASE r <= m
      <4>1. c \in ColumnsOf(t, m)
        BY <1>1, <3>1, <3>2, InColumns
      <4> QED BY <1>5, <4>1
    <3>3. CASE m < r
      BY <1>4, <3>1, <3>3
    <3> QED BY <1>1, <3>2, <3>3
  <2> QED BY <2>1, <2>2
<1>7. ASSUME NEW c \in old \union added PROVE c.needed = FALSE \/ c.name = "base"
  <2>1. CASE c \in added
    BY <1>4, <2>1, RevisionsAreSound, RevisionTable DEF RevisionIsSound
  <2>2. CASE c \in old /\ t \in DOMAIN tables
    BY <2>2 DEF SchemaInv, TablesAreMigrated
  <2>3. CASE c \in old /\ t \notin DOMAIN tables
    BY <2>3, BaseIsNeeded
  <2> QED BY <1>7, <2>1, <2>2, <2>3
<1> QED BY <1>2, <1>6, <1>7

LEMMA UpgradeCommitKeeps ==
  ASSUME SchemaInv, NEW i \in Instances, UpgradeCommit(i)
  PROVE  SchemaInv'
<1> DEFINE n == instance[i].release
           m == instance[i].read
<1>1. At(i, "upgrade") /\ UNCHANGED <<duplicates, deploys>>
  BY DEF UpgradeCommit
<1>2. instance[i] \in SchemaWork /\ n \in Releases /\ n \in 0..18 /\ m \in 0..18 /\ m <= n
  <2>1. instance[i] \in SchemaWork
    BY <1>1 DEF At, SchemaInv, SchemaTypes
  <2> QED BY <1>1, <2>1, ReleaseRange DEF At, SchemaWork, SchemaInv, InstanceFits
<1>3. CASE version = m /\ Applicable(m, n)
  <2> DEFINE w == [instance[i] EXCEPT !.step = "init"]
  <2>1. version' = n /\ tables' = Migrated(version, n) /\ instance' = [instance EXCEPT ![i] = w]
    BY <1>3 DEF UpgradeCommit, Becomes, SchemaInv, SchemaTypes
  <2>2. w \in SchemaWork /\ w.step = "init" /\ w.release = n
    BY <1>2 DEF SchemaWork
  <2> HIDE DEF w
  <2>3. /\ instance' \in [Instances -> {Down} \union SchemaWork] /\ instance'[i] = w
        /\ \A j \in Instances : j # i => instance'[j] = instance[j]
    BY <2>1, <2>2, InstanceMoves
  <2>4. SchemaTypes'
    BY <1>1, <1>2, <2>1, <2>3 DEF SchemaInv, SchemaTypes
  <2>5. DOMAIN tables' = DOMAIN tables \union (TablesOf(n) \ (TablesOf(version) \union Unmigrated))
    BY <2>1 DEF Migrated
  <2>6. TablesAreMigrated'
    <3>1. version \in 0..18 /\ version <= n
      BY <1>2, <1>3
    <3>2. DOMAIN tables \subseteq TablesOf(version) /\ TablesOf(version) \ Unmigrated \subseteq DOMAIN tables
      BY DEF SchemaInv, TablesAreMigrated
    <3>3. TablesOf(version) \subseteq TablesOf(n)
      BY <1>2, <3>1, ReleasesGrow
    <3>4. DOMAIN tables' \subseteq TablesOf(version') /\ TablesOf(version') \ Unmigrated \subseteq DOMAIN tables'
      BY <2>1, <2>5, <3>2, <3>3
    <3>5. \A t \in DOMAIN tables' : /\ ColumnsOf(t, version') \subseteq tables'[t]
                                    /\ \A c \in tables'[t] : c.needed = FALSE \/ c.name = "base"
      BY <1>2, <2>1, <3>1, MigratedColumns
    <3> QED BY <3>4, <3>5 DEF TablesAreMigrated
  <2>7. OneOpening'
    <3> SUFFICES ASSUME version' >= OnePerDay PROVE ~duplicates
      BY <1>1 DEF OneOpening
    <3>1. CASE version >= OnePerDay
      BY <3>1 DEF SchemaInv, OneOpening
    <3>2. CASE ~(version >= OnePerDay)
      <4>1. OnePerDay \in Between(m, n)
        BY <1>2, <1>3, <2>1, <3>2, BetweenTwo DEF OnePerDay
      <4> QED BY <1>3, <4>1 DEF Applicable
    <3> QED BY <3>1, <3>2
  <2>8. ASSUME NEW j \in Instances PROVE InstanceFits(j)'
    <3>1. CASE j = i
      <4>1. n <= n
        BY <1>2
      <4> QED BY <2>1, <2>2, <2>3, <3>1, <4>1 DEF InstanceFits
    <3>2. CASE j # i
      <4>1. version' \in 0..18 /\ version <= version' /\ DOMAIN tables \subseteq DOMAIN tables'
        BY <1>2, <1>3, <2>1, <2>5
      <4> QED BY <2>3, <3>2, <4>1, OthersFit
    <3> QED BY <3>1, <3>2
  <2> QED BY <2>4, <2>6, <2>7, <2>8 DEF SchemaInv
<1>4. CASE ~(version = m /\ Applicable(m, n))
  <2>1. instance' = [instance EXCEPT ![i] = Down] /\ UNCHANGED <<version, tables>>
    BY <1>4 DEF UpgradeCommit
  <2>2. instance'[i] = Down
    BY <2>1, InstanceMoves
  <2>3. InstanceFits(i)' /\ deploys' \in 0..MaxDeploys
    BY <1>1, <2>2 DEF InstanceFits, SchemaInv, SchemaTypes
  <2> QED BY <1>1, <2>1, <2>3, SchemaQuietStep
<1> QED BY <1>3, <1>4

LEMMA CreateAllBeginKeeps ==
  ASSUME SchemaInv, NEW i \in Instances, CreateAllBegin(i)
  PROVE  SchemaInv'
<1> DEFINE n == instance[i].release
           missing == TablesOf(n) \ DOMAIN tables
           w == [instance[i] EXCEPT !.step = "create", !.missing = missing]
<1>1. At(i, "init") /\ instance' = [instance EXCEPT ![i] = w] /\ UNCHANGED <<version, tables, duplicates, deploys>>
  BY DEF CreateAllBegin, SchemaInv, SchemaTypes
<1>2. instance[i] \in SchemaWork /\ n \in 0..18 /\ n <= version /\ version \in 0..18
  <2>1. instance[i] \in SchemaWork
    BY <1>1 DEF At, SchemaInv, SchemaTypes
  <2> QED BY <1>1, <2>1, ReleaseRange DEF At, SchemaWork, SchemaInv, SchemaTypes, InstanceFits
<1>3. TablesOf(n) \subseteq TablesOf(version) /\ TablesOf(n) \subseteq TablesOf(18) /\ Unmigrated \subseteq TablesOf(n)
  <2>1. 18 \in 0..18 /\ n <= 18
    BY <1>2
  <2> QED BY <1>2, <2>1, ReleasesGrow, InTables
<1>4. missing \subseteq Unmigrated /\ Unmigrated \subseteq DOMAIN tables \union missing
  BY <1>3 DEF SchemaInv, TablesAreMigrated
<1>5. missing \subseteq TablesOf(18)
  BY <1>3
<1> HIDE DEF missing
<1>6. w \in SchemaWork /\ w.step = "create" /\ w.missing = missing /\ w.release = n
  BY <1>2, <1>5 DEF SchemaWork
<1> HIDE DEF w
<1>7. instance'[i] = w
  BY <1>1, <1>6, InstanceMoves
<1>8. InstanceFits(i)' /\ deploys' \in 0..MaxDeploys
  BY <1>1, <1>2, <1>4, <1>6, <1>7 DEF InstanceFits, SchemaInv, SchemaTypes
<1> QED BY <1>1, <1>6, <1>8, SchemaQuietStep

LEMMA CreateAllCommitKeeps ==
  ASSUME SchemaInv, NEW i \in Instances, CreateAllCommit(i)
  PROVE  SchemaInv'
<1> DEFINE n == instance[i].release
           missing == instance[i].missing
<1>1. At(i, "create") /\ UNCHANGED <<version, duplicates, deploys>>
  BY DEF CreateAllCommit
<1>2. /\ instance[i] \in SchemaWork /\ n \in 0..18 /\ n <= version /\ version \in 0..18
      /\ missing \subseteq Unmigrated /\ Unmigrated \subseteq DOMAIN tables \union missing
  <2>1. instance[i] \in SchemaWork
    BY <1>1 DEF At, SchemaInv, SchemaTypes
  <2> QED BY <1>1, <2>1, ReleaseRange DEF At, SchemaWork, SchemaInv, SchemaTypes, InstanceFits
<1>3. CASE missing \intersect DOMAIN tables = {}
  <2> DEFINE w == [instance[i] EXCEPT !.step = "serve"]
  <2>1. /\ instance' = [instance EXCEPT ![i] = w]
        /\ tables' = [t \in DOMAIN tables \union missing |->
                        IF t \in missing THEN ColumnsOf(t, n) ELSE tables[t]]
    BY <1>3 DEF CreateAllCommit, Becomes, SchemaInv, SchemaTypes
  <2>2. w \in SchemaWork /\ w.step = "serve" /\ w.release = n
    BY <1>2 DEF SchemaWork
  <2> HIDE DEF w
  <2>3. /\ instance' \in [Instances -> {Down} \union SchemaWork] /\ instance'[i] = w
        /\ \A j \in Instances : j # i => instance'[j] = instance[j]
    BY <2>1, <2>2, InstanceMoves
  <2>4. /\ DOMAIN tables' = DOMAIN tables \union missing
        /\ \A t \in missing : tables'[t] = ColumnsOf(t, n)
        /\ \A t \in DOMAIN tables : tables'[t] = tables[t]
    BY <1>3, <2>1
  <2>5. SchemaTypes' /\ OneOpening'
    BY <1>1, <2>3 DEF SchemaInv, SchemaTypes, OneOpening
  <2>6. TablesAreMigrated'
    <3>1. Unmigrated \subseteq TablesOf(version)
      BY <1>2, InTables
    <3>2. DOMAIN tables' \subseteq TablesOf(version) /\ TablesOf(version) \ Unmigrated \subseteq DOMAIN tables'
      BY <1>2, <2>4, <3>1 DEF SchemaInv, TablesAreMigrated
    <3>3. ASSUME NEW t \in missing
          PROVE  tables'[t] = ColumnsOf(t, version) /\ \A c \in tables'[t] : c.needed = FALSE \/ c.name = "base"
      <4>1. t \in Unmigrated
        BY <1>2
      <4>2. ColumnsOf(t, n) = {BaseColumn} /\ ColumnsOf(t, version) = {BaseColumn}
        BY <1>2, <4>1, UnalteredBefore
      <4> QED BY <2>4, <4>2, BaseIsNeeded
    <3>4. ASSUME NEW t \in DOMAIN tables
          PROVE  /\ ColumnsOf(t, version) \subseteq tables'[t]
                 /\ \A c \in tables'[t] : c.needed = FALSE \/ c.name = "base"
      BY <2>4 DEF SchemaInv, TablesAreMigrated
    <3> QED BY <1>1, <2>4, <3>2, <3>3, <3>4 DEF TablesAreMigrated
  <2>7. ASSUME NEW j \in Instances PROVE InstanceFits(j)'
    <3>1. CASE j = i
      BY <1>1, <1>2, <2>2, <2>3, <2>4, <3>1 DEF InstanceFits
    <3>2. CASE j # i
      <4>1. version' \in 0..18 /\ version <= version' /\ DOMAIN tables \subseteq DOMAIN tables'
        BY <1>1, <1>2, <2>4
      <4> QED BY <2>3, <3>2, <4>1, OthersFit
    <3> QED BY <3>1, <3>2
  <2> QED BY <2>5, <2>6, <2>7 DEF SchemaInv
<1>4. CASE missing \intersect DOMAIN tables # {}
  <2> DEFINE w == [instance[i] EXCEPT !.step = "init"]
  <2>1. instance' = [instance EXCEPT ![i] = w] /\ UNCHANGED tables
    BY <1>4 DEF CreateAllCommit, Becomes, SchemaInv, SchemaTypes
  <2>2. w \in SchemaWork /\ w.step = "init" /\ w.release = n
    BY <1>2 DEF SchemaWork
  <2> HIDE DEF w
  <2>3. instance'[i] = w
    BY <2>1, <2>2, InstanceMoves
  <2>4. InstanceFits(i)' /\ deploys' \in 0..MaxDeploys
    BY <1>1, <1>2, <2>2, <2>3 DEF InstanceFits, SchemaInv, SchemaTypes
  <2> QED BY <1>1, <2>1, <2>2, <2>4, SchemaQuietStep
<1> QED BY <1>3, <1>4

LEMMA StopKeeps ==
  ASSUME SchemaInv, NEW i \in Instances, Stop(i)
  PROVE  SchemaInv'
<1>1. instance' = [instance EXCEPT ![i] = Down] /\ UNCHANGED <<version, tables, duplicates, deploys>>
  BY DEF Stop
<1>2. instance'[i] = Down
  BY <1>1, InstanceMoves
<1>3. InstanceFits(i)' /\ deploys' \in 0..MaxDeploys
  BY <1>1, <1>2 DEF InstanceFits, SchemaInv, SchemaTypes
<1> QED BY <1>1, <1>3, SchemaQuietStep

LEMMA DuplicateOpeningKeeps ==
  ASSUME SchemaInv, NEW i \in Instances, DuplicateOpening(i)
  PROVE  SchemaInv'
<1>1. version < OnePerDay /\ duplicates' = TRUE /\ UNCHANGED <<version, tables, instance, deploys>>
  BY DEF DuplicateOpening
<1>2. version \in 0..18
  BY DEF SchemaInv, SchemaTypes
<1>3. OneOpening'
  BY <1>1, <1>2 DEF OneOpening, OnePerDay
<1> QED BY <1>1, <1>3 DEF SchemaInv, SchemaTypes, TablesAreMigrated, InstanceFits

LEMMA DeduplicateKeeps ==
  ASSUME SchemaInv, Deduplicate
  PROVE  SchemaInv'
BY DEF Deduplicate, SchemaInv, SchemaTypes, TablesAreMigrated, OneOpening, InstanceFits

LEMMA BaseIsNotAdded == \A r \in 1..18 : BaseColumn \notin Revisions[r].adds
<1>1. AddedIn("base") = 0
  BY DEF AddedIn
<1>2. \A r \in 1..18 : \A c \in Revisions[r].adds : AddedIn(c.name) = r
  BY RevisionsAreSound, RevisionTable DEF RevisionIsSound
<1> QED BY <1>1, <1>2, BaseIsNeeded

\* The release before lacks the tables and the columns of the last migration, and no others.
LEMMA ReleaseBefore ==
  ASSUME NEW v \in 1..18
  PROVE  /\ TablesOf(v - 1) = TablesOf(v) \ Revisions[v].creates
         /\ \A t : ColumnsOf(t, v - 1) \subseteq ColumnsOf(t, v) \ Revisions[v].adds
<1>1. v - 1 \in 0..18 /\ v \in 0..18 /\ v - 1 <= v /\ \A r \in 1..18 : r <= v <=> r <= v - 1 \/ r = v
  OBVIOUS
<1>2. /\ \A r \in 1..18 : \A t \in Revisions[r].creates : BornIn(t) = r /\ t \notin Unmigrated
      /\ \A r \in 1..18 : \A c \in Revisions[r].adds : AddedIn(c.name) = r
  BY RevisionsAreSound, RevisionTable DEF RevisionIsSound
<1>3. ASSUME NEW t \in TablesOf(v), t \notin Revisions[v].creates PROVE t \in TablesOf(v - 1)
  <2>1. CASE t \in Unmigrated
    BY <1>1, <2>1, InTables
  <2>2. CASE t \notin Unmigrated
    <3>1. PICK r \in 1..18 : r <= v /\ t \in Revisions[r].creates
      BY <1>1, <2>2, InTables
    <3>2. r <= v - 1
      BY <1>1, <1>3, <3>1
    <3> QED BY <1>1, <3>1, <3>2, InTables
  <2> QED BY <2>1, <2>2
<1>4. ASSUME NEW t \in TablesOf(v - 1) PROVE t \in TablesOf(v) /\ t \notin Revisions[v].creates
  <2>1. t \in TablesOf(v)
    BY <1>1, ReleasesGrow
  <2>2. t \in Unmigrated \/ \E r \in 1..18 : r <= v - 1 /\ t \in Revisions[r].creates
    BY <1>1, InTables
  <2>3. \A r \in 1..18 : r <= v - 1 => r # v
    OBVIOUS
  <2> QED BY <1>2, <2>1, <2>2, <2>3
<1>5. ASSUME NEW t, NEW c \in ColumnsOf(t, v - 1) PROVE c \in ColumnsOf(t, v) /\ c \notin Revisions[v].adds
  <2>1. c \in ColumnsOf(t, v)
    BY <1>1, ReleasesGrow
  <2>2. c = BaseColumn \/ \E r \in 1..18 : r <= v - 1 /\ c \in Revisions[r].adds
    BY <1>1, InColumns
  <2>3. \A r \in 1..18 : r <= v - 1 => r # v
    OBVIOUS
  <2> QED BY <1>2, <2>1, <2>2, <2>3, BaseIsNotAdded
<1> QED BY <1>3, <1>4, <1>5

LEMMA DowngradeKeeps ==
  ASSUME SchemaInv, Downgrade
  PROVE  SchemaInv'
<1> DEFINE last == Revisions[version]
<1>1. /\ version > 0 /\ version' = version - 1 /\ UNCHANGED <<instance, deploys>>
      /\ \A i \in Instances : instance[i] # Down => instance[i].release < version
      /\ tables' = [t \in DOMAIN tables \ last.creates |->
                      IF t = last.alters THEN tables[t] \ last.adds ELSE tables[t]]
      /\ duplicates' = (duplicates /\ "equitysnapshot" \in DOMAIN tables')
  BY DEF Downgrade
<1>2. version \in 1..18 /\ version' \in 0..18
  BY <1>1 DEF SchemaInv, SchemaTypes
<1>3. \A t \in last.creates : t \notin Unmigrated
  BY <1>2, RevisionsAreSound, RevisionTable DEF RevisionIsSound
<1>4. /\ DOMAIN tables' = DOMAIN tables \ last.creates
      /\ \A t \in DOMAIN tables' : tables[t] \ last.adds \subseteq tables'[t] /\ tables'[t] \subseteq tables[t]
  BY <1>1
<1>5. /\ TablesOf(version') = TablesOf(version) \ last.creates
      /\ \A t : ColumnsOf(t, version') \subseteq ColumnsOf(t, version) \ last.adds
  BY <1>1, <1>2, ReleaseBefore
<1> HIDE DEF last
<1>6. SchemaTypes'
  BY <1>1, <1>2 DEF SchemaInv, SchemaTypes
<1>7. TablesAreMigrated'
  <2>1. DOMAIN tables' \subseteq TablesOf(version') /\ TablesOf(version') \ Unmigrated \subseteq DOMAIN tables'
    BY <1>4, <1>5 DEF SchemaInv, TablesAreMigrated
  <2>2. ASSUME NEW t \in DOMAIN tables'
        PROVE  ColumnsOf(t, version') \subseteq tables'[t] /\ \A c \in tables'[t] : c.needed = FALSE \/ c.name = "base"
    <3>1. t \in DOMAIN tables /\ tables[t] \ last.adds \subseteq tables'[t] /\ tables'[t] \subseteq tables[t]
      BY <1>4
    <3>2. ColumnsOf(t, version) \subseteq tables[t] /\ \A c \in tables[t] : c.needed = FALSE \/ c.name = "base"
      BY <3>1 DEF SchemaInv, TablesAreMigrated
    <3>3. ColumnsOf(t, version') \subseteq ColumnsOf(t, version) \ last.adds
      BY <1>5
    <3> QED BY <3>1, <3>2, <3>3
  <2> QED BY <2>1, <2>2 DEF TablesAreMigrated
<1>8. OneOpening'
  <2>1. version' >= OnePerDay => version >= OnePerDay
    BY <1>1, <1>2 DEF OnePerDay
  <2>2. duplicates' => duplicates
    BY <1>1
  <2> QED BY <2>1, <2>2 DEF SchemaInv, OneOpening, OnePerDay
<1>9. ASSUME NEW j \in Instances PROVE InstanceFits(j)'
  <2> SUFFICES ASSUME instance[j] # Down PROVE InstanceFits(j)'
    BY <1>1 DEF InstanceFits
  <2>1. instance[j] \in SchemaWork /\ instance[j].release \in 0..18 /\ instance[j].release < version
    <3>1. instance[j] \in SchemaWork
      BY DEF SchemaInv, SchemaTypes
    <3> QED BY <1>1, <3>1, ReleaseRange DEF SchemaWork
  <2>2. instance'[j] = instance[j] /\ instance[j].release <= version'
    BY <1>1, <1>2, <2>1
  <2>3. ASSUME NEW more, Unmigrated \subseteq DOMAIN tables \union more
        PROVE  Unmigrated \subseteq DOMAIN tables' \union more
    BY <1>3, <1>4, <2>3
  <2>4. Unmigrated \subseteq DOMAIN tables => Unmigrated \subseteq DOMAIN tables'
    BY <1>3, <1>4
  <2>5. InstanceFits(j)
    BY DEF SchemaInv
  <2> QED BY <2>2, <2>3, <2>4, <2>5 DEF InstanceFits
<1> QED BY <1>6, <1>7, <1>8, <1>9 DEF SchemaInv

LEMMA SchemaInitHolds == ASSUME SchemaInit PROVE SchemaInv
<1>1. version = 0 /\ DOMAIN tables = {} /\ duplicates = FALSE /\ deploys = 0 /\ instance = [i \in Instances |-> Down]
  BY DEF SchemaInit
<1>2. \A t : t \in TablesOf(0) => t \in Unmigrated
  <2>1. 0 \in 0..18 /\ \A r \in 1..18 : ~(r <= 0)
    OBVIOUS
  <2>2. \A t : t \in TablesOf(0) => t \in Unmigrated \/ \E r \in 1..18 : r <= 0 /\ t \in Revisions[r].creates
    BY <2>1, InTables
  <2> QED BY <2>1, <2>2
<1>3. SchemaTypes
  <2>1. 0 \in 0..18 /\ 0 \in 0..MaxDeploys
    BY SchemaAssumption
  <2> QED BY <1>1, <2>1 DEF SchemaTypes
<1>4. TablesAreMigrated
  BY <1>1, <1>2 DEF TablesAreMigrated
<1>5. OneOpening /\ \A i \in Instances : InstanceFits(i)
  BY <1>1 DEF OneOpening, InstanceFits, OnePerDay
<1> QED BY <1>3, <1>4, <1>5 DEF SchemaInv

LEMMA SchemaInductive == ASSUME SchemaInv, [SchemaNext]_schemaVars PROVE SchemaInv'
<1>1. CASE UNCHANGED schemaVars
  BY <1>1 DEF schemaVars, SchemaInv, SchemaTypes, TablesAreMigrated, OneOpening, InstanceFits
<1>2. CASE Downgrade
  BY <1>2, DowngradeKeeps
<1>3. CASE Deduplicate
  BY <1>3, DeduplicateKeeps
<1>4. ASSUME NEW i \in Instances, NEW n \in Releases, UpgradeBegin(i, n) PROVE SchemaInv'
  BY <1>4, UpgradeBeginKeeps
<1>5. ASSUME NEW i \in Instances,
             \/ UpgradeCommit(i) \/ CreateAllBegin(i) \/ CreateAllCommit(i) \/ DuplicateOpening(i) \/ Stop(i)
      PROVE  SchemaInv'
  BY <1>5, UpgradeCommitKeeps, CreateAllBeginKeeps, CreateAllCommitKeeps, DuplicateOpeningKeeps, StopKeeps
<1> QED BY <1>1, <1>2, <1>3, <1>4, <1>5 DEF SchemaNext

LEMMA SchemaInvariance == SchemaSpec => []SchemaInv
<1> QED BY SchemaInitHolds, SchemaInductive, PTL DEF SchemaSpec

\* The database is at a revision that exists, with tables of the models only, whatever
\* instances upgrade, create tables, stop and are rolled back.
THEOREM SchemaTypeCorrect == SchemaSpec => []SchemaTypeOK
<1>1. SchemaInv => SchemaTypeOK
  <2> SUFFICES ASSUME SchemaInv PROVE SchemaTypeOK
    OBVIOUS
  <2>1. version \in 0..18 /\ 18 \in 0..18 /\ version <= 18
    BY DEF SchemaInv, SchemaTypes
  <2>2. DOMAIN tables \subseteq TablesOf(18)
    BY <2>1, ReleasesGrow DEF SchemaInv, TablesAreMigrated
  <2> QED BY <2>2 DEF SchemaInv, SchemaTypes, SchemaTypeOK, SchemaWork
<1> QED BY <1>1, SchemaInvariance, PTL

LEMMA NamesOf == ASSUME NEW C, NEW D, C \subseteq D PROVE Names(C) \subseteq Names(D)
BY DEF Names

\* An instance that serves finds the tables and columns of its models, and gives every
\* column a row needs, however many migrations of later releases have run and whatever
\* create_all did around it; one that counts on one opening per day has at most one.
THEOREM ServingFits == SchemaSpec => []ServingFitsSchema
<1>1. SchemaInv => ServingFitsSchema
  <2> SUFFICES ASSUME SchemaInv, NEW i \in Instances, At(i, "serve")
               PROVE  LET n == instance[i].release IN
                      /\ \A t \in TablesOf(n) :
                           /\ t \in DOMAIN tables
                           /\ Writes(t, n) \subseteq Names(tables[t])
                           /\ Names({c \in tables[t] : c.needed}) \subseteq Writes(t, n)
                      /\ n >= OnePerDay => ~duplicates
    BY DEF ServingFitsSchema
  <2> DEFINE n == instance[i].release
  <2>1. instance[i] \in SchemaWork /\ instance[i].step = "serve" /\ instance[i] # Down
    BY DEF At, SchemaInv, SchemaTypes
  <2>2. n \in 0..18 /\ version \in 0..18 /\ n <= version /\ Unmigrated \subseteq DOMAIN tables
    BY <2>1, ReleaseRange DEF SchemaWork, SchemaInv, SchemaTypes, InstanceFits
  <2> HIDE DEF n
  <2>3. ASSUME NEW t \in TablesOf(n)
        PROVE  /\ t \in DOMAIN tables /\ Writes(t, n) \subseteq Names(tables[t])
               /\ Names({c \in tables[t] : c.needed}) \subseteq Writes(t, n)
    <3>1. t \in DOMAIN tables
      BY <2>2, ReleasesGrow DEF SchemaInv, TablesAreMigrated
    <3>2. ColumnsOf(t, version) \subseteq tables[t] /\ \A c \in tables[t] : c.needed = FALSE \/ c.name = "base"
      BY <3>1 DEF SchemaInv, TablesAreMigrated
    <3>3. ColumnsOf(t, n) \subseteq tables[t]
      BY <2>2, <3>2, ReleasesGrow
    <3>4. BaseColumn \in ColumnsOf(t, n)
      BY <2>2, InColumns
    <3>5. ASSUME NEW name \in Names({c \in tables[t] : c.needed}) PROVE name \in Writes(t, n)
      <4>1. PICK c \in tables[t] : c.needed /\ name = c.name
        BY DEF Names
      <4>2. name = BaseColumn.name
        BY <3>2, <4>1, BaseIsNeeded
      <4> QED BY <3>4, <4>2 DEF Names, Writes
    <3> QED BY <3>1, <3>3, <3>5, NamesOf DEF Writes
  <2>4. n >= OnePerDay => ~duplicates
    BY <2>2 DEF SchemaInv, OneOpening, OnePerDay
  <2> QED BY <2>3, <2>4 DEF n
<1> QED BY <1>1, SchemaInvariance, PTL
-----------------------------------------------------------------------------
(* Ledger.                                                                 *)

Lot == [quantity : Nat \ {0}, cost : Nat, acquired : 1..MaxTx]
Piece == [gain : Int, year : Years, term : {"short", "long"}]
Drawing == [left : Nat, lots : Seq(Lot), realized : Seq(Piece)]
TaxState == [lots : Seq(Lot), realized : Seq(Piece), failed : BOOLEAN]

\* What was realised over all years and both terms.
Gains(realized) ==
  SumFunction([y \in Years |-> GainOf(realized, y, "short") + GainOf(realized, y, "long")])

LEMMA TransactionIs ==
  ASSUME NEW tx \in Transaction
  PROVE  /\ tx.quantity \in Nat \ {0} /\ tx.price \in Nat \ {0} /\ tx.at \in 1..MaxTx /\ tx.action \in {"BUY", "SELL"}
         /\ Year(tx) \in Years
BY LedgerAssumption DEF Transaction, Year, Years

LEMMA YearsAreFinite == IsFiniteSet(Years)
<1>1. IsFiniteSet(1..MaxTx)
  BY LedgerAssumption, FS_Interval
<1> DEFINE f == [i \in 1..MaxTx |-> Day[i] \div 365]
<1>2. IsFiniteSet({f[i] : i \in 1..MaxTx})
  <2>1. DOMAIN f = 1..MaxTx /\ f = [i \in 1..MaxTx |-> f[i]]
    OBVIOUS
  <2> HIDE DEF f
  <2> QED BY <1>1, <2>1, ImageIsFinite
<1>3. {f[i] : i \in 1..MaxTx} = Years
  BY DEF Years
<1> QED BY <1>2, <1>3

\* A lot more, wherever it is put.
LEMMA LotsOfMore ==
  ASSUME NEW lots \in Seq(Lot), NEW lot \in Lot
  PROVE  /\ Quantity(lots) \in Int /\ CostOf(lots) \in Int
         /\ Quantity(Append(lots, lot)) = Quantity(lots) + lot.quantity
         /\ CostOf(Append(lots, lot)) = CostOf(lots) + lot.quantity * lot.cost
<1> DEFINE n == Len(lots)
           more == Append(lots, lot)
           f == [i \in DOMAIN lots |-> lots[i].quantity]
           g == [i \in DOMAIN more |-> more[i].quantity]
           fc == [i \in DOMAIN lots |-> lots[i].quantity * lots[i].cost]
           gc == [i \in DOMAIN more |-> more[i].quantity * more[i].cost]
<1>1. /\ n \in Nat /\ DOMAIN lots = 1..n /\ DOMAIN more = 1..(n + 1)
      /\ (\A i \in 1..n : lots[i] \in Lot /\ more[i] = lots[i]) /\ more[n + 1] = lot
  OBVIOUS
<1>2. \A l \in Lot : l.quantity \in Int /\ l.cost \in Int /\ l.quantity * l.cost \in Int
  BY DEF Lot
<1> HIDE DEF n, more
<1>3. Longer(f, g, n) /\ Longer(fc, gc, n) /\ g[n + 1] = lot.quantity /\ gc[n + 1] = lot.quantity * lot.cost
  <2>1. n + 1 \in 1..(n + 1) /\ \A i \in 1..n : i \in 1..(n + 1)
    BY <1>1
  <2> QED BY <1>1, <1>2, <2>1 DEF Longer
<1>4. Quantity(lots) = SumFunction(f) /\ Quantity(more) = SumFunction(g) /\ CostOf(lots) = SumFunction(fc) /\ CostOf(more) = SumFunction(gc)
  BY DEF Quantity, CostOf
<1> HIDE DEF f, g, fc, gc
<1>5. SumFunction(f) \in Int /\ SumFunction(g) = SumFunction(f) + g[n + 1]
  BY <1>1, <1>3, SumOfLonger
<1>6. SumFunction(fc) \in Int /\ SumFunction(gc) = SumFunction(fc) + gc[n + 1]
  BY <1>1, <1>3, SumOfLonger
<1> QED BY <1>3, <1>4, <1>5, <1>6 DEF more

LEMMA LotsOfFirst ==
  ASSUME NEW lots \in Seq(Lot), NEW lot \in Lot
  PROVE  /\ <<lot>> \o lots \in Seq(Lot)
         /\ Quantity(<<lot>> \o lots) = Quantity(lots) + lot.quantity
         /\ CostOf(<<lot>> \o lots) = CostOf(lots) + lot.quantity * lot.cost
<1> DEFINE n == Len(lots)
           more == <<lot>> \o lots
           f == [i \in DOMAIN lots |-> lots[i].quantity]
           g == [i \in DOMAIN more |-> more[i].quantity]
           fc == [i \in DOMAIN lots |-> lots[i].quantity * lots[i].cost]
           gc == [i \in DOMAIN more |-> more[i].quantity * more[i].cost]
<1>1. /\ n \in Nat /\ DOMAIN lots = 1..n /\ DOMAIN more = 1..(n + 1) /\ more \in Seq(Lot)
      /\ (\A i \in 1..n : lots[i] \in Lot /\ more[i + 1] = lots[i]) /\ more[1] = lot
  <2>1. /\ n \in Nat /\ DOMAIN lots = 1..n /\ <<lot>> \in Seq(Lot) /\ more \in Seq(Lot) /\ Len(more) = n + 1
        /\ \A i \in 1..n : lots[i] \in Lot
    OBVIOUS
  <2>2. more[1] = lot /\ \A i \in 1..n : more[i + 1] = lots[i]
    <3>1. Len(<<lot>>) = 1 /\ <<lot>>[1] = lot
      OBVIOUS
    <3> QED BY <2>1, <3>1
  <2>3. DOMAIN more = 1..(n + 1)
    BY <2>1
  <2> QED BY <2>1, <2>2, <2>3
<1>2. \A l \in Lot : l.quantity \in Int /\ l.cost \in Int /\ l.quantity * l.cost \in Int
  BY DEF Lot
<1> HIDE DEF n, more
<1>3. Shifted(f, g, n) /\ Shifted(fc, gc, n) /\ g[1] = lot.quantity /\ gc[1] = lot.quantity * lot.cost
  <2>1. 1 \in 1..(n + 1) /\ \A i \in 1..n : i + 1 \in 1..(n + 1)
    BY <1>1
  <2> QED BY <1>1, <1>2, <2>1 DEF Shifted
<1>4. Quantity(lots) = SumFunction(f) /\ Quantity(more) = SumFunction(g) /\ CostOf(lots) = SumFunction(fc) /\ CostOf(more) = SumFunction(gc)
  BY DEF Quantity, CostOf
<1> HIDE DEF f, g, fc, gc
<1>5. SumFunction(g) = SumFunction(f) + g[1] /\ SumFunction(gc) = SumFunction(fc) + gc[1]
  BY <1>1, <1>3, SumOfShifted
<1> QED BY <1>1, <1>3, <1>4, <1>5 DEF more

LEMMA LotsOfNone == Quantity(<<>>) = 0 /\ CostOf(<<>>) = 0 /\ <<>> \in Seq(Lot)
<1>1. DOMAIN <<>> = {} /\ <<>> \in Seq(Lot)
  OBVIOUS
<1>2. DOMAIN [i \in DOMAIN <<>> |-> <<>>[i].quantity] = {} /\ DOMAIN [i \in DOMAIN <<>> |-> <<>>[i].quantity * <<>>[i].cost] = {}
  BY <1>1
<1> QED BY <1>1, <1>2, SumOfEmpty DEF Quantity, CostOf

\* What a piece adds to the gains of a year and a term.
ShareOfGain(piece, y, term) == IF piece.year = y /\ piece.term = term THEN piece.gain ELSE 0

LEMMA GainOfMore ==
  ASSUME NEW realized \in Seq(Piece), NEW piece \in Piece, NEW y, NEW term
  PROVE  /\ GainOf(realized, y, term) \in Int
         /\ GainOf(Append(realized, piece), y, term) = GainOf(realized, y, term) + ShareOfGain(piece, y, term)
<1> DEFINE n == Len(realized)
           more == Append(realized, piece)
           f == [i \in DOMAIN realized |-> ShareOfGain(realized[i], y, term)]
           g == [i \in DOMAIN more |-> ShareOfGain(more[i], y, term)]
<1>1. /\ n \in Nat /\ DOMAIN realized = 1..n /\ DOMAIN more = 1..(n + 1)
      /\ (\A i \in 1..n : realized[i] \in Piece /\ more[i] = realized[i]) /\ more[n + 1] = piece
  OBVIOUS
<1>2. \A p \in Piece : ShareOfGain(p, y, term) \in Int
  BY DEF Piece, ShareOfGain
<1>3. GainOf(realized, y, term) = SumFunction(f) /\ GainOf(more, y, term) = SumFunction(g)
  BY DEF GainOf, ShareOfGain
<1> HIDE DEF n, more
<1>4. Longer(f, g, n) /\ g[n + 1] = ShareOfGain(piece, y, term)
  <2>1. n + 1 \in 1..(n + 1) /\ \A i \in 1..n : i \in 1..(n + 1)
    BY <1>1
  <2> QED BY <1>1, <1>2, <2>1 DEF Longer
<1> HIDE DEF f, g
<1>5. SumFunction(f) \in Int /\ SumFunction(g) = SumFunction(f) + g[n + 1]
  BY <1>1, <1>4, SumOfLonger
<1> QED BY <1>3, <1>4, <1>5 DEF more

\* A piece falls into one year and one term.
LEMMA GainsOfMore ==
  ASSUME NEW realized \in Seq(Piece), NEW piece \in Piece
  PROVE  /\ Gains(realized) \in Int
         /\ Gains(Append(realized, piece)) = Gains(realized) + piece.gain
<1> DEFINE more == Append(realized, piece)
           f == [y \in Years |-> GainOf(realized, y, "short") + GainOf(realized, y, "long")]
           g == [y \in Years |-> GainOf(more, y, "short") + GainOf(more, y, "long")]
           x == piece.year
<1>1. x \in Years /\ piece.gain \in Int /\ piece.term \in {"short", "long"}
  BY DEF Piece
<1>2. ASSUME NEW y \in Years
      PROVE  f[y] \in Int /\ g[y] \in Int /\ g[y] = f[y] + (IF y = x THEN piece.gain ELSE 0)
  <2>1. /\ GainOf(realized, y, "short") \in Int /\ GainOf(realized, y, "long") \in Int
        /\ GainOf(more, y, "short") = GainOf(realized, y, "short") + ShareOfGain(piece, y, "short")
        /\ GainOf(more, y, "long") = GainOf(realized, y, "long") + ShareOfGain(piece, y, "long")
    BY GainOfMore
  <2>2. /\ ShareOfGain(piece, y, "short") \in Int /\ ShareOfGain(piece, y, "long") \in Int
        /\ ShareOfGain(piece, y, "short") + ShareOfGain(piece, y, "long") = IF y = x THEN piece.gain ELSE 0
    BY <1>1 DEF ShareOfGain
  <2>3. f[y] = GainOf(realized, y, "short") + GainOf(realized, y, "long") /\ g[y] = GainOf(more, y, "short") + GainOf(more, y, "long")
    OBVIOUS
  <2> HIDE DEF f, g, more, x
  <2> QED BY <2>1, <2>2, <2>3
<1>3. f \in [Years -> Int] /\ g \in [Years -> Int]
  <2>1. DOMAIN f = Years /\ f = [y \in Years |-> f[y]] /\ g = [y \in Years |-> g[y]]
    OBVIOUS
  <2> HIDE DEF f, g
  <2> QED BY <1>2, <2>1
<1>4. Gains(realized) = SumFunctionOnSet(f, Years) /\ Gains(more) = SumFunctionOnSet(g, Years)
  BY DEF Gains, SumFunction
<1> HIDE DEF f, g, more, x
<1>5. \A y \in Years : y # x => g[y] = f[y]
  BY <1>2
<1>6. SumFunctionOnSet(f, Years) \in Int /\ SumFunctionOnSet(g, Years) = SumFunctionOnSet(f, Years) + (g[x] - f[x])
  BY <1>1, <1>3, <1>5, YearsAreFinite, SumOfChange
<1>7. g[x] - f[x] = piece.gain
  BY <1>1, <1>2
<1> QED BY <1>4, <1>6, <1>7 DEF more

LEMMA GainsOfNone == Gains(<<>>) = 0 /\ <<>> \in Seq(Piece)
<1> DEFINE f == [y \in Years |-> GainOf(<<>>, y, "short") + GainOf(<<>>, y, "long")]
<1>1. <<>> \in Seq(Piece) /\ DOMAIN <<>> = {}
  OBVIOUS
<1>2. ASSUME NEW y, NEW term PROVE GainOf(<<>>, y, term) = 0
  <2> DEFINE z == [i \in DOMAIN <<>> |-> IF <<>>[i].year = y /\ <<>>[i].term = term THEN <<>>[i].gain ELSE 0]
  <2>1. DOMAIN z = {}
    BY <1>1
  <2>2. GainOf(<<>>, y, term) = SumFunction(z)
    BY DEF GainOf
  <2> HIDE DEF z
  <2> QED BY <2>1, <2>2, SumOfEmpty
<1>3. \A y \in Years : f[y] = 0
  BY <1>2
<1>4. Gains(<<>>) = SumFunctionOnSet(f, Years)
  BY DEF Gains, SumFunction
<1> HIDE DEF f
<1> QED BY <1>1, <1>3, <1>4, YearsAreFinite, SumOfNoughts
-----------------------------------------------------------------------------
\* What one lot contributes: k units of it go to the sale.
Drawn(d, e, lot, sale, k) ==
  /\ e \in Drawing /\ e.left = d.left - k /\ k \in 0..d.left
  /\ Quantity(e.lots) = Quantity(d.lots) + (lot.quantity - k)
  /\ CostOf(e.lots) = CostOf(d.lots) + (lot.quantity - k) * lot.cost
  /\ Gains(e.realized) = Gains(d.realized) + k * (sale.price - lot.cost)
  /\ e.left > 0 => e.lots = d.lots

LEMMA DrawIs ==
  ASSUME NEW d \in Drawing, NEW lot \in Lot, NEW sale \in Transaction
  PROVE  Drawn(d, Draw(d, lot, sale), lot, sale, Lesser(d.left, lot.quantity))
<1> DEFINE k == Lesser(d.left, lot.quantity)
           e == Draw(d, lot, sale)
           rest == [lot EXCEPT !.quantity = @ - k]
           piece == [gain |-> k * (sale.price - lot.cost), year |-> Year(sale),
                     term |-> IF Day[sale.at] - Day[lot.acquired] > 365 THEN "long" ELSE "short"]
<1>1. /\ d.left \in Nat /\ d.lots \in Seq(Lot) /\ d.realized \in Seq(Piece)
      /\ lot.quantity \in Nat \ {0} /\ lot.cost \in Nat /\ lot.acquired \in 1..MaxTx
  BY DEF Drawing, Lot
<1>2. sale.price \in Nat /\ Year(sale) \in Years
  BY TransactionIs
<1>3. k \in 0..d.left /\ k <= lot.quantity /\ (k = lot.quantity \/ k = d.left) /\ k \in Int
  BY <1>1 DEF Lesser
<1>4. e = [left |-> d.left - k,
           lots |-> IF k = lot.quantity THEN d.lots ELSE Append(d.lots, rest),
           realized |-> IF k = 0 THEN d.realized ELSE Append(d.realized, piece)]
  BY DEF Draw
<1> HIDE DEF k, e
<1>5. piece \in Piece /\ piece.gain = k * (sale.price - lot.cost)
  <2>1. k * (sale.price - lot.cost) \in Int
    BY <1>1, <1>2, <1>3
  <2> QED BY <1>2, <2>1 DEF Piece
<1>6. ASSUME k # lot.quantity PROVE rest \in Lot /\ rest.quantity = lot.quantity - k /\ rest.cost = lot.cost
  <2>1. lot.quantity - k \in Nat \ {0}
    BY <1>1, <1>3, <1>6
  <2>2. rest = [quantity |-> lot.quantity - k, cost |-> lot.cost, acquired |-> lot.acquired]
    BY DEF Lot
  <2> HIDE DEF rest
  <2> QED BY <1>1, <2>1, <2>2 DEF Lot
<1> HIDE DEF rest, piece
<1>7. e.left = d.left - k /\ e.left \in Nat
  BY <1>1, <1>3, <1>4
<1>8. /\ e.lots \in Seq(Lot)
      /\ Quantity(e.lots) = Quantity(d.lots) + (lot.quantity - k)
      /\ CostOf(e.lots) = CostOf(d.lots) + (lot.quantity - k) * lot.cost
  <2>0. Quantity(d.lots) \in Int /\ CostOf(d.lots) \in Int
    BY <1>1, LotsOfMore
  <2>1. CASE k = lot.quantity
    <3>1. e.lots = d.lots /\ lot.quantity - k = 0 /\ (lot.quantity - k) * lot.cost = 0
      BY <1>1, <1>4, <2>1
    <3> QED BY <1>1, <2>0, <3>1
  <2>2. CASE k # lot.quantity
    <3>1. e.lots = Append(d.lots, rest)
      BY <1>4, <2>2
    <3>2. /\ Quantity(Append(d.lots, rest)) = Quantity(d.lots) + rest.quantity
          /\ CostOf(Append(d.lots, rest)) = CostOf(d.lots) + rest.quantity * rest.cost
      BY <1>1, <1>6, <2>2, LotsOfMore
    <3>3. Append(d.lots, rest) \in Seq(Lot)
      BY <1>1, <1>6, <2>2
    <3> QED BY <1>6, <2>2, <3>1, <3>2, <3>3
  <2> QED BY <2>1, <2>2
<1>9. e.realized \in Seq(Piece) /\ Gains(e.realized) = Gains(d.realized) + k * (sale.price - lot.cost)
  <2>0. Gains(d.realized) \in Int /\ Gains(Append(d.realized, piece)) = Gains(d.realized) + piece.gain
    BY <1>1, <1>5, GainsOfMore
  <2>1. CASE k = 0
    <3>1. e.realized = d.realized /\ k * (sale.price - lot.cost) = 0
      BY <1>1, <1>2, <1>4, <2>1
    <3> QED BY <1>1, <2>0, <3>1
  <2>2. CASE k # 0
    <3>1. e.realized = Append(d.realized, piece)
      BY <1>4, <2>2
    <3> QED BY <1>1, <1>5, <2>0, <3>1
  <2> QED BY <2>1, <2>2
<1>10. e.left > 0 => e.lots = d.lots
  BY <1>1, <1>3, <1>4
<1>11. e \in Drawing
  <2>1. e = [left |-> e.left, lots |-> e.lots, realized |-> e.realized]
    BY <1>4
  <2> QED BY <1>7, <1>8, <1>9, <2>1 DEF Drawing
<1> QED BY <1>3, <1>7, <1>8, <1>9, <1>10, <1>11 DEF Drawn, k, e

Drawings(r, sale) == [left |-> sale.quantity, lots |-> <<>>, realized |-> r.realized]
DrawFold(r, sale) ==
  CHOOSE h : h = [p \in SUBSET (DOMAIN r.lots) |->
    IF p = {} THEN Drawings(r, sale) ELSE Draw(h[p \ {Max(p)}], r.lots[Max(p)], sale)]

\* What is drawn from the first k lots.
DrawnTo(r, sale, k) == DrawFold(r, sale)[1..k]

LEMMA ConsumeFolds ==
  ASSUME NEW r \in TaxState, NEW sale
  PROVE  LET d == DrawnTo(r, sale, Len(r.lots)) IN
         Consume(r, sale) = [lots |-> d.lots, realized |-> d.realized, failed |-> r.failed \/ d.left > 0]
<1> DEFINE e == DrawFold(r, sale)[DOMAIN r.lots]
<1>1. Consume(r, sale) = [lots |-> e.lots, realized |-> e.realized, failed |-> r.failed \/ e.left > 0]
  BY DEF Consume, FoldLeft, MapThenFoldSet, DrawFold, Drawings
<1>2. DOMAIN r.lots = 1..Len(r.lots)
  <2>1. r.lots \in Seq(Lot)
    BY DEF TaxState
  <2> QED BY <2>1
<1> QED BY <1>1, <1>2 DEF DrawnTo

DrawingOn(sale) == [a \in Drawing \X Lot |-> Draw(a[1], a[2], sale)]

DrawsOn(r, sale) ==
  /\ DrawnTo(r, sale, 0) = Drawings(r, sale)
  /\ \A k \in 0..Len(r.lots) : DrawnTo(r, sale, k) \in Drawing
  /\ \A k \in 0..Len(r.lots) : k < Len(r.lots) =>
       DrawnTo(r, sale, k + 1) = Draw(DrawnTo(r, sale, k), r.lots[k + 1], sale)

LEMMA ConsumeRuns ==
  ASSUME NEW r \in TaxState, NEW sale \in Transaction
  PROVE  DrawsOn(r, sale)
<1> DEFINE lots == r.lots
           op == DrawingOn(sale)
           base == Drawings(r, sale)
           IsFold(h) == h = [p \in SUBSET (DOMAIN lots) |->
             IF p = {} THEN base ELSE Draw(h[p \ {Max(p)}], lots[Max(p)], sale)]
           h == DrawFold(r, sale)
<1>1. lots \in Seq(Lot) /\ Len(lots) \in Nat /\ \A i \in DOMAIN lots : lots[i] \in Lot
  BY DEF TaxState
<1>2. \A d \in Drawing, lot \in Lot : Draw(d, lot, sale) \in Drawing
  BY DrawIs DEF Drawn
<1>3. op \in [Drawing \X Lot -> Drawing] /\ \A d \in Drawing, lot \in Lot : op[<<d, lot>>] = Draw(d, lot, sale)
  <2>1. \A a \in Drawing \X Lot : Draw(a[1], a[2], sale) \in Drawing
    BY <1>2
  <2> QED BY <2>1 DEF DrawingOn
<1>4. base \in Drawing
  BY TransactionIs DEF Drawings, Drawing, TaxState
<1>0. DrawFold(r, sale) = CHOOSE g : IsFold(g)
  BY DEF DrawFold
<1> HIDE DEF lots, op, base
<1>5. PICK g \in [SUBSET (DOMAIN lots) -> Drawing] : Folded(g, op, base, lots)
  BY <1>1, <1>3, <1>4, FoldOfSeq
<1>6. ASSUME NEW p \in SUBSET (DOMAIN lots), p # {} PROVE g[p] = Draw(g[p \ {Max(p)}], lots[Max(p)], sale)
  <2>1. g[p \ {Max(p)}] \in Drawing /\ lots[Max(p)] \in Lot
    BY <1>1, <1>5, <1>6 DEF Folded
  <2> QED BY <1>3, <1>5, <1>6, <2>1 DEF Folded
<1>7. IsFold(g)
  BY <1>5, <1>6 DEF Folded
<1>8. IsFold(h)
  BY <1>0, <1>7
<1>9. /\ h[{}] = base
      /\ \A p \in SUBSET (DOMAIN lots) : p # {} => h[p] = Draw(h[p \ {Max(p)}], lots[Max(p)], sale)
  BY <1>8
<1> HIDE DEF h
<1>10. ASSUME NEW p \in SUBSET (DOMAIN lots), p # {}, h[p \ {Max(p)}] \in Drawing
       PROVE  h[p] = op[<<h[p \ {Max(p)}], lots[Max(p)]>>]
  BY <1>1, <1>3, <1>5, <1>9, <1>10 DEF Folded
<1>11. FoldsBy(h, op, base, lots, Drawing)
  BY <1>9, <1>10 DEF FoldsBy
<1>12. RunsBy(h, op, lots, Drawing)
  BY <1>1, <1>3, <1>4, <1>11, FoldRuns
<1>13. ASSUME NEW k \in 0..Len(lots)
       PROVE  h[1..k] \in Drawing /\ (k < Len(lots) => h[1..(k + 1)] = Draw(h[1..k], lots[k + 1], sale))
  <2>1. h[1..k] \in Drawing /\ (k < Len(lots) => h[1..(k + 1)] = op[<<h[1..k], lots[k + 1]>>])
    BY <1>12 DEF RunsBy
  <2>2. ASSUME k < Len(lots) PROVE lots[k + 1] \in Lot
    BY <1>1, <2>2
  <2> QED BY <1>3, <2>1, <2>2
<1>14. h[1..0] = base
  <2>1. 1..0 = {}
    OBVIOUS
  <2> QED BY <1>9, <2>1
<1> QED BY <1>13, <1>14 DEF DrawsOn, DrawnTo, h, lots, base

QuantityTo(lots, k) == SumFunctionOnSet([i \in DOMAIN lots |-> lots[i].quantity], 1..k)
CostTo(lots, k) == SumFunctionOnSet([i \in DOMAIN lots |-> lots[i].quantity * lots[i].cost], 1..k)

LEMMA LotsTo ==
  ASSUME NEW lots \in Seq(Lot), NEW k \in 0..Len(lots)
  PROVE  /\ QuantityTo(lots, k) \in Int /\ CostTo(lots, k) \in Int
         /\ k < Len(lots) => /\ QuantityTo(lots, k + 1) = QuantityTo(lots, k) + lots[k + 1].quantity
                             /\ CostTo(lots, k + 1) = CostTo(lots, k) + lots[k + 1].quantity * lots[k + 1].cost
         /\ k = 0 => QuantityTo(lots, k) = 0 /\ CostTo(lots, k) = 0
         /\ k = Len(lots) => QuantityTo(lots, k) = Quantity(lots) /\ CostTo(lots, k) = CostOf(lots)
<1> DEFINE n == Len(lots)
           f == [i \in DOMAIN lots |-> lots[i].quantity]
           g == [i \in DOMAIN lots |-> lots[i].quantity * lots[i].cost]
<1>1. n \in Nat /\ DOMAIN lots = 1..n /\ \A i \in 1..n : lots[i] \in Lot
  OBVIOUS
<1>2. \A l \in Lot : l.quantity \in Int /\ l.quantity * l.cost \in Int
  BY DEF Lot
<1>3. /\ DOMAIN f = 1..n /\ DOMAIN g = 1..n
      /\ \A i \in 1..n : /\ f[i] = lots[i].quantity /\ g[i] = lots[i].quantity * lots[i].cost
                         /\ f[i] \in Int /\ g[i] \in Int
  BY <1>1, <1>2
<1>4. /\ QuantityTo(lots, k) = SumFunctionOnSet(f, 1..k) /\ CostTo(lots, k) = SumFunctionOnSet(g, 1..k)
      /\ QuantityTo(lots, k + 1) = SumFunctionOnSet(f, 1..(k + 1)) /\ CostTo(lots, k + 1) = SumFunctionOnSet(g, 1..(k + 1))
  BY DEF QuantityTo, CostTo
<1>5. Quantity(lots) = SumFunctionOnSet(f, 1..n) /\ CostOf(lots) = SumFunctionOnSet(g, 1..n)
  BY <1>3 DEF Quantity, CostOf, SumFunction
<1> HIDE DEF f, g, n
<1>6. SumFunctionOnSet(f, 1..k) \in Int /\ (k < n => SumFunctionOnSet(f, 1..(k + 1)) = f[k + 1] + SumFunctionOnSet(f, 1..k))
  BY <1>1, <1>3, SumOfFirst DEF n
<1>7. SumFunctionOnSet(g, 1..k) \in Int /\ (k < n => SumFunctionOnSet(g, 1..(k + 1)) = g[k + 1] + SumFunctionOnSet(g, 1..k))
  BY <1>1, <1>3, SumOfFirst DEF n
<1>8. k < n => k + 1 \in 1..n
  BY <1>1
<1>9. SumFunctionOnSet(f, {}) = 0 /\ SumFunctionOnSet(g, {}) = 0 /\ (k = 0 => 1..k = {})
  BY SumOfNone
<1>10. k < n => f[k + 1] \in Int /\ g[k + 1] \in Int /\ f[k + 1] = lots[k + 1].quantity /\ g[k + 1] = lots[k + 1].quantity * lots[k + 1].cost
  BY <1>3, <1>8
<1>11. k < n => /\ QuantityTo(lots, k + 1) = QuantityTo(lots, k) + lots[k + 1].quantity
                /\ CostTo(lots, k + 1) = CostTo(lots, k) + lots[k + 1].quantity * lots[k + 1].cost
  BY <1>4, <1>6, <1>7, <1>10
<1>12. k = 0 => QuantityTo(lots, k) = 0 /\ CostTo(lots, k) = 0
  BY <1>4, <1>9
<1> QED BY <1>4, <1>5, <1>6, <1>7, <1>11, <1>12 DEF n

\* What the first k lots have given: a gain for what they cost.
GivenTo(r, sale, k) ==
  LET d == DrawnTo(r, sale, k)
      taken == sale.quantity - d.left IN
  /\ taken \in 0..sale.quantity
  /\ Quantity(d.lots) = QuantityTo(r.lots, k) - taken
  /\ Gains(d.realized) = Gains(r.realized) + (taken * sale.price - (CostTo(r.lots, k) - CostOf(d.lots)))
  /\ d.left > 0 => d.lots = <<>>

\* The same with numbers: u units at cost c out of a lot of n, for the price p.
LEMMA UnitsGiven ==
  ASSUME NEW n \in Int, NEW u \in Int, NEW c \in Int, NEW p \in Int, NEW t \in Int, NEW g0 \in Int,
         NEW costTo \in Int, NEW cost \in Int, NEW g \in Int,
         g = g0 + (t * p - (costTo - cost))
  PROVE  g + u * (p - c) = g0 + ((t + u) * p - ((costTo + n * c) - (cost + (n - u) * c)))
<1>1. u * (p - c) = u * p - u * c /\ (t + u) * p = t * p + u * p /\ (n - u) * c = n * c - u * c
  OBVIOUS
<1> DEFINE a == u * p  b == u * c  e == t * p  f == n * c
<1>2. a \in Int /\ b \in Int /\ e \in Int /\ f \in Int
  OBVIOUS
<1>3. g + (a - b) = g0 + ((e + a) - ((costTo + f) - (cost + (f - b))))
  <2>1. g = g0 + (e - (costTo - cost))
    OBVIOUS
  <2> HIDE DEF a, b, e, f
  <2> QED BY <1>2, <2>1
<1> QED BY <1>1, <1>3

LEMMA GivenOneMore ==
  ASSUME NEW r \in TaxState, NEW sale \in Transaction, NEW k \in 0..Len(r.lots), k < Len(r.lots), GivenTo(r, sale, k)
  PROVE  GivenTo(r, sale, k + 1)
<1> DEFINE d == DrawnTo(r, sale, k)
           e == DrawnTo(r, sale, k + 1)
           lot == r.lots[k + 1]
           u == Lesser(d.left, lot.quantity)
           t == sale.quantity - d.left
           v == sale.quantity - e.left
           n == lot.quantity
           c == lot.cost
           p == sale.price
<1>1. r.lots \in Seq(Lot) /\ r.realized \in Seq(Piece) /\ lot \in Lot
  <2>1. r.lots \in Seq(Lot) /\ r.realized \in Seq(Piece)
    BY DEF TaxState
  <2>2. k + 1 \in DOMAIN r.lots
    BY <2>1
  <2> QED BY <2>1, <2>2
<1>2. d \in Drawing /\ e = Draw(d, lot, sale)
  BY ConsumeRuns DEF DrawsOn
<1> HIDE DEF d, e
<1>3. Drawn(d, e, lot, sale, u)
  BY <1>1, <1>2, DrawIs
<1> HIDE DEF lot, u
<1>4. n \in Int /\ c \in Int /\ p \in Int /\ sale.quantity \in Int
  BY <1>1, TransactionIs DEF Lot
<1>5. /\ e.left = d.left - u /\ u \in 0..d.left /\ d.left \in Nat /\ e.left \in Nat
      /\ Quantity(e.lots) = Quantity(d.lots) + (n - u)
      /\ CostOf(e.lots) = CostOf(d.lots) + (n - u) * c
      /\ Gains(e.realized) = Gains(d.realized) + u * (p - c)
      /\ e.left > 0 => e.lots = d.lots
  BY <1>2, <1>3 DEF Drawn, Drawing
<1>6. /\ t \in 0..sale.quantity /\ Quantity(d.lots) = QuantityTo(r.lots, k) - t
      /\ Gains(d.realized) = Gains(r.realized) + (t * p - (CostTo(r.lots, k) - CostOf(d.lots)))
      /\ d.left > 0 => d.lots = <<>>
  BY DEF GivenTo, d
<1>7. /\ QuantityTo(r.lots, k) \in Int /\ CostTo(r.lots, k) \in Int
      /\ QuantityTo(r.lots, k + 1) = QuantityTo(r.lots, k) + n
      /\ CostTo(r.lots, k + 1) = CostTo(r.lots, k) + n * c
  <2>1. k \in 0..Len(r.lots)
    OBVIOUS
  <2> QED BY <1>1, <2>1, LotsTo DEF lot
<1>8. Quantity(d.lots) \in Int /\ CostOf(d.lots) \in Int /\ Gains(d.realized) \in Int /\ Gains(r.realized) \in Int
  <2>1. d.lots \in Seq(Lot) /\ d.realized \in Seq(Piece)
    BY <1>2 DEF Drawing
  <2>2. [gain |-> 0, year |-> Year(sale), term |-> "short"] \in Piece
    BY TransactionIs DEF Piece
  <2>3. Gains(d.realized) \in Int /\ Gains(r.realized) \in Int
    BY <1>1, <2>1, <2>2, GainsOfMore
  <2>4. Quantity(d.lots) \in Int /\ CostOf(d.lots) \in Int
    BY <1>1, <2>1, LotsOfMore
  <2> QED BY <2>3, <2>4
<1>9. v = t + u /\ v \in 0..sale.quantity /\ u \in Int /\ t \in Int
  <2> DEFINE a == d.left
             b == e.left
             q == sale.quantity
  <2>1. a \in Nat /\ b \in Nat /\ q \in Int /\ u \in 0..a /\ b = a - u /\ (q - a) \in 0..q
    BY <1>4, <1>5, <1>6
  <2>2. u \in Int
    BY <2>1
  <2> HIDE DEF a, b, q
  <2>3. q - b = (q - a) + u /\ (q - b) \in 0..q /\ (q - a) \in Int
    BY <2>1, <2>2
  <2> QED BY <2>2, <2>3 DEF a, b, q
<1> HIDE DEF t, v, n, c, p
<1>10. Quantity(e.lots) = QuantityTo(r.lots, k + 1) - v
  BY <1>4, <1>5, <1>6, <1>7, <1>8, <1>9
<1>11. Gains(e.realized) = Gains(r.realized) + (v * p - (CostTo(r.lots, k + 1) - CostOf(e.lots)))
  <2> DEFINE costTo == CostTo(r.lots, k)
             cost == CostOf(d.lots)
             g == Gains(d.realized)
             g0 == Gains(r.realized)
  <2>1. costTo \in Int /\ cost \in Int /\ g \in Int /\ g0 \in Int /\ g = g0 + (t * p - (costTo - cost))
    BY <1>6, <1>7, <1>8
  <2>2. Gains(e.realized) = g + u * (p - c) /\ CostTo(r.lots, k + 1) = costTo + n * c /\ CostOf(e.lots) = cost + (n - u) * c
    BY <1>5, <1>7
  <2> HIDE DEF costTo, cost, g, g0
  <2>3. g + u * (p - c) = g0 + ((t + u) * p - ((costTo + n * c) - (cost + (n - u) * c)))
    BY <1>4, <1>9, <2>1, UnitsGiven
  <2>4. Gains(e.realized) = g0 + (v * p - (CostTo(r.lots, k + 1) - CostOf(e.lots)))
    BY <1>9, <2>2, <2>3
  <2> QED BY <2>4 DEF g0
<1>12. e.left > 0 => e.lots = <<>>
  BY <1>5, <1>6
<1> QED BY <1>9, <1>10, <1>11, <1>12 DEF GivenTo, e, v, p

\* What a sale does to the lots: it takes its units, or it runs out of lots.
Took(r, c, sale, taken) ==
  /\ c \in TaxState /\ taken \in 0..sale.quantity
  /\ Quantity(c.lots) = Quantity(r.lots) - taken
  /\ Gains(c.realized) = Gains(r.realized) + (taken * sale.price - (CostOf(r.lots) - CostOf(c.lots)))
  /\ taken < sale.quantity => Quantity(c.lots) = 0
  /\ c.failed <=> (r.failed \/ taken < sale.quantity)

LEMMA SaleTakes ==
  ASSUME NEW r \in TaxState, NEW sale \in Transaction
  PROVE  \E taken \in Nat : Took(r, Consume(r, sale), sale, taken)
<1> DEFINE n == Len(r.lots)
           good == {k \in 0..n : GivenTo(r, sale, k)}
           d == DrawnTo(r, sale, n)
           c == Consume(r, sale)
           taken == sale.quantity - d.left
<1>1. r.lots \in Seq(Lot) /\ r.realized \in Seq(Piece) /\ r.failed \in BOOLEAN /\ n \in Nat
  BY DEF TaxState
<1>2. sale.quantity \in Nat /\ sale.price \in Nat
  BY TransactionIs
<1>3. 0 \in good
  <2> DEFINE b == DrawnTo(r, sale, 0)
             q == QuantityTo(r.lots, 0)
             w == CostTo(r.lots, 0)
             g == Gains(r.realized)
  <2>1. b = Drawings(r, sale)
    BY ConsumeRuns DEF DrawsOn
  <2>2. b.left = sale.quantity /\ b.lots = <<>> /\ b.realized = r.realized
    BY <2>1 DEF Drawings
  <2>3. q = 0 /\ w = 0 /\ 0 \in 0..n
    <3>1. 0 \in 0..Len(r.lots)
      BY <1>1
    <3> QED BY <1>1, <3>1, LotsTo
  <2>4. g \in Int
    <3>1. [gain |-> 0, year |-> Year(sale), term |-> "short"] \in Piece
      BY TransactionIs DEF Piece
    <3> QED BY <1>1, <3>1, GainsOfMore
  <2>5. /\ sale.quantity - b.left = 0 /\ 0 \in 0..sale.quantity
        /\ Quantity(b.lots) = q - 0 /\ CostOf(b.lots) = 0
    BY <1>2, <2>2, <2>3, LotsOfNone
  <2>6. Gains(b.realized) = g + (0 * sale.price - (w - CostOf(b.lots)))
    <3>1. 0 * sale.price = 0
      BY <1>2
    <3> HIDE DEF g, w, b
    <3> QED BY <2>2, <2>3, <2>4, <2>5, <3>1 DEF g
  <2> HIDE DEF b, q, w, g
  <2>7. GivenTo(r, sale, 0)
    BY <2>2, <2>5, <2>6 DEF GivenTo, b, q, w, g
  <2> QED BY <2>3, <2>7
<1>4. ASSUME NEW k \in 0..(n - 1), k \in good PROVE k + 1 \in good
  <2>1. k \in 0..n /\ k < n /\ k + 1 \in 0..n
    BY <1>1
  <2>2. GivenTo(r, sale, k + 1)
    BY <1>4, <2>1, GivenOneMore
  <2> QED BY <2>1, <2>2
<1>5. GivenTo(r, sale, n)
  <2>1. 0..n \subseteq good
    <3> HIDE DEF good, n
    <3> QED BY <1>1, <1>3, <1>4, Upward
  <2>2. n \in 0..n
    BY <1>1
  <2> QED BY <2>1, <2>2
<1>6. d \in Drawing
  <2>1. n \in 0..n
    BY <1>1
  <2> QED BY <2>1, ConsumeRuns DEF DrawsOn
<1>7. c = [lots |-> d.lots, realized |-> d.realized, failed |-> r.failed \/ d.left > 0]
  BY ConsumeFolds
<1>8. QuantityTo(r.lots, n) = Quantity(r.lots) /\ CostTo(r.lots, n) = CostOf(r.lots)
  <2>1. n \in 0..Len(r.lots)
    BY <1>1
  <2> QED BY <1>1, <2>1, LotsTo
<1>9. /\ taken \in 0..sale.quantity
      /\ Quantity(d.lots) = Quantity(r.lots) - taken
      /\ Gains(d.realized) = Gains(r.realized) + (taken * sale.price - (CostOf(r.lots) - CostOf(d.lots)))
      /\ d.left > 0 => d.lots = <<>>
  BY <1>5, <1>8 DEF GivenTo
<1> HIDE DEF d, c
<1>10. d.left \in Nat /\ d.lots \in Seq(Lot) /\ d.realized \in Seq(Piece)
  BY <1>6 DEF Drawing
<1>11. taken < sale.quantity <=> d.left > 0
  BY <1>2, <1>10
<1>12. c \in TaxState /\ c.lots = d.lots /\ c.realized = d.realized /\ (c.failed <=> (r.failed \/ d.left > 0))
  <2>1. (r.failed \/ d.left > 0) \in BOOLEAN
    OBVIOUS
  <2> QED BY <1>7, <1>10, <2>1 DEF TaxState
<1>13. taken \in Nat
  BY <1>2, <1>9
<1> HIDE DEF taken
<1>14. Took(r, c, sale, taken)
  BY <1>9, <1>11, <1>12, LotsOfNone DEF Took
<1> QED BY <1>13, <1>14 DEF c

\* Transactions of which no two were made at one time.
Timed(txs) ==
  /\ IsFiniteSet(txs) /\ txs \subseteq Transaction
  /\ \A a, b \in txs : a.at = b.at => a = b

Increasing(q) == \A i, j \in DOMAIN q : i < j => q[i].at < q[j].at

LEMMA ByTimeExists ==
  ASSUME NEW txs, Timed(txs)
  PROVE  \E q \in [1..Cardinality(txs) -> txs] : Increasing(q)
<1> DEFINE Has(s) == \E q \in [1..Cardinality(s) -> s] : Increasing(q)
           Q == {s \in SUBSET txs : ~Has(s)}
<1>1. SUFFICES ASSUME Q # {} PROVE FALSE
  OBVIOUS
<1>2. IsFiniteSet(txs) /\ txs \subseteq Transaction /\ (\A a, b \in txs : a.at = b.at => a = b)
  BY DEF Timed
<1>3. PICK s \in Q : \A x \in s : s \ {x} \notin Q
  <2> HIDE DEF Q
  <2>1. Q \subseteq SUBSET txs
    BY DEF Q
  <2> QED BY <1>1, <1>2, <2>1, SmallestOf
<1>4. s # {}
  <2>1. ASSUME s = {} PROVE Has(s)
    <3>1. Cardinality(s) = 0 /\ 1..0 = {}
      BY <2>1, FS_EmptySet
    <3>2. [i \in 1..0 |-> 0] \in [1..Cardinality(s) -> s] /\ Increasing([i \in 1..0 |-> 0])
      BY <3>1 DEF Increasing
    <3> QED BY <3>2
  <2> QED BY <1>3, <2>1
<1>5. IsFiniteSet(s) /\ \A a \in s : a.at \in Int
  <2>1. IsFiniteSet(s) /\ s \subseteq Transaction
    BY <1>2, <1>3, FS_Subset
  <2> QED BY <2>1 DEF Transaction
<1>6. PICK x \in s : \A y \in s : y.at <= x.at
  <2> DEFINE key == [a \in s |-> a.at]
  <2>1. key \in [s -> Int] /\ \A a \in s : key[a] = a.at
    BY <1>5
  <2> HIDE DEF key
  <2>2. \A a, b \in s : key[a] = key[b] => a = b
    BY <1>2, <1>3, <2>1
  <2>3. \E a \in s : \A b \in s : key[b] <= key[a]
    BY <1>4, <1>5, <2>1, <2>2, NewestExists
  <2> QED BY <2>1, <2>3
<1> DEFINE r == s \ {x}
           n == Cardinality(r)
<1>7. n \in Nat /\ Cardinality(s) = n + 1 /\ IsFiniteSet(r)
  <2>1. IsFiniteSet(r) /\ Cardinality(r) = Cardinality(s) - 1
    BY <1>5, <1>6, FS_RemoveElement
  <2>2. Cardinality(r) \in Nat /\ Cardinality(s) \in Nat
    BY <1>5, <2>1, FS_CardinalityType
  <2> HIDE DEF r
  <2> QED BY <2>1, <2>2
<1>8. PICK q \in [1..n -> r] : Increasing(q)
  <2>1. r \in SUBSET txs /\ r \notin Q
    BY <1>3, <1>6
  <2> QED BY <2>1
<1>9. \A y \in r : y.at < x.at
  <2>1. ASSUME NEW y \in r PROVE y.at < x.at
    <3>1. y \in s /\ y # x /\ y \in txs /\ x \in txs
      BY <1>3, <1>6
    <3>2. y.at # x.at /\ y.at <= x.at /\ y.at \in Int /\ x.at \in Int
      BY <1>2, <1>5, <1>6, <3>1
    <3> QED BY <3>2
  <2> QED BY <2>1
<1> DEFINE p == [i \in 1..(n + 1) |-> IF i = n + 1 THEN x ELSE q[i]]
<1>10. p \in [1..(n + 1) -> s]
  <2>1. \A i \in 1..(n + 1) : i # n + 1 => i \in 1..n
    BY <1>7
  <2>2. \A i \in 1..n : q[i] \in s
    BY <1>8
  <2> HIDE DEF n, r
  <2> QED BY <1>6, <2>1, <2>2
<1>11. Increasing(p)
  <2>1. ASSUME NEW i \in 1..(n + 1), NEW j \in 1..(n + 1), i < j PROVE p[i].at < p[j].at
    <3>1. i \in 1..n /\ i # n + 1 /\ p[i] = q[i]
      BY <1>7, <2>1
    <3>2. CASE j = n + 1
      <4>1. q[i] \in r
        BY <1>8, <3>1
      <4> HIDE DEF r, n
      <4> QED BY <1>9, <3>1, <3>2, <4>1
    <3>3. CASE j # n + 1
      <4>1. j \in 1..n /\ p[j] = q[j]
        BY <1>7, <3>3
      <4>2. DOMAIN q = 1..n
        BY <1>8
      <4> QED BY <1>8, <2>1, <3>1, <4>1, <4>2 DEF Increasing
    <3> QED BY <3>2, <3>3
  <2>2. DOMAIN p = 1..(n + 1)
    OBVIOUS
  <2> HIDE DEF p, n
  <2> QED BY <2>1, <2>2 DEF Increasing
<1>12. Has(s)
  <2> HIDE DEF p
  <2> QED BY <1>7, <1>10, <1>11
<1> QED BY <1>3, <1>12

\* The first k transactions.
First(txs, k) == {InOrder(txs)[i] : i \in 1..k}

Numbered(txs, n) ==
  LET q == InOrder(txs) IN
  /\ q \in Seq(Transaction) /\ Len(q) = n /\ First(txs, 0) = {} /\ First(txs, n) = txs
  /\ \A k \in 0..n : IsFiniteSet(First(txs, k)) /\ First(txs, k) \subseteq Transaction
  /\ \A k \in 0..n : k < n => /\ q[k + 1] \in txs /\ q[k + 1] \notin First(txs, k)
                              /\ First(txs, k + 1) = First(txs, k) \union {q[k + 1]}
                              /\ First(txs, k + 1) = UpTo(txs, q[k + 1].at)

LEMMA ByTimeIs ==
  ASSUME NEW txs, Timed(txs)
  PROVE  Cardinality(txs) \in Nat /\ Numbered(txs, Cardinality(txs))
<1> DEFINE n == Cardinality(txs)
           q == InOrder(txs)
<1>1. IsFiniteSet(txs) /\ txs \subseteq Transaction
  BY DEF Timed
<1>2. n \in Nat
  BY <1>1, FS_CardinalityType
<1>3. q \in [1..n -> txs] /\ Increasing(q)
  BY ByTimeExists DEF InOrder, Increasing
<1> HIDE DEF q
<1>4. \A i \in 1..n : q[i] \in txs /\ q[i].at \in Int
  BY <1>1, <1>3 DEF Transaction
<1>5. \A i, j \in 1..n : i # j => q[i] # q[j]
  <2>1. ASSUME NEW i \in 1..n, NEW j \in 1..n, i < j PROVE q[i] # q[j]
    <3>1. q[i].at < q[j].at
      BY <1>3, <2>1 DEF Increasing
    <3> QED BY <1>4, <3>1
  <2>2. \A i, j \in 1..n : i # j => i < j \/ j < i
    BY <1>2
  <2> QED BY <2>1, <2>2
<1>6. \A k \in 0..n : First(txs, k) = {q[i] : i \in 1..k}
  BY DEF First, q
<1>7. {q[i] : i \in 1..n} = txs
  <2> DEFINE R == {q[i] : i \in 1..n}
  <2>1. IsFiniteSet(1..n) /\ Cardinality(1..n) = n
    BY <1>2, FS_Interval
  <2>2. q = [i \in 1..n |-> q[i]] /\ DOMAIN q = 1..n
    BY <1>3
  <2> DEFINE S == 1..n
  <2>4. IsFiniteSet(R) /\ Cardinality(R) = Cardinality(S)
    <3>1. IsFiniteSet(S) /\ DOMAIN q = S /\ q = [i \in S |-> q[i]] /\ \A i, j \in S : q[i] = q[j] => i = j
      BY <1>5, <2>1, <2>2
    <3>2. R = {q[i] : i \in S}
      OBVIOUS
    <3> HIDE DEF S, R
    <3> QED BY <3>1, <3>2, ImageIsAsLarge
  <2>5. R \subseteq txs
    BY <1>4
  <2> HIDE DEF R
  <2>6. R = txs
    BY <1>1, <2>1, <2>4, <2>5, FS_Subset
  <2> QED BY <2>6 DEF R
<1>8. ASSUME NEW k \in 0..n PROVE IsFiniteSet(First(txs, k)) /\ First(txs, k) \subseteq Transaction
  <2>1. First(txs, k) \subseteq txs
    BY <1>4, <1>6, <1>2
  <2> QED BY <1>1, <2>1, FS_Subset
<1>9. ASSUME NEW k \in 0..n, k < n
      PROVE  /\ q[k + 1] \in txs /\ q[k + 1] \notin First(txs, k)
             /\ First(txs, k + 1) = First(txs, k) \union {q[k + 1]}
             /\ First(txs, k + 1) = UpTo(txs, q[k + 1].at)
  <2> DEFINE m == k + 1
  <2>1. m \in 1..n /\ 1..m = (1..k) \union {m} /\ m \in 0..n /\ \A i \in 1..k : i \in 1..n /\ i # m
    BY <1>2, <1>9
  <2>2. First(txs, k) = {q[i] : i \in 1..k} /\ First(txs, m) = {q[i] : i \in 1..m}
    BY <1>6, <2>1
  <2>3. \A i \in 1..n : i < m <=> i \in 1..k
    BY <1>2, <1>9
  <2>4. \A i \in 1..n : i \in 1..m \/ m < i
    BY <1>2, <1>9
  <2>5. DOMAIN q = 1..n
    BY <1>3
  <2> HIDE DEF m
  <2>6. q[m] \in txs /\ q[m] \notin First(txs, k) /\ First(txs, m) = First(txs, k) \union {q[m]}
    BY <1>4, <1>5, <2>1, <2>2
  <2>7. ASSUME NEW i \in 1..n PROVE q[i].at <= q[m].at <=> i \in 1..m
    <3>1. CASE i \in 1..k
      <4>1. q[i].at < q[m].at
        BY <1>3, <2>1, <2>3, <2>5, <3>1 DEF Increasing
      <4> QED BY <1>4, <2>1, <3>1, <4>1
    <3>2. CASE i = m
      BY <1>4, <2>1, <3>2
    <3>3. CASE m < i
      <4>1. q[m].at < q[i].at
        BY <1>3, <2>1, <2>5, <3>3 DEF Increasing
      <4>2. ~(q[i].at <= q[m].at)
        BY <1>4, <2>1, <4>1
      <4>3. m \in Int /\ i \in Int
        BY <2>1
      <4> QED BY <3>3, <4>2, <4>3
    <3> QED BY <2>1, <2>4, <3>1, <3>2, <3>3
  <2>8. First(txs, m) = UpTo(txs, q[m].at)
    <3>1. \A tx \in txs : \E i \in 1..n : q[i] = tx
      BY <1>7
    <3>2. \A i \in 1..m : i \in 1..n
      BY <1>2, <2>1
    <3>3. ASSUME NEW tx PROVE tx \in First(txs, m) <=> tx \in txs /\ tx.at <= q[m].at
      <4>1. ASSUME tx \in First(txs, m) PROVE tx \in txs /\ tx.at <= q[m].at
        <5>1. PICK i \in 1..m : tx = q[i]
          BY <2>2, <4>1
        <5> QED BY <1>4, <2>7, <3>2, <5>1
      <4>2. ASSUME tx \in txs, tx.at <= q[m].at PROVE tx \in First(txs, m)
        <5>1. PICK i \in 1..n : tx = q[i]
          BY <3>1, <4>2
        <5>2. i \in 1..m
          BY <2>7, <4>2, <5>1
        <5> QED BY <2>2, <5>1, <5>2
      <4> QED BY <4>1, <4>2
    <3> QED BY <3>3 DEF UpTo
  <2> QED BY <2>6, <2>8 DEF m
<1>10. q \in Seq(Transaction) /\ Len(q) = n
  <2>1. \A i \in 1..n : q[i] \in Transaction
    BY <1>1, <1>4
  <2>2. q = [i \in 1..n |-> q[i]]
    BY <1>3
  <2> QED BY <1>2, <2>1, <2>2
<1>11. First(txs, 0) = {} /\ First(txs, n) = txs
  <2>1. 0 \in 0..n /\ n \in 0..n /\ 1..0 = {}
    BY <1>2
  <2> QED BY <1>6, <1>7, <2>1
<1> QED BY <1>2, <1>8, <1>9, <1>10, <1>11 DEF Numbered, q

-----------------------------------------------------------------------------
LEMMA UnitsAre ==
  ASSUME NEW tx \in Transaction
  PROVE  Units(tx) \in Int /\ -Units(tx) * tx.price \in Int
<1>1. Units(tx) \in Int /\ tx.price \in Int
  BY TransactionIs DEF Units
<1> DEFINE u == Units(tx)
           p == tx.price
<1>2. u \in Int /\ p \in Int
  BY <1>1
<1> HIDE DEF u, p
<1>3. -u * p \in Int
  BY <1>2
<1> QED BY <1>1, <1>3 DEF u, p

\* One transaction more.
LEMMA NetOfMore ==
  ASSUME NEW txs, IsFiniteSet(txs), txs \subseteq Transaction, NEW tx \in Transaction, tx \notin txs
  PROVE  /\ Net(txs) \in Int /\ Flow(txs) \in Int
         /\ Net(txs \union {tx}) = Net(txs) + Units(tx)
         /\ Flow(txs \union {tx}) = Flow(txs) + -Units(tx) * tx.price
<1> DEFINE more == txs \union {tx}
           f == [t \in txs |-> Units(t)]
           g == [t \in more |-> Units(t)]
           fc == [t \in txs |-> -Units(t) * t.price]
           gc == [t \in more |-> -Units(t) * t.price]
<1>1. \A t \in more : Units(t) \in Int /\ -Units(t) * t.price \in Int
  BY UnitsAre
<1>2. /\ DOMAIN f = txs /\ DOMAIN g = more /\ DOMAIN fc = txs /\ DOMAIN gc = more
      /\ g[tx] = Units(tx) /\ gc[tx] = -Units(tx) * tx.price
      /\ g[tx] \in Int /\ gc[tx] \in Int
      /\ \A t \in txs : f[t] \in Int /\ f[t] = g[t] /\ fc[t] \in Int /\ fc[t] = gc[t]
  BY <1>1
<1>3. Net(txs) = SumFunction(f) /\ Net(more) = SumFunction(g) /\ Flow(txs) = SumFunction(fc) /\ Flow(more) = SumFunction(gc)
  BY DEF Net, Flow
<1> HIDE DEF f, g, fc, gc
<1>4. SumFunction(f) \in Int /\ SumFunction(g) = SumFunction(f) + g[tx]
  BY <1>2, SumWithMore
<1>5. SumFunction(fc) \in Int /\ SumFunction(gc) = SumFunction(fc) + gc[tx]
  <2>1. /\ DOMAIN fc = txs /\ DOMAIN gc = txs \union {tx} /\ gc[tx] \in Int
        /\ \A t \in txs : fc[t] \in Int /\ fc[t] = gc[t]
    BY <1>2
  <2> QED BY <2>1, SumWithMore
<1> QED BY <1>2, <1>3, <1>4, <1>5

LEMMA NetOfNone == Net({}) = 0 /\ Flow({}) = 0
<1>1. DOMAIN [t \in {} |-> Units(t)] = {} /\ DOMAIN [t \in {} |-> -Units(t) * t.price] = {}
  OBVIOUS
<1> QED BY <1>1, SumOfEmpty DEF Net, Flow

HoldState == [qty : Nat, avg : Fractions, realized : Fractions]

\* Realised gain is the flow and what is held at its average, over some denominator.
InBalance(s, units, flow) ==
  /\ s.qty = units
  /\ \E D \in Nat \ {0}, z, a \in Int :
       Over(s.realized, D, z) /\ Over(s.avg, D, a) /\ z = flow * D + units * a

LEMMA ApplyIs ==
  ASSUME NEW s \in HoldState, NEW tx \in Transaction
  PROVE  ApplyTransaction(s, tx) \in HoldState
<1> DEFINE k == tx.quantity
           p == tx.price
           q == s.qty
           b == s.avg
           n == q + k
           total == Plus(Times(q, b), Whole(k * p))
           u == Lesser(k, q)
           gain == Plus(Whole(u * p), Times(-u, b))
<1>1. k \in Nat \ {0} /\ p \in Nat /\ q \in Nat /\ b \in Fractions /\ s.realized \in Fractions
  BY TransactionIs DEF HoldState
<1>2. CASE tx.action = "BUY"
  <2>1. ApplyTransaction(s, tx) = [s EXCEPT !.qty = n, !.avg = <<total[1], total[2] * n>>]
    BY <1>2 DEF ApplyTransaction
  <2>2. ApplyTransaction(s, tx) = [qty |-> n, avg |-> <<total[1], total[2] * n>>, realized |-> s.realized]
    BY <2>1 DEF HoldState
  <2>3. n \in Nat \ {0}
    BY <1>1
  <2>4. total \in Fractions
    <3>1. k * p \in Int /\ q \in Int /\ 1 \in Nat \ {0}
      BY <1>1
    <3>2. Times(q, b) \in Fractions
      BY <1>1, <3>1, FractionsClosed
    <3>3. Whole(k * p) \in Fractions
      BY <3>1, OverWhole
    <3> QED BY <3>1, <3>2, <3>3, FractionsClosed
  <2> HIDE DEF total, n
  <2>5. <<total[1], total[2] * n>> \in Fractions
    BY <2>3, <2>4, OverOwn, OverShare
  <2> QED BY <1>1, <2>2, <2>3, <2>5 DEF HoldState
<1>3. CASE tx.action # "BUY"
  <2>1. ApplyTransaction(s, tx) =
          [qty |-> q - u, avg |-> IF q = u THEN <<0, 1>> ELSE b, realized |-> Plus(s.realized, gain)]
    BY <1>3 DEF ApplyTransaction
  <2>2. u \in Nat /\ q - u \in Nat
    BY <1>1 DEF Lesser
  <2>3. gain \in Fractions
    <3>1. u * p \in Int /\ -u \in Int /\ 1 \in Nat \ {0}
      <4> HIDE DEF u, p
      <4> QED BY <1>1, <2>2
    <3>2. Times(-u, b) \in Fractions
      BY <1>1, <3>1, FractionsClosed
    <3>3. Whole(u * p) \in Fractions
      BY <3>1, OverWhole
    <3> QED BY <3>1, <3>2, <3>3, FractionsClosed
  <2> HIDE DEF gain, u
  <2>4. Plus(s.realized, gain) \in Fractions
    <3>1. 0 \in Int
      OBVIOUS
    <3> QED BY <1>1, <2>3, <3>1, FractionsClosed
  <2>5. <<0, 1>> \in Fractions
    BY DEF Fractions
  <2> QED BY <1>1, <2>1, <2>2, <2>4, <2>5 DEF HoldState
<1> QED BY <1>2, <1>3

\* The parts that a purchase of k at p leaves of a balance.
LEMMA PurchaseBalances ==
  ASSUME NEW z \in Int, NEW flow \in Int, NEW D \in Int, NEW q \in Int, NEW a \in Int, NEW k \in Int, NEW p \in Int,
         z = flow * D + q * a
  PROVE  z * (q + k) = (flow + -k * p) * (D * (q + k)) + (q + k) * (q * a + (k * p) * D)
<1> DEFINE n == q + k
           w == k * p
           x == flow * D
           y == q * a
           v == w * D
<1>1. (flow + -k * p) * (D * n) = (x - v) * n
  <2>1. -k * p = -w
    OBVIOUS
  <2>2. w \in Int /\ n \in Int
    OBVIOUS
  <2> HIDE DEF n, w
  <2>3. (flow + -w) * D = x - v
    BY <2>2
  <2>4. (flow + -w) * (D * n) = ((flow + -w) * D) * n
    BY <2>2
  <2> QED BY <2>1, <2>3, <2>4
<1>2. x \in Int /\ y \in Int /\ v \in Int /\ n \in Int
  <2>1. w \in Int
    OBVIOUS
  <2> HIDE DEF w
  <2> QED BY <2>1
<1>3. z = x + y
  OBVIOUS
<1> HIDE DEF n, x, y, v, w
<1>4. (x + y) * n = (x - v) * n + n * (y + v)
  BY <1>2
<1> QED BY <1>1, <1>3, <1>4 DEF n, x, y, v, w

LEMMA SaleBalances ==
  ASSUME NEW z \in Int, NEW flow \in Int, NEW D \in Int, NEW q \in Int, NEW a \in Int, NEW k \in Int, NEW p \in Int,
         z = flow * D + q * a
  PROVE  z + ((k * p) * D + -k * a) = (flow + k * p) * D + (q - k) * a
<1> DEFINE w == k * p
<1>1. w \in Int
  OBVIOUS
<1> HIDE DEF w
<1>2. (flow + w) * D = flow * D + w * D /\ (q - k) * a = q * a - k * a /\ -k * a = -(k * a)
  BY <1>1
<1> DEFINE x == flow * D  y == q * a  u == w * D  v == k * a
<1>3. x \in Int /\ y \in Int /\ u \in Int /\ v \in Int
  BY <1>1
<1>4. z + (u + -v) = (x + u) + (y - v)
  <2>1. z = x + y
    OBVIOUS
  <2> HIDE DEF x, y, u, v
  <2> QED BY <1>3, <2>1
<1> QED BY <1>2, <1>4 DEF w

LEMMA AppliedBalances ==
  ASSUME NEW s \in HoldState, NEW tx \in Transaction, NEW units \in Int, NEW flow \in Int,
         InBalance(s, units, flow), units + Units(tx) >= 0
  PROVE  InBalance(ApplyTransaction(s, tx), units + Units(tx), flow + -Units(tx) * tx.price)
<1> DEFINE k == tx.quantity
           p == tx.price
           q == s.qty
           b == s.avg
<1>1. k \in Nat \ {0} /\ p \in Nat /\ q \in Nat /\ b \in Fractions /\ s.realized \in Fractions /\ k \in Int /\ p \in Int /\ q \in Int
  BY TransactionIs DEF HoldState
<1>2. q = units
  BY DEF InBalance
<1>3. PICK D \in Nat \ {0}, z \in Int, a \in Int :
        Over(s.realized, D, z) /\ Over(b, D, a) /\ z = flow * D + q * a
  BY <1>2 DEF InBalance
<1>4. k * p \in Int /\ D \in Int /\ -k \in Int
  <2> HIDE DEF k, p
  <2> QED BY <1>1
<1>5. Over(Times(q, b), D, q * a) /\ Times(q, b) \in Fractions
  BY <1>1, <1>3, OverTimes
<1>6. Whole(k * p) \in Fractions /\ Over(Whole(k * p), D, (k * p) * D)
  BY <1>3, <1>4, OverWhole
<1>7. CASE tx.action = "BUY"
  <2> DEFINE n == q + k
             total == Plus(Times(q, b), Whole(k * p))
             t == q * a + (k * p) * D
             avg == <<total[1], total[2] * n>>
             new == ApplyTransaction(s, tx)
  <2>1. new = [s EXCEPT !.qty = n, !.avg = avg]
    BY <1>7 DEF ApplyTransaction
  <2>2. new.qty = n /\ new.avg = avg /\ new.realized = s.realized
    BY <2>1 DEF HoldState
  <2>3. n \in Nat \ {0}
    BY <1>1
  <2>4. q * a \in Int /\ (k * p) * D \in Int /\ t \in Int
    <3> DEFINE w == k * p
    <3>1. w \in Int
      BY <1>4
    <3> HIDE DEF w, k, p, q
    <3>2. q * a \in Int /\ w * D \in Int /\ q * a + w * D \in Int
      BY <1>1, <1>4, <3>1
    <3> QED BY <3>2 DEF w
  <2>5. total \in Fractions /\ Over(total, D, t)
    BY <1>3, <1>5, <1>6, <2>4, OverPlus
  <2> HIDE DEF total, t
  <2>6. Over(avg, D * n, t) /\ D * n \in Nat \ {0}
    BY <1>3, <2>3, <2>4, <2>5, OverShare DEF t
  <2>7. Over(s.realized, D * n, z * n)
    BY <1>1, <1>3, <2>3, OverShare
  <2>8. z * n = (flow + -k * p) * (D * n) + n * t
    BY <1>1, <1>3, <1>4, PurchaseBalances DEF t
  <2>9. Units(tx) = k
    BY <1>7 DEF Units
  <2>10. z * n \in Int /\ t \in Int
    <3> HIDE DEF n
    <3> QED BY <2>3, <2>4
  <2> HIDE DEF avg, new, n
  <2>11. \E E \in Nat \ {0}, y, c \in Int :
           Over(new.realized, E, y) /\ Over(new.avg, E, c) /\ y = (flow + -k * p) * E + n * c
    BY <2>2, <2>6, <2>7, <2>8, <2>10
  <2>12. InBalance(new, n, flow + -k * p)
    BY <2>2, <2>11 DEF InBalance
  <2> QED BY <1>2, <2>9, <2>12 DEF n, new
<1>8. CASE tx.action # "BUY"
  <2> DEFINE gain == Plus(Whole(k * p), Times(-k, b))
             new == ApplyTransaction(s, tx)
             r == q - k
             g == (k * p) * D + -k * a
             w == k * p
  <2>1. Units(tx) = -k
    BY <1>8 DEF Units
  <2>2. Lesser(k, q) = k /\ r \in Nat /\ (q = k <=> r = 0)
    BY <1>1, <1>2, <2>1 DEF Lesser
  <2>3. new.qty = r /\ new.avg = (IF r = 0 THEN <<0, 1>> ELSE b) /\ new.realized = Plus(s.realized, gain)
    BY <1>8, <2>2 DEF ApplyTransaction
  <2>4. Times(-k, b) \in Fractions /\ Over(Times(-k, b), D, -k * a)
    <3> DEFINE m == -k
    <3>1. Times(m, b) \in Fractions /\ Over(Times(m, b), D, m * a)
      <4>1. m \in Int
        BY <1>4
      <4> HIDE DEF m
      <4> QED BY <1>1, <1>3, <4>1, OverTimes
    <3>2. m * a = -k * a
      BY <1>1
    <3> QED BY <3>1, <3>2
  <2>5. (k * p) * D \in Int /\ -k * a \in Int /\ g \in Int
    <3>1. w \in Int
      BY <1>4
    <3> HIDE DEF k, w
    <3>2. w * D \in Int /\ -k * a \in Int /\ w * D + -k * a \in Int
      BY <1>1, <1>4, <3>1
    <3> QED BY <3>2 DEF w
  <2>6. gain \in Fractions /\ Over(gain, D, g)
    BY <1>3, <1>6, <2>4, <2>5, OverPlus
  <2> HIDE DEF gain, g
  <2>7. Over(Plus(s.realized, gain), D, z + g)
    BY <1>1, <1>3, <2>5, <2>6, OverPlus DEF g
  <2>8. z + g = (flow + k * p) * D + r * a
    <3>1. k \in Int /\ p \in Int /\ q \in Int
      BY <1>1
    <3> HIDE DEF k, p, q, b, r, new, w
    <3>2. z + ((k * p) * D + -k * a) = (flow + k * p) * D + (q - k) * a
      <4>1. z \in Int /\ a \in Int /\ D \in Int /\ z = flow * D + q * a
        BY <1>3
      <4> QED BY ONLY flow \in Int, <3>1, <4>1, SaleBalances
    <3> QED BY <3>2 DEF g, r
  <2>9. Over(<<0, 1>>, D, 0)
    BY <1>4 DEF Over
  <2>10. flow + -(-k) * p = flow + k * p
    <3>1. -(-k) * p = k * p
      <4> HIDE DEF k, p
      <4> QED BY <1>1
    <3> QED BY <3>1
  <2>11. z + g \in Int /\ r * a = IF r = 0 THEN r * 0 ELSE r * a
    <3>1. r = 0 => r * a = 0 /\ r * 0 = 0
      <4> HIDE DEF r
      <4> QED BY <2>2
    <3>2. z + g \in Int
      BY <2>5 DEF g
    <3> QED BY <3>1, <3>2
  <2> HIDE DEF new, r
  <2> DEFINE c == IF r = 0 THEN 0 ELSE a
  <2>12. c \in Int /\ Over(new.avg, D, c) /\ z + g = (flow + k * p) * D + r * c
    <3>1. CASE r = 0
      <4>1. c = 0 /\ new.avg = <<0, 1>> /\ r * a = r * 0
        BY <2>3, <2>11, <3>1
      <4> HIDE DEF c
      <4>2. z + g = (flow + k * p) * D + r * c
        BY <2>8, <4>1
      <4> QED BY <2>9, <4>1, <4>2
    <3>2. CASE r # 0
      BY <1>3, <2>3, <2>8, <3>2
    <3> QED BY <3>1, <3>2
  <2> HIDE DEF c
  <2>13. \E E \in Nat \ {0}, y, e \in Int :
           Over(new.realized, E, y) /\ Over(new.avg, E, e) /\ y = (flow + k * p) * E + r * e
    BY <1>3, <2>3, <2>7, <2>11, <2>12
  <2>14. InBalance(new, r, flow + k * p)
    BY <2>3, <2>13 DEF InBalance
  <2>15. units + Units(tx) = r
    BY <1>1, <1>2, <2>1 DEF r
  <2> QED BY <2>1, <2>10, <2>14, <2>15 DEF new
<1> QED BY <1>7, <1>8

\* What is held, and what has flowed, one transaction after the other.
Flows(txs, n) ==
  /\ Net(First(txs, 0)) = 0 /\ Flow(First(txs, 0)) = 0
  /\ \A k \in 0..n : Net(First(txs, k)) \in Int /\ Flow(First(txs, k)) \in Int
  /\ \A k \in 0..n : k < n =>
       LET tx == InOrder(txs)[k + 1] IN
       /\ tx \in Transaction
       /\ Net(First(txs, k + 1)) = Net(First(txs, k)) + Units(tx)
       /\ Flow(First(txs, k + 1)) = Flow(First(txs, k)) + -Units(tx) * tx.price
       /\ Net(First(txs, k)) + Units(tx) >= 0

LEMMA FlowsAre ==
  ASSUME NEW txs, Timed(txs), ~Oversold(txs)
  PROVE  Flows(txs, Cardinality(txs))
<1> DEFINE n == Cardinality(txs)
           q == InOrder(txs)
<1>1. n \in Nat /\ Numbered(txs, n)
  BY ByTimeIs
<1>2. txs \subseteq Transaction
  BY DEF Timed
<1>3. First(txs, 0) = {}
  BY <1>1 DEF Numbered
<1>4. ASSUME NEW k \in 0..n, k < n
      PROVE  /\ q[k + 1] \in Transaction
             /\ Net(First(txs, k)) \in Int /\ Flow(First(txs, k)) \in Int
             /\ Net(First(txs, k + 1)) = Net(First(txs, k)) + Units(q[k + 1])
             /\ Flow(First(txs, k + 1)) = Flow(First(txs, k)) + -Units(q[k + 1]) * q[k + 1].price
             /\ Net(First(txs, k)) + Units(q[k + 1]) >= 0
  <2> DEFINE tx == q[k + 1]
             part == First(txs, k)
             more == First(txs, k + 1)
  <2>1. IsFiniteSet(part) /\ part \subseteq Transaction
    BY <1>1 DEF Numbered
  <2>2. tx \in txs /\ tx \notin part /\ more = part \union {tx} /\ more = UpTo(txs, tx.at)
    BY <1>1, <1>4 DEF Numbered
  <2>3. tx \in Transaction
    BY <1>2, <2>2
  <2> HIDE DEF tx, part, more
  <2>4. /\ Net(part) \in Int /\ Flow(part) \in Int
        /\ Net(more) = Net(part) + Units(tx) /\ Flow(more) = Flow(part) + -Units(tx) * tx.price
    BY <2>1, <2>2, <2>3, NetOfMore
  <2>5. ~(Net(more) < 0) /\ Units(tx) \in Int
    BY <2>2, <2>3, UnitsAre DEF Oversold
  <2>6. Net(part) + Units(tx) >= 0
    BY <2>4, <2>5
  <2> QED BY <2>3, <2>4, <2>6 DEF tx, part, more
<1>5. ASSUME NEW k \in 0..n PROVE Net(First(txs, k)) \in Int /\ Flow(First(txs, k)) \in Int
  <2>1. CASE k < n
    BY <1>4, <2>1
  <2>2. CASE k = n
    <3>1. CASE n = 0
      BY <1>3, <2>2, <3>1, NetOfNone
    <3>2. CASE n # 0
      <4> DEFINE j == n - 1
      <4>1. j \in 0..n /\ j < n /\ j + 1 = n
        BY <1>1, <3>2
      <4> HIDE DEF j, n
      <4>2. /\ q[j + 1] \in Transaction
            /\ Net(First(txs, j)) \in Int /\ Flow(First(txs, j)) \in Int
            /\ Net(First(txs, j + 1)) = Net(First(txs, j)) + Units(q[j + 1])
            /\ Flow(First(txs, j + 1)) = Flow(First(txs, j)) + -Units(q[j + 1]) * q[j + 1].price
        BY <1>4, <4>1
      <4>3. Units(q[j + 1]) \in Int /\ -Units(q[j + 1]) * q[j + 1].price \in Int
        BY <4>2, UnitsAre
      <4> DEFINE f == -Units(q[j + 1]) * q[j + 1].price
      <4>4. f \in Int /\ Flow(First(txs, j + 1)) = Flow(First(txs, j)) + f
        BY <4>2, <4>3
      <4> HIDE DEF f
      <4> QED BY <2>2, <4>1, <4>2, <4>3, <4>4
    <3> QED BY <3>1, <3>2
  <2> QED BY <1>1, <2>1, <2>2
<1>6. Net(First(txs, 0)) = 0 /\ Flow(First(txs, 0)) = 0
  BY <1>3, NetOfNone
<1> HIDE DEF n
<1> QED BY <1>4, <1>5, <1>6 DEF Flows, n
-----------------------------------------------------------------------------
HoldingFold(q) ==
  CHOOSE h : h = [p \in SUBSET (DOMAIN q) |->
    IF p = {} THEN NoHolding ELSE ApplyTransaction(h[p \ {Max(p)}], q[Max(p)])]

HoldsOn(h, q) ==
  /\ h[1..0] = NoHolding
  /\ \A k \in 0..Len(q) : h[1..k] \in HoldState
  /\ \A k \in 0..Len(q) : k < Len(q) => h[1..(k + 1)] = ApplyTransaction(h[1..k], q[k + 1])

LEMMA HoldingRuns ==
  ASSUME NEW q \in Seq(Transaction)
  PROVE  HoldsOn(HoldingFold(q), q)
<1> DEFINE op == [a \in HoldState \X Transaction |-> ApplyTransaction(a[1], a[2])]
           IsFold(h) == h = [p \in SUBSET (DOMAIN q) |->
             IF p = {} THEN NoHolding ELSE ApplyTransaction(h[p \ {Max(p)}], q[Max(p)])]
           h == HoldingFold(q)
<1>1. Len(q) \in Nat /\ \A i \in DOMAIN q : q[i] \in Transaction
  OBVIOUS
<1>2. /\ op \in [HoldState \X Transaction -> HoldState]
      /\ \A s \in HoldState, tx \in Transaction : op[<<s, tx>>] = ApplyTransaction(s, tx)
  <2>1. \A a \in HoldState \X Transaction : ApplyTransaction(a[1], a[2]) \in HoldState
    BY ApplyIs
  <2> QED BY <2>1
<1>3. NoHolding \in HoldState
  BY DEF NoHolding, HoldState, Fractions
<1>4. h = CHOOSE g : IsFold(g)
  BY DEF HoldingFold
<1> HIDE DEF op
<1>5. PICK g \in [SUBSET (DOMAIN q) -> HoldState] : Folded(g, op, NoHolding, q)
  BY <1>2, <1>3, FoldOfSeq
<1>6. ASSUME NEW p \in SUBSET (DOMAIN q), p # {} PROVE g[p] = ApplyTransaction(g[p \ {Max(p)}], q[Max(p)])
  <2>1. g[p \ {Max(p)}] \in HoldState /\ q[Max(p)] \in Transaction
    BY <1>1, <1>5, <1>6 DEF Folded
  <2> QED BY <1>2, <1>5, <1>6, <2>1 DEF Folded
<1>7. IsFold(g)
  BY <1>5, <1>6 DEF Folded
<1>8. IsFold(h)
  BY <1>4, <1>7
<1>9. /\ h[{}] = NoHolding
      /\ \A p \in SUBSET (DOMAIN q) : p # {} => h[p] = ApplyTransaction(h[p \ {Max(p)}], q[Max(p)])
  BY <1>8
<1> HIDE DEF h
<1>10. ASSUME NEW p \in SUBSET (DOMAIN q), p # {}, h[p \ {Max(p)}] \in HoldState
       PROVE  h[p] = op[<<h[p \ {Max(p)}], q[Max(p)]>>]
  BY <1>1, <1>2, <1>5, <1>9, <1>10 DEF Folded
<1>11. FoldsBy(h, op, NoHolding, q, HoldState)
  BY <1>9, <1>10 DEF FoldsBy
<1>12. RunsBy(h, op, q, HoldState)
  BY <1>2, <1>3, <1>11, FoldRuns
<1>13. ASSUME NEW k \in 0..Len(q)
       PROVE  h[1..k] \in HoldState /\ (k < Len(q) => h[1..(k + 1)] = ApplyTransaction(h[1..k], q[k + 1]))
  <2>1. h[1..k] \in HoldState /\ (k < Len(q) => h[1..(k + 1)] = op[<<h[1..k], q[k + 1]>>])
    BY <1>12 DEF RunsBy
  <2>2. ASSUME k < Len(q) PROVE q[k + 1] \in Transaction
    BY <1>1, <2>2
  <2> QED BY <1>2, <2>1, <2>2
<1>14. h[1..0] = NoHolding
  <2>1. 1..0 = {}
    OBVIOUS
  <2> QED BY <1>9, <2>1
<1> QED BY <1>13, <1>14 DEF HoldsOn, h

\* Average cost, for a ledger that sells nothing it does not hold.
LEMMA AveragesAgree ==
  ASSUME NEW txs, Timed(txs), ~Oversold(txs)
  PROVE  AverageAgrees(txs) /\ Holding(txs) \in HoldState
<1> DEFINE n == Cardinality(txs)
           q == InOrder(txs)
           h == HoldingFold(q)
           good == {k \in 0..n : InBalance(h[1..k], Net(First(txs, k)), Flow(First(txs, k)))}
<1>1. n \in Nat /\ q \in Seq(Transaction) /\ Len(q) = n /\ First(txs, n) = txs
  BY ByTimeIs DEF Numbered
<1>2. Flows(txs, n)
  BY FlowsAre
<1>3. HoldsOn(h, q)
  BY <1>1, HoldingRuns
<1>4. Holding(txs) = h[1..n]
  <2>1. Holding(txs) = h[DOMAIN q]
    BY DEF Holding, FoldLeft, MapThenFoldSet, HoldingFold
  <2>2. DOMAIN q = 1..n
    BY <1>1
  <2> QED BY <2>1, <2>2
<1> HIDE DEF h, q
<1>5. 0 \in good
  <2>1. h[1..0] = NoHolding /\ Net(First(txs, 0)) = 0 /\ Flow(First(txs, 0)) = 0
    BY <1>2, <1>3 DEF HoldsOn, Flows
  <2>2. InBalance(NoHolding, 0, 0)
    <3>1. /\ NoHolding.qty = 0 /\ Over(NoHolding.realized, 1, 0) /\ Over(NoHolding.avg, 1, 0)
          /\ 0 = 0 * 1 + 0 * 0 /\ 1 \in Nat \ {0} /\ 0 \in Int
      BY DEF NoHolding, Over
    <3> QED BY <3>1 DEF InBalance
  <2>3. 0 \in 0..n
    BY <1>1
  <2> QED BY <2>1, <2>2, <2>3
<1>6. ASSUME NEW k \in 0..(n - 1), k \in good PROVE k + 1 \in good
  <2> DEFINE tx == q[k + 1]
             units == Net(First(txs, k))
             flow == Flow(First(txs, k))
             s == h[1..k]
  <2>1. k \in 0..n /\ k < n /\ k + 1 \in 0..n
    BY <1>1
  <2>2. s \in HoldState /\ h[1..(k + 1)] = ApplyTransaction(s, tx)
    BY <1>1, <1>3, <2>1 DEF HoldsOn
  <2>3. /\ tx \in Transaction /\ units \in Int /\ flow \in Int /\ units + Units(tx) >= 0
        /\ Net(First(txs, k + 1)) = units + Units(tx)
        /\ Flow(First(txs, k + 1)) = flow + -Units(tx) * tx.price
    BY <1>2, <2>1 DEF Flows, q
  <2>4. InBalance(s, units, flow)
    BY <1>6
  <2> HIDE DEF tx, units, flow, s
  <2>5. InBalance(ApplyTransaction(s, tx), units + Units(tx), flow + -Units(tx) * tx.price)
    BY <2>2, <2>3, <2>4, AppliedBalances
  <2>6. InBalance(h[1..(k + 1)], Net(First(txs, k + 1)), Flow(First(txs, k + 1)))
    BY <2>2, <2>3, <2>5
  <2> QED BY <2>1, <2>6
<1>7. InBalance(Holding(txs), Net(txs), Flow(txs))
  <2>1. 0..n \subseteq good
    <3> HIDE DEF good, n
    <3> QED BY <1>1, <1>5, <1>6, Upward
  <2>2. n \in good
    BY <1>1, <2>1
  <2> QED BY <1>1, <1>4, <2>2
<1> DEFINE s == Holding(txs)
           units == Net(txs)
           flow == Flow(txs)
<1>8. s \in HoldState /\ units \in Int /\ flow \in Int
  <2>1. n \in 0..n
    BY <1>1
  <2>2. h[1..n] \in HoldState
    BY <1>1, <1>3, <2>1 DEF HoldsOn
  <2>3. Net(First(txs, n)) \in Int /\ Flow(First(txs, n)) \in Int
    BY <1>2, <2>1 DEF Flows
  <2> QED BY <1>1, <1>4, <2>2, <2>3
<1> HIDE DEF s, units, flow
<1>9. PICK D \in Nat \ {0}, z \in Int, a \in Int :
        Over(s.realized, D, z) /\ Over(s.avg, D, a) /\ z = flow * D + units * a
  BY <1>7 DEF InBalance, s, units, flow
<1>10. s.qty = units /\ s.avg \in Fractions /\ s.realized \in Fractions
  BY <1>7, <1>8 DEF InBalance, HoldState, s, units
<1>11. SameAmount(s.realized, Plus(Whole(flow), Times(s.qty, s.avg)))
  <2>1. Whole(flow) \in Fractions /\ Over(Whole(flow), D, flow * D)
    BY <1>8, OverWhole
  <2>2. Times(units, s.avg) \in Fractions /\ Over(Times(units, s.avg), D, units * a)
    BY <1>8, <1>9, <1>10, OverTimes
  <2>3. flow * D \in Int /\ units * a \in Int
    BY <1>8
  <2> DEFINE x == flow * D
             y == units * a
             b == Plus(Whole(flow), Times(units, s.avg))
  <2>4. x \in Int /\ y \in Int /\ x + y \in Int /\ z = x + y
    BY <1>9, <2>3
  <2>5. b \in Fractions /\ Over(b, D, x + y)
    <3> HIDE DEF x, y
    <3> QED BY <2>1, <2>2, <2>4, OverPlus DEF x, y
  <2> HIDE DEF b, x, y
  <2>6. SameAmount(s.realized, b)
    BY <1>9, <1>10, <2>4, <2>5, OverSame
  <2> QED BY <1>10, <2>6 DEF b
<1> QED BY <1>8, <1>10, <1>11 DEF AverageAgrees, s, units, flow

\* The lots are the units held, and what they cost is what the flow lacks to the gains.
Reported(r, units, flow) ==
  /\ r \in TaxState /\ ~r.failed /\ Quantity(r.lots) = units
  /\ Gains(r.realized) = flow + CostOf(r.lots)

LEMMA StepIs ==
  ASSUME NEW r \in TaxState, NEW tx \in Transaction, NEW method \in {"FIFO", "LIFO"}
  PROVE  TaxStep(r, tx, method) \in TaxState
<1>1. CASE tx.action = "BUY"
  <2> DEFINE lot == [quantity |-> tx.quantity, cost |-> tx.price, acquired |-> tx.at]
             lots == Acquire(r.lots, lot, method)
  <2>1. TaxStep(r, tx, method) = [lots |-> lots, realized |-> r.realized, failed |-> r.failed]
    BY <1>1 DEF TaxStep, TaxState
  <2>2. lot \in Lot /\ r.lots \in Seq(Lot)
    BY TransactionIs DEF Lot, TaxState
  <2> HIDE DEF lot
  <2>3. lots \in Seq(Lot)
    <3>1. Append(r.lots, lot) \in Seq(Lot)
      BY <2>2
    <3>2. <<lot>> \o r.lots \in Seq(Lot)
      BY <2>2, LotsOfFirst
    <3> QED BY <3>1, <3>2 DEF Acquire
  <2> HIDE DEF lots
  <2> QED BY <2>1, <2>3 DEF TaxState
<1>2. CASE tx.action # "BUY"
  <2>1. Consume(r, tx) \in TaxState
    BY SaleTakes DEF Took
  <2> QED BY <1>2, <2>1 DEF TaxStep
<1> QED BY <1>1, <1>2

LEMMA StepReports ==
  ASSUME NEW r, NEW tx \in Transaction, NEW method \in {"FIFO", "LIFO"}, NEW units \in Int, NEW flow \in Int,
         Reported(r, units, flow), units + Units(tx) >= 0
  PROVE  Reported(TaxStep(r, tx, method), units + Units(tx), flow + -Units(tx) * tx.price)
<1> DEFINE k == tx.quantity
           p == tx.price
           cost == CostOf(r.lots)
<1>1. /\ r \in TaxState /\ ~r.failed /\ Quantity(r.lots) = units /\ Gains(r.realized) = flow + cost
      /\ r.lots \in Seq(Lot)
  BY DEF Reported, TaxState
<1>2. k \in Nat \ {0} /\ p \in Nat /\ tx.at \in 1..MaxTx /\ k * p \in Int /\ k \in Int /\ p \in Int
  <2>1. k \in Nat \ {0} /\ p \in Nat /\ tx.at \in 1..MaxTx
    BY TransactionIs
  <2> HIDE DEF k, p
  <2> QED BY <2>1
<1>3. cost \in Int
  <2>1. [quantity |-> k, cost |-> p, acquired |-> tx.at] \in Lot
    BY <1>2 DEF Lot
  <2> QED BY <1>1, <2>1, LotsOfMore
<1>4. CASE tx.action = "BUY"
  <2> DEFINE lot == [quantity |-> k, cost |-> p, acquired |-> tx.at]
             lots == Acquire(r.lots, lot, method)
             s == TaxStep(r, tx, method)
  <2>1. s = [lots |-> lots, realized |-> r.realized, failed |-> r.failed]
    BY <1>1, <1>4 DEF TaxStep, TaxState
  <2>2. lot \in Lot /\ lot.quantity = k /\ lot.cost = p
    BY <1>2 DEF Lot
  <2> HIDE DEF lot
  <2>3. Quantity(lots) = units + k /\ CostOf(lots) = cost + k * p
    <3>1. Quantity(Append(r.lots, lot)) = units + k /\ CostOf(Append(r.lots, lot)) = cost + k * p
      BY <1>1, <2>2, LotsOfMore
    <3>2. Quantity(<<lot>> \o r.lots) = units + k /\ CostOf(<<lot>> \o r.lots) = cost + k * p
      BY <1>1, <2>2, LotsOfFirst
    <3> QED BY <3>1, <3>2 DEF Acquire
  <2>4. s \in TaxState
    BY <1>1, StepIs
  <2> HIDE DEF lots, s
  <2>5. s.lots = lots /\ s.realized = r.realized /\ s.failed = r.failed
    BY <2>1
  <2>6. Units(tx) = k
    BY <1>4 DEF Units
  <2>7. Gains(s.realized) = (flow + -k * p) + CostOf(s.lots)
    <3> DEFINE w == k * p
    <3>1. -k * p = -w /\ w \in Int
      BY <1>2
    <3>2. Gains(s.realized) = flow + cost /\ CostOf(s.lots) = cost + w
      BY <1>1, <2>3, <2>5
    <3> HIDE DEF w, cost
    <3> QED BY <1>3, <3>1, <3>2
  <2> QED BY <1>1, <2>3, <2>4, <2>5, <2>6, <2>7 DEF Reported, s
<1>5. CASE tx.action # "BUY"
  <2> DEFINE c == Consume(r, tx)
  <2>1. PICK taken \in Nat : Took(r, c, tx, taken)
    BY <1>1, SaleTakes
  <2> HIDE DEF c
  <2>2. /\ c \in TaxState /\ taken \in 0..k /\ Quantity(c.lots) = units - taken
        /\ Gains(c.realized) = (flow + cost) + (taken * p - (cost - CostOf(c.lots)))
        /\ taken < k => Quantity(c.lots) = 0
        /\ c.failed <=> taken < k
    BY <1>1, <2>1 DEF Took
  <2>3. Units(tx) = -k
    BY <1>5 DEF Units
  <2>4. taken = k
    BY <1>2, <2>2, <2>3
  <2>5. CostOf(c.lots) \in Int
    <3>1. [quantity |-> k, cost |-> p, acquired |-> tx.at] \in Lot
      BY <1>2 DEF Lot
    <3>2. c.lots \in Seq(Lot)
      BY <2>2 DEF TaxState
    <3> QED BY <3>1, <3>2, LotsOfMore
  <2>6. Gains(c.realized) = (flow + -(-k) * p) + CostOf(c.lots)
    <3> DEFINE w == k * p
               e == CostOf(c.lots)
    <3>1. -(-k) * p = w /\ w \in Int
      <4> HIDE DEF k, p
      <4> QED BY <1>2
    <3>2. Gains(c.realized) = (flow + cost) + (w - (cost - e))
      BY <2>2, <2>4
    <3>3. e \in Int
      BY <2>5
    <3> HIDE DEF w, e, cost
    <3>4. Gains(c.realized) = (flow + w) + e
      BY <1>3, <3>1, <3>2, <3>3
    <3> QED BY <3>1, <3>4 DEF e
  <2>7. Quantity(c.lots) = units + -k /\ ~c.failed /\ c \in TaxState
    BY <1>2, <2>2, <2>4
  <2>8. TaxStep(r, tx, method) = c
    BY <1>5 DEF TaxStep, c
  <2> QED BY <2>3, <2>6, <2>7, <2>8 DEF Reported
<1> QED BY <1>4, <1>5

TaxFold(q, method) ==
  CHOOSE h : h = [p \in SUBSET (DOMAIN q) |->
    IF p = {} THEN NoLots ELSE TaxStep(h[p \ {Max(p)}], q[Max(p)], method)]

TaxRuns(h, q, method) ==
  /\ h[1..0] = NoLots
  /\ \A k \in 0..Len(q) : h[1..k] \in TaxState
  /\ \A k \in 0..Len(q) : k < Len(q) => h[1..(k + 1)] = TaxStep(h[1..k], q[k + 1], method)

LEMMA TaxReportRuns ==
  ASSUME NEW q \in Seq(Transaction), NEW method \in {"FIFO", "LIFO"}
  PROVE  TaxRuns(TaxFold(q, method), q, method)
<1> DEFINE op == [a \in TaxState \X Transaction |-> TaxStep(a[1], a[2], method)]
           IsFold(h) == h = [p \in SUBSET (DOMAIN q) |->
             IF p = {} THEN NoLots ELSE TaxStep(h[p \ {Max(p)}], q[Max(p)], method)]
           h == TaxFold(q, method)
<1>1. Len(q) \in Nat /\ \A i \in DOMAIN q : q[i] \in Transaction
  OBVIOUS
<1>2. /\ op \in [TaxState \X Transaction -> TaxState]
      /\ \A s \in TaxState, tx \in Transaction : op[<<s, tx>>] = TaxStep(s, tx, method)
  <2>1. \A a \in TaxState \X Transaction : TaxStep(a[1], a[2], method) \in TaxState
    BY StepIs
  <2> QED BY <2>1
<1>3. NoLots \in TaxState
  BY LotsOfNone, GainsOfNone DEF NoLots, TaxState
<1>4. h = CHOOSE g : IsFold(g)
  BY DEF TaxFold
<1> HIDE DEF op
<1>5. PICK g \in [SUBSET (DOMAIN q) -> TaxState] : Folded(g, op, NoLots, q)
  BY <1>2, <1>3, FoldOfSeq
<1>6. ASSUME NEW p \in SUBSET (DOMAIN q), p # {} PROVE g[p] = TaxStep(g[p \ {Max(p)}], q[Max(p)], method)
  <2>1. g[p \ {Max(p)}] \in TaxState /\ q[Max(p)] \in Transaction
    BY <1>1, <1>5, <1>6 DEF Folded
  <2> QED BY <1>2, <1>5, <1>6, <2>1 DEF Folded
<1>7. IsFold(g)
  BY <1>5, <1>6 DEF Folded
<1>8. IsFold(h)
  BY <1>4, <1>7
<1>9. /\ h[{}] = NoLots
      /\ \A p \in SUBSET (DOMAIN q) : p # {} => h[p] = TaxStep(h[p \ {Max(p)}], q[Max(p)], method)
  BY <1>8
<1> HIDE DEF h
<1>10. ASSUME NEW p \in SUBSET (DOMAIN q), p # {}, h[p \ {Max(p)}] \in TaxState
       PROVE  h[p] = op[<<h[p \ {Max(p)}], q[Max(p)]>>]
  BY <1>1, <1>2, <1>5, <1>9, <1>10 DEF Folded
<1>11. FoldsBy(h, op, NoLots, q, TaxState)
  BY <1>9, <1>10 DEF FoldsBy
<1>12. RunsBy(h, op, q, TaxState)
  BY <1>2, <1>3, <1>11, FoldRuns
<1>13. ASSUME NEW k \in 0..Len(q)
       PROVE  h[1..k] \in TaxState /\ (k < Len(q) => h[1..(k + 1)] = TaxStep(h[1..k], q[k + 1], method))
  <2>1. h[1..k] \in TaxState /\ (k < Len(q) => h[1..(k + 1)] = op[<<h[1..k], q[k + 1]>>])
    BY <1>12 DEF RunsBy
  <2>2. ASSUME k < Len(q) PROVE q[k + 1] \in Transaction
    BY <1>1, <2>2
  <2> QED BY <1>2, <2>1, <2>2
<1>14. h[1..0] = NoLots
  <2>1. 1..0 = {}
    OBVIOUS
  <2> QED BY <1>9, <2>1
<1> QED BY <1>13, <1>14 DEF TaxRuns, h

\* Tax lots, for a ledger that sells nothing it does not hold.
LEMMA TaxAgrees ==
  ASSUME NEW txs, Timed(txs), ~Oversold(txs), NEW method \in {"FIFO", "LIFO"}
  PROVE  LotsAgree(txs, method)
<1> DEFINE n == Cardinality(txs)
           q == InOrder(txs)
           h == TaxFold(q, method)
           good == {k \in 0..n : Reported(h[1..k], Net(First(txs, k)), Flow(First(txs, k)))}
<1>1. n \in Nat /\ q \in Seq(Transaction) /\ Len(q) = n /\ First(txs, n) = txs
  BY ByTimeIs DEF Numbered
<1>2. Flows(txs, n)
  BY FlowsAre
<1>3. TaxRuns(h, q, method)
  BY <1>1, TaxReportRuns
<1>4. TaxReport(txs, method) = h[1..n]
  <2>1. TaxReport(txs, method) = h[DOMAIN q]
    BY DEF TaxReport, FoldLeft, MapThenFoldSet, TaxFold
  <2>2. DOMAIN q = 1..n
    BY <1>1
  <2> QED BY <2>1, <2>2
<1> HIDE DEF h, q
<1>5. 0 \in good
  <2>1. h[1..0] = NoLots /\ Net(First(txs, 0)) = 0 /\ Flow(First(txs, 0)) = 0
    BY <1>2, <1>3 DEF TaxRuns, Flows
  <2>2. Reported(NoLots, 0, 0)
    <3>1. NoLots.lots = <<>> /\ NoLots.realized = <<>> /\ ~NoLots.failed /\ NoLots \in TaxState
      BY LotsOfNone, GainsOfNone DEF NoLots, TaxState
    <3> QED BY <3>1, LotsOfNone, GainsOfNone DEF Reported
  <2>3. 0 \in 0..n
    BY <1>1
  <2> QED BY <2>1, <2>2, <2>3
<1>6. ASSUME NEW k \in 0..(n - 1), k \in good PROVE k + 1 \in good
  <2> DEFINE tx == q[k + 1]
             units == Net(First(txs, k))
             flow == Flow(First(txs, k))
             r == h[1..k]
  <2>1. k \in 0..n /\ k < n /\ k + 1 \in 0..n
    BY <1>1
  <2>2. h[1..(k + 1)] = TaxStep(r, tx, method)
    BY <1>1, <1>3, <2>1 DEF TaxRuns
  <2>3. /\ tx \in Transaction /\ units \in Int /\ flow \in Int /\ units + Units(tx) >= 0
        /\ Net(First(txs, k + 1)) = units + Units(tx)
        /\ Flow(First(txs, k + 1)) = flow + -Units(tx) * tx.price
    BY <1>2, <2>1 DEF Flows, q
  <2>4. Reported(r, units, flow)
    BY <1>6
  <2> HIDE DEF tx, units, flow, r
  <2>5. Reported(TaxStep(r, tx, method), units + Units(tx), flow + -Units(tx) * tx.price)
    BY <2>3, <2>4, StepReports
  <2>6. Reported(h[1..(k + 1)], Net(First(txs, k + 1)), Flow(First(txs, k + 1)))
    BY <2>2, <2>3, <2>5
  <2> QED BY <2>1, <2>6
<1>7. Reported(TaxReport(txs, method), Net(txs), Flow(txs))
  <2>1. 0..n \subseteq good
    <3> HIDE DEF good, n
    <3> QED BY <1>1, <1>5, <1>6, Upward
  <2>2. n \in good
    BY <1>1, <2>1
  <2> QED BY <1>1, <1>4, <2>2
<1> QED BY <1>7 DEF Reported, LotsAgree, Gains

\* No two transactions were made at one time.
TimesDiffer ==
  /\ IsFiniteSet(ledger) /\ \A a, b \in ledger : a.at = b.at => a = b
  /\ \A a \in ledger : a.at <= clock
  /\ \A r \in Writers : pending[r] # NoTx =>
       /\ pending[r].at <= clock
       /\ \A a \in ledger : a.at # pending[r].at
       /\ \A q \in Writers : q # r /\ pending[q] # NoTx => pending[q].at # pending[r].at

\* The history of a symbol whose sales were all covered never went below zero, and
\* what its one pending sale takes is there at its time and has been since.
Covered(s) ==
  /\ \A t \in 0..MaxTx : Net(UpTo(Of(s), t)) >= 0
  /\ \A r \in Writers : SaleUnderWay(r, s) =>
       \A t \in 0..MaxTx : pending[r].at <= t => Net(UpTo(Of(s), t)) >= pending[r].quantity
  /\ \A r, q \in Writers : SaleUnderWay(r, s) /\ SaleUnderWay(q, s) => r = q

LedgerInv == LedgerTypeOK /\ TimesDiffer /\ \A s \in Symbols \ uncovered : Covered(s)

LEMMA SymbolTimed ==
  ASSUME LedgerTypeOK, TimesDiffer, NEW s
  PROVE  Timed(Of(s))
<1>1. Of(s) \subseteq ledger
  BY DEF Of
<1>2. IsFiniteSet(Of(s))
  BY <1>1, FS_Subset DEF TimesDiffer
<1> QED BY <1>1, <1>2 DEF TimesDiffer, Timed, LedgerTypeOK

LEMMA CoveredNotOversold ==
  ASSUME LedgerTypeOK, TimesDiffer, NEW s \in Symbols, Covered(s)
  PROVE  ~Oversold(Of(s))
<1>1. SUFFICES ASSUME NEW tx \in Of(s), Net(UpTo(Of(s), tx.at)) < 0 PROVE FALSE
  BY DEF Oversold
<1>2. tx.at \in 0..MaxTx
  <2>1. tx \in Transaction
    BY DEF LedgerTypeOK, Of
  <2>2. tx.at \in 1..MaxTx
    BY <2>1, TransactionIs
  <2> QED BY <2>2, LedgerAssumption
<1>3. Net(UpTo(Of(s), tx.at)) >= 0
  BY <1>2 DEF Covered
<1>4. Net(UpTo(Of(s), tx.at)) \in Int
  <2> DEFINE P == UpTo(Of(s), tx.at)
  <2>1. P \subseteq Of(s) /\ Of(s) \subseteq Transaction /\ IsFiniteSet(Of(s))
    BY SymbolTimed DEF Timed, UpTo
  <2>2. IsFiniteSet(P) /\ \A t \in P : Units(t) \in Int
    BY <2>1, FS_Subset, UnitsAre
  <2> DEFINE f == [t \in P |-> Units(t)]
  <2>3. DOMAIN f = P /\ \A t \in P : f[t] \in Int
    BY <2>2
  <2>4. Net(P) = SumFunctionOnSet(f, P)
    BY DEF Net, SumFunction
  <2> HIDE DEF f, P
  <2>5. Net(P) \in Int
    BY <2>2, <2>3, <2>4, SumFoldIs, SumChosen
  <2> QED BY <2>5 DEF P
<1> QED BY <1>1, <1>3, <1>4

\* Such a symbol holds what the check of a sale compares with.
LEMMA HeldIsNet ==
  ASSUME LedgerTypeOK, TimesDiffer, NEW s \in Symbols, Covered(s)
  PROVE  Held(s) = Net(Of(s))
BY SymbolTimed, CoveredNotOversold, AveragesAgree DEF Held, AverageAgrees

LEMMA LedgerStarts == LedgerInit => LedgerInv
<1> SUFFICES ASSUME LedgerInit PROVE LedgerInv
  OBVIOUS
<1>1. LedgerTypeOK
  BY LedgerAssumption DEF LedgerInit, LedgerTypeOK
<1>2. TimesDiffer
  BY FS_EmptySet DEF LedgerInit, TimesDiffer
<1>3. ASSUME NEW s PROVE Covered(s)
  <2>1. \A t : UpTo(Of(s), t) = {}
    BY DEF UpTo, Of, LedgerInit
  <2>2. \A r \in Writers : ~SaleUnderWay(r, s)
    BY DEF SaleUnderWay, LedgerInit
  <2>3. \A t : Net(UpTo(Of(s), t)) >= 0
    BY <2>1, NetOfNone
  <2> QED BY <2>2, <2>3 DEF Covered
<1> QED BY <1>1, <1>2, <1>3 DEF LedgerInv

LEMMA MakeKeeps ==
  ASSUME LedgerInv, NEW r \in Writers, NEW s \in Symbols, NEW action \in {"BUY", "SELL"},
         NEW k \in Quantities, NEW price \in PriceSet, Make(r, s, action, k, price)
  PROVE  LedgerInv'
<1> DEFINE tx == [symbol |-> s, action |-> action, quantity |-> k, price |-> price, at |-> clock + 1]
<1>1. /\ LedgerTypeOK /\ TimesDiffer /\ pending[r] = NoTx /\ clock < MaxTx /\ clock' = clock + 1
      /\ pending' = [pending EXCEPT ![r] = tx] /\ ledger' = ledger
  BY DEF Make, LedgerInv
<1>2. clock \in 0..MaxTx /\ clock \in Int /\ clock + 1 \in 1..MaxTx /\ MaxTx \in Nat /\ k \in Nat
  BY <1>1, LedgerAssumption DEF LedgerTypeOK
<1>3. tx \in Transaction
  BY <1>2 DEF Transaction
<1>4. uncovered \subseteq uncovered' /\ uncovered' \subseteq Symbols
  BY <1>1 DEF Make, LedgerTypeOK
<1>5. pending'[r] = tx /\ \A q \in Writers : q # r => pending'[q] = pending[q]
  BY <1>1 DEF LedgerTypeOK
<1>6. LedgerTypeOK'
  <2>1. pending' \in [Writers -> Transaction \union {NoTx}]
    BY <1>1, <1>3 DEF LedgerTypeOK
  <2>2. clock' \in 0..MaxTx
    BY <1>1, <1>2
  <2> QED BY <1>1, <1>4, <2>1, <2>2 DEF LedgerTypeOK
<1>7. /\ \A a \in ledger : a.at \in Int /\ a.at <= clock
      /\ \A q \in Writers : pending[q] # NoTx => pending[q].at \in Int /\ pending[q].at <= clock
  <2>1. \A a \in Transaction : a.at \in Int
    BY DEF Transaction
  <2> QED BY <1>1, <2>1 DEF TimesDiffer, LedgerTypeOK
<1>8. TimesDiffer'
  <2>1. \A a \in ledger : a.at <= clock + 1 /\ a.at # clock + 1
    BY <1>2, <1>7
  <2>2. tx.at = clock + 1
    OBVIOUS
  <2> HIDE DEF tx
  <2>3. ASSUME NEW p \in Writers, pending'[p] # NoTx
        PROVE  /\ pending'[p].at <= clock'
               /\ \A a \in ledger : a.at # pending'[p].at
               /\ \A q \in Writers : q # p /\ pending'[q] # NoTx => pending'[q].at # pending'[p].at
    <3>1. CASE p = r
      <4>1. pending'[p].at = clock + 1
        BY <1>5, <2>2, <3>1
      <4>2. ASSUME NEW q \in Writers, q # p, pending'[q] # NoTx PROVE pending'[q].at # pending'[p].at
        <5>1. pending'[q] = pending[q] /\ pending[q].at \in Int /\ pending[q].at <= clock
          BY <1>5, <1>7, <3>1, <4>2
        <5> QED BY <1>2, <4>1, <5>1
      <4> QED BY <1>1, <1>2, <2>1, <4>1, <4>2
    <3>2. CASE p # r
      <4>1. pending'[p] = pending[p] /\ pending[p] # NoTx
        BY <1>5, <2>3, <3>2
      <4>2. pending[p].at \in Int /\ pending[p].at <= clock
        BY <1>7, <4>1
      <4>3. ASSUME NEW q \in Writers, q # p, pending'[q] # NoTx PROVE pending'[q].at # pending'[p].at
        <5>1. CASE q = r
          <6>1. pending'[q].at = clock + 1
            BY <1>5, <2>2, <5>1
          <6> QED BY <1>2, <4>1, <4>2, <6>1
        <5>2. CASE q # r
          BY <1>1, <1>5, <4>1, <4>3, <5>2 DEF TimesDiffer
        <5> QED BY <5>1, <5>2
      <4>4. \A a \in ledger : a.at # pending[p].at
        BY <1>1, <4>1 DEF TimesDiffer
      <4> QED BY <1>1, <1>2, <4>1, <4>2, <4>3, <4>4
    <3> QED BY <3>1, <3>2
  <2>4. IsFiniteSet(ledger) /\ \A a, b \in ledger : a.at = b.at => a = b
    BY <1>1 DEF TimesDiffer
  <2>5. \A a \in ledger : a.at <= clock'
    BY <1>1, <2>1
  <2> QED BY <1>1, <2>3, <2>4, <2>5 DEF TimesDiffer
<1>9. ASSUME NEW c \in Symbols, c \notin uncovered' PROVE Covered(c)'
  <2>1. Covered(c)
    BY <1>4, <1>9 DEF LedgerInv
  <2>2. Of(c)' = Of(c)
    BY <1>1 DEF Of
  <2>3. \A q \in Writers : q # r => (SaleUnderWay(q, c)' <=> SaleUnderWay(q, c)) /\ pending'[q] = pending[q]
    BY <1>5 DEF SaleUnderWay
  <2>4. SaleUnderWay(r, c)' => c = s /\ action = "SELL" /\ pending'[r].quantity = k /\ pending'[r].at = clock + 1
    BY <1>5 DEF SaleUnderWay
  <2>5. ASSUME SaleUnderWay(r, c)', NEW q \in Writers, q # r PROVE ~SaleUnderWay(q, c)
    <3>1. c = s /\ action = "SELL"
      BY <2>4, <2>5
    <3>2. ASSUME SaleUnderWay(q, c) PROVE s \in uncovered'
      <4>1. q \in Writers \ {r} /\ pending[q] # NoTx /\ pending[q].symbol = s /\ pending[q].action = "SELL"
        BY <2>5, <3>1, <3>2 DEF SaleUnderWay
      <4> QED BY <3>1, <4>1 DEF Make, SaleUnderWay
    <3> QED BY <1>9, <3>1, <3>2
  <2>6. ASSUME NEW p \in Writers, NEW q \in Writers, SaleUnderWay(p, c)', SaleUnderWay(q, c)' PROVE p = q
    <3>1. CASE p = r
      BY <2>3, <2>5, <2>6, <3>1
    <3>2. CASE q = r
      BY <2>3, <2>5, <2>6, <3>2
    <3>3. CASE p # r /\ q # r
      BY <2>1, <2>3, <2>6, <3>3 DEF Covered
    <3> QED BY <3>1, <3>2, <3>3
  <2>7. ASSUME NEW p \in Writers, SaleUnderWay(p, c)', NEW t \in 0..MaxTx, pending'[p].at <= t
        PROVE  Net(UpTo(Of(c), t)) >= pending'[p].quantity
    <3>1. CASE p = r
      <4>1. c = s /\ action = "SELL" /\ pending'[p].quantity = k /\ clock + 1 <= t
        BY <1>1, <2>4, <2>7, <3>1
      <4>2. Held(s) = Net(Of(s))
        BY <1>1, <2>1, <4>1, HeldIsNet
      <4>5. ~(k > Held(s))
        <5>1. k > Held(s) => s \in uncovered'
          BY <4>1 DEF Make
        <5> QED BY <1>9, <4>1, <5>1
      <4>3. UpTo(Of(s), t) = Of(s)
        <5>1. \A a \in Of(s) : a.at <= t
          BY <1>2, <1>7, <4>1 DEF Of
        <5> QED BY <5>1 DEF UpTo
      <4>4. Held(s) >= k
        <5>1. Held(s) \in Int
          BY <1>1, <2>1, <4>1, SymbolTimed, CoveredNotOversold, AveragesAgree DEF Held, HoldState
        <5> QED BY <1>2, <4>5, <5>1
      <4> QED BY <4>1, <4>2, <4>3, <4>4
    <3>2. CASE p # r
      BY <2>1, <2>3, <2>7, <3>2 DEF Covered
    <3> QED BY <3>1, <3>2
  <2>8. \A t \in 0..MaxTx : Net(UpTo(Of(c), t)) >= 0
    BY <2>1 DEF Covered
  <2>9. \A t : Net(UpTo(Of(c), t))' = Net(UpTo(Of(c), t))
    BY <1>1 DEF Of, UpTo, Net, Units
  <2> QED BY <2>6, <2>7, <2>8, <2>9 DEF Covered
<1> HIDE DEF tx
<1>10. \A c \in Symbols \ uncovered' : Covered(c)'
  BY <1>9
<1> QED BY <1>6, <1>8, <1>10 DEF LedgerInv

LEMMA CommitKeeps ==
  ASSUME LedgerInv, NEW r \in Writers, CommitTransaction(r)
  PROVE  LedgerInv'
<1> DEFINE tx == pending[r]
<1>1. /\ LedgerTypeOK /\ TimesDiffer /\ tx # NoTx /\ clock' = clock /\ uncovered' = uncovered
      /\ pending' = [pending EXCEPT ![r] = NoTx] /\ ledger' = ledger \union {tx}
  BY DEF CommitTransaction, LedgerInv
<1>2. pending'[r] = NoTx /\ \A q \in Writers : q # r => pending'[q] = pending[q]
  BY <1>1 DEF LedgerTypeOK
<1>3. tx \in Transaction
  BY <1>1 DEF LedgerTypeOK
<1>4. LedgerTypeOK'
  BY <1>1, <1>3 DEF LedgerTypeOK
<1>5. TimesDiffer'
  <2>1. IsFiniteSet(ledger \union {tx})
    BY <1>1, FS_AddElement DEF TimesDiffer
  <2>2. \A a, b \in ledger \union {tx} : a.at = b.at => a = b
    BY <1>1 DEF TimesDiffer
  <2>3. \A a \in ledger \union {tx} : a.at <= clock
    BY <1>1 DEF TimesDiffer
  <2>4. ASSUME NEW p \in Writers, pending'[p] # NoTx
        PROVE  /\ pending'[p].at <= clock
               /\ \A a \in ledger \union {tx} : a.at # pending'[p].at
               /\ \A q \in Writers : q # p /\ pending'[q] # NoTx => pending'[q].at # pending'[p].at
    BY <1>1, <1>2, <2>4 DEF TimesDiffer
  <2> HIDE DEF tx
  <2> QED BY <1>1, <2>1, <2>2, <2>3, <2>4 DEF TimesDiffer
<1>6. tx \notin ledger
  BY <1>1 DEF TimesDiffer
<1>7. ASSUME NEW c \in Symbols, c \notin uncovered PROVE Covered(c)'
  <2> DEFINE N(t) == Net(UpTo(Of(c), t))
             M(t) == Net(UpTo(Of(c), t) \union {tx})
  <2>1. Covered(c)
    BY <1>7 DEF LedgerInv
  <2>2. \A q \in Writers : SaleUnderWay(q, c)' => q # r /\ SaleUnderWay(q, c) /\ pending'[q] = pending[q]
    BY <1>2 DEF SaleUnderWay
  <2>3. ASSUME NEW t \in 0..MaxTx
        PROVE  /\ N(t) \in Int
               /\ N(t)' = N(t) + (IF tx.symbol = c /\ tx.at <= t THEN Units(tx) ELSE 0)
    <3> DEFINE P == UpTo(Of(c), t)
    <3>1. IsFiniteSet(P) /\ P \subseteq Transaction /\ tx \notin P
      <4>1. P \subseteq Of(c) /\ Of(c) \subseteq ledger
        BY DEF UpTo, Of
      <4>2. IsFiniteSet(Of(c)) /\ Of(c) \subseteq Transaction
        BY <1>1, SymbolTimed DEF Timed
      <4> QED BY <1>6, <4>1, <4>2, FS_Subset
    <3>2. P' = IF tx.symbol = c /\ tx.at <= t THEN P \union {tx} ELSE P
      BY <1>1 DEF UpTo, Of
    <3>3. N(t)' = Net(P')
      BY DEF Net, Units
    <3> HIDE DEF P, tx
    <3>4. Net(P) \in Int /\ Net(P \union {tx}) = Net(P) + Units(tx) /\ Units(tx) \in Int
      BY <1>3, <3>1, NetOfMore, UnitsAre
    <3>5. N(t)' = Net(P) + (IF tx.symbol = c /\ tx.at <= t THEN Units(tx) ELSE 0)
      <4>1. CASE tx.symbol = c /\ tx.at <= t
        BY <3>2, <3>3, <3>4, <4>1
      <4>2. CASE ~(tx.symbol = c /\ tx.at <= t)
        <5>1. N(t)' = Net(P)
          BY <3>2, <3>3, <4>2
        <5> QED BY <3>4, <4>2, <5>1
      <4> QED BY <4>1, <4>2
    <3> QED BY <3>4, <3>5 DEF P
  <2> HIDE DEF N
  <2>4. /\ \A t \in 0..MaxTx : N(t) >= 0
        /\ \A q \in Writers : SaleUnderWay(q, c) => \A t \in 0..MaxTx : pending[q].at <= t => N(t) >= pending[q].quantity
        /\ \A p, q \in Writers : SaleUnderWay(p, c) /\ SaleUnderWay(q, c) => p = q
    BY <2>1 DEF Covered, N
  <2>5. tx.quantity \in Nat /\ (tx.action = "BUY" \/ tx.action = "SELL")
    BY <1>3, TransactionIs
  <2>6. Units(tx) = IF tx.action = "BUY" THEN tx.quantity ELSE -tx.quantity
    BY DEF Units
  <2>7. tx.symbol = c /\ tx.action = "SELL" => SaleUnderWay(r, c)
    BY <1>1 DEF SaleUnderWay
  <2> HIDE DEF tx
  <2>8. ASSUME NEW t \in 0..MaxTx PROVE N(t)' >= 0
    <3>1. CASE tx.symbol = c /\ tx.at <= t /\ tx.action = "SELL"
      <4>1. N(t) >= tx.quantity
        BY <2>4, <2>7, <3>1 DEF tx
      <4>2. N(t)' = N(t) + -tx.quantity
        BY <2>3, <2>6, <3>1
      <4> QED BY <2>3, <2>5, <4>1, <4>2
    <3>2. CASE tx.symbol = c /\ tx.at <= t /\ tx.action = "BUY"
      <4>1. N(t)' = N(t) + tx.quantity /\ N(t) >= 0
        BY <2>3, <2>4, <2>6, <3>2
      <4> QED BY <2>3, <2>5, <4>1
    <3>3. CASE ~(tx.symbol = c /\ tx.at <= t)
      <4>1. N(t)' = N(t) + 0 /\ N(t) >= 0
        BY <2>3, <2>4, <3>3
      <4> QED BY <2>3, <4>1
    <3> QED BY <2>5, <3>1, <3>2, <3>3
  <2>9. ASSUME NEW q \in Writers, SaleUnderWay(q, c)', NEW t \in 0..MaxTx, pending'[q].at <= t
        PROVE  N(t)' >= pending'[q].quantity
    <3>1. q # r /\ SaleUnderWay(q, c) /\ pending'[q] = pending[q]
      BY <2>2, <2>9
    <3>2. ~(tx.symbol = c /\ tx.action = "SELL")
      BY <2>4, <2>7, <3>1
    <3>3. N(t) >= pending[q].quantity
      BY <2>4, <2>9, <3>1
    <3>4. pending[q].quantity \in Nat
      <4>1. pending[q] \in Transaction
        BY <1>1, <3>1 DEF LedgerTypeOK, SaleUnderWay
      <4> QED BY <4>1, TransactionIs
    <3> DEFINE k == pending[q].quantity
    <3>5. N(t)' >= k
      <4>1. N(t) \in Int /\ k \in Nat /\ N(t) >= k
        BY <2>3, <3>3, <3>4
      <4>2. N(t)' = N(t) + tx.quantity \/ N(t)' = N(t) + 0
        BY <2>3, <2>5, <2>6, <3>2
      <4> HIDE DEF k
      <4> QED BY <2>5, <4>1, <4>2
    <3> QED BY <3>1, <3>5
  <2>10. \A p, q \in Writers : SaleUnderWay(p, c)' /\ SaleUnderWay(q, c)' => p = q
    BY <2>2, <2>4
  <2> QED BY <2>8, <2>9, <2>10 DEF Covered, N
<1> HIDE DEF tx
<1>8. \A c \in Symbols \ uncovered' : Covered(c)'
  BY <1>1, <1>7
<1> QED BY <1>4, <1>5, <1>8 DEF LedgerInv

LEMMA AbandonKeeps ==
  ASSUME LedgerInv, NEW r \in Writers, AbandonTransaction(r)
  PROVE  LedgerInv'
<1>1. /\ LedgerTypeOK /\ TimesDiffer /\ clock' = clock /\ uncovered' = uncovered /\ ledger' = ledger
      /\ pending' = [pending EXCEPT ![r] = NoTx]
  BY DEF AbandonTransaction, LedgerInv
<1>2. pending'[r] = NoTx /\ \A q \in Writers : q # r => pending'[q] = pending[q]
  BY <1>1 DEF LedgerTypeOK
<1>3. LedgerTypeOK'
  BY <1>1 DEF LedgerTypeOK
<1>4. TimesDiffer'
  BY <1>1, <1>2 DEF TimesDiffer
<1>5. ASSUME NEW c \in Symbols, c \notin uncovered PROVE Covered(c)'
  <2>1. Covered(c)
    BY <1>5 DEF LedgerInv
  <2>2. \A q \in Writers : SaleUnderWay(q, c)' => SaleUnderWay(q, c) /\ pending'[q] = pending[q]
    BY <1>2 DEF SaleUnderWay
  <2>3. \A t : Net(UpTo(Of(c), t))' = Net(UpTo(Of(c), t))
    BY <1>1 DEF Of, UpTo, Net, Units
  <2> QED BY <2>1, <2>2, <2>3 DEF Covered
<1>6. \A c \in Symbols \ uncovered' : Covered(c)'
  BY <1>1, <1>5
<1> QED BY <1>3, <1>4, <1>6 DEF LedgerInv

LEMMA LedgerStays == LedgerInv /\ UNCHANGED ledgerVars => LedgerInv'
<1> SUFFICES ASSUME LedgerInv, UNCHANGED ledgerVars PROVE LedgerInv'
  OBVIOUS
<1>1. ledger' = ledger /\ pending' = pending /\ clock' = clock /\ uncovered' = uncovered
  BY DEF ledgerVars
<1>2. LedgerTypeOK' /\ TimesDiffer'
  BY <1>1 DEF LedgerInv, LedgerTypeOK, TimesDiffer
<1>3. \A c, t : Net(UpTo(Of(c), t))' = Net(UpTo(Of(c), t))
  BY <1>1 DEF Of, UpTo, Net, Units
<1>4. \A c \in Symbols \ uncovered : Covered(c)'
  BY <1>1, <1>3 DEF LedgerInv, Covered, SaleUnderWay
<1> QED BY <1>1, <1>2, <1>4 DEF LedgerInv

\* portfolio_service.py and reconciliation_service.py: timestamps differ, and a symbol never
\* sold what it did not hold unless two sales of it crossed or the broker sold more than was
\* on record, whoever commits in whatever order.
THEOREM LedgerHolds == LedgerSpec => []LedgerInv
<1>1. ASSUME LedgerInv, LedgerNext PROVE LedgerInv'
  <2>1. PICK r \in Writers :
          \/ \E s \in Symbols, action \in {"BUY", "SELL"}, k \in Quantities, price \in PriceSet :
               Make(r, s, action, k, price)
          \/ CommitTransaction(r)
          \/ AbandonTransaction(r)
    BY <1>1 DEF LedgerNext, MakeTransaction, BookFill
  <2> QED BY <1>1, <2>1, MakeKeeps, CommitKeeps, AbandonKeeps
<1> QED BY <1>1, LedgerStarts, LedgerStays, PTL DEF LedgerSpec

LEMMA LedgerAgrees == LedgerInv => AccountingsAgree
<1> SUFFICES ASSUME LedgerInv, NEW s \in Symbols
             PROVE  IF Oversold(Of(s)) THEN s \in uncovered
                    ELSE AverageAgrees(Of(s)) /\ LotsAgree(Of(s), "FIFO") /\ LotsAgree(Of(s), "LIFO")
  BY DEF AccountingsAgree
<1>1. LedgerTypeOK /\ TimesDiffer /\ (s \notin uncovered => Covered(s))
  BY DEF LedgerInv
<1>2. Timed(Of(s))
  BY <1>1, SymbolTimed
<1>3. s \notin uncovered => ~Oversold(Of(s))
  BY <1>1, CoveredNotOversold
<1>4. ~Oversold(Of(s)) => AverageAgrees(Of(s)) /\ LotsAgree(Of(s), "FIFO") /\ LotsAgree(Of(s), "LIFO")
  BY <1>2, AveragesAgree, TaxAgrees
<1> QED BY <1>3, <1>4

\* portfolio_service.py, reconciliation_service.py and tax_lot_service.py: while no sale is
\* short of units the average-cost holdings and the FIFO and LIFO lots of any ledger show the
\* same units and the same gain, and a sale is short only if two sales of the symbol crossed
\* or the broker sold more than was on record, for every set of symbols and writers.
THEOREM AccountsAgree == LedgerSpec => []AccountingsAgree
BY LedgerHolds, LedgerAgrees, PTL
=============================================================================
