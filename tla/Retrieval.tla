------------------------------ MODULE Retrieval ------------------------------
(***************************************************************************)
(* Retrieval: news requests fetch headlines and index them, in the memory  *)
(* of their worker or in the table all workers share, and searches rank    *)
(* what is indexed.  Both stores keep a bounded number of chunks and never *)
(* one twice.  Filings are chunked, scored and kept as documents.          *)
(*                                                                         *)
(* A chunk is its key; Score is the similarity of a key to a query.        *)
(***************************************************************************)
EXTENDS Integers, SequencesExt, FiniteSetsExt

CONSTANTS
  Nodes,             \* workers that keep their index in memory
  Fetchers,          \* news requests that can be under way at once
  Batches,           \* what the feeds may answer: sequences of keys
  Capacity,          \* of either store
  Queries, Score, MinScore, TopK,
  Companies, Filings, \* filings: sequences of sections [marker, paras]
  MaxFetches, MaxFilings, MaxDeaths,  \* bounds
  Unset

ASSUME RetrievalAssumption ==
  /\ Capacity \in Nat \ {0} /\ TopK \in Nat /\ MinScore \in Nat
  /\ Score \in [Queries -> [UNION {ToSet(b) : b \in Batches} -> Nat]]
  /\ IsFiniteSet(Fetchers) /\ \A b \in Batches : b \in Seq(ToSet(b))
  /\ MaxFetches \in Nat /\ MaxDeaths \in Nat

\* A filing has a chunk: a text of which no paragraph is kept becomes one as a whole.
ASSUME FilingsAssumption ==
  \A filing \in Filings :
    /\ filing \in Seq(ToSet(filing))
    /\ \A i \in DOMAIN filing : filing[i].paras \in Seq(Int)
    /\ \E i \in DOMAIN filing : filing[i].paras # <<>>

Shared == "postgres"

\* A row of rag_chunks, and what a request is doing.
ChunkRow == [id : Nat \ {0}, key : UNION {ToSet(b) : b \in Batches}]
FetchWork == [place : Nodes \union {Shared}, step : {"fetch", "index", "insert", "trim"},
              batch : Batches \union {<<>>}, rows : SUBSET ChunkRow]

ASSUME UnsetAssumption == Unset \notin FetchWork

VARIABLES
  chunks, seen,     \* InMemoryVectorStore of each worker
  table, next_id,   \* rag_chunks rows [id, key], and the sequence of their ids
  cached,           \* the headlines in the cache
  fetch,            \* what each request is doing
  trimmed,          \* history: the newest row ever trimmed
  orphans,          \* history: rows whose request died before its trim
  fetches, deaths,
  documents         \* FinancialDocument rows, oldest first

retrievalVars ==
  <<chunks, seen, table, next_id, cached, fetch, trimmed, orphans, fetches, deaths, documents>>
news == <<cached, fetches, deaths, documents>>

Keys(rows) == {row.key : row \in rows}
-----------------------------------------------------------------------------
(* The two stores.                                                         *)

\* A plausible bug: the key of an evicted chunk stays in `seen`.
KeepsSeen(s, key) ==
  [chunks |-> Append(IF Len(s.chunks) = Capacity THEN Tail(s.chunks) ELSE s.chunks, key),
   seen |-> s.seen \union {key}]

\* One new chunk: the oldest makes room for it.
AddText(s, key) ==
  LET full == Len(s.chunks) = Capacity IN
  [chunks |-> Append(IF full THEN Tail(s.chunks) ELSE s.chunks, key),
   seen |-> (IF full THEN s.seen \ {Head(s.chunks)} ELSE s.seen) \union {key}]

\* InMemoryVectorStore.add_texts: what was seen before it began is left out, though an
\* eviction under way may remove it.
AddTexts(s, batch) ==
  FoldLeft(LAMBDA r, key : IF key \in s.seen \union r.seen THEN r ELSE AddText(r, key), s, batch)

\* search: the TopK best, without those below MinScore; ties fall either way.
Answers(keys, q) ==
  {hits \in SUBSET {key \in keys : Score[q][key] >= MinScore} :
     /\ Cardinality(hits) <= TopK
     /\ \A key \in keys \ hits :
          \/ Score[q][key] < MinScore
          \/ Cardinality(hits) = TopK /\ \A hit \in hits : Score[q][hit] >= Score[q][key]}

\* A plausible bug: the trim keeps the rows of lowest id.
TrimNewest(rows) == {row \in rows : Cardinality({r \in rows : r.id < row.id}) >= Capacity}

\* Rows the DELETE after an insert removes: all but the newest Capacity.
Trimmed(rows) == {row \in rows : Cardinality({r \in rows : r.id > row.id}) >= Capacity}
-----------------------------------------------------------------------------
(* News.                                                                   *)

FetchAt(k, step) == fetch[k] # Unset /\ fetch[k].step = step
Goes(k, step) == fetch' = [fetch EXCEPT ![k].step = step]

\* _articles: a hit of the cache is indexed again; otherwise the feeds are awaited.
GetNews(k, place) ==
  /\ fetch[k] = Unset /\ fetches < MaxFetches
  /\ fetches' = fetches + 1
  /\ fetch' = [fetch EXCEPT ![k] =
       [place |-> place, step |-> IF cached = Unset THEN "fetch" ELSE "index",
        batch |-> IF cached = Unset THEN <<>> ELSE cached, rows |-> {}]]
  /\ UNCHANGED <<chunks, seen, table, next_id, cached, trimmed, orphans, deaths, documents>>

\* RssNewsProvider.fetch never fails: feeds that do not answer are an empty list, which
\* is cached like any other.
FeedsAnswer(k, batch) ==
  /\ FetchAt(k, "fetch")
  /\ fetch' = [fetch EXCEPT ![k].batch = batch, ![k].step = "index"]
  /\ cached' = batch
  /\ UNCHANGED <<chunks, seen, table, next_id, trimmed, orphans, fetches, deaths, documents>>

CacheExpires ==
  /\ cached # Unset /\ cached' = Unset
  /\ UNCHANGED <<chunks, seen, table, next_id, fetch, trimmed, orphans, fetches, deaths, documents>>

IndexInMemory(k) ==
  /\ FetchAt(k, "index") /\ fetch[k].place # Shared /\ fetch[k].batch # <<>>
  /\ LET h == fetch[k].place
         added == AddTexts([chunks |-> chunks[h], seen |-> seen[h]], fetch[k].batch) IN
     /\ chunks' = [chunks EXCEPT ![h] = added.chunks]
     /\ seen' = [seen EXCEPT ![h] = added.seen]
  /\ fetch' = [fetch EXCEPT ![k] = Unset]
  /\ UNCHANGED <<table, next_id, trimmed, orphans, news>>

\* An answer without headlines touches neither store.
NothingToIndex(k) ==
  /\ FetchAt(k, "index") /\ fetch[k].batch = <<>>
  /\ fetch' = [fetch EXCEPT ![k] = Unset]
  /\ UNCHANGED <<chunks, seen, table, next_id, trimmed, orphans, news>>

\* The rows of an INSERT are there for the others when it commits; one that meets a
\* key another has not committed yet waits, and then does nothing about it.
Inserting == UNION {fetch[k].rows : k \in {j \in Fetchers : FetchAt(j, "insert")}}

InsertChunks(k) ==
  /\ FetchAt(k, "index") /\ fetch[k].place = Shared /\ fetch[k].batch # <<>>
  /\ ToSet(fetch[k].batch) \intersect Keys(Inserting) = {}
  /\ LET new == SetToSeq(ToSet(fetch[k].batch) \ Keys(table)) IN
     /\ fetch' = [fetch EXCEPT ![k].step = "insert",
                    ![k].rows = {[id |-> next_id + i, key |-> new[i]] : i \in DOMAIN new}]
     /\ next_id' = next_id + Len(new)
  /\ UNCHANGED <<chunks, seen, table, trimmed, orphans, news>>

CommitChunks(k) ==
  /\ FetchAt(k, "insert")
  /\ table' = table \union fetch[k].rows
  /\ Goes(k, "trim")
  /\ UNCHANGED <<chunks, seen, next_id, trimmed, orphans, news>>

\* A statement, and a transaction, of its own.
TrimTable(k) ==
  /\ FetchAt(k, "trim")
  /\ LET gone == Trimmed(table) IN
     /\ table' = table \ gone
     /\ trimmed' = Max({trimmed} \union {row.id : row \in gone})
  /\ fetch' = [fetch EXCEPT ![k] = Unset]
  /\ orphans' = orphans \intersect table'
  /\ UNCHANGED <<chunks, seen, next_id, news>>

InMemoryOf(k, h) == fetch[k] # Unset /\ fetch[k].place = h /\ h # Shared

\* The worker dies: its memory is gone, an open INSERT with it, committed rows are not.
WorkerDies(k) ==
  /\ fetch[k] # Unset /\ deaths < MaxDeaths
  /\ deaths' = deaths + 1
  /\ orphans' = IF fetch[k].step = "trim" THEN orphans \union (fetch[k].rows \intersect table) ELSE orphans
  /\ LET h == fetch[k].place IN
     /\ chunks' = IF h = Shared THEN chunks ELSE [chunks EXCEPT ![h] = <<>>]
     /\ seen' = IF h = Shared THEN seen ELSE [seen EXCEPT ![h] = {}]
     /\ fetch' = [j \in Fetchers |-> IF j = k \/ InMemoryOf(j, h) THEN Unset ELSE fetch[j]]
  /\ UNCHANGED <<table, next_id, cached, trimmed, fetches, documents>>
-----------------------------------------------------------------------------
(* Filings.                                                                *)

\* chunk_document: the paragraphs of each section.  A section is Q&A by its own words;
\* the name it is filed under stays until another marker comes.
Sections(filing) ==
  FoldLeft(LAMBDA r, sec :
             LET name == IF sec.marker = "none" THEN r.name ELSE sec.marker IN
             [name |-> name,
              list |-> r.list \o [i \in DOMAIN sec.paras |->
                [section |-> name, is_qa |-> sec.marker = "qa", sentiment |-> sec.paras[i]]]],
           [name |-> "overview", list |-> <<>>], filing).list

Tone(list) == FoldLeft(LAMBDA sum, c : sum + c.sentiment, 0, list)

\* ingest_document: the averages as <<sum, count>>; without Q&A there is no shift.  The
\* store its chunks go to is made for the request, and is gone when it ends.
Ingest(company, filing) ==
  LET list == Sections(filing)
      prepared == SelectSeq(list, LAMBDA c : ~c.is_qa)
      answers == SelectSeq(list, LAMBDA c : c.is_qa)
      Average(part) == IF part = <<>> THEN <<0, 1>> ELSE <<Tone(part), Len(part)>>
      a == IF answers = <<>> THEN Average(prepared) ELSE Average(answers)
      p == Average(prepared) IN
  /\ Len(documents) < MaxFilings
  /\ documents' = Append(documents,
       [symbol |-> company, overall |-> <<Tone(list), Len(list)>>,
        shift |-> <<a[1] * p[2] - p[1] * a[2], a[2] * p[2]>>])
  /\ UNCHANGED <<chunks, seen, table, next_id, cached, fetch, trimmed, orphans, fetches, deaths>>

\* get_sentiment_shift_report: of the newest document; what it gives as the sentiment
\* of the prepared remarks is that of the whole document.
ShiftReport(company) ==
  LET mine == {i \in DOMAIN documents : documents[i].symbol = company} IN
  IF mine = {} THEN Unset
  ELSE LET d == documents[Max(mine)] IN
       [prepared |-> d.overall, divergence |-> d.shift,
        flagged |-> IF 5 * d.shift[1] < -d.shift[2] THEN "defensive"
                    ELSE IF 5 * d.shift[1] > d.shift[2] THEN "confident" ELSE "none"]
-----------------------------------------------------------------------------
RetrievalInit ==
  /\ chunks = [h \in Nodes |-> <<>>] /\ seen = [h \in Nodes |-> {}]
  /\ table = {} /\ next_id = 0 /\ cached = Unset
  /\ fetch = [k \in Fetchers |-> Unset]
  /\ trimmed = 0 /\ orphans = {} /\ fetches = 0 /\ deaths = 0 /\ documents = <<>>

RetrievalNext ==
  \/ CacheExpires
  \/ \E k \in Fetchers :
       \/ \E place \in Nodes \union {Shared} : GetNews(k, place)
       \/ \E batch \in Batches : FeedsAnswer(k, batch)
       \/ NothingToIndex(k) \/ IndexInMemory(k)
       \/ InsertChunks(k) \/ CommitChunks(k) \/ TrimTable(k) \/ WorkerDies(k)
  \/ \E company \in Companies, filing \in Filings : Ingest(company, filing)

RetrievalSpec == RetrievalInit /\ [][RetrievalNext]_retrievalVars
-----------------------------------------------------------------------------
(* Properties.                                                             *)

RetrievalTypeOK ==
  /\ \A h \in Nodes : Len(chunks[h]) <= Capacity
  /\ next_id \in Nat /\ trimmed \in 0..next_id /\ orphans \subseteq table
  /\ \A row \in table : row.id \in 1..next_id
  /\ cached \in Batches \union {Unset} /\ fetches \in 0..MaxFetches /\ deaths \in 0..MaxDeaths
  /\ \A k \in Fetchers : fetch[k] = Unset \/ fetch[k].step \in {"fetch", "index", "insert", "trim"}
  /\ \A company \in Companies : ShiftReport(company) = Unset \/ ShiftReport(company).prepared[2] > 0

\* Rows whose request has not trimmed yet, or never will.
Untrimmed == orphans \union (UNION {fetch[k].rows : k \in {j \in Fetchers : FetchAt(j, "trim")}})

\* The shared table holds no key twice, exceeds its capacity only by untrimmed rows, and
\* no other row stays that is older than one that was trimmed.
TableIsHonest ==
  /\ \A r, row \in table : r.key = row.key => r = row
  /\ Cardinality(table) <= Capacity + Cardinality(Untrimmed)
  /\ \A row \in table \ Untrimmed : row.id > trimmed

\* An index of a worker knows exactly the chunks it holds, so that one it has evicted
\* can come back, the shared table is what its requests made of it, and a search finds
\* an answer, the same up to ties.
IndexIsHonest ==
  /\ \A h \in Nodes : seen[h] = ToSet(chunks[h]) /\ IsInjective(chunks[h])
  /\ TableIsHonest
  /\ \A q \in Queries, keys \in {Keys(table)} \union {ToSet(chunks[h]) : h \in Nodes} :
       LET answers == Answers(keys, q) IN
       /\ answers # {}
       /\ \A a, b \in answers : \A key \in a \ b : \E other \in b \ a : Score[q][key] = Score[q][other]
=============================================================================
