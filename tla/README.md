# TLA+ models of connectors-python (ESIndex paging, GCS source, bootstrap tool)

This directory holds TLA+ models of the parts of `src/` that have control
flow worth checking. It also holds the TLC configurations that check them on
small instances and TLAPS proofs of the main invariants for every value of
the constants. `PROJECT.json` lists every component, run, mutant, mapped
source line, finding, hazard and theorem.

## The system and its parts

| Part | Source | Role | Module |
|---|---|---|---|
| Search-index gateway | `src/connectors/es/index.py` (`ESIndex.get_all_docs`) | Lazy, paged reader of an index. Every control-index scan of the service (connectors, sync jobs, orphan and stuck-job sweeps) goes through it. | `ESIndex`, `MCESIndex`, `ESIndexProofs` |
| GCS source listing | `src/connectors/sources/gcs.py` (`get_docs`, `fetch_buckets`, `fetch_blobs`, `_api_call`) | Yields one document per blob. It nests the paginated blob listing of each bucket inside the paginated bucket listing. Each listing runs in its own retry loop. | `GcsSource`, `MCGcsSource` |
| GCS download | `gcs.py` (`get_content`, `_api_call` with `pipe_to`) | Downloads one blob into a temp file under the same retry loop, converts it to base64 in a worker thread, reads it back and removes the file. | `GcsDownload`, `MCGcsDownload` |
| GCS ping and configuration | `gcs.py` (`__init__`, `get_default_configuration`, `ping`) | Configuration data, plus one non-paginated `_api_call`. | not modelled (no state beyond the retry loop modelled above) |
| Bootstrap tool | `src/connectors/kibana.py` (`prepare`, `upsert_index`) | Test-only tool. It installs the ingest pipeline and deletes and recreates the control indices. | `KibanaPrepare`, `MCKibanaPrepare`, `KibanaPrepareProofs` |
| Connector, SyncJob, filtering, features, heartbeat, bulk coordinator, orchestrator | not under `src/`; described in `spec.md` and exercised by `src/connectors/tests/test_byoc.py` | The service itself | not modelled yet (planned, from the spec) |

How the parts interact:

- The orchestrator pages its control indices through `get_all_docs`, while
  other processes, and its own earlier steps, write to those indices.
- A sync job drains a source's `get_docs` and calls the returned
  `get_content` for each document through the download launcher.

## Modules

### ESIndex: `get_all_docs`

The index is modelled as a sequence of document ids in match_all search
order (a single shard, ties in Lucene doc order).

State:

| Variable | What it is |
|---|---|
| `index` | The visible documents, in search order |
| `pc` | Where the generator is: refresh, search, done, failed or raised |
| `offset`, `count` | The code's `offset` and `count` |
| `yielded` | The documents the generator has yielded, in order |
| `initial` | The documents in the index when the scan began |
| `written` | The documents other actors touched during the scan |
| `writes` | The number of concurrent writes, capped by `MaxWrites` |

Actions:

- `RefreshOk` and `RefreshRaises`: line 53. The refresh is outside the try.
- `SearchPage`: one whole loop iteration, lines 61-82. It adds `len(hits)`
  to `count`, yields the hits, then either breaks when `count >= total` or
  advances `offset`.
- `SearchApiError`: lines 70-73. An `ApiError` logs and returns.
- `SearchRefused`: the 400 that every request past `index.max_result_window`
  gets. It also goes through `except ApiError`, so the scan ends silently
  with the rest of the index unread. No property catches this truncation:
  - `CompleteScan` speaks only of a scan that ends by its `count >= total`
    break;
  - `ScanTerminates` accepts any end;
  - the code gives the caller no way to tell a refused page from a finished
    scan.
- `SearchTransportError`: a connection error or timeout. It is not an
  `ApiError`, so it escapes.

Other actors write between the reader's awaits (`Insert`, `Update`,
`Delete`). These writes are spec-modelled, since the writers live outside
`src/`:

- An insert appends a document.
- An update is a Lucene delete plus add, so it moves the document to the
  end.
- A delete removes the document.
- A write is visible to the next search. Because writes may come at any
  point, this covers every timing of the periodic refresh.

Limits:

- `hits.total.value` is `min(len(index), TotalHitsLimit)`, modelling
  `track_total_hits`.

### PagedScan: the contract of `get_all`

`PagedScan` is the abstract specification of what `get_all` promises its
consumer (`spec.md` sections 4.1 and 8). It specifies a contract, not code,
so it has no entry in the map. Its actions:

- `Yield` hands over the next records of the collection, in search order,
  from the first record not yet yielded. It may then stop, but only once it
  has yielded the reported total.
- `Abort` ends the scan early, silently or with an exception.
- `Add` is another actor appending a new record.

`ESIndex` instantiates it as `Scan`, with this refinement mapping:

- `coll` is `index`;
- `out` is `yielded`;
- `status` is `ScanStatus`, which maps `refresh` and `search` to `reading`
  and `done` to `complete`.

`ImplementsPagedScan` (`Scan!Spec`) is checked with inserts only. Under
updates or deletes the violation runs below already refute the contract.

### GcsSource: `get_docs`

Each listing is a call record `[pages, failures]`:

- `pages` is the number of pages the current attempt has delivered.
- `failures` is the listing's `retry_counter`.

State and actions:

- `bpos` is the position of the current bucket within the bucket page.
  `out` is the sequence of blob documents yielded.
- `BucketPageOk` delivers a bucket page. `get_docs` skips a page with no
  items.
- `BlobPageOk` yields a blob page through `get_blob_document`.
- `BucketFail` and `BlobFail` are the `except Exception` branch:
  - they count the failure;
  - they raise when `retry_counter > retry_count`;
  - otherwise they loop back, and the listing starts again from its first
    page.
- `BucketListEnd` and `BlobListEnd` are the end of an `async for` over the
  pages, followed by `break`.

`ListingInv` is the inductive invariant behind the proofs. It says:

- a running listing has failed at most `retry_count` times;
- during the bucket listing, every blob of the bucket pages already
  delivered has been yielded;
- during a blob listing:
  - every blob of the buckets before the current one has been yielded;
  - so has every blob of the current bucket's pages already delivered;
- once `get_docs` returns, every blob has been yielded.

### GcsDownload: `get_content`

State:

- The inputs: size, extension supported, extraction enabled, `doit`.
- `failures` of the `objects.get` call.
- The bytes of the current attempt (`pos`).
- The temp file: its bytes, whether it is encoded, and whether it exists.
- The attachment.

Actions:

- `Skip`: the three early returns.
- `OpenTemp`: `NamedTemporaryFile(delete=False)`.
- `ReceiveChunk`: `pipe_to` writes one chunk.
- `RequestFails`: the retry loop. The buffer is not truncated.
- `Downloaded`.
- `Convert` and `ConvertFails`: the worker thread.
- `ReadAttachment` and `ReadFails`.
- `RemoveTemp`.

Base64 encoding is modelled as an injective tag on the file's bytes.

`DownloadInv` is the inductive invariant of `get_content`:

- while downloading, the temp file ends with the chunks `1..pos` of the
  current attempt (`EndsWithChunks`), whatever failed attempts wrote before;
- from the end of the body on, through conversion, read and return, the
  file ends with the whole object (`AttachmentEndsWithContent` follows from
  this);
- the request is retried only while `failures <= retry_count`.

### KibanaPrepare: `prepare` and `upsert_index`

The cluster is persistent: the ingest pipeline (`none`, `other` or
`default`) and, for each of the three indices, whether it exists, the ids of
its documents and the run that created it (`gen`, standing for its mappings
and settings; 0 is before the first run). The initial cluster is arbitrary:
each index is absent or holds some of `OldDocs`.

| Action | Code |
|---|---|
| `GetPipeline1`, `PutDefault` | lines 53-60: `NotFoundError` leads to `put_pipeline` |
| `GetPipeline2` | lines 62-82. Its `NotFoundError` branch needs another actor to delete the pipeline in between, so one run never takes it |
| `Exists`, `DeleteIndex`, `CreateIndex` | lines 158-173 |
| `IndexDoc`, `UpsertDone` | the `doc_id` loop, lines 175-181, and the three calls in `prepare`, lines 127-139. `docs=None` indexes nothing, as `[]` does |
| `Fail` | any pending Elasticsearch call raises; `finally` only closes the client |
| `Rerun` | the tool is started again (`main`), up to `MaxRuns` runs |

## Runs

All runs use `CHECK_DEADLOCK FALSE`: each model is one call of a generator
or function, and it really stops once it has returned or raised.

| Run | Result | What it shows |
|---|---|---|
| `ESIndexInserts` | pass | Checks `TypeOK`, `NoDuplicateYield` and `CompleteScan` with concurrent inserts, the proofs' inductive invariant `CompleteScanInv` (which includes `InsertOnlyInv`), and the refinement `ImplementsPagedScan`. |
| `ESIndexTerminates` | pass | `ScanTerminates` under inserts, updates and deletes. Pages of 1 and a result window of 3, so that a four-document index hits `SearchRefused` and deletes can shrink `total` below `count`. |
| `ESIndexUpdateDuplicates` | violation | One update yields a document twice. |
| `ESIndexUpdateSkips` | violation | One update skips an untouched document. |
| `ESIndexTotalHitsCap` | violation | No writes, but an index larger than the total-hits cap is truncated. |
| `ESIndexTransportError` | violation | A transport error escapes to the caller, contrary to spec section 4.1. |
| `GcsSource` | pass | Checks `CompleteListing`, `RaisesOnlyWhenExhausted`, the proof's inductive invariant `ListingInv` (which includes `TypeOK`) and `GetDocsTerminates`. |
| `GcsSourceDuplicates` | violation | A retried listing re-yields blobs. |
| `GcsDownload` | pass | Checks `DownloadInv` (which includes `TypeOK` and implies `AttachmentEndsWithContent`) and `DownloadTerminates`. |
| `GcsDownloadAttachment` | violation | A retry appends to the partly written temp file, so the attachment is not the object's encoding. |
| `GcsDownloadTempFile` | violation | The temp file is left behind when a later step raises. |
| `KibanaPrepare` | pass | `TypeOK` and `CompletedRunResets`: after any number of failed runs, a run that completes leaves the pipeline installed and all three indices recreated by it with exactly its documents. It also checks the proof's inductive invariant `PrepareInv`. |

Each property of a passing run has a mutant in `PROJECT.json`: a faulty
variant defined just before the definition it replaces (for example, an
off-by-one in the retry budget, `offset` not advanced, or `==` instead of
`>=`). TLC finds each mutant's property violated.

Bounds:

- `get_all_docs`: 4 documents and pages of 2, so a scan spans two or more
  pages and a write can land between them. Up to 2 or 3 writes. A
  total-hits cap of 2 that divides the page size, as 10000 divides 100.
- `get_docs`: 3 buckets on 3 pages, one of them empty. The first bucket's
  blobs come on two pages. `retry_count = 1`, so a listing fails, retries,
  and fails again.
- `prepare`: old documents {1, 2} (so a stale connector document and a
  stale extra document are both possible) and 3 runs, so a failure can
  follow a partial reset by an earlier failed run.
- `get_content`: sizes 0..3 against a limit of 2, so the size check sees
  zero, below, at and above the limit. `retry_count = 1`.

Every finding above appears with a single write or a single failure. These
bounds are not what makes a property hold.

Fairness:

- `ESIndex` assumes weak fairness only on the success steps
  (`RefreshOk`, `SearchPage`, `SearchRefused`). This models a consumer that
  keeps iterating and a cluster that keeps answering. Failures and writers
  are never forced.
- `GcsSource` and `GcsDownload` assume weak fairness of the active step:
  every awaited request completes, with a result or an exception. The
  sleeps of the backoff end.
- `KibanaPrepare` has no fairness: it only states safety, and a person
  decides whether to rerun the tool.

## Proofs (TLAPS, `ESIndexProofs`)

- `TypeCorrect`: `Spec => []TypeOK`, for every finite set of documents,
  positive page size, window, cap and write kind. It rests on these lemmas:
  - `HitsProperties` and `HitsType`: the page is the `SubSeq` of positions
    `offset+1..hi`, and its length is known;
  - `RemoveAtType`;
  - `InitialIndex`: the initial index is an injective sequence.
- `NoDuplicateUnderInserts`: with `WriteKinds \subseteq {"insert"}`,
  `Spec => []NoDuplicateYield`.
  - `NoDuplicateYield` is not inductive. The inductive invariant is
    `InsertOnlyInv`, checked by TLC in `ESIndexInserts`.
  - `InsertOnlyInv` says:
    - the index is injective;
    - `yielded` is exactly the first `len(yielded)` documents of the index;
    - while the scan is running, `offset = len(yielded)`.
  - A search then extends this prefix by the next page (lemma
    `SearchPageInsertOnly`). An append keeps both the prefix and
    injectivity (lemma `InsertInsertOnly`).
  - The invariant explains why offset paging is sound only when writers
    append. The violation runs show that updates break it.

- `RefinesPagedScan`: with inserts only, `Spec => ImplementsPagedScan`.
  - The initial states map to `PagedScan` initial states (lemma
    `InitRefines`).
  - From `InsertOnlyInv`, every step maps to a step or a stutter of
    `PagedScan` (lemma `NextRefines`):
    - a search yields `SubSeq(index, len(yielded)+1, hi)`, a `Yield`
      (lemma `SearchPageRefines`);
    - an insert is an `Add`;
    - a failure is an `Abort`;
    - a refresh stutters.
  - A break on `count >= total` completes the scan only with
    `len(yielded) >= total`, because `InsertOnlyInv` ties `count` to
    `len(yielded)`.

- `CompleteScanInvHolds`: with inserts only, `Spec => []CompleteScanInv`.
  - `CompleteScanInv` strengthens `InsertOnlyInv` with two facts:
    - the documents the scan began with stay in the index, because
      inserts only add;
    - at `done`, `len(yielded) >= total`, because the break compares
      `count`, which equals `len(yielded)`, with `total`.
  - It is checked by TLC in `ESIndexInserts`.
- `CompleteScanUnderInserts`: with inserts only and
  `Cardinality(Docs) <= TotalHitsLimit`, `Spec => []CompleteScan`.
  - At `done`, `yielded` is a prefix of the index of length at least
    `total`.
  - While the index fits under the cap, `total` is the index's length, so
    the prefix is the whole index and contains every initial document.
  - The index is injective, so its length is at most `Cardinality(Docs)`
    (lemma `InjectiveLen`, via `FS_Injection`). Every index the run can
    reach therefore fits under the cap.
  - The cap hypothesis cannot be dropped: run `es_total_hits_cap` shows
    that once the index outgrows `track_total_hits`, the scan stops early.

## Proofs (TLAPS, `GcsSourceProofs`)

Under `LayoutAssumption` (the pages of both listings are sequences of ids,
and `RetryCount` is a natural):

- `TypeCorrect`, `RaisesOnlyWhenExhaustedHolds` and `CompleteListingHolds`
  all follow from `ListingInvHolds`, `Spec => []ListingInv`. There is one
  lemma per action:
  `BucketPageOkInv`, `BucketFailInv`, `BucketListEndInv`, `BlobPageOkInv`,
  `BlobFailInv` and `BlobListEndInv`.
- Lemmas on the layout:
  - `BlobsOfPagesNext` and `ListedBlobsNext`: the blobs of `n+1` pages are
    those of `n` pages plus page `n+1`;
  - `RangeConcat`;
  - `AllBlobsListed`: the blobs of all bucket pages are all the blobs.
- A retry resets `pages` to 0, so it restarts the listing. The invariant
  survives it because it only claims the blobs of pages before the current
  one: re-yielding them does not undo anything. This is why
  `CompleteListing` holds although `NoDuplicateDoc` does not.

## Proofs (TLAPS, `GcsDownloadProofs`)

Under `DownloadAssumption`:

- `DownloadInvHolds`: `Spec => []DownloadInv`.
  - One case per action.
  - The key lemma is `ChunksAppend`: appending chunk `pos+1` after a file
    that ends with `1..pos` gives a file that ends with `1..pos+1`.
  - A failed request resets `pos` to 0, and every file ends with zero
    chunks (`ChunksZero`).
- `TypeCorrect`: `Spec => []TypeOK`.
- `AttachmentEndsWithContentHolds`: the lemma `ChunksSuffix` turns
  `EndsWithChunks(bytes, size)` into `IsSuffix(Content(size), bytes)` by
  unfolding `IsSuffix`, `IsPrefix` and `Reverse` from SequencesExt.

## Proofs (TLAPS, `KibanaPrepareProofs`)

Under `PrepareAssumption` (`OldDocs` a set of positive ids, `MaxRuns` a
positive natural):

- `TypeCorrect`: `Spec => []TypeOK`.
- `CompletedRunResetsHolds`: `Spec => []CompletedRunResets`. The property
  only speaks of the `done` state, so it is not inductive. The inductive
  invariant `PrepareInv` says, for the current run:
  - past the pipeline steps, a pipeline exists;
  - unless the run has raised, every index before the current call is reset
    by this run (`Reset`: exists, created by this run, holds documents
    `1..len(docs)`);
  - while the loop runs, the current index was created by this run and holds
    documents `1..doc_id-1`.

  One lemma per action shows that `PrepareInv` is preserved (`InitInv`,
  `PipelineStepsInv`, `DeleteCreateInv`, `IndexDocInv`, `UpsertDoneInv`,
  `RerunInv`). The key step is `CreateIndex`: it sets `gen` to the current
  run and empties the documents, so whatever a failed run left is
  forgotten. A rerun drops back to `cur = 1`, so nothing is claimed of the
  indices it has not reached yet. The theorem `PrepareInvHolds` states
  `Spec => []PrepareInv` itself.

Only model-checked:

- liveness (`ScanTerminates`, `GetDocsTerminates`, `DownloadTerminates`),
  which TLAPS cannot prove;
- the violation runs, which are counterexamples rather than theorems;
- `NoDuplicateYield` and `CompleteScan` when writers update or delete,
  which those runs show can fail, and `CompleteScan` beyond the cap.

Every invariant that a passing run checks is stated by a theorem.

## Not modelled, and plan

- Concurrent runs of `prepare`, or a service reading or writing the
  indices during one: the exists/delete/create sequence is not atomic.
- The service components outside `src/`, modelled from `spec.md`:
  - the Connector and SyncJob lifecycle;
  - the heartbeat's idempotency;
  - the bulk coordinator, with its `concurrent_downloads` cap;
  - the orchestrator's sweeps, which read through `get_all_docs` and so
    inherit its truncation.
