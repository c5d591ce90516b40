# Verification of the bid project backend

TLA+ models, TLC runs and TLAPS proofs about the backend in
`src/code/sewpg-bid-backend` (paths below are relative to its `app/`).
`PROJECT.json` lists every component, run, mapped definition, hazard and theorem.

## 1. The system

A FastAPI process serves technical and business bid projects. Long work runs in
separate worker containers that take jobs from Redis. Project state is one JSONB
row per project in PostgreSQL; OCR tasks have a table of their own.

| Component | State it keeps | Operations | Talks to |
|---|---|---|---|
| OCR tasks, `services/ocr_service.py` | `ocr_tasks` rows (status, lock, fence token, retries), candidates, input files | submit, wait, claim, heartbeat, finalise, retry, audit | PostgreSQL, OCR model |
| Job queue, `services/job_queue.py` | lists `bid:jobs*` and their `:processing` lists, job hashes, in-flight hash, locks, cancel keys | enqueue, dequeue, requeue, recover, reclaim, lock, release | Redis |
| Main worker, `workers/redis_worker.py` | the job in hand | one job at a time, heartbeat thread, recovery | queue, parse service |
| Docling worker, `workers/docling_worker.py`, `services/docling_jobs.py` | the batch in hand | parse PDFs, hand the continuation back | queue |
| Parse service, `services/bid_parse_service.py`, `bid_parse_state.py` | `parse_progress`, `parse_result` of a project | submit, bind, cancel, execute, finish | queue, project store, model client |
| Project store, `services/bid_project_repository.py`, `store.py`, `workspace_project_access.py` | `projects` rows with a `_rev` inside the payload | read, write whole / checked / by field, mutate with replay, delete | PostgreSQL |
| Body fill, `services/technical_body_fill_job.py`, `technical_gap_ai_fill.py` | plan items and `bodyFillState` of a project, an AI-fill lock per item | submit, compute in a pool, merge by replay, fill one task | queue, project store, model client |
| Material cleaning, `services/material_cleaning.py`, `material_upload_operations.py`, `material_move_operations.py` | `raw_files` rows with a version, source and cleaned objects | upload, overwrite, move, clean, requeue | queue, MinIO, PostgreSQL |
| PDF full text, `services/material_deep_parse.py`, `technical_wiki_preview_generation.py` | profile and failures in the row, `fulltext.md` per version | queue, extract, publish, verify, purge | queue, MinIO, PostgreSQL |
| Wiki chain, `services/material_wiki_auto.py`, `material_wiki_jobs.py` | pending mark, build lock, index on disk, wiki | mark, build, acknowledge, retry, brake | queue, library |
| Gap artefact editing, `services/technical_gap_service.py` | a filled document and its session version | OnlyOffice callback | OnlyOffice, project store |
| Document flow, `services/bid_document_flow.py`, `bid_document_state.py` | the bid document, its version, its object in MinIO | page save, callback, forced save, format | OnlyOffice, project store |
| Technical parse result, `services/technical_parse_assets.py`, `technical_project_material_folder.py`, `bid_project_service.py` | `parse_result` of a project and its file, the appendices' folder in the material library | complete, refresh, promote, choose appendices, confirm OCR fields, take part | project store, material library |
| Directory and fill flows, `services/bid_directory_flow.py`, `bid_generation_flow.py`, `bid_outline_state.py` | directory, outline and fill state of a project | submit, generate, recover, edit and confirm the outline | queue, project store, model client |
| Gap planning, fact lists | states inside the project | generate, edit | queue, model client |
| Stages, settings, accounts, audit, performance library, job timing, routes, frontend | small tables or fields | CRUD, display | - |

What is hard here: jobs whose worker dies half way; leases that time out under a
live holder; a workflow that wanders over three processes while two locks travel
with it; Redis calls that fail after they were applied; requests that read a
project, wait, and write it back; cancellation at any moment; files that are
overwritten or moved while something derived from them is being made; editors
that hand back saves late, twice or after their session ended.

What makes each part correct: an OCR task is finished once, by the holder of its
lease, and its submitter is told the truth; a job is in one place and is never
lost; one S1 workflow at a time, its locks held to its end and freed by nobody
else; an acknowledged project write is not silently undone; every run and task
ends; no object a row points to is missing and no object is left that nobody
will remove; the wiki forgets no change and never falls back; neither a batch of
fills nor an editor takes back what somebody else saved meanwhile; the folder of
appendices follows the user's last choice, whatever failed before.

## 2. Modules

| Module | Role |
|---|---|
| `OcrLease` | OCR task rows, workers, leases, time, faults |
| `OcrTaskLife` | abstract specification of one task's life; `OcrLease` implements it |
| `S1Workflow` | the parse workflow: API request, Redis, both workers, progress and result |
| `ParseRuns` | abstract specification of a run's life; `S1Workflow` implements it |
| `ProjectStore` | one project row and its concurrent writers |
| `MaterialCleaning` | uploads, moves and cleanings of Word files, and their objects |
| `FulltextExtract` | extraction of one PDF's text beside overwrites, moves and a delete |
| `WikiChain` | from a library change over cleaning and deep parsing to the wiki |
| `LibraryMirror` | abstract specification of the wiki; `WikiChain` implements it |
| `BodyFill` | the batch of fills, single fills and users' edits |
| `ArtifactCallback` | OnlyOffice callbacks of one filled document |
| `DocumentFlow` | saves, callbacks, formats and other operations on the bid document |
| `GenerationJobs` | directory and body generation of a technical project |
| `ParseResult` | the parse result of a technical project, its writers, and participation requests |
| `MC_OcrLease`, `MC_S1Workflow`, `MC_ProjectStore` | bounds for TLC |
| `MC_S1Scenes` | `S1Workflow` with two runs or with all faults, by scenes |
| `MC_Library`, `MC_Documents`, `MC_Background` | bounds for several components at once, by scenes (section 3) |
| `OcrLease_proofs`, `MaterialCleaning_proofs`, `WikiChain_proofs`, `ParseResult_proofs` | the theorems about the module of that name |
| `S1Workflow_proofs` | the theorems about `S1Workflow`, and the scene `slot` of `MC_S1Scenes` |
| `FulltextExtract_proofs` | the theorems about `FulltextExtract`, and the scenes of `MC_Library` |
| `Documents_proofs` | the theorems about `ArtifactCallback`, `DocumentFlow` and `BodyFill`, and the scenes of `MC_Documents` |
| `Background_proofs` | the theorems about `ProjectStore` and `GenerationJobs`, and the scenes of `MC_Background` |

How they depend on each other: `S1Workflow`, `MaterialCleaning`, `WikiChain`,
`BodyFill` and `GenerationJobs` each contain the part of the job shell (`workers/redis_worker.py`) and
of the queue they use. `ProjectStore` is what `BodyFill` and `ArtifactCallback`
rest on where they take a replayed checked write as one step; `DocumentFlow`
writes the row whole, as its code does, and does not rest on it. `WikiChain`
starts where a cleaning or an extraction ends.

Operators introduced by a "Slip" comment are never part of a specification: each
is a plausible mistake in the definition that follows it, and shows that a
property notices it.

### OcrLease

A row is `status, fence, lockedBy, lockAge, retries, reason`. `lockAge` is the
distance between `locked_at` and now. `batches`, `inputFile`, `answer` and
`audits` are what a task leaves behind: candidate batches, its input file, what
`_wait_for_task` returned, audit entries. A worker's `pc` follows
`_process_one_pending_task` and `_run_claimed_task`; each database transaction is
one action. `SelectTask` and `ClaimTask` are two, since only the second, the
conditional UPDATE, decides under PostgreSQL's READ COMMITTED. `Heartbeat` is
`_renew_lease` with the cancellation of the worker wherever it stands, also after
its row was committed.

Time is `Tick`. Ages stop just past the value they are compared with. With
`Timely` a live heartbeat is never late by more than a step; without it a late
heartbeat is a stall of the event loop and counts as a fault, like a crash or an
exception in the heartbeat coroutine, which nobody awaits.

The OCR call, the settings and the input's content are outcomes chosen freely.
A task whose `_run_claimed_task` finds the row missing is left out: nothing
deletes rows.

### S1Workflow

`genLock` is the project's lock, `wfLock` the single workflow slot, `queue` and
`proc` the Redis lists of both workers, `status` the job hashes, `inflight` the
hash of running jobs. A run's identity is the id of its `s1_parse` job; its other
jobs are `<run>:docling` and `<run>:continue`. A Lua script or a MULTI pipeline
is one action. `progress` keeps a status, the runId and `cancelRequested`.

`MainStep` and `DoclingStep` follow the two `_run_job` functions; `Finish`,
`EndJob` and `ReleaseLocks` are their `finally` blocks, in order, so a crash may
fall between them. `RunEnds` and the safety properties hold through those crashes.
What the submitter of a run may rely on is `ParseRuns`: a run is new, open or over;
it is opened once, closed only when a job has settled it, and from then on neither
its status nor its project's result changes by it any more. `PhaseOf` reads the
phase off the lists: a run is open while it has a job in one.
`progress` is written by read-modify-write of its field. The reads that matter are
kept apart from their writes: `bind_parse_run`, a user's `cancel_parse` (which
makes an HTTP call in between) and the write that starts a parse. The worker's
other updates are one step.

Deployment has one API process and one of each worker. The model lets requests of
several API processes interleave, which covers the deployed one; `s1_cancel` does
not depend on it.

Faults: `main`, `docling`, `api` are crashes; `push`, `handoff`, `handback` are
Redis errors of the three enqueues, reported whether or not Redis had applied
them; `clear` is a Redis error while a job is cleared. `Expire` is a TTL: of locks
nobody will ever release (`Leaked`) at any time, of a waiting run's locks
`MaxExpiries` times. `s1_expiry` begins with the bound of the faults or that of
the cancellations used up (`EitherInit`), so that a behaviour has one or the other.

`recover_inflight_jobs` only finds entries without a processing payload, written
by a version before the processing lists; it has nothing to do here and is left
out. The staleness that a reader of the progress computes is display only, so it
is left out too, and so are progress events that change no status.

### ProjectStore

A payload is its revision and, per field, the set of operations whose change it
holds. `mode` says how each operation writes back. The checked write is three
steps, as in `persist`: UPDATE, the probe that tells a conflict from a missing
row, and INSERT. They are one transaction in the code, but at READ COMMITTED each
statement sees what others committed before it, so others may step in between.
`Abandon` is `persist_when` refusing, an exception in the change, or a crash.
`Retries` is 8 in the code, 2 here: the replay loop is the same at every turn.

The in-memory backend is not modelled. `update_project`, `update_stage` and the
template fallback write unconditionally although other operations run beside
them; a whole write puts back its own, possibly older, revision plus one.
`AckedKept` is therefore checked over the mixes of modes that do not include an
unconditional write next to another one (`SafeMixes`): with such a mix the model
loses writes, as the code may.

### MaterialCleaning

A file has a row (`version`, `cleanStatus`, `cleanedSourceVersion`, key), source
objects (`src`) and cleaned objects (`objs`, by version, with the version they
were made from). An upload is five steps, in the order of
`material_upload_operations.py`: write the object, commit the row under
`FOR UPDATE`, remove the old cleaned object, enqueue, done. A cleaning reads the
row, marks it, fetches the source by the key it read, runs, uploads, and marks
the row again if the row still has its version; each conditional UPDATE waits for
an upload's lock. A refused mark discards the object and looks for a newer
pending version (`_requeue_latest_cleaning`). No removal is sure to succeed: the
worker gives up after three attempts, uploads and moves after one, and all go on.
`warned` has the cleaned objects such a removal has named in the log; nothing reads
it but `NoOrphan`. A source object that stays (`RemoveSource`) is no
concern of a property. `Move` reads the row without a lock
and writes the fields it read back (`material_move_operations.py:60`).

### FulltextExtract

Two runners extract: the material worker, and the API's thread that takes over
when Redis takes no job. A run reads the row's version and key, marks it running,
extracts, puts the text under that version and writes the profile; each write is
refused when version or key are no longer the row's. After a refused write, or one
that raised and may have been applied (`unsure`), it verifies whether its text is
stale and removes it. Overwrites and a delete purge texts afterwards; a move
writes back the fields it read under a new key.

### WikiChain and LibraryMirror

`lib` is the set of changes so far, `wiki` those shown. A request that changed
the library sets the pending mark with a token of its own and enqueues a build; it
deletes the mark again, if it is still its own, only when it was the one to get
the build's lock. Otherwise the mark stays for `retry_pending...`, after the
running build or when the queue is empty. A Word file's upload leaves this to the
last cleaning of the batch, any other upload to a cleaning that is active, a deep
parse to the last of its batch, each file once (the brake).
`snap` is the index on disk, which a build rebuilds first: if that fails, or the
build is delivered again, it works with an older one. `LibraryMirror` says what
the module docstring of `material_wiki_auto.py` promises.

### BodyFill

A submission reads, resets the state, and enqueues: three steps, since the state
is reset before the submission learns whether another job runs. Each thread of
the pool computes with a snapshot; the worker merges one result at a time, counts
after each, and finalises. Every write may give up after its replays
(`conflict`). A single fill takes its snapshot before it has the item's lock.
`Stale` is the rule by which a running state without a lock stops blocking.

### ArtifactCallback

A callback checks its session, downloads, checks again under its lock, moves the
document aside, puts the new one in place, commits the row, and restores the old
one when the commit is refused. A crash may fall between any two; the row may be
superseded at any time.

### DocumentFlow

The row has a version and the rest of the project; callbacks and saves write it
whole, from the copy they read. A callback holds its copy while it downloads. `Overlap` says
whether requests may run between the steps of another. `file` is the document on
disk, `object` that in MinIO; an upload may fail without anybody being told
(`Sync`), and the row may not be written (`PersistFails`), after which a format has
replaced the document and answers with an error. `missed` has the contents whose
last upload failed, or was not reached for that reason; nothing reads it but
`DocumentCurrent`. An error of a format after its row was written is, for the state,
a failed upload.

### GenerationJobs

The API is one event loop, so a handler that does not await runs in one piece
among handlers: `api` is the one that has the loop, and only the worker moves
between its steps. A directory request takes the lock first and marks the state
under it; a body request marks the state, awaits an audit entry, and then takes
the lock. `Stale` is a running body without an event, an output or an assembled item
for an hour; `fresh` is all the model keeps of those times. `HourUnattended` is that hour over
a body nobody works on, `HourSlow`, a fault, over one whose job is slow or waits.
`outline.gen` counts regenerations, and `doc` holds the one the document was
assembled from. The worker follows `_run_job`: the job leaves the processing list
(`EndJob`) before its lock is freed (`Release`), so a crash falls on either side.

Two faults have no repair in the code: an API that dies between marking a
directory as running and pushing its job, and a lock that runs out under a
waiting directory job. Both leave the directory running for ever;
`DirectoryHasJob` is stated for behaviours without them, and without a store that
fails while a failure is to be recorded. The body has such a repair, and
`FillSettles` is checked with all faults.

### ParseResult

`result` is the field `parse_result`, cut down to its status and to the three
things kept in `structured` that others change: the chosen appendices, the record
of the material folder (`sync`: the id of each appendix' file, and ids whose
deletion failed), and the confirmed OCR fields. `file` is the same part of the
structured result file, which `Refresh` puts in place of the field whenever the
results are read. The parse worker's `Complete`, `WorkerRefresh` and
`WorkerPromote` are three steps, since each reads and writes the row and the
promotion writes back what the refresh returned (`held`).

A participation request is `BidProjectService.update`: it reads the project
(`Ask`), then awaits the library in `Prepare` (the tracked files are moved into the
folder), `Index`, `Upload`, `Delete` and `Finish`, and works on its own copy all
the while. Every end after `Prepare` writes the copy back, the failed ones from a
`finally`. Nothing is awaited between that write and the promotion of a request
that succeeds, so `Succeed` is both. `lib` is the folder; a file of the same name
keeps its id when it is overwritten, and gets a new one (`made`) otherwise.

`calm` says that no two holders of a copy of the result (requests, the parse
worker) overlapped so far, that no request was killed, and that the project was
parsed once. Outside of it the model shows what the code does not repair: the copy
of a request that waited puts the choices, the confirmations or the whole parse of
its beginning back, a parse drops the record of the folder, and a killed request
leaves files nobody tracks. `told` are the choices acknowledged while nobody held a
copy, `met` the requests that met a fault of their own. Choices and confirmations
themselves may come at any time, also beside an open request.

## 3. Runs

| Run | Bounds | Distinct states | Question |
|---|---|---|---|
| `ocr_safety` | 2 tasks, 2 workers, 1 retry, timeout 1, 2 faults, workers symmetric | 3 290 485 | Does fencing keep every row, candidate, file, audit entry and answer right? |
| `ocr_timely` | 1 task, 2 workers, timeout 2, heartbeat 1, 3 faults, fair | 83 309 | With punctual heartbeats: no theft of a live lease, the task life, every task ends |
| `s1_ends` | scenes: 2 projects with a run each and 1 crash, or 1 run and 3 faults of 7 kinds; fair | 699 014 | Slot, locks and jobs when two workflows compete; is a run lost, revived or left open? |
| `s1_expiry` | 2 runs of one project, 1 expiry, and 1 cancellation or 1 fault of 7 kinds | 5 267 921 | Can a late run hurt its successor? |
| `s1_cancel` | 1 run, 1 cancellation | violation | Does a cancelled parse stay cancelled? |
| `store_fields` | a field write and a mutate | violation | Are writes of different fields independent? |
| `store_revive` | a delete and a checked write | violation | Is a checked write confined to the revision it read? |
| `result_fields` | an appendix, an OCR field | violation | Does a confirmed field stay in the result? |
| `result_folder` | an appendix, 3 requests, 2 choices, a failed deletion | violation | Does a request without a fault bring the folder in line with the choice? |
| `library` | scenes of cleaning, full text and wiki chain, 2 faults | 1 081 725 | Is an object lost or left behind, a change forgotten, does the wiki fall back? |
| `documents` | scenes of artefact callbacks, document flow, body fill and parse result, up to 2 faults | 3 108 869 | Is anything saved, filled, edited or chosen taken back, or a file of the folder forgotten? |
| `background` | scenes of cleaning, wiki chain, body fill, generation and the project store, fair | 690 855 | Does every background job come to its end, do directory and body generation keep out of each other's way, and is no acknowledged write of the row lost? |

Scenes. `MC_S1Scenes` checks two configurations of one component in one run; a
liveness property of both is then stated once. `MC_Library`, `MC_Documents` and
`MC_Background` check a sum of
components: their variables side by side, `scene` chosen in the initial state,
and only the scene's component moves while the others keep their initial state.
The components of a sum share no state, so the reachable states of a scene are
those of its component alone; nothing is gained or lost by checking them
together, except that a run asks one question of all of them. Every component of
`MC_Documents` has fault variables of its own, and its instances but those of
`ParseResult` take their constants from the cfg, as does `GenerationJobs` in
`MC_Background`, so that the theorems about the scenes hold for any values. `merge`
and `batch` are two parts of the same `BodyFill`, each with less going on than its
`Next` allows; both would be too many states in one. A scene fixes the
component's bounds and faults:

| Run | Scene | Component and bounds |
|---|---|---|
| `s1_ends` | `slot` | `S1Workflow`: 2 projects, a run each (one with PDFs), 1 crash of any process |
| | `faults` | the same with one run; 3 faults of crashes and Redis errors |
| `library` | `text` | `FulltextExtract`: 2 versions, 1 move, 2 extractions, 2 failures to give up |
| | `refusals` | `MaterialCleaning`: 3 versions; uploads, database writes, removals and drivers fail |
| | `crashes` | the same; uploads, removals, drivers, Redis, the API and the worker fail |
| | `moves` | the same with 2 versions and a move |
| | `chain` | `WikiChain`: 2 Word files, 1 other; crashes and failed builds |
| | `deep` | the same with a deep parse, raising hooks, a lost index |
| `documents` | `callback` | `ArtifactCallback`: 3 callbacks, 3 sessions, crashes, refusals |
| | `document` | `DocumentFlow`: 2 callbacks, 2 saves, a format, another operation, not overlapping; 2 failing downloads, uploads or writes of the row |
| | `merge` | `BodyFill`: 2 items, 3 tasks, 1 submission, 2 single fills, 1 edit per item, 1 fault that is no crash |
| | `batch` | `BodyFill`: the same items, 2 submissions, 2 faults of 4 kinds, no single fills or edits |
| | `folder` | `ParseResult`: 1 appendix, 3 requests, 2 choices, 1 fault of 6 kinds |
| | `result` | the same with 2 appendices, an OCR field, 1 request, 2 parses, a removed file |
| `background` | `cleaning` | 3 versions; the worker and uploads fail |
| | `chain` | a Word file, another file and a tree change; crashes |
| | `deep` | a deep parse of each of two files; no faults |
| | `filling` | 2 submissions of different scopes; all faults |
| | `generation` | `GenerationJobs`: 2 directory requests (one anew), 2 body requests, an edit, 1 fault of 6 kinds |
| | `store` | `ProjectStore`: 4 operations, 2 fields, 2 attempts, the mixes of `SafeMixes` |

Why the bounds are enough for what is asked. A takeover needs two workers; a
second one of the same row, with a retry in between, is reached by a worker
coming back for it. Two tasks let a worker move on while an old one wakes up. One
retry has both sides of `CanRetry`. Timeout 2 with interval 1 is the smallest
where a punctual heartbeat comes before the timeout; timeout 1 makes takeovers
frequent. In S1 the slot needs two runs in different projects, project locks need
two runs in one. Three faults let a redelivered job fail twice again. Four store
operations give two conflicts to an operation with two attempts and still one
that succeeds besides. Three versions of a file let a cleaning of the first
end after the third was uploaded while the second is being removed; two
versions of a PDF and two runners let a late extraction meet an overwrite and a purge. In
the chain two Word files make a batch with a last one, and the third change comes
while a build runs. Three callbacks are a late one, the one that ended its
session, and one between. Pool 2 with three tasks keeps a thread busy while
another result is merged. A directory request and one that asks for it anew are a
competition for the lock and a regeneration beside a plain run; two body requests are one whose job was taken
for stale and its successor; both initial states, with and without a document,
are needed for a body before and after a regeneration. Three participation
requests are one that fills the folder, one that fails, and one that finds what it
left; the second choice of an appendix comes before or after the failure. Two callbacks and two
saves of a document are editors opened before and after a save, and a save after
one that missed its upload; two faults let an upload fail and then the row. Only
`ocr_safety` and `documents` use symmetry, the latter of two callbacks that only the
scenes of the document know; none of their properties is a liveness property.

Deadlock checking is off everywhere: each model ends when all requests are
settled and the fault budget is spent, as the system idles. That nothing waits
forever is what `TaskEnds`, `RunEnds`, `CleaningSettles`, `ChangeShown`,
`SubmitAgain` and `FillSettles` check.

Fairness. `ocr_timely`: every worker coroutine and heartbeat gets its turn on the
event loop, the clock moves, and the submitter polls (`_ocr_worker_loop` catches
every exception and goes on). `s1_ends`: requests run to their end, both containers
restart (`restart: unless-stopped`) and loop, a leaked lock's TTL runs out.
`background`: the material and main workers loop and restart, a request that was
accepted runs to its end, and a lock nobody renews runs out.
In its scene `generation` also: handlers run to their end, an hour passes over a body
nobody works on, and the page polls the body's status while it is shown as running
(`technicalGenerationStatusPolling.js`). Only one scene moves, so `MC_Background`
states one fairness condition for actions of several scenes; what must happen in
the end is stated with `[]<>`, as that it happens again and again.
Weak fairness is on a process's whole next step, never on a chosen outcome, so
no run assumes that a parse succeeds or that a retry is taken. Faults are never
fair.

### Findings

* `s1_cancel` / `CancelledStays`: the `s1_parse` branch of
  `workers/redis_worker.py:271` writes `running` over a progress that was
  cancelled in the queue, while `tests/test_parse_async_jobs.py:262` expects the
  progress to stay `cancelled`. The test calls the parse function directly and so
  skips that branch. With PDFs the run then ends at the Docling worker, which
  sees the cancel key, and the progress is left `running`.
* `store_fields` / `FieldsIndependent`: `persist_fields` does not raise `_rev`, so
  a checked write of the whole payload that read the row earlier still matches and
  writes the old field back; the docstring at
  `services/bid_project_repository.py:147` says such operations no longer concern
  each other.
* `store_revive` / `CheckedOnItsRevision`: a checked write whose row was deleted
  inserts it again, although the docstring at line 99 says it writes only while
  the database has that revision.
* `result_fields` / `ConfirmedShown`: confirming an OCR field writes
  `ocrConfirmedFields` to the row only (`services/ocr_service.py:937`); reading the
  results rebuilds `structured` from the result file
  (`services/bid_parse_service.py:1904`) and puts back the appendix fields and the
  folder's record, not the confirmed fields. The docstring at line 1601 says that the
  runtime state must be kept, and `tests/test_security_settings_ocr_routes.py:677`
  expects the field after a reading; that test's project has no result file.
* `result_folder` / `ChoiceApplied`: an id left in `pendingDeleteIds` is deleted
  whatever is chosen by then (`services/technical_parse_assets.py:193`). An appendix chosen
  again after its deletion failed is uploaded over the old file, which keeps its id,
  and deleted by the same request; the request fails, and the next ones are refused
  because a file the row names cannot be moved. The docstring at line 144 says that
  the library agrees with the last choice; `sync_technical_parse_appendices` would
  recover a missing file (`tests/test_technical_parse_assets.py:201`), but is not reached.

### Disagreements without a run of their own

Met while modelling, and left out of the properties or of a run's faults where
the code does not repair them:

* A move that read its row before an overwrite committed writes the old clean
  status back, without the version (`material_move_operations.py:60`): the new
  version is then taken for cleaned or failed and `cleanedSourceVersion` points
  to the old one. `UsableArtifactKept` survives it, `CleaningSettles` is checked
  without moves.
* When the database refuses the mark of a version that was cleaned before (a
  redelivered or twice queued job), the compensation removes an object the row
  still names (`material_cleaning.py:516`). `UsableArtifactKept` is therefore
  checked and proved without that refusal, `NoOrphan` with it.
* A cleaned object whose removal MinIO refuses stays for ever: three attempts of the
  worker, whose result is ignored (`material_cleaning.py:298`, used at 308 and 516),
  or one of the upload that replaced it (`material_upload_operations.py:449`), and
  no later clean-up. The comment at line 515, that the compensation avoids orphans,
  holds as far as MinIO answers. `NoOrphan` counts these objects by name (`warned`)
  and says that, without crashes and moves, there are no others.
* With two runs, a hand-off that Redis applied but reported as failed, or a job whose
  clearing failed and which is reclaimed later (`job_queue.py`,
  `reclaim_stale_inflight_jobs`), frees the workflow slot while the Docling worker is
  at work: two workflows run. `s1_ends` has these faults with one run only.
* `bind_parse_run` of an older run may write late, when the project's next run has
  handed its batch over. If the main worker died before it cleared that run's parse
  job, the job delivered again finds itself replaced and gives both locks back
  (`redis_worker.py`, `s1_parse`), although the batch is still at work: the next
  workflow starts beside it, and the project's next submission gets its lock.
* A cancelled batch gives both locks back. Delivered again after a crash, it does so
  while its continuation is being executed, before that has seen the cancel
  request; so `ResultUnderLocks` and `OneWorkflow` except runs with a cancel key. A
  parse job delivered again reports such a run as waiting once more, and no job is
  left to end it: `RunsImplemented` takes a cancelled batch for the end of its run,
  although the status its submitter sees may stay behind.
* An overwritten PDF keeps the failure count of the version before it
  (`technical_wiki_preview_generation.py:429`) and may be given up at once.
* A cleaning that raises passes over its batch's hook (`redis_worker.py:211`):
  its finished siblings reach the wiki with the next change only.
* The refresh brake is asked only for the last file of a batch
  (`material_wiki_auto.py:305`), and a claim taken before a crash is not given back.
* A second body-fill submission resets the progress of the running one before it
  learns of it, and the reset state can be called stale before its job is queued
  (`technical_body_fill_job.py:202`); `fillError` is never cleared (`:462`).
* A directory job writes back the whole project it read a moment before
  (`outline_generation.py:871`): a body that was marked running or failed in
  between looks as it did before. The two steps are in `GenerationJobs`.
* A document callback writes back the whole project it read before its download
  (`bid_document_flow.py:369`), so what another operation wrote meanwhile is
  lost. `DocumentCurrent` and `NewestKept` are checked for requests that do not
  overlap.
* A save is acknowledged although its document did not reach MinIO: uploads swallow
  every error (`onlyoffice_documents.py:119`), and nothing repeats them before the
  next save or format. A format that fails after it has rewritten the document
  answers 500 and leaves the new document, with the old object and version
  (`technical_document_service.py:256`). Where the local file is lost then,
  `ensure_document` restores the older object under the row's version.
  `DocumentCurrent` excepts the document that this happened to (`missed`), and no
  other.
* A participation request writes back, after minutes of uploads, the parse result it
  read before them (`bid_project_service.py:225`): a choice, a confirmed field or a
  new parse in between is lost. A second parse forgets which files the folder has.
  `FolderTracked` and `SyncedIsChosen` are stated for `calm` behaviours,
  `ChoiceKept` for choices made while no copy was held.

## 4. Proofs

Every invariant, action property and refinement of the passing runs is stated by a
theorem; only liveness is not.

`OcrLease_proofs` proves them for all values of the constants that satisfy `OcrConstants`
(naturals, the heartbeat interval at most the timeout, `NoWorker` not a worker).
But for `LeasesAreKept` they need nothing about time: they hold with any stall.

* `TypeInv` (types, and a busy worker has a task) is inductive; `TypeCorrect`.
* `TokenUnique` is not inductive: a takeover could issue a token somebody still
  carries. `TokenIssued` adds that no token is above its row's, and that an active
  worker's row has been claimed; then the token issued by `ClaimTask` is new.
  `TokenInv` gives `TokensUnique`, and with `RowSteps` (what a step may do to a
  row, by its status) `FinalRowsStay`, `OnlyHolderEnds`, `OneBatch`, `AnswersTrue`.
* `AuditTrue` needs `WhyKnown` (a worker about to fail has a reason, one that goes
  on has none) and `ClosingTrue`: a worker past its final write owns the row's
  token, the row has the outcome it will record and no audit entry exists. By
  `TokenUnique` there is only one such worker (`OneCloser`).
* `InputKept` needs `InputGone` (the input file is missing only when the task is absent or completed) and
  `LostToOther` (a worker that found no input is looking at a task another worker has completed).
* `RetriesUsed` needs `SeenCurrent`: while a worker holds the row's token, the
  retry count it read is the row's. So the write of `seen + 1` is never stale.
* `LifeRefined`: under the conjunction of these, each step of `OcrLease` is a step
  or a stutter of `OcrTaskLife`. `SeenCurrent` is what bounds the retries there.
* `LeasesAreKept` (`LeaseKept`) is about the clock, and assumes `Timely`. `LeaseInv`:
  as long as a worker's heartbeat runs and the row has its token, the row's lock is no
  older than the heartbeat's last turn (`LockFresh`) and the row is not pending
  (`HeldNotPending`). A step either makes neither age grow past the other (`AgeSteps`) or
  renews both; an age below the interval is below the timeout, so nobody may claim.

`S1Workflow_proofs`, for any runs, projects, bounds and faults:

* `TypeInv` adds to the types that a worker past its queue has a job in hand;
  `TypeCorrect`, and `LocksAreOwn` (`OwnLock`) directly from it, action by action.
* `JobsOnce` says that a queue and its processing list hold no job twice. It is
  not inductive: a push must find its id absent. `OnceInv` adds that the two lists
  are apart (`Apart`), that every listed id has a job hash, whose absence or
  status is what enqueues look at, that a run whose request has not pushed yet
  (`Fresh`) has no parse job, and that the job the main worker has just taken is in
  its processing list, from which a requeue moves it.
* `NoRunLost` (`RunAccounted`: a run that was queued, and has neither ended nor had its
  batch cancelled, has a job) needs the same of every job, not of the run:
  `AccountInv` says that each job ever added is listed or has passed its run on (a
  parse job is ended or has a successor, a batch is cancelled or has its
  continuation, a continuation is ended), and that a worker whose job is ending has
  passed it on. A job leaves its lists only there.
* `ResultsUnderLocks` (`ResultUnderLocks`): `LockInv` says that the main worker works
  under both locks of its run, and that the Docling worker gives locks back only
  for a run that was cancelled or has lost its project's lock; nobody gets that
  lock back (`LostForGood`).
* `OneWorkflowAtATime` (`OneWorkflow`) is assumed neither of the Redis error after
  which a failed hand-off gives the locks of an accepted batch back, nor of the one
  that leaves an ended job in flight for `Reclaim` to fail: with either and two
  runs TLC finds the property violated. `MainInv`: the main worker takes its
  processing list empty, so it has one job and nothing to reclaim. `SlotInv`: the
  Docling worker works under both locks unless its run is over (its continuation
  has ended and is gone, `Over`), and the main worker gives locks back only for a
  run that is over, has lost its project's lock, or was not handed on (`Unstarted`).
  The last case is a parse job that finds its run replaced. Where the main worker does
  not die, its run was not handed on, since no parse job is started twice (`FirstTime`);
  where no two runs are of one project, it does not happen (`OwnProgress`: what is
  written back to a project's progress was read from it). With both the property
  fails in a model with three runs (see the disagreements above), so no weaker
  assumption on crashes alone will do.
* `LocksStayHeld` (`LockHeld`) and `SlotKeepsLocks` (`LockKept`, which is `LockHeld` in
  the scene `slot` of `s1_ends`, whose faults are the cfg's) are assumed, beside
  that, no submission reported failed, which gives the lock of a job in the queue back.
  Without any one of the four assumptions TLC finds the lock lost with two runs of one
  project. What is inductive is `HeldInv`: a run whose request has taken the lock
  and not pushed yet, or which is not over and has a job (`Wants`), has its lock, or a
  cancel request. A run comes to want its lock only by taking it, as later jobs are
  pushed while one of its jobs is in hand (`WantsBegins`); its lock cannot run out as
  a leaked one, since both workers hold nothing in their processing lists but
  the job in hand (`MainInv`, `BatchInv`); and a run given up before it was handed
  on has no other job (`DoneInv`: a job whose locks are given back has left its lists).
* `RunsAreImplemented` (`RunsImplemented`) holds of `Spec` with any faults, which
  covers the two sets of them that the scenes of `s1_ends` have. That no closed run comes back needs `PushedInv`: the hash
  of a run's parse job is there before any other job of it, and not before its request
  has pushed it. A run's hashes change only while it has a job or is pushed
  (`ReportMoves`), a run stays as it is or goes one phase on (`StandsMoves`, over sets
  of ids, `Stands`), and to close without being settled contradicts `RunAccounted`
  after the step. At most one run is closed by a step, since only the end of a job
  takes it out of its lists (`OneEnds`); a worker that recovers may report on several
  open runs at once, which is why `Work` in `ParseRuns` is about all of them. A result
  is stored by a continuation in hand, whose run is open.

`Background_proofs`, about `ProjectStore`, for any operations, fields, retries:

* `AcknowledgedStays` (`AckedKept`) has two cases. Where every operation but a deletion
  checks its revision (`GuardedMix`), a copy read at revision n holds exactly what the row held at n
  plus the writer's own change (`Copies`), and the row holds exactly the
  acknowledged changes (`RowHolds`). Where nothing is checked but nobody shares a
  field, or only one operation writes (`SeparateMix`), nobody but an operation itself
  touches its change in its copy or in the row (`Holds`). `SceneAcknowledged` shows that
  the mixes of the run are of these two kinds.
* `RefusedOnlyByOthers` and `RevisionsCount` need `Counts`: no operation was beaten
  more often than the row has revisions, and none gets to insert.

About `GenerationJobs`, for any requests and faults:

* `GenInv` adds to the types that a delivered request has left its handler
  (`Submitted`), that a handler has the event loop from its look at the lock to its
  end (`Handled`), and that a directory job has its lock until it has been saved,
  also when it is delivered again (`Worked`).
* `NobodyEditsUnderAJob` (`OutlineStill`) follows: who edits has the event loop and
  sees the lock free.
* `DocumentIsOfOutline` (`DocumentCurrent`) needs `Assembled`: the regeneration a job
  has read is still the outline's when it saves, as bodies and directories share
  one worker.
* `RunningHasJob` (`DirectoryHasJob`) is inductive under `GenInv`, when a running
  directory is taken to have a request that answers for it (`Answers`).

`MaterialCleaning_proofs`, `UsableIsThere` without refused marks: an artefact is
removed only for a version older than the row. That needs the versions of the
queued jobs and of the job in hand to be at most the row's (`Known`), an open
upload to be of the next one (`UploadInv`), a discard to follow an overwrite, and
the copy a move will write back to name a version whose artefact is there
(`RowInv`). `NothingLeftBehind` (`NoOrphan`, with refused marks and removals, where no
file is moved and neither the API nor the worker dies) needs what a cleaning reads to be the
version it works for (`SourceInv`), and an owner of every object: the row, the
worker between its upload and its mark or removal, an upload that will drop it, or
the log, for one whose removal was refused (`OwnerInv`). Where a process dies or a file is moved, objects may stay behind, and
neither the run nor the theorem says otherwise.

`FulltextExtract_proofs`, `ServedTextIsThere` and `OldTextsAreRemoved`: source
keys are never given out twice (`KeyInv`), so a profile names the version its
source key was given out for; a runner about to write the profile has its
text in place, one about to remove it is late (`RunnerInv`); a purge spares the version that
took the place (`PurgeInv`).

`WikiChain_proofs`: `ChainMirrors` (the refinement; the wiki is only ever
enlarged, from what the library has) and, without deep parses, raising hooks and
a lost index, `ChangesAreTracked`. The mark alone is not enough for the latter:
tokens are new when they are set (`Tokens`), so that an acknowledgement deletes
only the mark of the request that got a build; and a plain upload that left its
change to an active cleaning relies on what that cleaning's hook has done since
(`HookCertain`).

`Documents_proofs`, about `ArtifactCallback`: `SavedIsKept` and
`OnlyOpenSessionsWrite`. Only one callback replaces the document at a time
(`OneReplacer`), the document and the row are what its progress says (`FileOf`), and
a callback past its second check has the row's session; the lock's work does not
yield the event loop. About `DocumentFlow`, with `Overlap` false: `DocumentIsCurrent`
and `NewestIsKept`, from `DocInv` (at most one request is under way, its copy is the
row, the object is the document, or the document has missed its upload (`InMinio`),
until a format rewrites it, and a callback's session is the row's version). About `BodyFill`: `NothingTakenBack` (`WorkKept`), and
`EveryTaskAccounted` (`BatchAccounted`, unless marking itself fails), from two facts:
at the last count nothing is left, and what was collected is filled or marked
(`Accounted`).

`ParseResult_proofs`:

* `ChoicesAreKept` (`ChoiceKept`): every copy that may still be written back, of an
  open request or of the worker between refresh and promotion, has the choices users
  were told of (`KeptInv`).
* `FolderIsTracked` and `SyncedAreChosen` need to know, at every stage of a request,
  who knows of the folder's files (`CalmInv`): the result, the copy of the open
  request, or, while it deletes, its plan, which accounts for each file as chosen or
  stale (`PlannedFor`). A plan is made from a result that has been completed;
  `Unparsed` says that before the first parse there is nothing to plan.

Scenes. A run of several components checks the specification of their sum, so the
property it checks is proved for that: in a scene of its own a component does one
of its steps, in the others it stands still, so the sum's specification implies the
component's (`GenerationRuns`, `StoreRuns`, `ComponentMoves`, `ResultSpec`,
`ChainMoves`, `CleaningMoves`), and the component's theorem applies. For this the MC
modules take `MaterialCleaning`, `WikiChain` and `ParseResult` by instances of their
proof modules, and a theorem about `DocumentFlow`, `BodyFill` or `GenerationJobs` is
stated of the instance (`Document!`, `Fill!`, `Gen!`), whose constants and faults are
those of the MC module. `SceneKeepsUsable`, `SceneLeavesNothing`, `SceneTracksChanges`
and `SceneMirrors` are for the constants that `MC_Library` writes down, as are
`SceneChoiceKept`, `SceneFolderTracked` and `SceneSyncedIsChosen` for those of
`MC_Documents`; the theorems they come from are for any.

`OcrLease`, `S1Workflow`, `ProjectStore`, `FulltextExtract` and `ArtifactCallback`
state their assumptions as `ASSUME`; the theorems about the others assume their
constants' predicate (`CleaningConstants`, `ChainConstants`, `BodyFillConstants`,
`GenerationConstants`, `DocumentConstants`, `ParseResultConstants`), which the MC
modules assume for their instances and TLC evaluates there.

Type invariants (`TypeCorrect`, or `TypeOK` as part of `GenInv`, `DocInv` and
`FolderInv`) and `RevCounts` hold by proof for every value of the constants and are
not checked again by a run.

Only model-checked is liveness (`TaskEnds`, `RunEnds`, `CleaningSettles`,
`ChangeShown`, `SubmitAgain`, `FillSettles`), which the prover cannot do. The five
`violation` runs are counterexamples, and have nothing to prove.

Not claimed at all: `DocumentCurrent` and `NewestKept` of requests that overlap,
`ChangeTracked` beside deep parses, and what the disagreements above contradict.

## 5. Not modelled, and why

Text, DOCX, XLSX and PDF processing, model calls, planning rules and assembly are
sequential data transformations, by far the largest part of the backend; the
models choose their results freely. Modelling them would restate the code, without
state that several actors share. Accounts, settings, audit, the performance
library, routes and the frontend are CRUD or display.

Left out of modelled components: the
in-memory backend of the project store; folder operations, duplicate names and
deletion beside a cleaning; conversion of XLSX and large Word files; the wiki of
the business bid; PDF export; the local executor that replaces the queue without
Redis; renaming project folders and copying another project's files into a new one;
progress display and job timing. An API that dies between the row of a
document and its file, and a disk that fails (`DocumentFlow`); a database error while
a refused cleaning looks for a newer version (`MaterialCleaning`).

Two simplifications of data. A fill that is merged into an item overwrites the item's
status, quality and resolution with those of its snapshot
(`technical_body_fill_job.py:136`); the edits of `BodyFill` are of the other fields,
which are kept, so `WorkKept` does not speak of those five. The appendices of
`ParseResult` have files of their own; two with the same title share one file name
in the project's folder.

Not modelled at all though they run in the same job shell: fact curation, business gap planning. `business_gap_service.py` writes
the whole row unconditionally at lines 202, 250 and 573, which `ProjectStore`'s
`whole` mode stands for: what such a write may undo is outside `SafeMixes`.

## 6. Plan

1. The store's writes composed with `ParseResult`, so that its whole-field writes meet
   checked writes of the row.
2. What is left of a cleaning after a crash: which objects stay behind, as an
   invariant and a theorem.
3. The folder operations of the material library, beside uploads and cleanings.
