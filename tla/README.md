# Groovarr in TLA+

Groovarr turns Spotify playlists into a local library of music videos. It is one
Python process: a FastAPI application with three background tasks on one asyncio
event loop, one SQLite file (WAL, 30 s busy timeout) and one media folder that
Jellyfin and Plex read. This directory models the parts of it that decide what
is downloaded, kept and deleted, checks them with TLC and proves part of it with
TLAPS. Paths below are under `src/backend/app/` unless they start with `docs/`.

- [1. The system](#1-the-system): components, state, interactions, hard parts
- [2. Modules](#2-modules): what models what, and how the models read
- [3. The models](#3-the-models): state, actions and properties of each
- [4. Runs](#4-runs), bounds and fairness
- [5. What the source says and the code does not do](#5-what-the-source-says-and-the-code-does-not-do)
- [6. Proofs](#6-proofs)
- [7. Not modelled](#7-not-modelled), and [8. what would come next](#8-what-would-come-next)

Everything is run from this directory:

    tlc -workers 2 -config QueueHandlers.cfg MCDownloadQueue.tla
    tlapm DownloadQueueProofs.tla

## 1. The system

### Components

| component | state it keeps | operations |
|---|---|---|
| Download queue: `jobs/download_queue.py` | poller task, set of worker tasks (memory) | `start`, `stop`, `_run`, `_tick`, `_run_one` |
| Acquisition: `services/acquisition.py` | `MediaAsset.state`, `local_path`, `retry_requested_at`; `DownloadAttempt` rows; files | `claim_next_ready_asset`, `process_media_asset`, `run_pipeline_core`, `_import_asset`, `reconcile_interrupted_assets` |
| Queue API: `api/queue.py` | none | enqueue, retry, cancel, list |
| References and deletion: `domain/reference_counting.py`, `services/deletion.py` | `PlaylistMediaReference` rows; files | `ensure_reference`, `sync_references_for_track`, `is_eligible_for_deletion`, `delete_media_asset_if_eligible` |
| Spotify account: `api/spotify_oauth.py`, `services/settings_service.py`, `integrations/spotify/` | the `spotify_*` columns of `AppSettings`; `_pending` (memory) | authorize, callback, refresh, mark for re-authorization, disable |
| Spotify sync: `services/spotify_sync.py`, `jobs/spotify_scheduler.py`, `api/playlists.py` | `SpotifyPlaylist` (`snapshot_id`, `finalized_at`, `next_sync_at`), `PlaylistEntry`, `Track` | connect, sync, disconnect, `_reconcile_references`, scheduler tick |
| Replacement: `services/replacement.py` | `MediaAsset.pending_reference_swap`, references | `replace_track_media`, `reconcile_orphaned_replacement_attempts` |
| Search: `services/search.py`, `api/search.py` | `MediaAsset` (search states), `VideoCandidate` | `run_search_for_track`, `run_search_for_all_wanted`, `select_candidate` |
| Matching: `matching/scoring.py` | none | `hard_filter`, `score_candidate`, `classify` |
| Upgrade monitor: `jobs/upgrade_monitor.py` | background task | tick: search again, replace when better |
| External playlists: `services/external_playlists.py`, `api/media_servers.py` | `ExternalPlaylist`; playlists on Jellyfin and Plex | `sync_external_playlist`, `resolve_playlist_collision`, `sync_media_servers_for_asset` |
| Library scan and organize: `services/library_scan.py`, `services/organize.py` | `MediaAsset` for files found | `scan_library`, rename preview and apply |
| Settings and quota: `services/settings_service.py` | the `AppSettings` row | updates, `record_youtube_search_call` |
| Lyrics: `services/lyrics.py`, `integrations/lyrics/` | `Lyrics` rows, `.lrc` sidecars | `get_or_fetch_lyrics`, LRCLIB's exact and fuzzy lookup |
| Muxing: `integrations/acquisition/ffmpeg_mux.py`, `hwaccel.py` | the detected hardware (memory) | `mux_media`, `detect_hardware_acceleration` |
| Naming, text, tags, notifications, history | names, tags, subscriptions, an append-only log | helpers called by the above |
| yt-dlp, ffmpeg, ffprobe, Spotify, YouTube, Jellyfin, Plex adapters | none | subprocess and HTTP calls |
| Frontend | none the server relies on | a client of the API |

`PROJECT.json` lists them with the files of each and what is modelled of them.

### How they interact

- The database is the only meeting point. Search leaves an asset
  CANDIDATE_SELECTED; the poller claims it; a worker takes it through
  DOWNLOADING, PROCESSING and IMPORTING to AVAILABLE or INCOMPLETE, or back to
  QUEUED, or to DOWNLOAD_FAILED. Nobody signals anybody.
- Sync, search, replacement and scan add references; sync and replacement take
  them away and then call the deletion, which removes file and row.
- The upgrade monitor calls search and then replacement; replacement calls the
  acquisition pipeline on an asset of its own.
- Imports, replacements, deletions, the scan and organize share the media folder;
  nothing but the rows' `local_path` says whose a file is.
- Syncs of both kinds share the settings row, with the account's refresh token.
- After an import, media servers are refreshed, best effort.

### What is hard

- *Interleaving.* Handlers, the scheduler, the poller and every worker have a
  session of their own. `expire_on_commit=False` keeps what a session has read
  as it was, a commit is `UPDATE ... WHERE id` and compares nothing, and every
  await lets others in. So decisions are taken on state that has moved on.
- *Crashes.* A file move and the commit that records it, entries and references,
  file and row are changed one after the other. Recovery runs once per start, in
  the poller's task.
- *The write lock.* A session holds SQLite's write lock from its first flush to its
  commit, in places across HTTP calls and downloads; others fail after 30 s.
- *Servers that lose calls.* A playlist is deleted and created anew by separate calls.
- *Partial failure.* Exceptions are caught per task or per phase, after some
  commits have been made.
- *Counting.* Slots, attempts in a cycle, references.

What makes each component correct: an asset has one worker at a time, is never
stranded, uses up its budget of attempts honestly and ends imported or failed
(queue); a file that a playlist uses stays, one that no playlist uses goes, a
reference leads to a file of its track (references, deletion, replacement); a sync
is skipped only when nothing changed, a disconnected playlist stays so, a due one
is served (sync, scheduler); the flag that asks for a new authorization is about
the stored token (account); a file or a person's choice is not undone by a search,
and what is downloaded is what was chosen (search, monitor); rows, videos and
sidecars stay together (library); the server's playlist exists once and has the
entries in order, and nobody else's is touched (external playlists); no sum of
weak signals outweighs a strong one, and optional means cannot fail what
necessary ones can do (rules). `PROJECT.json` lists the hazards behind these at
the line where each bites, and the properties about each.

## 2. Modules

| module | what it is |
|---|---|
| `DownloadQueue` | the queue, the pipeline's commits and the queue API |
| `AssetLifecycle` | what the queue owes one asset, with no workers, rows or crashes; `DownloadQueue` implements it |
| `MediaReferences` | what a sync, a search, a replacement and a deletion do to references |
| `SpotifyConnection` | which playlists are connected and synced, when, and with whose token |
| `SearchSelection` | how a track gets its video: search, selection, replacement, monitor, against the queue |
| `ExternalPlaylists` | one playlist on Jellyfin or Plex, call by call |
| `MediaLibrary` | files, sidecars and rows: import, replacement, deletion, organize, scan |
| `AcquisitionRules` | the pure decisions: scoring, matching of files, muxing, lyrics |
| `MC...` of each (not `AssetLifecycle`) | instances for TLC |
| `...Proofs` of each (not `AssetLifecycle`) | theorems about the module they are named after; `DownloadQueueProofs` has the refinement too |
| `SearchChoicesProofs` | extends `SearchSelectionProofs`: what becomes of a choice |

The modules share tables and overlap on purpose: each keeps of a neighbour what
its own properties can tell apart. A worker is a full state machine in
`DownloadQueue`, three steps in `SearchSelection`; a candidate's score is a choice
there and a number in `AcquisitionRules`; a file is a bit in
`MediaReferences` and a name in `MediaLibrary`.

*A step* is the code between two awaits at which another task can act: a SELECT
reads what is committed, a commit is atomic. Tasks have a program counter and the
local variables that survive an await (what a session read, which the code does
not read again). Where a session flushes and awaits something other than the
database before its commit, the model has a `lock` (`writer` in
`ExternalPlaylists`) that others find taken; elsewhere flush and commit are one step.

*`Merged`* (`SetState` in `DownloadQueue`) is where SQLAlchemy matters: a session
emits an UPDATE of the columns that differ from what it loaded, and of no others.

*Ids* of deleted rows are handed out again when they were the highest, as SQLite's
INTEGER PRIMARY KEY does without AUTOINCREMENT.

*History variables* are written and never read by an action, except where they
bound it. They mark what a property is silent about: `stale` (queue),
`unreconciled` and `aliased` (references), `crossed` and `stranded` (search), `torn` and `mixed`
(library), `late` (connection). Each holds exactly the rows or names on which a
session wrote over a change it had not read, or was stopped between two writes
(`aliased`: that an id was given again which a task or a reference still held):
the code has no protection there, which section 5 states as promises that do not
hold, and the properties say that nothing *else* goes wrong.

Definitions with a comment that starts with MUTANT are not part of any
specification. Each is a plausible mistake in the definition after it; put in
its place, it makes the property named for it in `PROJECT.json` fail, which
shows that the property depends on the code being as it is.

## 3. The models

### DownloadQueue

| code | model |
|---|---|
| `MediaAsset.state`, `local_path`, `retry_requested_at` | `state`, `path` (the task whose file it names), `retries` (number of the cycle) |
| `DownloadAttempt` | `row`, by the worker task that inserts it: status, asset, number, cycle, `next_retry_at` as none, waiting, due |
| `AppSettings.max_concurrent_downloads` | `limit` |
| media folder | `disk` |
| `DownloadQueue._run` / `_tick` | `poller`: `pc`, `pick` (claimed asset), `slots` (iterations left of the tick's loop) |
| `_run_one`, `process_media_asset`, `run_pipeline_core`, `_import_asset` | `task`, one per worker, with what its session read |
| handlers between their read and their commit | `request` |

The poller's actions are `Start`, `ReconcileInterruptedAssets`, `TickStart`,
`ClaimRead`, `ClaimNone`, `ClaimCommit`, `Spawn`; a worker's are `Load`,
`BeginAttempt`, `Downloaded`, `Processed`, `MoveIntoLibrary`, `ImportAsset`,
`Finish`, `Fail`; a handler's are `HandlerRead` and `HandlerCommit`. Failures are
`Fail` (an AcquisitionError), `WorkerCrashed` (any other exception),
`ReconcileFails`, `ClaimFails` and `Crash` (a kill, or `stop()`, at any step).

`SetState` is where SQLAlchemy matters: a session emits an UPDATE only if its own
copy of the attribute changes, so a worker that believes the state is IMPORTING
already does not write it again.

Abstractions. yt-dlp, ffmpeg, ffprobe, lyrics and tagging succeed or raise.
Non-retryable errors arise only before or in the download, as in the code.
Backoff times are abstract: `next_retry_at` is waiting until `BackoffElapses`.
`max_download_attempts` is a constant. The two reads at the start of
`process_media_asset` are one step, and recovery's loop over the interrupted
assets, which makes one commit, is another. A request whose check fails changes nothing and is left out.
Assets and tasks are positive numbers, since the code orders by id.

*Properties.* `TypeOK`; `WorkerBound`; `OneWorkerPerAsset`; `NothingIsLost` (an in-flight
asset has a worker, or the poller about to start one, and what a dead worker left is
found by the next recovery); `AttemptBudget`; `LibraryMatchesDisk` (state,
`local_path` and file agree, and a file is its asset's); `BackoffRespected` and
`SettledStaysSettled` (action properties); `EventuallySettled` (liveness);
`ImplementsLifecycle` (refinement).

A handler can commit on an asset that was claimed after it read it. The asset is
then in `stale`, and the safety properties are about the others. That this
happens at all is the first entry of section 5.

### MediaReferences

| code | model |
|---|---|
| a playlist on Spotify and its `snapshot_id` | `remote`, `version` |
| `PlaylistEntry`, `SpotifyPlaylist.snapshot_id`, `finalized_at` | `entries`, `saved`, `final` |
| `MediaAsset` | `asset`: `live` (the row exists), `track`, `file` (`local_path` set), `pending` (`pending_reference_swap`) |
| `PlaylistMediaReference` | `refs` |
| media folder | `disk` |
| a handler, the scheduler, the recovery at start | `proc`, a task that runs one operation after the other |

| operation | actions |
|---|---|
| `sync_playlist` | `SyncStart`, `SyncMeta`, `SyncItems`, `ReadOldEntries`, `ReplaceEntries` |
| `_reconcile_references` | `ListStaleRefs`, `DropRef`, `TrackDropped`, `LookUpAssets`, `EnsureReferences` |
| `_get_or_create_media_asset`, `sync_references_for_track` | `LinkRead`, `LinkCommit` |
| `replace_track_media` | `ReplaceStart`, `ReplaceCreate`, `ReplaceImport`, `ReplaceFails`, `SwapRead`, `Swap`, `ReplaceBreaks` |
| `delete_media_asset_if_eligible` | `CheckEligible`, `Unlink`, `DeleteRow` |
| `reconcile_orphaned_replacement_attempts` | `Crash`, `RecoverNext`, `Recovered` |
| `disconnect_playlist` | `Disconnect` |
| the queue's import, an edit on Spotify | `Import`, `Edit` |

`StepRaises` ends a task at any step (a locked database, an HTTP error, a refused
path); what it committed stays. `ReplaceBreaks` is the swap's commit failing
because a row it updates is gone or two references would be equal. Foreign keys
are not enforced by SQLite here (no `PRAGMA foreign_keys`), so none are in the
model, and a deleted last id is handed out again, so `NewId` does that too.

Abstractions. Entries are sets of tracks: order and duplicates matter to external
playlists, not to references. The loop of `LookUpAssets` is one read. The
replacement's pipeline is one step between its commits; its detail is
`DownloadQueue`'s, whose worker runs the same function. The search's decision is
`SearchSelection`'s, tokens and the scheduler are `SpotifyConnection`'s. A lock timeout appears only as
`StepRaises`.

*Properties.* `ServedStaysServed`: a playlist that lists a track and has a file of it
keeps having one as long as it lists it. `WantedIsKept`: an asset is deleted only if
every playlist that lists its track has another. `ReferencesMatchTracks` (a
reference leads to an existing asset of its track), `ListedIsReferenced` (whichever
of search and sync came first), `SnapshotSkipsNoChange` (a stored `snapshot_id` that
is current belongs to current entries), `SwapKeepsServing` (whatever syncs and
searches did during the download, the swap's commit takes no file from a playlist,
unless an id that somebody held has been given again: the row the swap then
updates is another one, and nothing in the code notices). It is a property of one
replacement at a time; section 5 says what two can do.

`WantedIsKept` and `ListedIsReferenced` leave out playlists in `unreconciled`,
whose entries have been committed and whose references have not been brought in
line: they are in this state during a sync, or until the next one after a failure.

### SpotifyConnection

| code | model |
|---|---|
| `spotify_user_oauth_enabled`, `_refresh_token`, `spotify_needs_reauth` | `settings` |
| `SpotifyPlaylist`: absent, connected, finalized; `last_synced_at`; `next_sync_at` null or past | `rows`, `synced`, `due` |
| the sessions that sync: requests and the scheduler | `task`: where it waits, the playlist, whether its row is a new, uncommitted one, and what it loaded of the settings |
| the scheduler's list of one tick | `tick` |
| SQLite's write lock | `lock` |
| `_pending`, and the callbacks between exchange and store | `pending`, `flow` |
| the refresh tokens Spotify honours | `valid` |

`Connect`, `Insert`, `SyncNow`, `Disconnect` are the requests; `TickStart`,
`TickNext`, `BecomeDue` the scheduler; `Metadata`, `Unchanged`, `Denied`,
`Refreshed`, `Refused`, `Items`, `Commit`, `Failed`, `LockedOut` what a sync's next
answer makes of it; `Enable`, `Disable`, `Authorize`, `Callback`, `Exchanged`,
`NotExchanged`, `Revoke` the account. `Refused` is where two things meet that the
code keeps apart: `mark_spotify_needs_reauth` commits, and with the flag
the row of a playlist whose connect request is about to fail.

Abstractions: a state expires by being evicted, which the code does when the next
one is issued. A token that Spotify rotates is `Revoke` (the code does not look at
a new one in the answer). Another client id is not modelled.

*Properties.* `TypeOK` (with: the write lock is held by exactly the session that
has flushed); `ReauthNamesTheToken`; `FirstSyncIsOwed`; `StateIsUsedOnce`;
`FinalStaysFinal`; `DueIsServed` (liveness).

### SearchSelection

| code | model |
|---|---|
| `MediaAsset`: state, `manual_selection`, `video_candidate_id`, `source_reference`, `candidate_is_visualizer_only`, `local_path`, `pending_reference_swap` | `asset` |
| `VideoCandidate` | `cands` |
| a request, the bulk search, the monitor's tick | `proc` |
| `_run_one` | `worker` |

| operation | actions |
|---|---|
| `run_search_for_track` (run one, search again, bulk, monitor) | `Begin`, `OpenRefused`, `Open`, `Discover`, `DiscoverFails`, `Wipe`, `NothingFound`, `Found` |
| `run_search_for_all_wanted` | `BulkList`, `BulkNext` |
| `select_candidate` | `SelectBegin`, `SelectRefused`, `SelectCommit` |
| `UpgradeMonitorScheduler` | `MonitorTick`, `MonitorNext`, `Compare` |
| `replace_track_media` | `ReplaceBegin`, `Create`, `Fetched`, `ImportNew`, `ReplaceFails`, `Swap`, `Cleanup` |
| the queue | `Claim`, `Load`, `Import`, `Fail` |

`Breaks` is "database is locked" and SQLAlchemy's StaleDataError on a row that has
gone, for a step that writes. With an API key a search commits in its middle
(`record_youtube_search_call`), which gives the lock back and publishes
SEARCHING; without one it holds the lock over the whole discovery, and what it
then commits has two parts: the columns it flushed at the beginning and those it
decided on at the end (`Merged`, `Changed`).
DOWNLOADING stands for PROCESSING and IMPORTING; references are left to
`MediaReferences`, so a replaced asset always goes.

*Properties.* `ChoiceIsTraceable` (what a worker picks up is a stored candidate of this
track and its source, and the file is of the source), `SearchingIsSearched`,
`ServedIsUntouched`, `StaysServed` (without any exemption) and `ChoiceIsKept`: a row
that a selection or a finished replacement has left as a human's choice (`Preferred`)
stays in the table, its track's, of its video and marked as chosen, until a human
selects, replaces or asks for the search again. Two exceptions are the code's: the
monitor looks again at what is only a visualizer, whoever chose it, and a replacement
of the monitor's that had read such a row goes through with whatever stands at its
swap. What the monitor then retires of a choice made *during* its search is a promise
the code does not keep (`HumanChoiceIsSpared`, run `search_monitor`).

### ExternalPlaylists

| code | model |
|---|---|
| `ExternalPlaylist` | `row` (`snap` is the list whose digest the code stores) |
| `jellyfin_sync_status`, `plex_sync_status` of an asset | `status` |
| the server's playlists, and the files it has found | `server`, `indexed` |
| `sync_external_playlist`, `sync_media_servers_for_asset` | `proc`, by the HTTP call it waits for |
| the write lock of an INSERT that is not committed | `writer` |

`Begin`, `Resolve`, `ListNames`, `Rename`, `Delete`, `Create`, `Count`, `Save` follow
`sync_external_playlist`; `AssetSync`, `Refresh`, `PollIdle`, `PollRunning`,
`FindItem` the asset's part. A call ends in success, `CallNotFound` (404),
`CallFails` (an error the code knows: FAILED is committed) or `CallRaises` (a status
that becomes HTTPStatusError, which no clause of the sync catches: the session rolls
back); in the last two the server may have done it (`LostAnswer`). `Adopt` and
`Cancel` are `resolve_playlist_collision`; `UserCreates`, `UserDeletes`, `Rescan`,
`Edit` the world around. A sync is asked for in two ways. `SpotifySync` is
`sync_playlist` with a new `snapshot_id`: it commits what Spotify lists and goes on
with the servers. `SyncRequest` is the operator's POST, or the sync of a playlist that
has no snapshot (Liked Songs), which runs at every interval. With the stored
`snapshot_id` a scheduled sync returns before it comes to the servers, so nothing
follows an `Edit` (the operator's override) or a `Rescan`. Plex drops repeated items, Jellyfin keeps them. A Jellyfin
that mounts the media folder elsewhere finds none of the list's items
(`Findable`): `_resolve_ordered_items` looks up the unmapped path there, though
`_sync_jellyfin_for_asset` maps it.

*Properties.* `ForeignNeedsConsent`; `ServerIsKnown` (`OrphansAreFaults`: no more lost
playlists than failures; `SyncedIsServed`: without failures, what a SYNCED row says
is what is there); `Mirrors` (liveness), of two parts: as long as no call fails, every sync that begins
ends with the list on the server, unless the list or the name is changed again
meanwhile (`AskedIsMirrored`); where there is a sync at every interval, so is what
no sync follows (`LikedIsMirrored`).

### MediaLibrary

| code | model |
|---|---|
| videos in the media folder, `.lrc` sidecars | `files` (whose row imported each), `lrc` (the track each is of) |
| `MediaAsset`: state, `local_path`, `pending_reference_swap`; `Lyrics.kind` | `asset`, `lyrics` |
| workers, replacements, deletions, organize and scan requests | `proc` |

| operation | actions |
|---|---|
| claim or replacement, and the pipeline's file side | `Claim`, `ReplaceBegin`, `Mux`, `ReadLyrics`, `StoreLyrics`, `LyricsPoison`, `Import`, `ImportCommit`, `Fail`, `ReplaceFails`, `Swap` |
| `delete_media_asset_if_eligible` | `DeleteBegin`, `Unlink`, `Drop` |
| `organize_media_asset` | `OrganizeBegin`, `OrganizeRefused`, `Move`, `OrganizeCommit` |
| `scan_library` | `ScanBegin`, `Walk`, `ScanCommit` |

A name is what `render_filename` makes of the track, the number of
`disambiguate_filename` and the container; two tracks may render alike. A sidecar is
named by the stem, which "x.mp4" and "x.mkv" share. `Walk` lets the match be any
track or none; what it may be is in `AcquisitionRules`.

*Properties.* `FolderMatchesRows`, of four parts (a row has its file, no two rows
share one, a sidecar lies beside a video, and is of the video's track);
`VideosAreKept`. Whose sidecar it is goes unsaid at the stems two videos have shared
(`mixed`) and at those on which another operation has acted or which a rename has
in hand (`Tainted`): what moves there with a video may be another's.

### AcquisitionRules

One state asks one question and holds the answer; there is no other behaviour. A
candidate is what the regular expressions find in its title, a host is which encoders
are detected and which work, LRCLIB is how it answers.

- `Score` has the weights of `matching/scoring.py`. A requested version has one of the
  keywords, or none of them ("other": "Original Mix", "Session Version", "Anniversary
  Edition"), and then a candidate with a keyword gives no version signal at all
  (`VersionDelta`).
- Names are sequences of characters. `Marks` are the ones somebody looks at: the space,
  the characters no filename may have (one stands for all), the dash and the brackets.
  `Sanitized` deletes and cuts (`MaxLength`), `Stem` is `render_filename` with the year,
  the quality and the number of `disambiguate_filename`, `Parsed` is
  `_parse_filename_stem`, `Normalized` is `normalize_for_comparison`. `Files` are somebody
  else's and those the program itself made, untagged (`OwnName`) or with the tags of
  `write_mp4_tags` (`OwnTags`).
- `BestMatch` takes the first of the best, as the loop of `library_scan.py` does.
- `MuxMedia` tries containers and encoders in the order of `ffmpeg_mux.py` (`Rank`: that
  an encoder is tried only after those before it failed is that the first one that
  works is used).
- `Fetch` is `LRCLIBBackend.fetch` with its retries.

*Properties*: `ScoresRankRightly` (the requested version outranks everything official,
and no stranger is selected by itself), `ScanAdoptsRightly` (`ConfidentIsExact`: without
review a file goes exactly to a track of its names; `OwnFilesAreFound`: a file the
program made is found again, by its tags unless somebody is featured, by its name where
the name survived being written and read, and `plain` says where that is),
`MuxingServes`, `LyricsAreTheTracks`.

## 4. Runs

| run | instance | what it shows |
|---|---|---|
| `queue_handlers` | 1 asset, 3 tasks, 2 requests of any kind, 2 attempts, 1 crash, 1 retry | one worker per asset; bookkeeping, files, backoff and recovery survive racing requests and a crash at every point |
| `queue_workers` | 3 assets, 4 tasks, limit changing between 1 and 2, 1 crash, unexpected exceptions | the types and the worker bound through concurrent ticks, claims and workers |
| `queue_progress` | 2 assets, 1 slot, 10 tasks, 1 crash, 1 retry each, fairness | every ready asset ends imported or failed; the queue implements `AssetLifecycle` |
| `refs_sequential` | 2 playlists (one Liked Songs) sharing a track, 3 asset ids, one task doing everything, a failure at any step, 1 crash | one operation at a time, nothing wanted is lost |
| `refs_overlap` | 1 playlist, 3 asset ids, 2 edits, one task syncing and searching while another replaces, playlists disconnecting, 1 crash | the swap of a replacement that overlaps others takes nothing away |
| `connections` | 3 playlists (Liked Songs, one the app may read, one it may not), 2 requests, 2 callbacks, 2 states, 2 tokens, 1 failed answer or crash, fairness | the re-authorization flag, the first sync, disconnection, single use of states, and due playlists that are served |
| `search_choices` | 1 track, 3 asset ids, 2 candidate ids, 2 videos (one a visualizer), a task that searches, one that is the user, 1 worker, 3 requests, 1 stop | choice, file and source stay together wherever no session wrote over another; a served track stays served everywhere |
| `external_sync` | either server, 2 items, 2 lists (one with a repetition), 2 names, 2 edits, 1 playlist of the user's, 1 failure, deletion or crash, fairness | foreign playlists stay untouched, lost ones are counted, without failures a sync that begins ends with the list on the server, and where syncs come at every interval so does what no sync follows |
| `library_files` | 2 tracks of one name, 2 numbers, 2 containers, 2 asset ids, 2 operations at a time of 4, a foreign file, 1 stop | rows, videos and sidecars stay together |
| `rules` | every combination of what the rules tell apart, one marker besides the version's, 5 artists and 4 titles for each of 2 tracks | the answers mean what they must |
| `external_wedged`, `search_monitor` | small | section 5 |

### Bounds

`Tasks` bounds the workers ever started and so the attempts; the poller finds
nothing to claim when none is left. In `queue_progress` ten are enough for all
attempts of both assets in two cycles and one lost to the crash, so the bound is
never met. `queue_handlers` has one asset because a request concerns one; three
tasks are one more than the budget, which is what an extra attempt would take.
`queue_workers` has three assets because with two no more than two workers could
run whatever the code did.

In `MediaReferences`, three ids are an old asset, its replacement and one created
or reused meanwhile. One track suffices for the deletion and the references: an
asset belongs to one track, and reconciliation treats each track by itself. Two
playlists are the least that can share an asset. `MaxEdits` is edits per playlist;
one is enough to remove or add the track, and any initial content is tried.
`refs_sequential` has one task because its properties are what the code
guarantees when operations do not overlap (section 5 says what happens when they
do). Exceptions, crashes and edits still come between any two of its steps.
`refs_overlap` has one task of each side; with two edits a track comes and goes while
a replacement of it downloads, so that the old row or the new one is deleted under it.

In `connections` the three playlists are the three ways a token is chosen. Two
requests are the least that can connect one playlist twice, two callbacks the least
that can bring one state twice, two tokens the least of which one can be refused
after the other has replaced it. States and tokens are fresh names that nothing
compares except for equality, so the model fixes the order in which they are
handed out instead of trying each order.

In `search_choices` one track is enough, since rows of different tracks do not meet
except for the lock and reused ids; three asset ids are those of
`MediaReferences`; two candidate ids make every new search reuse the old ones. Three
requests are a search, a selection and a replacement, each of which can be
overtaken by the others and by the worker.

In `external_sync` six ids are more than the server gets to hand out; one sync at a
time because two are no longer safe (section 5). `PollAttempts` is 6 in the code and
2 here: one that goes on and one that gives up.

In `library_files` two numbers and two containers make four names, of which two
tracks and a foreign file can want the same. Four operations are two that overlap,
one before them and one after.

`rules` has no bound on behaviours; `MaxMarks` limits a title to one marker besides
those its version implies, since penalties add up and none is a bonus,
`MaxFeatured` featured artists to one. `Threshold` is the default, 70. The names are
chosen for what a filename does to them: a "/" ("AC/DC" is written "ACDC"), a dash in
an artist, a bracketed group at the end of a title, a title of nothing but a "/", and
one longer than `MaxLength`, which is 5 here and 120 in the code. Two tracks are the
least of which the wrong one can be taken.

Where a run says `CHECK_DEADLOCK FALSE`, the instance can run out of something: of
ids, of requests, of playlists that are not disconnected, or of questions. The
queue's runs, `refs_sequential` and `connections` check for deadlock.

### Fairness

*Queue.* `FairSpec` gives weak fairness to the poller's steps, to each worker's steps
and to the passing of each backoff. The event loop runs every task that is ready;
`docker-compose.yml` restarts the container. The code puts no timeout on a download
or on ffmpeg: that these programs end is an assumption about them, and one that hangs
keeps its slot. Nothing is assumed of requests, settings or faults, and none of
success: a worker whose every attempt fails also settles its asset.

*Connection.* Weak fairness of each session's next answer (httpx has a timeout, the
busy timeout ends a wait for the lock) and of the scheduler's loop. Nobody has to
connect, authorize or disconnect anything, and an answer may be a refusal.

*External playlists.* `FairSpec` is weak fairness of each task's next call and nothing
else: nobody has to ask for a sync, no edit is followed by one. What it gives is
`AskedIsMirrored`, about syncs that have begun. `LikedIsMirrored` has what it needs besides as
a premise, `SyncedAtIntervals`: strong fairness of `SyncRequest`. The scheduler gives
that to Liked Songs and to no other playlist: they have no `snapshot_id`, so nothing is
skipped, and every interval brings the whole sync. Strong, because the one task of the
model can be busy again and again with an asset's sync, for which the real scheduler
does not wait. Without the premise it is false (section 5). `LikedSpec` is both, for
`external_wedged`.

## 5. What the source says and the code does not do

Two runs end in a violation. `PROJECT.json` has the quotation and the line.

| run | what happens |
|---|---|
| `external_wedged` | One failed call between delete and create leaves the id of the deleted playlist in the row; every later sync begins with a rename or delete of it, gets 404 and commits FAILED. No operation clears the id, so the playlist is never written again, although "recreation trivially handles" every change. |
| `search_monitor` | The monitor is searching for a row nobody chose. A user replaces the video; his row is swapped in. The monitor's replacement, which follows, reads the track's serving row and never its `manual_selection` (`replacement.py:81`), and retires the user's: "a human's explicit choice is never silently touched by monitoring". |

The modules also state promises of the source that the code does not keep and for
which no run is kept: each is a definition at the end of its module, and a `.cfg` of the
same instance with the definition as its only property has a short
counterexample.

| definition | said by | what happens |
|---|---|---|
| `DownloadQueue!NeverClaimedTwice` | `claim_next_ready_asset`: "can never claim it twice" | enqueue reads CANDIDATE_SELECTED, the poller claims, enqueue commits QUEUED: the next poll starts a second worker |
| `DownloadQueue!EveryAttemptConcludes` | `process_media_asset`: "Always leaves the asset in a terminal-for-this-attempt state" | an OSError, or a failed commit, ends the worker (`Uncaught = TRUE`); asset and attempt stay as they are until a restart |
| `DownloadQueue!CrashSafeImport` | `docs/architecture.md`: the import is crash-safe | a crash between the move and the commit leaves a file no asset has; the retry imports it under another name |
| `MediaReferences!FinalIsFrozen` | `disconnect_playlist` "stops future Spotify-driven changes" | a playlist disconnected while its sync waits for Spotify gets its entries replaced |
| `MediaReferences!DroppedIsReleased` | `_reconcile_references`: a removed track "must have its reference to this playlist removed" | a crash after the entries' commit: the next sync compares with the new entries, and the reference stays |
| `MediaReferences!SnapshotSkipsNoChange`, two syncs (`SyncAgainstSync`) | the skip of an unchanged playlist | the slower sync overwrites newer entries but not the newer `snapshot_id` |
| `MediaReferences!DeletedIsUnreferenced`, a sync beside a replacement (`SyncAgainstReplace`) | eligibility for deletion | a reference committed between the count and the DELETE is not seen |
| `MediaReferences!SwapKeepsServing`, two replacements beside a sync (a third task, a fourth id) | `replacement.py:15`: "the one, safe path" | two begin to replace one row; the second swaps, and a sync that had looked the old row up references it again. The next replacement takes the first one's pending row for the track's old one and deletes its file; the first then swaps the sync's reference to that row |
| `SpotifyConnection!DisabledHoldsNoToken` | `settings_service.py:93-95`: no credential lingers | a callback under way when the account is disabled stores its token |
| `SpotifyConnection!ConnectedIsSynced` | `connect_playlist` "performs its initial sync" | a refused token leaves a connected playlist without a sync, and its request an error |
| `SearchSelection!HumanChoiceStands` | `search.py:5`: "must never silently replace" | a selection committed while a search is out is overwritten by what the search found |
| `ExternalPlaylists!ForeignNeedsConsent`, two tasks | `resolve_playlist_collision` | one sync stores the id of a foreign playlist for the operator to decide on; another, begun before, deletes it |
| `MediaLibrary!LyricsNeverFail` | `acquisition.py:334`: "Never allowed to fail or block the import" | two pipelines of a track insert its `Lyrics` row; the second's session fails at the next commit |
| `AcquisitionRules!OtherArtistIsReviewed` | `tests/unit/test_scoring.py:97`: "test_same_title_different_artist_is_not_automatic" | title, official phrase, VEVO channel and length add up to 83 points where 70 suffice, with nothing of the artist in title or channel |
| `AcquisitionRules!AdoptedByOneTrack` | `library_scan.py:8`: reused when it "scores confidently against exactly one Track" | of two tracks with one artist and title (a song and its remix) the first takes the file, and nobody is asked |
| `AcquisitionRules!RemixIsNotUpgraded` | `scoring.py:210`: "never upgrade a requested remix into the original" | artist, title, official phrase and channel outweigh the penalty for the missing version |
| `AcquisitionRules!OwnNamesSplitCleanly` | `_parse_filename_stem`: a name of the program's own "still splits cleanly" | "AC/DC" is written "ACDC", which is another name once normalised; an artist with a dash is split at it; of year, quality and number two groups come off; a cut name stays cut. Such a file, untagged, goes to review or to nobody |
| `AcquisitionRules!NoSignalIsLeftAlone` | `library_scan.py:11`: "left alone entirely" | a track whose artist or title normalises to nothing is contained in every name |

Smaller ones, met while modelling and stated here only:

- `spotify_oauth.py:31-33` says an unused state expires; `callback` does not look at
  its age, and it is accepted until the next authorize evicts it.
- `spotify_needs_reauth` is not cleared by a refresh that succeeds; a mark that was
  set about an earlier token (`late`) stays until the next authorization.
- A refresh token that Spotify rotates is not stored.
- A connect request holds the write lock from its flush to the end of its first
  sync; other writers can run into the busy timeout meanwhile.
- `_resolve_ordered_items` looks Jellyfin's items up by Groovarr's own path, where
  the asset's sync maps it; with a remapped folder a Jellyfin playlist stays empty.
- HTTPStatusError (a 4xx other than the known ones) escapes `sync_external_playlist`,
  whose callers expect none, and a playlist created before it is lost.
- When Plex's item count fails, the row has the new id with the old snapshot.
- Two containers of one name share their sidecar: the replacement of an `.mp4` by an
  `.mkv` writes the sidecar and then deletes it with the old file (`mixed`).
- Organizing, or a replacement's clean-up, acts on the path its session read; another
  asset's file may be there by then (`torn`). A deletion leaves
  `Lyrics.sidecar_path` as it was.
- A stop between `organize`'s move and its commit leaves a row that leads nowhere.
- "unofficial video" contains the official phrase; "cover" and "radio" are forgiven
  for categories that the keyword expression cannot yield.
- `write_mp4_tags` adds who is featured to the artist (`format_artist_tag`), which the
  scan compares with the track's artist alone: such a file goes to review.
- For a requested "Original Mix" a remix (no version signal) outscores the plain
  original (-50).
- An override of the operator's, or a file the server finds late, reaches a playlist
  whose `snapshot_id` stays the same only when somebody asks for a sync: the scheduler
  skips it (`spotify_sync.py:187-190`) and never forces.
- A Retry-After that is a date raises out of LRCLIB's client; that lookup then counts
  as "no lyrics" for seven days.
- Hardware detection picks a render node, VAAPI's command line always names
  `renderD128`.
- An import during a deletion leaves a file without a row, a crash between unlink and
  the row's commit a row without a file, a crash after the import's commit an
  attempt RUNNING for good.

## 6. Proofs

TLAPS proves the following for every value of the constants that satisfies the
module's assumption (finite sets where something is counted, positive ids where the
code orders by id, natural bounds). Each invariant's proof has a step or a lemma per
action and is cited by name from the temporal step. Every inductive invariant was
first an invariant of a TLC run.

| module | theorem | states | hypothesis |
|---|---|---|---|
| `DownloadQueueProofs` | `TypeCorrect`, `OneWorker`, `SettledIsFinal`, `WorkersBounded` | `TypeOK`, `OneWorkerPerAsset`, `SettledStaysSettled`, `WorkerBound` | |
| | `LibraryHolds`, `DeadAttemptsHold` | `LibraryMatchesDisk`, `DeadAttemptIsRecoverable` | |
| | `NothingLost` | `NothingIsLost` | `Uncaught = FALSE` |
| | `BackoffHolds`, `BudgetHolds` | `BackoffRespected`, `AttemptBudget` | |
| | `ImplementsTheLifecycle` | `ImplementsLifecycle` | `OneRetryAtATime` |
| `MediaReferencesProofs` | `TypesHold` | `TypeOK` | |
| | `ReferencesHold`, `ListedHolds`, `SnapshotHolds`, `ServedHolds`, `WantedHolds` | `ReferencesMatchTracks`, `ListedIsReferenced`, `SnapshotSkipsNoChange`, `ServedStaysServed`, `WantedIsKept` | `Sequential` |
| | `SwapHolds` | `SwapKeepsServing` | `OneReplacer` |
| `SpotifyConnectionProofs` | `TypesHold`, `ReauthFlagHolds`, `StateUseHolds`, `FinalHolds`, `FirstSyncHolds` | `TypeOK`, `ReauthNamesTheToken`, `StateIsUsedOnce`, `FinalStaysFinal`, `FirstSyncIsOwed` | |
| `MediaLibraryProofs` | `TypesHold`, `FolderHolds`, `VideosHold` | `TypeOK`, `FolderMatchesRows`, `VideosAreKept` | |
| `SearchSelectionProofs` | `TypeCorrect`, `TracksStayServed`, `SearchingRowsAreSearched` | `TypeOK`, `StaysServed`, `SearchingIsSearched` | |
| `SearchChoicesProofs` | `ChoicesAreTraceable`, `ChoicesAreKept`, `ServedRowsAreUntouched` | `ChoiceIsTraceable`, `ChoiceIsKept`, `ServedIsUntouched` | |
| `ExternalPlaylistsProofs` | `TypesHold` | `TypeOK` | |
| | `ForeignHolds`, `KnownHolds` | `ForeignNeedsConsent`, `ServerIsKnown` | `OneTask` |
| `AcquisitionRulesProofs` | `AdoptionIsExact`, `MuxingHolds`, `LyricsHold` | `ConfidentIsExact` of `ScanAdoptsRightly`, `MuxingServes`, `LyricsAreTheTracks` | |
| | `ScoresRank` | `ScoresRankRightly` | `Threshold > 68` |

Every invariant and every action property of the passing runs is among these, but for
`OwnFilesAreFound`, the other part of `ScanAdoptsRightly`.

Six hypotheses say what the theorems are about.

- `Uncaught = FALSE`: exceptions other than AcquisitionError do not happen. With them a
  worker dies with its asset in flight, which `EveryAttemptConcludes` is about
  (section 5), so it cannot be dropped.
- `OneRetryAtATime`: the only queue request is Retry and there is one at a time.
  Enqueue and cancel are no steps of the lifecycle, and of two Retry requests that have
  read the same failed asset the second can commit after the asset was claimed again.
- `Sequential`: one task of `MediaReferences` at a time. Exceptions, crashes, edits and
  imports still come between any two of its steps. Section 5 has two syncs, and a
  sync beside a replacement, that break what is proved here.
- `OneReplacer`: any number of tasks, of which one replaces. As in `refs_overlap`.
  With two the property is false (section 5): the old row does not stay the first of
  its track, which the argument below needs and another replacement's swap ends.
- `OneTask`: one sync of a playlist's row at a time, as in `external_sync`. With two,
  `ForeignNeedsConsent` is false (section 5). Edits, rescans, the server's user, the
  operator's answers, faults and stops come between any two calls.
- `Threshold > 68`: 70 is the default. A candidate with neither artist nor title can
  reach 68 points (official phrase, VEVO channel, close length and a featured artist),
  so for a lower setting `PickIsRelated` is false. The comparison of two
  versions (`RequestedVersionWins`) needs no such bound.

### The arguments

*Queue.* Types alone are not inductive: the poller and a request write the row of the
asset they hold, so `WellTyped` adds that they hold one. `Ownership` says that an
asset that is not `stale` is in flight when a worker has it (imported when that worker
is about to finish) and claimable when the poller has read it, so a claim can only take
an asset that nobody has; no worker lives before recovery, the one action that makes
in-flight assets claimable; and a worker's session has the state it is about to
compare with. `SlotsAreFree` counts the slots a tick may still fill as filled.

`Books` adds the rows: each names the task that inserted it, a RUNNING one is of the
worker that owns the asset or of a dead one whose asset the next recovery requeues,
and a file in the folder is its asset's or of a worker between move and commit.
`SomebodyHasIt` gives every flight a worker, the poller, or the recovery.

`NumbersGrow`: a claim looks only at the attempt with the highest number. That is
enough because only that one can be waiting, and because the number a worker has
computed stays above those of its asset's other rows until it inserts its own.
`Counted` compares, per cycle, the attempts that count with what the worker has
counted: as long as the asset can be claimed there are fewer than the budget, and
fewer than the number of the attempt its worker is at. `ImplementsTheLifecycle` maps
each step of each action to a step of `AssetLifecycle` or to a stutter.

*References.* `Inv` says, for each point where the task waits, what it has read that is
still true: which rows a sync found stale, that an asset whose references were counted
as none still has none at the unlink, that the new row of a replacement is
nobody's. `Listed` and `Snapshots` carry the properties through the points where the
task is not idle. `SwapInv` is the part that survives other tasks: the old asset stays
the first of its track as long as it lives, therefore every other task finds the old
one, and the new one stays private to the replacement and keeps its file.

*Connection.* `Inv` adds to `TypeOK` what a session's record holds at each point it waits
at (`Shape`); that a row whose INSERT is not committed is absent (`NewIsAbsent`), which
needs that only the lock's holder has one; that a pending state was issued and not
exchanged (`Flows`); that a refused token is never honoured again, and a session that
saw the flag set about the token it carries leaves it set (`Tokens`). `Owed` adds that
a playlist the app's own token can read never makes a session wait for the user's.

*Library.* `Folder`: a row whose file is not there is in the hand of an operation that
will drop or rename it (`RowsKnown`), two videos with one stem are remembered
(`StemsMixed`), and a sidecar is of the track of the row beside it or of what the
rename read that has the video in hand (`Owned`).

*Search.* Any number of searches, selections, replacements and monitor ticks overlap,
rows are deleted under them, and SQLite gives ids again. `Base` says what a
task remembers of the row it loaded (`Shape`) and that a served row has a file.
`Grounded` is about ids: an id is `Secure` when the track has a row with a file, of at
least that id, that is no replacement under way. Every row with a file has
such a row behind it (`Backed`), and so has every id a task still holds whose row is no
longer the track's (`Anchors`); since `max(rowid) + 1` lies above that row, no id
that a task holds on to is given to another track. `StaysServed` follows because what a
replacement deletes is `Secure` when it goes. `Attended`: a row that is SEARCHING and
whose search has not died has a task that loaded it as SEARCHING and whose commit
will therefore write the state.

*Choices.* `Chosen` joins what the three properties need of each other. A row fits
(`Fits`): its file is the video it names, what is to be downloaded names a candidate
that is stored, and a row without a file is its track's only one but for
replacements. A replacement's row is `Held`: the row it replaces is served and no
search may take its candidates away. A worker's attempt is at a DOWNLOADING row that
is as the worker read it, and nobody else's (`Attempts`). Candidates that a search
has deleted and not committed are behind the write lock and of a track that is served,
or of the row whose fate that search is about to decide (`Deletes`). Rows of a track on
which a session has written over what it had not read (`crossed`) are left out, as in
the properties.

`Minded` is what `ChoiceIsKept` needs besides. A row that is not its track's first is a
replacement's (`Seconds`), which is a human's choice and nothing the monitor lists;
so what is on the monitor's list is a first row with a file that nobody chose, or a
visualizer, and stays so until its turn (`Lists`). Its search has read such a row
(`Finds`, `Watches`), and what is a human's choice by now was one when it was read
(`Knows`): the session of a selection in between would have crossed the track. Hence
the monitor exchanges a human's choice only where it had read it as one, which is
what the property allows.

*External playlists.* `Remembers`: the row a session has loaded is the row, because the
operator can answer a collision only while it waits for the answer, and no sync begins
then; so the commit writes what the session means to (`Commits`). An id in the row is
one Groovarr made, or the operator has been or is being asked about it (`RowFacts`).
`Numbered` is why a created playlist is never one that somebody knows. `Lost` is larger
than `Orphans`: it counts what nobody knows in the midst of a sync too, the playlist
just made excepted, and only a failing call, a stop or a rolled back session lets it
grow, by one. `Faultless` carries what a SYNCED row says from one commit to the next,
past the points (`Ahead`) at which the server is ahead of the row.
The types, for any number of tasks, need that a playlist holds no more than its task
asked for as long as that task waits to count it (`Counted`): ids are handed out once
(`OwnAreOld`). What the recursive `Kept` returns (`KeptIsPart`) is shown by a smallest
counterexample (`NatMin`), the library's induction theorems being out of reach.

*Rules.* A state holds one question and its answer, so each theorem is about the step
that answers. The requested words are worth at least 115 points more than another
version where the request has a category and 90 where it has none; the official signs
that may differ are worth 43 at most, the markers that go with the keywords 20; a
stranger gets 68 at most. A part of a name scores 20, so only two exact matches reach 85
(45 + 40; the next sum is 45 + 20 + 15); that holds of whatever sequences the normalised
names are. Of the encoders left when those that fail are taken out, the first is never
behind one that works. Lyrics go record by record, the search's in the order of a
stable sort.

### Only model-checked

- All liveness (`EventuallySettled`, `DueIsServed`, `Mirrors`): fairness
  and ENABLED are outside the prover's reach.
- `OwnFilesAreFound`: what trimming, cutting and splitting make of a name of any length
  needs induction over sequences.

## 7. Not modelled

- Notifications and history: nothing reads back what they write. Of tagging,
  `OwnTags` has what the scan reads back; that it fails is nothing (its exception is
  dropped).
- Adapters and clients: command lines, parsing and HTTP itself; their outcomes are
  inputs of the models. That external programs end is assumed.
- Text: regular expressions, character sets, layout of names. The rules start from
  what the expressions find.
- Settings that are only assigned, and the quota counter, by which nothing decides.
- How long a writer waits for SQLite's lock: the models let it succeed or fail.
- Steps that are smaller in the code. `MediaLibrary!Walk` reads folder and rows at once,
  the code awaits a probe of each file between; `MediaLibrary!Move` renames the video and
  its sidecar together, the code can stop between the two renames;
  `ExternalPlaylists!Resolve` looks all items up at once, the code by a call each;
  `ExternalPlaylists!Adopt` reads and commits at once; `SearchSelection!Wipe` reads the old
  candidates when it has the lock, the code shortly before.
- Keys. `MediaReferences!DropRef` and `Swap` take a reference for its playlist, track and
  asset, the code for its row's id: one that was deleted and made again meanwhile would
  be another row there.
- An interrupted replacement that the queue's recovery requeues
  (`acquisition.py:186-203`) and a worker then imports: `MediaReferences!Import` leaves
  pending rows to their replacement. `DownloadQueue` has that recovery,
  `SearchSelection` the replacement that is stopped.
- The schema's migrations, the frontend, logging, response bodies.

## 8. What would come next

An abstract specification of `SearchSelection` (the track's video as one register with
prioritised writers); a composition of `MediaReferences` and `MediaLibrary` in which
the eligibility check and the folder meet.
