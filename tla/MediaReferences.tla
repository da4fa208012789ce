-------------------------- MODULE MediaReferences --------------------------
(***************************************************************************)
(* Which playlist needs which media file, and when a file may go:          *)
(* spotify_sync.py (sync_playlist, _reconcile_references),                 *)
(* domain/reference_counting.py, deletion.py, replacement.py and the part  *)
(* of search.py that links an asset to the playlists listing its track.    *)
(*                                                                         *)
(* The tasks are handlers and the scheduler, each with a session of its    *)
(* own over one SQLite file; a step is the code between two awaits.        *)
(* Statements after a flush run under the write lock up to the commit, so  *)
(* they are one step. Downloads by the queue are the single step Import:   *)
(* module DownloadQueue has the detail.                                    *)
(***************************************************************************)
EXTENDS Naturals, FiniteSets

CONSTANTS
    Playlists,      \* connected SpotifyPlaylist rows
    LikedSongs,     \* the one without snapshot ids, if any
    Tracks,
    Assets,         \* MediaAsset ids, 1 .. n; a bound
    Procs,          \* tasks that run at once
    Startup,        \* the one that runs recovery after a start
    Kinds,          \* what each task may do: "sync", "link", "replace"
    Disconnects,    \* whether playlists get disconnected
    Uncaught,       \* whether a step may raise (locked database, HTTP error)
    MaxEdits,       \* bound on the edits of one playlist on Spotify
    MaxCrashes

None == 0

ASSUME ReferencesAssumption ==
    /\ LikedSongs \subseteq Playlists
    /\ None \notin Playlists \cup Tracks
    /\ Assets \subseteq Nat \ {None} /\ IsFiniteSet(Assets)
    /\ Startup \in Procs
    /\ Kinds \in [Procs -> SUBSET {"sync", "link", "replace"}]
    /\ Disconnects \in BOOLEAN
    /\ Uncaught \in BOOLEAN
    /\ MaxEdits \in Nat /\ MaxCrashes \in Nat

VARIABLES
    \* --- Spotify ---
    remote,         \* the tracks of each playlist
    version,        \* its snapshot_id, as a number
    \* --- the database ---
    entries,        \* PlaylistEntry: the tracks each playlist lists
    saved,          \* SpotifyPlaylist.snapshot_id
    final,          \* the playlists with finalized_at set
    asset,          \* MediaAsset by id
    refs,           \* PlaylistMediaReference
    \* --- the media folder ---
    disk,           \* the assets whose file is in it
    \* --- the process ---
    proc,
    \* --- history ---
    crashes,
    unreconciled,   \* playlists whose entries are newer than their references
    aliased         \* an id was handed out again while a task or reference held it

spotify  == <<remote, version>>
synced   == <<entries, saved>>
media    == <<asset, refs, disk>>
history  == <<crashes, unreconciled, aliased>>
vars     == <<spotify, synced, final, media, proc, history>>

-----------------------------------------------------------------------------
\* live: the row exists. file: local_path is set, which only an import does,
\* together with AVAILABLE or INCOMPLETE. pending: pending_reference_swap.
Asset == [live: BOOLEAN, track: Tracks \cup {None}, file: BOOLEAN, pending: BOOLEAN]

NoAsset == [live |-> FALSE, track |-> None, file |-> FALSE, pending |-> FALSE]

Ref == [playlist: Playlists, track: Tracks, asset: Assets]

PC == {"idle",
       "meta", "items", "old", "replace", "drop", "dropRef", "add", "ensure",
       "link",
       "create", "import", "swapRead", "swap",
       "recover",
       "check", "unlink", "delete"}

\* A task's memory. loaded: the snapshot_id its session read; items, snap:
\* Spotify's answers; old, drop: old_track_ids, removed_track_ids; stale: the
\* references (as assets) it works through; cur: the asset it is at; new: the
\* asset of a replacement; back: where delete_media_asset_if_eligible returns.
Proc == [pc: PC, playlist: Playlists \cup {None}, track: Tracks \cup {None},
         force: BOOLEAN, loaded: Nat, snap: Nat, items: SUBSET Tracks,
         old: SUBSET Tracks, drop: SUBSET Tracks, stale: SUBSET Assets,
         found: SUBSET Ref, cur: Assets \cup {None}, new: Assets \cup {None},
         back: {"idle", "dropRef", "recover"}]

Idle == [pc |-> "idle", playlist |-> None, track |-> None, force |-> FALSE,
         loaded |-> None, snap |-> None, items |-> {}, old |-> {}, drop |-> {},
         stale |-> {}, found |-> {}, cur |-> None, new |-> None, back |-> "idle"]

TypeOK ==
    /\ remote \in [Playlists -> SUBSET Tracks]
    /\ version \in [Playlists -> Nat]
    /\ entries \in [Playlists -> SUBSET Tracks]
    /\ saved \in [Playlists -> Nat]
    /\ final \subseteq Playlists
    /\ asset \in [Assets -> Asset]
    /\ refs \subseteq Ref
    /\ disk \subseteq Assets
    /\ proc \in [Procs -> Proc]
    /\ crashes \in Nat
    /\ unreconciled \subseteq Playlists
    /\ aliased \in BOOLEAN

\* Playlists have been connected and never synced; nothing is downloaded.
Init ==
    /\ remote \in [Playlists -> SUBSET Tracks]
    /\ version = [p \in Playlists |-> 1]
    /\ entries = [p \in Playlists |-> {}]
    /\ saved = [p \in Playlists |-> None]
    /\ final = {}
    /\ asset = [a \in Assets |-> NoAsset]
    /\ refs = {}
    /\ disk = {}
    /\ proc = [q \in Procs |-> Idle]
    /\ crashes = 0
    /\ unreconciled = {}
    /\ aliased = FALSE

-----------------------------------------------------------------------------
Rows == {a \in Assets : asset[a].live}

RefsTo(a) == {r \in refs : r.asset = a}

\* MUTANT: two arguments are swapped.
ReferencesSwapped(p, t, a) == [playlist |-> t, track |-> p, asset |-> a]

ReferencesNeeded(p, t, a) == [playlist |-> p, track |-> t, asset |-> a]

\* SELECT ... WHERE track_id ORDER BY id, first row; {} when there is none.
AssetOf(t) == {a \in Rows : asset[a].track = t
                  /\ \A b \in Rows : asset[b].track = t => a <= b}

\* SQLite hands out max(rowid) + 1, so the id of a deleted last row again.
NewId == {a \in Assets : (\A b \in Rows : b < a)
             /\ \A c \in Assets : (\A b \in Rows : b < c) => a <= c}

\* The ids a task has read and may still use, whatever became of their rows.
Holds(q) == {proc[q].cur, proc[q].new} \cup proc[q].stale
                \cup {r.asset : r \in proc[q].found}

\* Row a is inserted; what else a step does to the history stays with it.
HandOut(a) ==
    /\ aliased' = (aliased \/ RefsTo(a) # {} \/ \E q \in Procs : a \in Holds(q))
    /\ UNCHANGED <<crashes, unreconciled>>

At(q, pc) == proc[q].pc = pc

Goto(q, pc) == proc' = [proc EXCEPT ![q] = [@ EXCEPT !.pc = pc]]

Stop(q) == proc' = [proc EXCEPT ![q] = Idle]

-----------------------------------------------------------------------------
(* The environment *)

\* Somebody edits the playlist on Spotify.
Edit(p) ==
    /\ version[p] <= MaxEdits                          \* bound: MaxEdits
    /\ \E S \in SUBSET Tracks \ {remote[p]} : remote' = [remote EXCEPT ![p] = S]
    /\ version' = [version EXCEPT ![p] = @ + 1]
    /\ UNCHANGED <<synced, final, media, proc, history>>

\* The queue imports the file of an asset search has linked.
Import(a) ==
    /\ asset[a].live /\ ~asset[a].file /\ ~asset[a].pending
    /\ asset' = [asset EXCEPT ![a] = [@ EXCEPT !.file = TRUE]]
    /\ disk' = disk \cup {a}
    /\ UNCHANGED <<spotify, synced, final, refs, proc, history>>

\* disconnect_playlist: only sets connected and finalized_at.
Disconnect(p) ==
    /\ Disconnects
    /\ p \notin final
    /\ final' = final \cup {p}
    /\ UNCHANGED <<spotify, synced, media, proc, history>>

-----------------------------------------------------------------------------
(* sync_playlist *)

\* sync_now (force) and the scheduler's tick load the playlist and check that
\* it is not finalized.
SyncStart(q, p) ==
    /\ "sync" \in Kinds[q]
    /\ At(q, "idle")
    /\ p \notin final
    /\ \E force \in BOOLEAN :
          proc' = [proc EXCEPT ![q] = [Idle EXCEPT !.pc = "meta", !.playlist = p,
                                                   !.force = force, !.loaded = saved[p]]]
    /\ UNCHANGED <<spotify, synced, final, media, history>>

\* get_playlist; nothing more to do when the snapshot_id is the stored one.
SyncMeta(q) ==
    LET p    == proc[q].playlist
        snap == IF p \in LikedSongs THEN None ELSE version[p]
        same == ~proc[q].force /\ proc[q].loaded # None /\ proc[q].loaded = snap
    IN  /\ At(q, "meta")
        /\ proc' = [proc EXCEPT ![q] = IF same THEN Idle
                                       ELSE [@ EXCEPT !.pc = "items", !.snap = snap]]
        /\ UNCHANGED <<spotify, synced, final, media, history>>

\* get_playlist_tracks, a request of its own.
SyncItems(q) ==
    /\ At(q, "items")
    /\ proc' = [proc EXCEPT ![q] = [@ EXCEPT !.pc = "old",
                                             !.items = remote[proc[q].playlist]]]
    /\ UNCHANGED <<spotify, synced, final, media, history>>

\* old_track_ids. A changed snapshot_id is autoflushed by this SELECT, which
\* takes the write lock: then the read belongs to ReplaceEntries.
ReadOldEntries(q) ==
    /\ At(q, "old")
    /\ proc[q].snap = proc[q].loaded
    /\ proc' = [proc EXCEPT ![q] = [@ EXCEPT !.pc = "replace",
                                             !.old = entries[proc[q].playlist]]]
    /\ UNCHANGED <<spotify, synced, final, media, history>>

\* MUTANT: the snapshot_id is fetched again, after the items.
ReplaceWithLaterSnapshot(q) ==
    LET p == proc[q].playlist
    IN  /\ At(q, "old")
        /\ entries' = [entries EXCEPT ![p] = proc[q].items]
        /\ saved' = [saved EXCEPT ![p] = version[p]]
        /\ proc' = [proc EXCEPT ![q] = [Idle EXCEPT !.pc = "drop", !.playlist = p,
                                                    !.items = proc[q].items,
                                                    !.drop = entries[p] \ proc[q].items]]
        /\ unreconciled' = unreconciled \cup {p}
        /\ UNCHANGED <<spotify, final, media, crashes, aliased>>

\* DELETE and re-insert of the entries, the snapshot_id, one commit.
ReplaceEntries(q) ==
    LET p   == proc[q].playlist
        old == IF At(q, "old") THEN entries[p] ELSE proc[q].old
    IN  /\ \/ At(q, "replace")
           \/ At(q, "old") /\ proc[q].snap # proc[q].loaded
        /\ entries' = [entries EXCEPT ![p] = proc[q].items]
        /\ saved' = IF proc[q].snap # proc[q].loaded
                    THEN [saved EXCEPT ![p] = proc[q].snap] ELSE saved
        /\ proc' = [proc EXCEPT ![q] = [Idle EXCEPT !.pc = "drop", !.playlist = p,
                                                    !.items = proc[q].items,
                                                    !.drop = old \ proc[q].items]]
        /\ unreconciled' = unreconciled \cup {p}
        /\ UNCHANGED <<spotify, final, media, crashes, aliased>>

-----------------------------------------------------------------------------
(* _reconcile_references *)

\* The references of the next removed track.
ListStaleRefs(q) ==
    /\ At(q, "drop")
    /\ \E t \in proc[q].drop :
          proc' = [proc EXCEPT ![q] = [proc[q] EXCEPT
                      !.pc = "dropRef", !.track = t, !.drop = @ \ {t},
                      !.stale = {r.asset : r \in {s \in refs :
                                    s.playlist = proc[q].playlist /\ s.track = t}}]]
    /\ UNCHANGED <<spotify, synced, final, media, history>>

\* One is deleted and committed; its asset is checked next.
DropRef(q) ==
    /\ At(q, "dropRef")
    /\ \E a \in proc[q].stale :
          /\ refs' = refs \ {ReferencesNeeded(proc[q].playlist, proc[q].track, a)}
          /\ proc' = [proc EXCEPT ![q] = [proc[q] EXCEPT
                         !.pc = "check", !.cur = a, !.back = "dropRef",
                         !.stale = @ \ {a}]]
    /\ UNCHANGED <<spotify, synced, final, asset, disk, history>>

TrackDropped(q) ==
    /\ At(q, "dropRef")
    /\ proc[q].stale = {}
    /\ proc' = [proc EXCEPT ![q] = [@ EXCEPT !.pc = "drop", !.track = None,
                                             !.cur = None, !.back = "idle"]]
    /\ UNCHANGED <<spotify, synced, final, media, history>>

\* The asset of every listed track is looked up ...
LookUpAssets(q) ==
    LET p == proc[q].playlist
    IN  /\ At(q, "drop")
        /\ proc[q].drop = {}
        /\ proc' = [proc EXCEPT ![q] = [@ EXCEPT
                       !.pc = "ensure", !.items = {},
                       !.found = UNION {{ReferencesNeeded(p, t, a) : a \in AssetOf(t)} :
                                           t \in proc[q].items}]]
        /\ UNCHANGED <<spotify, synced, final, media, history>>

\* MUTANT: the references of a new entry are left to search.
EnsureNothing(q) ==
    /\ At(q, "ensure")
    /\ unreconciled' = unreconciled \ {proc[q].playlist}
    /\ Stop(q)
    /\ UNCHANGED <<spotify, synced, final, media, crashes, aliased>>

\* ... and ensure_reference adds what is missing, one commit.
EnsureReferences(q) ==
    /\ At(q, "ensure")
    /\ refs' = refs \cup proc[q].found
    /\ unreconciled' = unreconciled \ {proc[q].playlist}
    /\ Stop(q)
    /\ UNCHANGED <<spotify, synced, final, asset, disk, crashes, aliased>>

-----------------------------------------------------------------------------
(* _get_or_create_media_asset, up to the commit of its caller in search.py *)

LinkRead(q, t) ==
    /\ "link" \in Kinds[q]
    /\ At(q, "idle")
    /\ \E p \in Playlists : t \in entries[p]
    /\ \E a \in IF AssetOf(t) = {} THEN {None} ELSE AssetOf(t) :
          proc' = [proc EXCEPT ![q] = [Idle EXCEPT !.pc = "link", !.track = t,
                                                   !.cur = a]]
    /\ UNCHANGED <<spotify, synced, final, media, history>>

\* MUTANT: only one of the playlists listing the track gets its reference.
LinkOnePlaylist(q) ==
    LET t == proc[q].track
    IN  /\ At(q, "link")
        /\ \E a \in IF proc[q].cur = None THEN NewId ELSE {proc[q].cur},
              p \in {r \in Playlists : t \in entries[r]} :
              /\ refs' = refs \cup {ReferencesNeeded(p, t, a)}
              /\ asset' = [asset EXCEPT ![a] = IF proc[q].cur = None
                             THEN [NoAsset EXCEPT !.live = TRUE, !.track = t] ELSE @]
              /\ IF proc[q].cur = None THEN HandOut(a) ELSE UNCHANGED history
        /\ Stop(q)
        /\ UNCHANGED <<spotify, synced, final, disk>>

\* The row, if there was none, and sync_references_for_track.
LinkCommit(q) ==
    LET t == proc[q].track
    IN  /\ At(q, "link")
        /\ \E a \in IF proc[q].cur = None THEN NewId ELSE {proc[q].cur} :
              /\ refs' = refs \cup {ReferencesNeeded(p, t, a) :
                                       p \in {r \in Playlists : t \in entries[r]}}
              /\ asset' = IF proc[q].cur = None
                          THEN [asset EXCEPT ![a] = [NoAsset EXCEPT !.live = TRUE,
                                                                    !.track = t]]
                          ELSE asset
              /\ IF proc[q].cur = None THEN HandOut(a) ELSE UNCHANGED history
        /\ Stop(q)
        /\ UNCHANGED <<spotify, synced, final, disk>>

-----------------------------------------------------------------------------
(* replace_track_media *)

ReplaceStart(q, t) ==
    /\ "replace" \in Kinds[q]
    /\ At(q, "idle")
    /\ \E a \in AssetOf(t) :
          /\ asset[a].file
          /\ proc' = [proc EXCEPT ![q] = [Idle EXCEPT !.pc = "create", !.track = t,
                                                      !.cur = a]]
    /\ UNCHANGED <<spotify, synced, final, media, history>>

\* MUTANT: the swap does not wait for the download.
ReplaceUnimported(q) ==
    /\ At(q, "create")
    /\ \E a \in NewId :
          /\ asset' = [asset EXCEPT ![a] = [live |-> TRUE, track |-> proc[q].track,
                                            file |-> FALSE, pending |-> TRUE]]
          /\ proc' = [proc EXCEPT ![q] = [@ EXCEPT !.pc = "swapRead", !.new = a]]
          /\ HandOut(a)
    /\ UNCHANGED <<spotify, synced, final, refs, disk>>

\* The new row becomes visible with run_pipeline_core's first commit.
ReplaceCreate(q) ==
    /\ At(q, "create")
    /\ \E a \in NewId :
          /\ asset' = [asset EXCEPT ![a] = [live |-> TRUE, track |-> proc[q].track,
                                            file |-> FALSE, pending |-> TRUE]]
          /\ proc' = [proc EXCEPT ![q] = [@ EXCEPT !.pc = "import", !.new = a]]
          /\ HandOut(a)
    /\ UNCHANGED <<spotify, synced, final, refs, disk>>

\* A row that is gone makes the pipeline's UPDATE fail.
ReplaceImport(q) ==
    LET a == proc[q].new
    IN  /\ At(q, "import")
        /\ asset[a].live
        /\ asset' = [asset EXCEPT ![a] = [@ EXCEPT !.file = TRUE]]
        /\ disk' = disk \cup {a}
        /\ Goto(q, "swapRead")
        /\ UNCHANGED <<spotify, synced, final, refs, history>>

\* except AcquisitionError: the new row is dropped.
ReplaceFails(q) ==
    /\ At(q, "import")
    /\ asset' = [asset EXCEPT ![proc[q].new] = NoAsset]
    /\ Stop(q)
    /\ UNCHANGED <<spotify, synced, final, refs, disk, history>>

SwapRead(q) ==
    /\ At(q, "swapRead")
    /\ proc' = [proc EXCEPT ![q] = [@ EXCEPT !.pc = "swap", !.found = RefsTo(proc[q].cur)]]
    /\ UNCHANGED <<spotify, synced, final, media, history>>

\* MUTANT: the references stay with the old asset.
SwapKeepsReferences(q) ==
    /\ At(q, "swap")
    /\ asset[proc[q].cur].live /\ asset[proc[q].new].live
    /\ asset' = [asset EXCEPT ![proc[q].cur] = [@ EXCEPT !.track = None],
                              ![proc[q].new] = [@ EXCEPT !.pending = FALSE]]
    /\ proc' = [proc EXCEPT ![q] = [@ EXCEPT !.pc = "check", !.back = "idle"]]
    /\ UNCHANGED <<spotify, synced, final, refs, disk, history>>

\* One commit. Every UPDATE must hit its row and keep the triples unique.
Swap(q) ==
    LET old   == proc[q].cur
        new   == proc[q].new
        moved == {[r EXCEPT !.asset = new] : r \in proc[q].found}
    IN  /\ At(q, "swap")
        /\ proc[q].found \subseteq refs
        /\ moved \cap refs = {}
        /\ asset[old].live /\ asset[new].live
        /\ refs' = (refs \ proc[q].found) \cup moved
        /\ asset' = [asset EXCEPT ![old] = [@ EXCEPT !.track = None],
                                  ![new] = [@ EXCEPT !.pending = FALSE]]
        /\ proc' = [proc EXCEPT ![q] = [@ EXCEPT !.pc = "check", !.back = "idle"]]
        /\ UNCHANGED <<spotify, synced, final, disk, history>>

\* Otherwise the commit raises and the handler is over.
ReplaceBreaks(q) ==
    LET old == proc[q].cur
        new == proc[q].new
    IN  /\ \/ At(q, "import") /\ ~asset[new].live
           \/ /\ At(q, "swap")
              /\ \/ ~asset[old].live
                 \/ ~asset[new].live
                 \/ ~(proc[q].found \subseteq refs)
                 \/ {[r EXCEPT !.asset = new] : r \in proc[q].found} \cap refs # {}
        /\ Stop(q)
        /\ UNCHANGED <<spotify, synced, final, media, history>>

-----------------------------------------------------------------------------
(* delete_media_asset_if_eligible *)

Return(q) == IF proc[q].back = "idle" THEN Stop(q) ELSE Goto(q, proc[q].back)

\* MUTANT: the references are not counted.
CheckNothing(q) ==
    LET a == proc[q].cur
    IN  /\ At(q, "check")
        /\ IF asset[a].live
           THEN Goto(q, IF asset[a].file THEN "unlink" ELSE "delete")
           ELSE Return(q)
        /\ UNCHANGED <<spotify, synced, final, media, history>>

\* MUTANT: one reference is taken for the one just dropped.
CheckOffByOne(q) ==
    LET a == proc[q].cur
    IN  /\ At(q, "check")
        /\ IF asset[a].live /\ Cardinality(RefsTo(a)) <= 1
           THEN Goto(q, IF asset[a].file THEN "unlink" ELSE "delete")
           ELSE Return(q)
        /\ UNCHANGED <<spotify, synced, final, media, history>>

\* is_eligible_for_deletion: a COUNT, under no lock.
CheckEligible(q) ==
    LET a == proc[q].cur
    IN  /\ At(q, "check")
        /\ IF asset[a].live /\ RefsTo(a) = {}
           THEN Goto(q, IF asset[a].file THEN "unlink" ELSE "delete")
           ELSE Return(q)
        /\ UNCHANGED <<spotify, synced, final, media, history>>

\* The file and its sidecar go first ...
Unlink(q) ==
    /\ At(q, "unlink")
    /\ disk' = disk \ {proc[q].cur}
    /\ Goto(q, "delete")
    /\ UNCHANGED <<spotify, synced, final, asset, refs, history>>

\* ... then the row. No foreign key is enforced, a missing row is no error.
DeleteRow(q) ==
    /\ At(q, "delete")
    /\ asset' = [asset EXCEPT ![proc[q].cur] = NoAsset]
    /\ Return(q)
    /\ UNCHANGED <<spotify, synced, final, refs, disk, history>>

-----------------------------------------------------------------------------
(* Failures and restart *)

\* A step raises. _reconcile_references and the deletion of a replaced asset
\* run in a try of their own, so nothing committed is undone.
StepRaises(q) ==
    /\ Uncaught
    /\ ~At(q, "idle")
    /\ Stop(q)
    /\ UNCHANGED <<spotify, synced, final, media, history>>

Crash ==
    /\ crashes < MaxCrashes                            \* bound: MaxCrashes
    /\ crashes' = crashes + 1
    /\ proc' = [q \in Procs |-> IF q = Startup
                   THEN [Idle EXCEPT !.pc = "recover", !.back = "recover",
                            !.stale = {a \in Rows : asset[a].pending}]
                   ELSE Idle]
    /\ UNCHANGED <<spotify, synced, final, media, unreconciled, aliased>>

\* reconcile_orphaned_replacement_attempts
RecoverNext(q) ==
    /\ At(q, "recover")
    /\ \E a \in proc[q].stale :
          proc' = [proc EXCEPT ![q] = [proc[q] EXCEPT !.pc = "check", !.cur = a,
                                                      !.stale = @ \ {a}]]
    /\ UNCHANGED <<spotify, synced, final, media, history>>

Recovered(q) ==
    /\ At(q, "recover")
    /\ proc[q].stale = {}
    /\ Stop(q)
    /\ UNCHANGED <<spotify, synced, final, media, history>>

SyncStep(q) ==
    \/ \E p \in Playlists : SyncStart(q, p)
    \/ SyncMeta(q) \/ SyncItems(q) \/ ReadOldEntries(q) \/ ReplaceEntries(q)
    \/ ListStaleRefs(q) \/ DropRef(q) \/ TrackDropped(q)
    \/ LookUpAssets(q) \/ EnsureReferences(q)

LinkStep(q) == LinkCommit(q) \/ \E t \in Tracks : LinkRead(q, t)

ReplaceStep(q) ==
    \/ \E t \in Tracks : ReplaceStart(q, t)
    \/ ReplaceCreate(q) \/ ReplaceImport(q) \/ ReplaceFails(q)
    \/ SwapRead(q) \/ Swap(q) \/ ReplaceBreaks(q)

DeleteStep(q) == CheckEligible(q) \/ Unlink(q) \/ DeleteRow(q)

RecoverStep(q) == RecoverNext(q) \/ Recovered(q)

Environment ==
    \/ \E p \in Playlists : Edit(p) \/ Disconnect(p)
    \/ \E a \in Assets : Import(a)

Next ==
    \/ \E q \in Procs : \/ SyncStep(q) \/ LinkStep(q) \/ ReplaceStep(q)
                        \/ DeleteStep(q) \/ RecoverStep(q) \/ StepRaises(q)
    \/ Environment
    \/ Crash

Spec == Init /\ [][Next]_vars

-----------------------------------------------------------------------------
(* What references are for *)

\* A playlist that lists a track and references a file of it that is there.
Served(p, t) ==
    /\ t \in entries[p]
    /\ \E r \in refs : /\ r.playlist = p /\ r.track = t
                       /\ asset[r.asset].live /\ asset[r.asset].file
                       /\ r.asset \in disk

Quiet == \A q \in Procs : At(q, "idle")

\* As long as a playlist lists a track it has a file of, it keeps having one:
\* no sync, replacement, deletion, failure or restart takes it away.
ServedStaysServed ==
    [][\A p \in Playlists, t \in Tracks :
          Served(p, t) /\ t \in entries'[p] => Served(p, t)']_vars

\* reference_counting.py: an asset goes only when nothing needs it, that is,
\* when every reconciled playlist listing its track references another one.
WantedIsKept ==
    [][\A a \in Rows :
          ~asset[a].pending /\ ~asset'[a].live =>
             \A p \in Playlists \ unreconciled :
                asset[a].track \in entries[p] =>
                   \E r \in refs : /\ r.playlist = p /\ r.track = asset[a].track
                                  /\ r.asset # a]_vars

\* When nothing runs, a reconciled playlist references an asset of every track
\* it lists that has one, whichever of search and sync came first.
ListedIsReferenced ==
    Quiet => \A p \in Playlists \ unreconciled : \A t \in entries[p] :
       AssetOf(t) # {} => \E r \in refs : r.playlist = p /\ r.track = t

\* The snapshot_id check of sync_playlist skips a sync only when there is
\* nothing to sync: a stored id that is current belongs to current entries.
SnapshotSkipsNoChange ==
    Quiet => \A p \in Playlists \ LikedSongs :
                saved[p] = version[p] => entries[p] = remote[p]

\* A reference leads to an asset that exists and is of its own track, although no
\* foreign key is enforced, ids are handed out again, swaps clear track_id and a
\* track has several assets meanwhile.
ReferencesMatchTracks ==
    \A r \in refs : asset[r.asset].live /\ asset[r.asset].track = r.track

\* The commit of a swap takes no file from a playlist: what old served, new
\* serves, whatever syncs and searches did to either row during the download,
\* unless the database has handed out the id of a row that a task or a reference
\* held. For one replacement of a track at a time: a second one can make the
\* pending row of the first the old one, and delete its file.
SwapKeepsServing ==
    [][~aliased /\ (\E a \in Rows : asset[a].pending /\ asset'[a].live /\ ~asset'[a].pending) =>
          \A p \in Playlists, t \in Tracks : Served(p, t) => Served(p, t)']_vars

-----------------------------------------------------------------------------
(* PromisedBySource: what comments of the code say, and the code does not do *)

\* deletion.py: zero references are verified "inside the same commit that
\* performs the delete", even under concurrent access.
DeletedIsUnreferenced == [][\A a \in Rows : ~asset'[a].live => RefsTo(a) = {}]_vars

\* _reconcile_references: a track that disappeared "must have its reference to
\* this playlist removed", at the latest by the next sync that completes.
DroppedIsReleased ==
    Quiet => \A r \in refs : r.track \in entries[r.playlist]
                               \/ r.playlist \in unreconciled

\* disconnect_playlist "stops future Spotify-driven changes".
FinalIsFrozen == [][\A p \in final : entries'[p] = entries[p]]_vars
=============================================================================
