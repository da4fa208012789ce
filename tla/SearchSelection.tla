--------------------------- MODULE SearchSelection --------------------------
(***************************************************************************)
(* How a track gets its video: services/search.py and its endpoints, the   *)
(* discovery of integrations/youtube, the upgrade monitor, and, as far as  *)
(* they meet on the same MediaAsset rows, the download queue and           *)
(* replace_track_media.                                                    *)
(*                                                                         *)
(* A search takes minutes and nothing keeps a second actor away from its   *)
(* track.  What makes that visible here: a session decides on the row as   *)
(* it read it (expire_on_commit=False), writes the columns it changed and  *)
(* no others (Merged), and holds SQLite's write lock from its first flush  *)
(* to its commit, across the HTTP calls in between.                        *)
(*                                                                         *)
(* References and playlists are MediaReferences', attempts and backoff     *)
(* DownloadQueue's.                                                        *)
(***************************************************************************)
EXTENDS Naturals, FiniteSets

CONSTANTS
    Tracks,         \* listed by some playlist; a track keeps being listed
    Assets,         \* MediaAsset ids, 1 .. n; a bound
    Candidates,     \* VideoCandidate ids, 1 .. n; a bound
    Videos,         \* what discovery can find
    Visualizers,    \* those whose best signal is visualizer-only
    Procs,          \* requests and the monitor's task, under way at once
    Ops,            \* what each of them does
    Workers,        \* download workers
    ApiKey,         \* whether youtube_api_key is set
    Faults,         \* whether httpx errors and "database is locked" happen
    MaxAsked,       \* bound on the requests and the monitor's ticks
    MaxCrashes      \* bound on the stops of the process

None == 0

AllOps == {"run", "again", "bulk", "select", "replace", "monitor"}

ASSUME SearchAssumption ==
    /\ Tracks \subseteq Nat \ {None} /\ Assets \subseteq Nat \ {None}
    /\ Candidates \subseteq Nat \ {None} /\ Videos \cap {None} = {}
    /\ Visualizers \subseteq Videos
    /\ None \notin Procs
    /\ Ops \in [Procs -> SUBSET AllOps]
    /\ ApiKey \in BOOLEAN /\ Faults \in BOOLEAN
    /\ MaxAsked \in Nat /\ MaxCrashes \in Nat

VARIABLES
    asset,      \* media_assets
    cands,      \* video_candidates
    lock,       \* the task holding the write lock, or None
    proc,       \* the tasks
    worker,     \* the download workers
    stranded,   \* history: assets a search died on while they were SEARCHING
    crossed,    \* history: tracks on whose row a session wrote over a change
                \* it had not read or a download under way, or inserted a second
    asked, crashes

db      == <<asset, cands>>
history == <<stranded, crossed, crashes>>
vars    == <<db, lock, proc, worker, history, asked>>

-----------------------------------------------------------------------------
Claimable == {"CANDIDATE_SELECTED", "QUEUED"}
Served    == {"AVAILABLE", "INCOMPLETE"}
\* DOWNLOADING stands for PROCESSING and IMPORTING too.
MediaState == Claimable \cup Served \cup
              {"SEARCHING", "MANUAL_REVIEW_REQUIRED", "MISSING", "DOWNLOADING",
               "DOWNLOAD_FAILED"}

\* cand: video_candidate_id.  source: the video source_reference names.
\* visual: candidate_is_visualizer_only.  file: the video in the file at
\* local_path.  pending: pending_reference_swap.
Row == [live: BOOLEAN, track: Tracks \cup {None}, state: MediaState, manual: BOOLEAN,
        cand: Candidates \cup {None}, source: Videos \cup {None}, visual: BOOLEAN,
        file: Videos \cup {None}, pending: BOOLEAN]

NoRow == [live |-> FALSE, track |-> None, state |-> "SEARCHING", manual |-> FALSE,
          cand |-> None, source |-> None, visual |-> FALSE, file |-> None,
          pending |-> FALSE]

Candidate == [track: Tracks \cup {None}, video: Videos \cup {None}]
NoCandidate == [track |-> None, video |-> None]

\* was, now: the row as the session has it stored and as it has changed it.
\* gone: candidates deleted, not committed.  cand, video: the candidate picked.
\* prev: previous_source.  todo: the tracks or assets still to go through.
Task == [pc: {"idle", "next", "open", "discover", "wipe", "score", "select",
              "compare", "create", "fetch", "import", "swap", "cleanup"},
         op: AllOps \cup {"none"}, track: Tracks \cup {None}, aid: Assets \cup {None},
         was: Row, now: Row, gone: SUBSET Candidates,
         cand: Candidates \cup {None}, video: Videos \cup {None},
         prev: Videos \cup {None}, todo: SUBSET (Tracks \cup Assets),
         new: Assets \cup {None}]

IdleTask == [pc |-> "idle", op |-> "none", track |-> None, aid |-> None,
             was |-> NoRow, now |-> NoRow, gone |-> {}, cand |-> None,
             video |-> None, prev |-> None, todo |-> {}, new |-> None]

Worker == [pc: {"idle", "load", "fetch"}, aid: Assets \cup {None}, seen: Row,
           video: Videos \cup {None}]

IdleWorker == [pc |-> "idle", aid |-> None, seen |-> NoRow, video |-> None]

TypeOK ==
    /\ asset \in [Assets -> Row]
    /\ cands \in [Candidates -> Candidate]
    /\ lock \in Procs \cup {None}
    /\ proc \in [Procs -> Task]
    /\ worker \in [Workers -> Worker]
    /\ stranded \subseteq Assets
    /\ crossed \subseteq Tracks
    /\ asked \in 0 .. MaxAsked /\ crashes \in 0 .. MaxCrashes

\* Playlists have been synced and nothing was ever searched.
Init ==
    /\ asset = [a \in Assets |-> NoRow]
    /\ cands = [c \in Candidates |-> NoCandidate]
    /\ lock = None
    /\ proc = [q \in Procs |-> IdleTask]
    /\ worker = [w \in Workers |-> IdleWorker]
    /\ stranded = {} /\ crossed = {} /\ asked = 0 /\ crashes = 0

-----------------------------------------------------------------------------
At(q, pc) == proc[q].pc = pc
CanWrite(q) == lock \in {q, None}

Live == {a \in Assets : asset[a].live}

RowsOf(t) == {a \in Live : asset[a].track = t}

\* The first row of the track in id order, or none.
AssetOf(t) == {a \in RowsOf(t) : \A b \in RowsOf(t) : a <= b}

\* An integer primary key without AUTOINCREMENT: max(rowid) + 1, so the ids of
\* the rows deleted last are given again.
NextIds(used, ids, n) ==
    {i \in ids : /\ \A u \in used : u < i
                 /\ Cardinality({j \in ids : j < i /\ \A u \in used : u < j}) < n}

CandidatesOf(t) == {c \in Candidates : cands[c].track = t}

\* get_wanted_tracks: no row of the track yet (rows without a track_id are the
\* library scan's).
WantedTracks == {t \in Tracks : RowsOf(t) = {}}

\* An UPDATE names the columns the session changed: what it has flushed, p.now,
\* and what it leaves them as, now.
Merged(row, p, now) ==
    [f \in DOMAIN row |-> IF now[f] = p.was[f] /\ p.now[f] = p.was[f] THEN row[f] ELSE now[f]]

Changed(p, now) == now # p.was \/ p.now # p.was

\* The session of q stores its row: as an INSERT when it found none.
Stored(q, now) ==
    LET p == proc[q]
    IN  IF p.aid # None
        THEN {[asset EXCEPT ![p.aid] = Merged(@, p, now)]}
        ELSE {[asset EXCEPT ![a] = now] : a \in NextIds(Live, Assets, 1)}

\* What it stores, or the candidate it stores, has changed since it was read,
\* or is there already, or is in a worker's hands.
Crosses(q, now) ==
    LET p == proc[q]
    IN  \/ p.aid = None /\ RowsOf(p.track) # {}
        \/ p.aid # None /\ Changed(p, now)
           /\ (asset[p.aid] # p.was \/ asset[p.aid].state = "DOWNLOADING")
        \/ p.pc = "select" /\ cands[p.cand] # [track |-> p.track, video |-> p.video]

Note(q, now) == crossed' = IF Crosses(q, now) THEN crossed \cup {proc[q].track} ELSE crossed

\* An UPDATE of a row that is gone raises StaleDataError.
CanStore(q, now) == proc[q].aid \in Live \cup {None} \/ ~Changed(proc[q], now)

\* A request ends; the loops of a bulk search and of a monitor's tick go on.
Ended(q) ==
    LET p == proc[q]
    IN  IF p.op \in {"bulk", "monitor"} /\ p.todo # {}
        THEN [IdleTask EXCEPT !.pc = "next", !.op = p.op, !.todo = p.todo]
        ELSE IdleTask

Ends(q) == proc' = [proc EXCEPT ![q] = Ended(q)]

\* It ends without a commit: the session is closed, which rolls back.  One
\* session serves a whole bulk search; there the deletions stay pending.
End(q) ==
    LET gone == IF proc[q].op = "bulk" /\ proc[q].todo # {} THEN proc[q].gone ELSE {}
    IN  /\ proc' = [proc EXCEPT ![q] = [Ended(q) EXCEPT !.gone = gone]]
        /\ lock' = IF lock = q /\ gone = {} THEN None ELSE lock

-----------------------------------------------------------------------------
(* run_search_for_track *)

\* A request, or a tick of the monitor, begins.
Counted == asked < MaxAsked /\ asked' = asked + 1       \* bound: MaxAsked

\* _get_or_create_media_asset: the SELECT.
Look(q, t, op, todo, prev) ==
    \E a \in IF RowsOf(t) = {} THEN {None} ELSE AssetOf(t) :
       LET row == IF a = None THEN NoRow ELSE asset[a]
       IN  proc' = [proc EXCEPT ![q] = [IdleTask EXCEPT
                       !.pc = "open", !.op = op, !.track = t, !.aid = a, !.was = row,
                       !.now = row, !.gone = proc[q].gone, !.todo = todo,
                       !.prev = prev]]

Reopens(q) == proc[q].op \in {"again", "monitor"}

\* POST /search/tracks/{id}/run and /search-again.
Begin(q, t, op) ==
    /\ op \in Ops[q]
    /\ At(q, "idle") /\ Counted
    /\ Look(q, t, op, {}, None)
    /\ UNCHANGED <<db, lock, worker, history>>

\* A deliberate choice is left alone, unless the search is to reopen it.
OpenRefused(q) ==
    /\ At(q, "open")
    /\ proc[q].was.manual /\ ~Reopens(q)
    /\ End(q)
    /\ UNCHANGED <<db, worker, history, asked>>

OpenedRow(q) ==
    LET p == proc[q]
    IN  [p.was EXCEPT
            !.live = TRUE, !.track = p.track,
            !.manual = IF Reopens(q) THEN FALSE ELSE @,
            !.state = IF p.was.file = None THEN "SEARCHING" ELSE @]

\* MUTANT: the guard on a manual selection is dropped.
OpenAlways(q) ==
    LET now     == OpenedRow(q)
        flushes == now # proc[q].was /\ now.file = None
    IN  /\ At(q, "open")
        /\ flushes => CanWrite(q) /\ CanStore(q, now)
        /\ lock' = IF flushes THEN q ELSE lock
        /\ proc' = [proc EXCEPT ![q] = [@ EXCEPT !.pc = "discover", !.now = now]]
        /\ UNCHANGED <<db, worker, history, asked>>

\* The new row, or the reopened one, SEARCHING unless it has a file; flushed
\* then, not committed.
Open(q) ==
    LET now     == OpenedRow(q)
        flushes == now # proc[q].was /\ now.file = None
    IN  /\ At(q, "open")
        /\ proc[q].was.manual => Reopens(q)
        /\ flushes => CanWrite(q) /\ CanStore(q, now)
        /\ lock' = IF flushes THEN q ELSE lock
        /\ proc' = [proc EXCEPT ![q] = [@ EXCEPT !.pc = "discover", !.now = now]]
        /\ UNCHANGED <<db, worker, history, asked>>

\* record_youtube_search_call counts the Data API's call, whatever came of it,
\* and its commit takes everything flushed so far along.
CommitQuota(q) ==
    LET p == proc[q]
    IN  /\ CanWrite(q) /\ CanStore(q, p.now)
        /\ asset' \in Stored(q, p.now)
        /\ cands' = [c \in Candidates |-> IF c \in p.gone THEN NoCandidate ELSE cands[c]]
        /\ Note(q, p.now)
        /\ lock' = None

\* The row q has just stored, which an INSERT named.
StoredId(q) ==
    IF proc[q].aid # None THEN {proc[q].aid} ELSE {a \in Assets : asset'[a].live} \ Live

\* discover_candidates.  YouTubeError ends in the fallback or in no candidates:
\* what was found is chosen in Found and NothingFound.
Discover(q) ==
    /\ At(q, "discover")
    /\ IF ApiKey
       THEN /\ CommitQuota(q)
            /\ \E a \in StoredId(q) :
                  proc' = [proc EXCEPT ![q] = [@ EXCEPT !.pc = "wipe", !.aid = a,
                                                       !.gone = {}, !.was = proc[q].now]]
       ELSE /\ proc' = [proc EXCEPT ![q] = [@ EXCEPT !.pc = "wipe"]]
            /\ UNCHANGED <<db, lock, crossed>>
    /\ UNCHANGED <<worker, stranded, crashes, asked>>

\* An httpx error is no YouTubeError: the request fails, after that commit.
DiscoverFails(q) ==
    /\ Faults /\ ApiKey
    /\ At(q, "discover")
    /\ CommitQuota(q)
    /\ stranded' = IF proc[q].now.file = None THEN stranded \cup StoredId(q) ELSE stranded
    /\ proc' = [proc EXCEPT ![q] = IF @.op = "bulk" THEN IdleTask ELSE Ended(q)]
    /\ UNCHANGED <<worker, crashes, asked>>

\* The settings' SELECT flushes what is pending; the candidates of earlier
\* searches are deleted and that is flushed too.
Wipe(q) ==
    LET p      == proc[q]
        writes == CandidatesOf(p.track) # {} \/ p.now # p.was
    IN  /\ At(q, "wipe")
        /\ writes => CanWrite(q) /\ CanStore(q, p.now)
        /\ lock' = IF writes THEN q ELSE lock
        /\ proc' = [proc EXCEPT ![q] = [p EXCEPT !.pc = "score",
                                                 !.gone = p.gone \cup CandidatesOf(p.track)]]
        /\ UNCHANGED <<db, worker, history, asked>>

\* VideoCandidate rows for the candidates that survived, in any order.
WithCandidates(q, videos) ==
    LET p    == proc[q]
        kept == [c \in Candidates |-> IF c \in p.gone THEN NoCandidate ELSE cands[c]]
        ids  == NextIds({c \in Candidates : kept[c] # NoCandidate}, Candidates,
                        Cardinality(videos))
    IN  {[c \in Candidates |-> IF c \in ids THEN [track |-> p.track, video |-> order[c]]
                                            ELSE kept[c]] :
            order \in {f \in [ids -> videos] : {f[c] : c \in ids} = videos}}

\* classify: the best score against automatic_match_threshold.
Decisions == {"automatic", "manual_review"}

\* The commit of a search: the row as it leaves it, and the candidates.
Settle(q, now, candidates) ==
    /\ CanWrite(q) /\ CanStore(q, now)
    /\ asset' \in Stored(q, now)
    /\ cands' = candidates
    /\ Note(q, now)
    /\ lock' = None
    /\ UNCHANGED <<worker, stranded, crashes, asked>>

\* MUTANT: nothing found is nothing to commit.
NothingFoundForgotten(q) ==
    /\ At(q, "score")
    /\ End(q)
    /\ UNCHANGED <<db, worker, history, asked>>

\* No candidate survived: MISSING, or, for a track that has a file, a return
\* without a commit.
NothingFound(q) ==
    LET now == [proc[q].now EXCEPT !.state = "MISSING", !.cand = None]
    IN  /\ At(q, "score")
        /\ \/ /\ proc[q].now.file = None
              /\ \E after \in WithCandidates(q, {}) : Settle(q, now, after)
              /\ Ends(q)
           \/ /\ proc[q].now.file # None
              /\ End(q)
              /\ UNCHANGED <<db, worker, history, asked>>

\* What the best candidate makes of the row; has_existing_file is as it was
\* read before the search.
Decided(row, decision, c, video) ==
    IF row.file # None THEN row
    ELSE IF decision = "automatic"
    THEN [row EXCEPT !.state = "CANDIDATE_SELECTED", !.cand = c, !.source = video,
                     !.visual = video \in Visualizers]
    ELSE [row EXCEPT !.state = "MANUAL_REVIEW_REQUIRED", !.cand = None]

\* MUTANT: a row that has a file is treated like any other.
FoundAndApplied(q) ==
    /\ At(q, "score")
    /\ \E videos \in SUBSET Videos \ {{}}, decision \in Decisions :
       \E after \in WithCandidates(q, videos), winner \in videos :
       \E c \in {d \in Candidates : after[d] = [track |-> proc[q].track, video |-> winner]} :
          Settle(q, [Decided([proc[q].now EXCEPT !.file = None], decision, c, winner)
                        EXCEPT !.file = proc[q].now.file], after)
    /\ Ends(q)

\* MUTANT: the first candidate stored is taken for the best.
FoundFirstStored(q) ==
    /\ At(q, "score")
    /\ \E videos \in SUBSET Videos \ {{}}, decision \in Decisions :
       \E after \in WithCandidates(q, videos), winner \in videos :
       \E c \in {d \in Candidates : after[d].track = proc[q].track
                     /\ \A e \in Candidates : after[e].track = proc[q].track => d <= e} :
          Settle(q, Decided(proc[q].now, decision, c, winner), after)
    /\ Ends(q)

\* Some did.  The monitor goes on with a winner of automatic quality.
Found(q) ==
    /\ At(q, "score")
    /\ \E videos \in SUBSET Videos \ {{}}, decision \in Decisions :
       \E after \in WithCandidates(q, videos), winner \in videos :
       \E c \in {d \in Candidates : after[d] = [track |-> proc[q].track, video |-> winner]} :
          LET row == Decided(proc[q].now, decision, c, winner)
          IN  /\ Settle(q, row, after)
              /\ IF proc[q].op = "monitor" /\ decision = "automatic" /\ winner # proc[q].prev
                 THEN proc' = [proc EXCEPT ![q] = [@ EXCEPT
                                  !.pc = "compare", !.cand = c, !.video = winner,
                                  !.gone = {}, !.was = row, !.now = row]]
                 ELSE Ends(q)

-----------------------------------------------------------------------------
(* run_search_for_all_wanted; the pause between two tracks is a step *)

BulkList(q) ==
    /\ "bulk" \in Ops[q]
    /\ At(q, "idle") /\ Counted
    /\ WantedTracks # {}
    /\ proc' = [proc EXCEPT ![q] = [IdleTask EXCEPT !.pc = "next", !.op = "bulk",
                                                    !.todo = WantedTracks]]
    /\ UNCHANGED <<db, lock, worker, history>>

BulkNext(q) ==
    /\ At(q, "next") /\ proc[q].op = "bulk"
    /\ \E t \in proc[q].todo :
          /\ \A u \in proc[q].todo : t <= u
          /\ Look(q, t, "bulk", proc[q].todo \ {t}, None)
    /\ UNCHANGED <<db, lock, worker, history, asked>>

-----------------------------------------------------------------------------
(* select_candidate *)

Unsafe == {"QUEUED", "DOWNLOADING"}

\* The candidate, which must be one of the track's, and the row are read.
SelectBegin(q, c) ==
    /\ "select" \in Ops[q]
    /\ At(q, "idle") /\ Counted
    /\ cands[c] # NoCandidate
    /\ \E a \in AssetOf(cands[c].track) :
          proc' = [proc EXCEPT ![q] = [IdleTask EXCEPT
                      !.pc = "select", !.op = "select", !.track = cands[c].track,
                      !.aid = a, !.was = asset[a], !.now = asset[a],
                      !.cand = c, !.video = cands[c].video]]
    /\ UNCHANGED <<db, lock, worker, history>>

SelectRefused(q) ==
    /\ At(q, "select")
    /\ proc[q].was.file # None \/ proc[q].was.state \in Unsafe
    /\ End(q)
    /\ UNCHANGED <<db, worker, history, asked>>

\* MUTANT: source_reference is left to name the earlier choice.
SelectKeepsSource(q) ==
    LET p   == proc[q]
        now == [p.was EXCEPT !.cand = p.cand, !.manual = TRUE, !.visual = FALSE,
                             !.state = "CANDIDATE_SELECTED"]
    IN  /\ At(q, "select")
        /\ p.was.file = None /\ p.was.state \notin Unsafe
        /\ Settle(q, now, cands)
        /\ Ends(q)

SelectCommit(q) ==
    LET p   == proc[q]
        now == [p.was EXCEPT !.cand = p.cand, !.source = p.video, !.manual = TRUE,
                             !.visual = FALSE, !.state = "CANDIDATE_SELECTED"]
    IN  /\ At(q, "select")
        /\ p.was.file = None /\ p.was.state \notin Unsafe
        /\ Settle(q, now, cands)
        /\ Ends(q)

-----------------------------------------------------------------------------
(* UpgradeMonitorScheduler._tick and _check_one_asset *)

\* MUTANT: a human's choice is searched for like any other.
MonitoredAll ==
    {a \in Live : asset[a].track # None /\ asset[a].state \in {"INCOMPLETE", "AVAILABLE"}}

Monitored ==
    {a \in Live : /\ asset[a].track # None
                  /\ \/ asset[a].state = "INCOMPLETE"
                     \/ asset[a].state = "AVAILABLE" /\ ~asset[a].manual}

MonitorTick(q) ==
    /\ "monitor" \in Ops[q]
    /\ At(q, "idle") /\ Counted
    /\ Monitored # {}
    /\ proc' = [proc EXCEPT ![q] = [IdleTask EXCEPT !.pc = "next", !.op = "monitor",
                                                    !.todo = Monitored]]
    /\ UNCHANGED <<db, lock, worker, history>>

\* A session of its own per asset.  previous_source is read here.
MonitorNext(q) ==
    /\ At(q, "next") /\ proc[q].op = "monitor"
    /\ \E a \in proc[q].todo :
          LET left == proc[q].todo \ {a}
          IN  IF asset[a].live /\ asset[a].track # None /\ asset[a].file # None
              THEN Look(q, asset[a].track, "monitor", left, asset[a].source)
              ELSE proc' = [proc EXCEPT ![q] =
                               IF left = {} THEN IdleTask ELSE [@ EXCEPT !.todo = left]]
    /\ UNCHANGED <<db, lock, worker, history, asked>>

-----------------------------------------------------------------------------
(* replace_track_media *)

\* The row to replace, unless the track has none that is served.  A session
\* that has loaded it already sees it as it was.
Seen(q, a) == IF a = proc[q].aid THEN proc[q].now ELSE asset[a]

Replaceable(q, t) == {a \in AssetOf(t) : Seen(q, a).state \in Served}

Retire(q, t, c, video, op, todo) ==
    \E a \in Replaceable(q, t) :
       proc' = [proc EXCEPT ![q] = [IdleTask EXCEPT
                   !.pc = "create", !.op = op, !.track = t, !.aid = a,
                   !.was = Seen(q, a), !.now = Seen(q, a), !.cand = c,
                   !.video = video, !.todo = todo]]

ReplaceBegin(q, c) ==
    /\ "replace" \in Ops[q]
    /\ At(q, "idle") /\ Counted
    /\ cands[c] # NoCandidate
    /\ Retire(q, cands[c].track, c, cands[c].video, "replace", {})
    /\ UNCHANGED <<db, lock, worker, history>>

Compare(q) ==
    LET p == proc[q]
    IN  /\ At(q, "compare")
        /\ \/ Retire(q, p.track, p.cand, p.video, p.op, p.todo)
           \/ Replaceable(q, p.track) = {} /\ Ends(q)
        /\ UNCHANGED <<db, lock, worker, history, asked>>

\* MUTANT: the old row is retired before the new file is there.
CreateAndRetire(q) ==
    /\ At(q, "create") /\ CanWrite(q)
    /\ asset' = [asset EXCEPT ![proc[q].aid] = [@ EXCEPT !.track = None]]
    /\ lock' = q
    /\ proc' = [proc EXCEPT ![q] = [@ EXCEPT !.pc = "fetch"]]
    /\ UNCHANGED <<cands, worker, history, asked>>

\* The new row is flushed; the download runs with the write lock held.
Create(q) ==
    /\ At(q, "create") /\ CanWrite(q)
    /\ lock' = q
    /\ proc' = [proc EXCEPT ![q] = [@ EXCEPT !.pc = "fetch"]]
    /\ UNCHANGED <<db, worker, history, asked>>

Replacement(q) ==
    [NoRow EXCEPT !.live = TRUE, !.track = proc[q].track, !.state = "DOWNLOADING",
                  !.manual = TRUE, !.cand = proc[q].cand, !.source = proc[q].video,
                  !.pending = TRUE]

\* run_pipeline_core's first commit, once the streams are downloaded ...
Fetched(q) ==
    /\ At(q, "fetch")
    /\ \E a \in NextIds(Live, Assets, 1) :
          /\ asset' = [asset EXCEPT ![a] = Replacement(q)]
          /\ proc' = [proc EXCEPT ![q] = [@ EXCEPT !.pc = "import", !.new = a]]
    /\ lock' = None
    /\ UNCHANGED <<cands, worker, history, asked>>

\* ... and its last: the file is in the media folder.
ImportNew(q) ==
    /\ At(q, "import") /\ CanWrite(q)
    /\ asset' = [asset EXCEPT ![proc[q].new] =
                     [@ EXCEPT !.state = "AVAILABLE", !.file = proc[q].video]]
    /\ proc' = [proc EXCEPT ![q] = [@ EXCEPT !.pc = "swap"]]
    /\ UNCHANGED <<cands, lock, worker, history, asked>>

\* AcquisitionError at either point: the attempt's row is dropped.
ReplaceFails(q) ==
    /\ proc[q].pc \in {"fetch", "import"} /\ CanWrite(q)
    /\ asset' = IF proc[q].new = None THEN asset
                ELSE [asset EXCEPT ![proc[q].new] = NoRow]
    /\ lock' = IF lock = q THEN None ELSE lock
    /\ Ends(q)
    /\ UNCHANGED <<cands, worker, history, asked>>

\* The references move (see MediaReferences) and the track with them.
Swap(q) ==
    LET p == proc[q]
    IN  /\ At(q, "swap") /\ CanWrite(q)
        /\ asset[p.aid].live
        /\ asset' = [a \in Assets |->
              IF a = p.aid THEN [asset[a] EXCEPT !.track = None]
              ELSE IF a = p.new THEN [asset[a] EXCEPT !.pending = FALSE]
              ELSE asset[a]]
        /\ proc' = [proc EXCEPT ![q] = [@ EXCEPT !.pc = "cleanup"]]
        /\ UNCHANGED <<cands, lock, worker, history, asked>>

\* delete_media_asset_if_eligible: nothing refers to the old row any more.
Cleanup(q) ==
    /\ At(q, "cleanup") /\ CanWrite(q)
    /\ asset' = [asset EXCEPT ![proc[q].aid] = NoRow]
    /\ Ends(q)
    /\ UNCHANGED <<cands, lock, worker, history, asked>>

-----------------------------------------------------------------------------
(* What ends a task early *)

\* Whether its next step writes to the row it has read, or to a new one.
Writes(q) ==
    LET p == proc[q]
    IN  \/ p.pc \in {"select", "create", "swap"}
        \/ p.pc = "open" /\ p.was.file = None
        \/ p.pc = "discover" /\ ApiKey
        \/ p.pc = "wipe" /\ (p.now # p.was \/ CandidatesOf(p.track) # {})
        \/ p.pc = "score" /\ p.now.file = None

\* "database is locked", after busy_timeout, or StaleDataError on a row that is
\* gone.  The monitor's loop survives it.
Breaks(q) ==
    LET p == proc[q]
    IN  /\ Writes(q)
        /\ \/ Faults /\ ~CanWrite(q)
           \/ p.aid \notin Live \cup {None}
              /\ (p.now # p.was \/ p.was.file = None \/ p.pc = "swap")
        /\ stranded' = stranded \cup {a \in Live : a = p.aid /\ asset[a].state = "SEARCHING"}
        /\ proc' = [proc EXCEPT ![q] = IF p.op = "bulk" THEN IdleTask ELSE Ended(q)]
        /\ lock' = IF lock = q THEN None ELSE lock
        /\ UNCHANGED <<db, worker, crossed, crashes, asked>>

\* The process stops, or is stopped; when it is back, the queue's recovery has
\* requeued what was in flight and dropped unfinished replacements.
Restart ==
    /\ crashes < MaxCrashes                             \* bound: MaxCrashes
    /\ crashes' = crashes + 1
    /\ asset' = [a \in Assets |->
          IF asset[a].pending THEN NoRow
          ELSE IF asset[a].state = "DOWNLOADING" THEN [asset[a] EXCEPT !.state = "QUEUED"]
          ELSE asset[a]]
    /\ stranded' = stranded \cup {a \in Live : asset[a].state = "SEARCHING"}
    /\ proc' = [q \in Procs |-> IdleTask]
    /\ worker' = [w \in Workers |-> IdleWorker]
    /\ lock' = None
    /\ UNCHANGED <<cands, crossed, asked>>

-----------------------------------------------------------------------------
(* The download queue *)

Claim(w, a) ==
    /\ worker[w].pc = "idle" /\ lock = None
    /\ asset[a].live /\ asset[a].state \in Claimable
    /\ asset' = [asset EXCEPT ![a] = [@ EXCEPT !.state = "DOWNLOADING"]]
    /\ worker' = [worker EXCEPT ![w] = [IdleWorker EXCEPT !.pc = "load", !.aid = a]]
    /\ UNCHANGED <<cands, lock, proc, history, asked>>

\* What a worker writes at the end of its attempt.
Conclude(w, state, video) ==
    LET a == worker[w].aid
    IN  /\ lock = None
        /\ IF asset[a].live
           THEN /\ asset' = [asset EXCEPT ![a] =
                    [@ EXCEPT !.state = state,
                              !.file = IF video = None THEN asset[a].file ELSE video]]
                /\ crossed' = IF asset[a] # worker[w].seen /\ asset[a].track # None
                              THEN crossed \cup {asset[a].track} ELSE crossed
           ELSE UNCHANGED <<asset, crossed>>
        /\ worker' = [worker EXCEPT ![w] = IdleWorker]
        /\ UNCHANGED <<cands, lock, proc, stranded, crashes, asked>>

\* The worker's own session reads the row; then the candidate, by its id.
Load(w) ==
    LET a == worker[w].aid
        c == asset[a].cand
        v == IF c = None THEN None ELSE cands[c].video
    IN  /\ worker[w].pc = "load"
        /\ worker' = [worker EXCEPT ![w] =
                          IF asset[a].live
                          THEN [@ EXCEPT !.pc = "fetch", !.seen = asset[a], !.video = v]
                          ELSE IdleWorker]
        /\ UNCHANGED <<db, lock, proc, history, asked>>

Import(w) ==
    /\ worker[w].pc = "fetch" /\ worker[w].video # None
    /\ Conclude(w, IF worker[w].seen.visual THEN "INCOMPLETE" ELSE "AVAILABLE",
                worker[w].video)

\* MUTANT: a failed attempt is given a state MediaState does not have.
FailUnknownState(w) ==
    /\ worker[w].pc = "fetch"
    /\ Conclude(w, "FAILED", None)

\* A failed attempt; without a candidate there is no other.
Fail(w) ==
    /\ worker[w].pc = "fetch"
    /\ \/ Conclude(w, "DOWNLOAD_FAILED", None)
       \/ worker[w].video # None /\ Conclude(w, "QUEUED", None)

-----------------------------------------------------------------------------
SearchStep(q) ==
    \/ OpenRefused(q) \/ Open(q) \/ Discover(q) \/ DiscoverFails(q) \/ Wipe(q)
    \/ NothingFound(q) \/ Found(q) \/ BulkNext(q) \/ MonitorNext(q) \/ Compare(q)

ChoiceStep(q) ==
    \/ SelectRefused(q) \/ SelectCommit(q)
    \/ Create(q) \/ Fetched(q) \/ ImportNew(q) \/ ReplaceFails(q)
    \/ Swap(q) \/ Cleanup(q)

Asked(q) ==
    \/ \E t \in Tracks, op \in {"run", "again"} : Begin(q, t, op)
    \/ BulkList(q) \/ MonitorTick(q)
    \/ \E c \in Candidates : SelectBegin(q, c) \/ ReplaceBegin(q, c)

Works(w) == Load(w) \/ Import(w) \/ Fail(w)

Next ==
    \/ \E q \in Procs : Asked(q) \/ SearchStep(q) \/ ChoiceStep(q) \/ Breaks(q)
    \/ \E w \in Workers : Works(w) \/ \E a \in Assets : Claim(w, a)
    \/ Restart

Spec == Init /\ [][Next]_vars

-----------------------------------------------------------------------------
(* Safety *)

\* The row a queue worker picks up names a candidate that is stored, and names
\* its video: run_search_for_track deletes all candidates of the track and
\* SQLite gives their ids again, select_candidate stores an id it read before.
\* Outside it is what a session wrote over.
ChoiceNamesItsVideo ==
    \A a \in Live :
       asset[a].state \in Claimable \cup {"DOWNLOADING"} /\ ~asset[a].pending
          /\ asset[a].track \in Tracks \ crossed
       => asset[a].cand # None
          /\ cands[asset[a].cand] = [track |-> asset[a].track, video |-> asset[a].source]

\* The file shows the video source_reference names, which is what the monitor
\* compares a new winner with (_check_one_asset).
FileIsItsSource ==
    \A a \in Live : asset[a].file # None /\ asset[a].track \in Tracks \ crossed
                     => asset[a].file = asset[a].source

\* What is downloaded is what was chosen, and is known as that afterwards.
ChoiceIsTraceable == ChoiceNamesItsVideo /\ FileIsItsSource

\* SEARCHING means that a search is at it, except where one has died: no
\* recovery looks for the state, and the bulk search passes the track over.
SearchingIsSearched ==
    \A a \in Live \ stranded : asset[a].state = "SEARCHING"
       => \E q \in Procs : proc[q].aid = a /\ proc[q].pc \in {"discover", "wipe", "score"}

-----------------------------------------------------------------------------
(* Action properties *)

\* A row that a selection or a finished replacement has left as a human's choice.
Preferred(a) == asset[a].live /\ asset[a].manual /\ ~asset[a].pending

\* It is gone, or no longer the track's, or another video's, or anybody's choice.
Undone(a) ==
    \/ ~asset'[a].live \/ ~asset'[a].manual
    \/ asset'[a].track # asset[a].track \/ asset'[a].source # asset[a].source

\* The monitor searches again for what is only a visualizer, whoever chose it; what
\* it finds replaces the row of the track as it is by then (HumanChoiceIsSpared).
MayMonitor(q, a) ==
    /\ proc[q].op = "monitor"
    /\ asset[a].state = "INCOMPLETE" \/ (At(q, "swap") /\ proc[q].was.manual)

\* What a human chose stays the track's until a human exchanges it, by a selection,
\* a replacement or asking for the search again (run_search_for_track's guard, the
\* monitor's list), or the monitor finds better than a visualizer.
ChoiceIsKept ==
    [][\A a \in Live : Preferred(a) /\ asset[a].track \in Tracks \ crossed' /\ Undone(a)
          => \E q \in Procs : /\ proc[q].aid = a /\ proc'[q] # proc[q]
                               /\ \/ proc[q].op \in {"select", "again", "replace"}
                                  \/ MayMonitor(q, a)]_vars

\* A row with a file keeps its state, its file and its candidate, whatever
\* searches find (the comment on has_existing_file).
ServedIsUntouched ==
    [][\A a \in Live : asset[a].file # None /\ asset'[a].live
                        /\ asset[a].track \in Tracks \ crossed'
          => /\ asset'[a].state = asset[a].state
             /\ asset'[a].file = asset[a].file
             /\ asset'[a].cand = asset[a].cand]_vars

HasFile(t) == \E a \in Live : asset[a].track = t /\ asset[a].file # None

\* A track that is served stays served through searches, replacements and their
\* failures, the monitor's included, and through a stop of the process.
StaysServed == [][\A t \in Tracks : HasFile(t) => HasFile(t)']_vars

-----------------------------------------------------------------------------
(* What the source promises and the code does not keep *)

\* services/search.py:5: "Manual selections are persisted as a deliberate override
\* that a later automatic run must never silently replace"; 155: "never silently
\* override it from an automatic run".
HumanChoiceStands ==
    [][\A a \in Live : asset[a].manual /\ asset'[a].live
          => \/ asset'[a].source = asset[a].source
             \/ \E q \in Procs : proc[q].op \in {"select", "again"} /\ proc'[q] # proc[q]]_vars

\* jobs/upgrade_monitor.py:9, of what is no visualizer: "a human's explicit choice is
\* never silently touched by monitoring".
HumanChoiceIsSpared ==
    [][\A a \in Live : Preferred(a) /\ asset[a].state = "AVAILABLE" /\ Undone(a)
          => \A q \in Procs : proc[q].op = "monitor" /\ proc[q].aid = a => proc'[q] = proc[q]]_vars
=============================================================================
