----------------------------- MODULE MediaLibrary ---------------------------
(***************************************************************************)
(* The files of the media folder and the rows that name them: the file     *)
(* side of run_pipeline_core (its lyrics step, import and sidecar),        *)
(* replace_track_media, delete_media_asset_if_eligible, organize_media_    *)
(* asset and scan_library.                                                 *)
(*                                                                         *)
(* A file moves before the row that names it is committed, and a session   *)
(* moves or unlinks what its row named when it read it.  A step is what    *)
(* happens between two awaits; one walk of the scan is one step.           *)
(*                                                                         *)
(* How candidates are chosen is SearchSelection's, attempts and backoff    *)
(* are DownloadQueue's, references are MediaReferences'.                   *)
(***************************************************************************)
EXTENDS Naturals, FiniteSets

CONSTANTS
    Tracks,         \* two of them may render to one name
    Bases,          \* "Artist - Title (Year) [Quality]"
    BaseOf,         \* what render_filename makes of a track, or of none
    Numbers,        \* 1 .. n, the suffix " (n)" of disambiguate_filename; a bound
    Containers,     \* what mux_media may produce
    Assets,         \* MediaAsset ids, 1 .. n; a bound
    Procs,          \* workers, requests and syncs, under way at once
    MaxStarts,      \* bound on the operations begun
    MaxForeign,     \* bound on the files a user puts into the folder
    MaxCrashes      \* bound on the stops of the process

None == 0

Names == [base : Bases, n : Numbers, ext : Containers]
Stems == [base : Bases, n : Numbers]

NoName == [base |-> "", n |-> 0, ext |-> ""]

ASSUME LibraryAssumption ==
    /\ Tracks \subseteq Nat \ {None} /\ Assets \subseteq Nat \ {None}
    /\ Numbers \subseteq Nat \ {0} /\ 1 \in Numbers
    /\ BaseOf \in [Tracks \cup {None} -> Bases] /\ "" \notin Bases
    /\ None \notin Procs
    /\ MaxStarts \in Nat /\ MaxForeign \in Nat /\ MaxCrashes \in Nat

VARIABLES
    files,      \* the videos in the media folder: whose row imported each one
    lrc,        \* the .lrc sidecars: the track each one is of
    asset,      \* media_assets
    lyrics,     \* the kind in the track's Lyrics row
    proc,       \* the operations under way
    torn,       \* history: names where an operation acted on what had changed
                \* since it read it, or was stopped between file and row
    mixed,      \* history: stems that two videos have had in common
    starts, foreign, crashes

history == <<torn, mixed>>
counters == <<starts, foreign, crashes>>
vars == <<files, lrc, asset, lyrics, proc, history, counters>>

-----------------------------------------------------------------------------
\* A file no import brought.
Foreign == 100

\* DOWNLOADING stands for PROCESSING and IMPORTING too.  pending:
\* pending_reference_swap.
Row == [live: BOOLEAN, track: Tracks \cup {None},
        state: {"QUEUED", "DOWNLOADING", "AVAILABLE", "REVIEW", "FAILED"},
        path: Names \cup {NoName}, pending: BOOLEAN]

NoRow == [live |-> FALSE, track |-> None, state |-> "QUEUED", path |-> NoName,
          pending |-> FALSE]

\* "none": there is no row.
LyricsKind == {"none", "missing", "found"}

\* was: the row as the session read it.  track: what a pipeline imports.  old: the
\* asset a replacement replaces.
\* kind: of the Lyrics row as it was read.  words: there are lyrics to write.
\* name: where the file was moved.  known: the paths a scan has read.
\* found: the rows it will add.
Task == [pc: {"idle", "mux", "lyrics", "store", "import", "commit", "swap", "unlink",
              "drop", "move", "moved", "walk", "add"},
         aid: Assets \cup {None}, track: Tracks \cup {None}, old: Assets \cup {None}, was: Row,
         ext: Containers \cup {""}, kind: LyricsKind, words: BOOLEAN,
         name: Names \cup {NoName}, known: SUBSET Names,
         found: SUBSET [path: Names, track: Tracks \cup {None}]]

IdleTask == [pc |-> "idle", aid |-> None, track |-> None, old |-> None, was |-> NoRow, ext |-> "",
             kind |-> "none", words |-> FALSE, name |-> NoName, known |-> {},
             found |-> {}]

TypeOK ==
    /\ files \in [Names -> Assets \cup {None, Foreign}]
    /\ lrc \in [Stems -> Tracks \cup {None}]
    /\ asset \in [Assets -> Row]
    /\ lyrics \in [Tracks -> LyricsKind]
    /\ proc \in [Procs -> Task]
    /\ torn \subseteq Names /\ mixed \subseteq Stems
    /\ starts \in 0 .. MaxStarts /\ foreign \in 0 .. MaxForeign
    /\ crashes \in 0 .. MaxCrashes

Init ==
    /\ files = [n \in Names |-> None]
    /\ lrc = [s \in Stems |-> None]
    /\ asset = [a \in Assets |-> NoRow]
    /\ lyrics = [t \in Tracks |-> "none"]
    /\ proc = [q \in Procs |-> IdleTask]
    /\ torn = {} /\ mixed = {}
    /\ starts = 0 /\ foreign = 0 /\ crashes = 0

-----------------------------------------------------------------------------
At(q, pc) == proc[q].pc = pc

Live == {a \in Assets : asset[a].live}
Videos == {n \in Names : files[n] # None}

\* sidecar_path_for: the video's path with another suffix.
Stem(name) == [base |-> name.base, n |-> name.n]

\* Two videos come to have the stem in common; a sidecar that was shared takes
\* that along.
Mixes(name, from) ==
    \/ \E v \in Videos \ {from} : Stem(v) = Stem(name)
    \/ from # NoName /\ Stem(from) \in mixed

Named(name) == \E a \in Live : asset[a].path = name

\* An INTEGER PRIMARY KEY: max(rowid) + 1.
Unused == {a \in Assets : \A b \in Live : b < a}
Free   == {a \in Unused : \A b \in Unused : a <= b}

Begins == starts < MaxStarts /\ starts' = starts + 1        \* bound: MaxStarts
Ends(q) == proc' = [proc EXCEPT ![q] = IdleTask]
Goes(q, pc) == proc' = [proc EXCEPT ![q].pc = pc]

-----------------------------------------------------------------------------
(* A search selects a candidate; a user puts a video into the folder.      *)

Queue(t) ==
    /\ Begins
    /\ \E a \in Free :
          asset' = [asset EXCEPT ![a] = [NoRow EXCEPT !.live = TRUE, !.track = t]]
    /\ UNCHANGED <<files, lrc, lyrics, proc, history, foreign, crashes>>

PutsFile(name) ==
    /\ foreign < MaxForeign                                 \* bound: MaxForeign
    /\ foreign' = foreign + 1
    /\ files[name] = None
    /\ files' = [files EXCEPT ![name] = Foreign]
    /\ mixed' = IF Mixes(name, NoName) THEN mixed \cup {Stem(name)} ELSE mixed
    /\ UNCHANGED <<lrc, asset, lyrics, proc, torn, starts, crashes>>

-----------------------------------------------------------------------------
(* run_pipeline_core, for a worker or for replace_track_media *)

Claim(q, a) ==
    /\ At(q, "idle") /\ Begins
    /\ asset[a].live /\ asset[a].state = "QUEUED"
    /\ asset' = [asset EXCEPT ![a].state = "DOWNLOADING"]
    /\ proc' = [proc EXCEPT ![q] = [IdleTask EXCEPT !.pc = "mux", !.aid = a,
                                                       !.track = asset[a].track]]
    /\ UNCHANGED <<files, lrc, lyrics, history, foreign, crashes>>

\* The old row is read here and not again.
ReplaceBegin(q, a) ==
    /\ At(q, "idle") /\ Begins
    /\ asset[a].live /\ asset[a].state = "AVAILABLE" /\ asset[a].track # None
    /\ ~asset[a].pending
    /\ \E new \in Free :
          /\ asset' = [asset EXCEPT ![new] = [NoRow EXCEPT
                          !.live = TRUE, !.track = asset[a].track,
                          !.state = "DOWNLOADING", !.pending = TRUE]]
          /\ proc' = [proc EXCEPT ![q] = [IdleTask EXCEPT
                          !.pc = "mux", !.aid = new, !.track = asset[a].track,
                          !.old = a, !.was = asset[a]]]
    /\ UNCHANGED <<files, lrc, lyrics, history, foreign, crashes>>

\* download_streams, mux_media, probe_media and _validate_probe (see
\* AcquisitionRules): streams in the work directory, muxed into a container.
Mux(q) ==
    /\ At(q, "mux")
    /\ \E ext \in Containers :
          proc' = [proc EXCEPT ![q].pc = "lyrics", ![q].ext = ext]
    /\ UNCHANGED <<files, lrc, asset, lyrics, history, counters>>

\* get_or_fetch_lyrics, as far as the cached answer, which a MISSING row is until
\* negative_cache_until; lyrics_enabled may be off, and the row without a track.
ReadLyrics(q) ==
    /\ At(q, "lyrics")
    /\ asset[proc[q].aid].live
    /\ \/ Goes(q, "import")
       \/ /\ proc[q].track # None
          /\ LET kind == lyrics[proc[q].track]
             IN  \/ proc' = [proc EXCEPT ![q].pc = "import", ![q].words = kind = "found"]
                 \/ /\ kind # "found"
                    /\ proc' = [proc EXCEPT ![q].pc = "store", ![q].kind = kind]
    /\ UNCHANGED <<files, lrc, asset, lyrics, history, counters>>

\* After LRCLIB's answer, or its failure, which counts as a miss.
StoreLyrics(q) ==
    /\ At(q, "store")
    /\ asset[proc[q].aid].live
    /\ ~(proc[q].kind = "none" /\ lyrics[proc[q].track] # "none")
    /\ \E hit \in BOOLEAN :
          /\ lyrics' = [lyrics EXCEPT ![proc[q].track] = IF hit THEN "found" ELSE "missing"]
          /\ proc' = [proc EXCEPT ![q].pc = "import", ![q].words = hit]
    /\ UNCHANGED <<files, lrc, asset, history, counters>>

\* A second INSERT for the track violates its UNIQUE constraint.  The pipeline
\* catches that, but its session is not rolled back: its next commit raises, and
\* no AcquisitionError.
LyricsPoison(q) ==
    /\ At(q, "store")
    /\ asset[proc[q].aid].live
    /\ proc[q].kind = "none" /\ lyrics[proc[q].track] # "none"
    /\ Ends(q)
    /\ UNCHANGED <<files, lrc, asset, lyrics, history, counters>>

\* An AcquisitionError: a worker's row is kept ...
Fail(q) ==
    /\ proc[q].pc \in {"mux", "import"} /\ proc[q].old = None
    /\ asset' = IF asset[proc[q].aid].live
                THEN [asset EXCEPT ![proc[q].aid].state = "FAILED"] ELSE asset
    /\ Ends(q)
    /\ UNCHANGED <<files, lrc, lyrics, history, counters>>

\* ... and that of a replacement is dropped.
ReplaceFails(q) ==
    /\ proc[q].pc \in {"mux", "import"} /\ proc[q].old # None
    /\ asset' = [asset EXCEPT ![proc[q].aid] = NoRow]
    /\ torn' = torn \cup ({asset[proc[q].aid].path} \ {NoName})
    /\ Ends(q)
    /\ UNCHANGED <<files, lrc, lyrics, mixed, counters>>

\* MUTANT: the names in the folder are not looked at.
RenderOnly(q) ==
    {[base |-> BaseOf[proc[q].track], n |-> 1, ext |-> proc[q].ext]}

\* MUTANT: the suffixes are counted from 0.
FreeNamesFromZero(q) ==
    LET name(n) == [base |-> BaseOf[proc[q].track], n |-> n - 1, ext |-> proc[q].ext]
    IN  {name(n) : n \in {m \in Numbers : /\ name(m) \notin Videos
                                          /\ \A k \in Numbers : k < m => name(k) \in Videos}}

\* render_filename, then disambiguate_filename against the names in the folder.
FreeNames(q) ==
    LET name(n) == [base |-> BaseOf[proc[q].track], n |-> n, ext |-> proc[q].ext]
    IN  {name(n) : n \in {m \in Numbers : /\ name(m) \notin Videos
                                          /\ \A k \in Numbers : k < m => name(k) \in Videos}}

\* _import_asset: the file is moved, the row not yet committed.
Import(q) ==
    /\ At(q, "import")
    /\ asset[proc[q].aid].live
    /\ \E name \in FreeNames(q) :
          /\ files' = [files EXCEPT ![name] = proc[q].aid]
          /\ mixed' = IF Mixes(name, NoName) THEN mixed \cup {Stem(name)} ELSE mixed
          /\ proc' = [proc EXCEPT ![q].pc = "commit", ![q].name = name]
    /\ UNCHANGED <<lrc, asset, lyrics, torn, counters>>

\* The commit, and at once the sidecar; a write that fails is only logged.
ImportCommit(q) ==
    LET a    == proc[q].aid
        name == proc[q].name
    IN  /\ At(q, "commit")
        /\ asset[a].live
        /\ asset' = [asset EXCEPT ![a].state = "AVAILABLE", ![a].path = name]
        /\ torn' = IF \/ Named(name) \/ files[name] # a \/ asset[a].path # NoName
                      \/ asset[a].track # proc[q].track \/ asset[a].state # "DOWNLOADING"
                   THEN torn \cup ({name, asset[a].path} \ {NoName}) ELSE torn
        /\ \E written \in {proc[q].words, FALSE} :
              lrc' = IF written THEN [lrc EXCEPT ![Stem(name)] = proc[q].track] ELSE lrc
        /\ IF proc[q].old = None THEN Ends(q) ELSE Goes(q, "swap")
        /\ UNCHANGED <<files, lyrics, mixed, counters>>

\* The row is gone, and the session's UPDATE finds nothing.
RowGone(q) ==
    /\ proc[q].pc \in {"lyrics", "store", "import", "commit", "swap", "moved"}
    /\ ~asset[IF At(q, "swap") THEN proc[q].old ELSE proc[q].aid].live
    /\ torn' = IF proc[q].pc \in {"commit", "moved"} THEN torn \cup {proc[q].name} ELSE torn
    /\ Ends(q)
    /\ UNCHANGED <<files, lrc, asset, lyrics, mixed, counters>>

\* The references and the track move to the new row.
Swap(q) ==
    LET p == proc[q]
    IN  /\ At(q, "swap")
        /\ asset[p.old].live
        /\ asset' = [asset EXCEPT
                        ![p.old].track = None, ![p.aid].pending = FALSE]
        /\ proc' = [proc EXCEPT ![q] = [IdleTask EXCEPT
                        !.pc = "unlink", !.aid = p.old, !.was = p.was]]
        /\ UNCHANGED <<files, lrc, lyrics, history, counters>>

-----------------------------------------------------------------------------
(* delete_media_asset_if_eligible *)

\* A playlist sync that dropped the last reference has the row in its session.
DeleteBegin(q, a) ==
    /\ At(q, "idle") /\ Begins
    /\ asset[a].live /\ ~asset[a].pending
    /\ proc' = [proc EXCEPT ![q] = [IdleTask EXCEPT
                    !.pc = "unlink", !.aid = a, !.was = asset[a]]]
    /\ UNCHANGED <<files, lrc, asset, lyrics, history, foreign, crashes>>

\* MUTANT: the sidecar is left where it is.
UnlinkVideoOnly(q) ==
    LET path == proc[q].was.path
    IN  /\ At(q, "unlink")
        /\ files' = IF path = NoName THEN files ELSE [files EXCEPT ![path] = None]
        /\ Goes(q, "drop")
        /\ UNCHANGED <<lrc, asset, lyrics, history, counters>>

\* Referenced again: nothing happens.  Else the file at the path read with the
\* row is unlinked, with the sidecar beside it.
Unlink(q) ==
    LET a    == proc[q].aid
        path == proc[q].was.path
    IN  /\ At(q, "unlink")
        /\ \/ /\ Ends(q)
              /\ UNCHANGED <<files, lrc, torn>>
           \/ /\ Goes(q, "drop")
              /\ files' = IF path = NoName THEN files ELSE [files EXCEPT ![path] = None]
              /\ lrc' = IF path = NoName THEN lrc ELSE [lrc EXCEPT ![Stem(path)] = None]
              /\ torn' = IF asset[a].path # path
                         THEN torn \cup ({path, asset[a].path} \ {NoName}) ELSE torn
        /\ UNCHANGED <<asset, lyrics, mixed, counters>>

Drop(q) ==
    /\ At(q, "drop")
    /\ asset' = [asset EXCEPT ![proc[q].aid] = NoRow]
    /\ torn' = IF \/ asset[proc[q].aid].path # proc[q].was.path
                  \/ asset[proc[q].aid].path \in Videos
               THEN torn \cup ({asset[proc[q].aid].path} \ {NoName}) ELSE torn
    /\ Ends(q)
    /\ UNCHANGED <<files, lrc, lyrics, mixed, counters>>

-----------------------------------------------------------------------------
(* organize_media_asset *)

OrganizeBegin(q, a) ==
    /\ At(q, "idle") /\ Begins
    /\ asset[a].live /\ asset[a].path \in Videos /\ asset[a].track # None
    /\ proc' = [proc EXCEPT ![q] = [IdleTask EXCEPT
                    !.pc = "move", !.aid = a, !.was = asset[a]]]
    /\ UNCHANGED <<files, lrc, asset, lyrics, history, foreign, crashes>>

Rendered(q) ==
    [base |-> BaseOf[proc[q].was.track], n |-> 1, ext |-> proc[q].was.path.ext]

\* Nothing to do, something at the destination, or the file is gone.
OrganizeRefused(q) ==
    /\ At(q, "move")
    /\ Rendered(q) \in Videos \/ proc[q].was.path \notin Videos
    /\ Ends(q)
    /\ UNCHANGED <<files, lrc, asset, lyrics, history, counters>>

\* Another operation has acted on the file's stem, or has the file in hand, so
\* what moves with it may be another's.
Tainted(name) ==
    \/ \E n \in torn : Stem(n) = Stem(name)
    \/ \E q \in Procs : At(q, "moved") /\ proc[q].name = name

Moved(q, from, to, sidecars) ==
    /\ files' = [files EXCEPT ![to] = files[from], ![from] = None]
    /\ lrc' = sidecars
    /\ mixed' = IF Mixes(to, from) THEN mixed \cup {Stem(to)} ELSE mixed
    /\ torn' = IF asset[proc[q].aid] # proc[q].was \/ Tainted(from)
               THEN torn \cup {from, to} ELSE torn
    /\ proc' = [proc EXCEPT ![q].pc = "moved", ![q].name = to]
    /\ UNCHANGED <<asset, lyrics, counters>>

\* MUTANT: the sidecar keeps its name.
MoveVideoOnly(q) ==
    /\ At(q, "move")
    /\ Rendered(q) \notin Videos /\ proc[q].was.path \in Videos
    /\ Moved(q, proc[q].was.path, Rendered(q), lrc)

\* The video, and its sidecar if there is one, over whatever is at its name.
Move(q) ==
    LET from == proc[q].was.path
        to   == Rendered(q)
    IN  /\ At(q, "move")
        /\ to \notin Videos /\ from \in Videos
        /\ Moved(q, from, to,
                 IF lrc[Stem(from)] = None \/ Stem(from) = Stem(to) THEN lrc
                 ELSE [lrc EXCEPT ![Stem(to)] = lrc[Stem(from)], ![Stem(from)] = None])

\* MUTANT: local_path is not set.
OrganizeKeepsPath(q) ==
    /\ At(q, "moved")
    /\ asset[proc[q].aid].live
    /\ Ends(q)
    /\ UNCHANGED <<files, lrc, asset, lyrics, history, counters>>

OrganizeCommit(q) ==
    LET a == proc[q].aid
    IN  /\ At(q, "moved")
        /\ asset[a].live
        /\ asset' = [asset EXCEPT ![a].path = proc[q].name]
        /\ torn' = IF \/ Named(proc[q].name) \/ asset[a] # proc[q].was
                      \/ proc[q].name \notin Videos \/ asset[a].path \in Videos
                   THEN torn \cup ({proc[q].name, proc[q].was.path, asset[a].path} \ {NoName})
                   ELSE torn
        /\ Ends(q)
        /\ UNCHANGED <<files, lrc, lyrics, mixed, counters>>

-----------------------------------------------------------------------------
(* scan_library *)

ScanBegin(q) ==
    /\ At(q, "idle") /\ Begins
    /\ proc' = [proc EXCEPT ![q] = [IdleTask EXCEPT
                    !.pc = "walk",
                    !.known = {asset[a].path : a \in {b \in Live : asset[b].path # NoName}}]]
    /\ UNCHANGED <<files, lrc, asset, lyrics, history, foreign, crashes>>

\* MUTANT: known_paths is not looked at.
WalkAll(q) ==
    /\ At(q, "walk")
    /\ \E names \in SUBSET Videos :
       \E match \in [names -> Tracks \cup {None}] :
          proc' = [proc EXCEPT ![q].pc = "add",
                      ![q].found = {[path |-> n, track |-> match[n]] : n \in names}]
    /\ UNCHANGED <<files, lrc, asset, lyrics, history, counters>>

\* What _best_match makes of a file the rows did not name, by its tags or its
\* name: no signal, a track for certain, or a review without one.
Walk(q) ==
    /\ At(q, "walk")
    /\ \E names \in SUBSET (Videos \ proc[q].known) :
       \E match \in [names -> Tracks \cup {None}] :
          proc' = [proc EXCEPT ![q].pc = "add",
                      ![q].found = {[path |-> n, track |-> match[n]] : n \in names}]
    /\ UNCHANGED <<files, lrc, asset, lyrics, history, counters>>

\* The rows, AVAILABLE or for review, in one commit.
ScanCommit(q) ==
    /\ At(q, "add")
    /\ \E ids \in [proc[q].found -> Unused] :
          /\ \A x, y \in proc[q].found : ids[x] = ids[y] => x = y
          /\ asset' = [a \in Assets |->
                IF \E x \in proc[q].found : ids[x] = a
                THEN LET x == CHOOSE y \in proc[q].found : ids[y] = a
                     IN  [NoRow EXCEPT !.live = TRUE, !.track = x.track, !.path = x.path,
                              !.state = IF x.track = None THEN "REVIEW" ELSE "AVAILABLE"]
                ELSE asset[a]]
    /\ torn' = torn \cup {x.path : x \in {y \in proc[q].found :
                  y.path \notin Videos \/ (Named(y.path) /\ y.path \notin proc[q].known)}}
    /\ Ends(q)
    /\ UNCHANGED <<files, lrc, lyrics, mixed, counters>>

-----------------------------------------------------------------------------
\* The process stops; at its next start what was in flight is queued again, and
\* an unfinished replacement is deleted, with its file if it has one.
Restart ==
    /\ crashes < MaxCrashes                                 \* bound: MaxCrashes
    /\ crashes' = crashes + 1
    /\ LET undone == {asset[a].path : a \in {b \in Live : asset[b].pending}} \ {NoName}
       IN  /\ files' = [n \in Names |-> IF n \in undone THEN None ELSE files[n]]
           /\ lrc' = [s \in Stems |-> IF \E n \in undone : Stem(n) = s THEN None ELSE lrc[s]]
    /\ asset' = [a \in Assets |->
          IF asset[a].pending THEN NoRow
          ELSE IF asset[a].state = "DOWNLOADING" THEN [asset[a] EXCEPT !.state = "QUEUED"]
          ELSE asset[a]]
    /\ torn' = torn \cup UNION {{proc[q].name, proc[q].was.path} \ {NoName} :
                                q \in {r \in Procs : proc[r].pc \in {"moved", "drop"}}}
    /\ proc' = [q \in Procs |-> IdleTask]
    /\ UNCHANGED <<lyrics, mixed, starts, foreign>>

-----------------------------------------------------------------------------
External ==
    \/ \E t \in Tracks : Queue(t)
    \/ \E name \in Names : PutsFile(name)

Begin(q) ==
    \/ \E a \in Assets : Claim(q, a) \/ ReplaceBegin(q, a) \/ DeleteBegin(q, a)
                            \/ OrganizeBegin(q, a)
    \/ ScanBegin(q)

Pipeline(q) ==
    \/ Mux(q) \/ ReadLyrics(q) \/ StoreLyrics(q) \/ LyricsPoison(q) \/ Fail(q)
    \/ ReplaceFails(q)
    \/ Import(q) \/ ImportCommit(q) \/ Swap(q)

FileStep(q) ==
    \/ Unlink(q) \/ Drop(q) \/ OrganizeRefused(q) \/ Move(q) \/ OrganizeCommit(q)
    \/ Walk(q) \/ ScanCommit(q) \/ RowGone(q)

Next ==
    \/ External \/ Restart
    \/ \E q \in Procs : Begin(q) \/ Pipeline(q) \/ FileStep(q)

Spec == Init /\ [][Next]_vars

-----------------------------------------------------------------------------
(* Safety *)

\* The row's file has been unlinked, or moved, and the commit is to come.
InHand(a) == \E q \in Procs : proc[q].aid = a /\ proc[q].pc \in {"drop", "moved"}

\* A row that names a file names one that is there, through imports, renames,
\* replacements, deletions, scans and stops, unless an operation acted on a row
\* that had changed.
RowsHaveFiles ==
    \A a \in Live : asset[a].path \in Names \ torn /\ ~InHand(a)
                     => asset[a].path \in Videos

\* No two rows name one file: scan_library is idempotent, and a file whose
\* import is not yet committed is all it can adopt a second time.
OneRowPerFile ==
    \A a, b \in Live : a # b /\ asset[a].path = asset[b].path
                        => asset[a].path \in torn \cup {NoName}

\* A sidecar lies beside a video: none is orphaned by a rename, a replacement or
\* a deletion (the comment in organize_media_asset).
SidecarsFollow ==
    \A s \in Stems : lrc[s] # None
       => \E n \in Names : Stem(n) = s /\ n \in Videos \cup torn

\* Beside the video of a track lie its own lyrics or none, where no other
\* container has had the same stem (disambiguate_filename tells "x.mp4" from
\* "x.mkv", sidecar_path_for does not), and no rename has the video in hand.
OwnLyrics ==
    \A a \in Live : /\ asset[a].state = "AVAILABLE" /\ asset[a].track # None
                   /\ asset[a].path \in Videos
                   /\ Stem(asset[a].path) \notin mixed /\ ~Tainted(asset[a].path)
                   => lrc[Stem(asset[a].path)] \in {asset[a].track, None}

\* The folder is what the rows say, videos and sidecars.
FolderMatchesRows == RowsHaveFiles /\ OneRowPerFile /\ SidecarsFollow /\ OwnLyrics

-----------------------------------------------------------------------------
(* Action properties *)

\* A video leaves the folder only when the row that names it is deleted: no
\* import, rename or scan overwrites one.
VideosAreKept ==
    [][\A n \in Videos : files'[n] # files[n] /\ n \notin torn'
          => \/ \E m \in Names \ Videos : files'[m] = files[n]
             \/ \E q \in Procs : At(q, "unlink") /\ asset[proc[q].aid].path = n
             \/ \E a \in Live : asset[a].pending /\ asset[a].path = n]_vars

-----------------------------------------------------------------------------
(* What the source promises and the code does not keep *)

\* services/acquisition.py:334, of the lyrics lookup: "Never allowed to fail or
\* block the import".
LyricsNeverFail ==
    \A a \in Live : asset[a].state = "DOWNLOADING" => \E q \in Procs : proc[q].aid = a
=============================================================================
