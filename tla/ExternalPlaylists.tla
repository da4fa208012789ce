-------------------------- MODULE ExternalPlaylists --------------------------
(***************************************************************************)
(* The playlist Groovarr keeps on a media server for one Spotify playlist: *)
(* services/external_playlists.py with the Jellyfin and Plex clients it    *)
(* calls, and the endpoints of api/playlists.py that configure it.         *)
(*                                                                         *)
(* One row of external_playlists on one server: rows are looked up by      *)
(* (platform, playlist), which is unique, and do not touch each other.     *)
(* Every HTTP call is a step of its own; what the code does between two    *)
(* calls, its commit included, belongs to the call before it.              *)
(***************************************************************************)
EXTENDS Naturals, FiniteSets, SequencesExt

CONSTANTS
    Platforms,      \* the servers to look at: "jellyfin", "plex"
    Remaps,         \* whether the server mounts the media folder elsewhere
    Items,          \* media assets listed by the playlist
    Lists,          \* the sequences of assets the Spotify playlist may be
    Names,          \* names of the playlist
    Ids,            \* playlist ids the server hands out, 1 .. n; a bound
    Procs,          \* tasks that may sync at once
    PollAttempts,   \* _JELLYFIN_SCAN_POLL_ATTEMPTS, 6 in the code
    MaxEdits,       \* bound on edits, imports and configuration changes
    MaxForeign,     \* bound on the playlists the server's user makes
    Deletes,        \* whether the server's user deletes playlists
    MaxFaults,      \* bound on failing calls, deletions by the user and stops together
    MaxCrashes      \* bound on the stops among them

NoId == 0
Never == "never"    \* last_synced_name and last_synced_snapshot are NULL
NoProc == "none"

ASSUME ExternalAssumption ==
    /\ Platforms \subseteq {"jellyfin", "plex"}
    /\ Remaps \subseteq BOOLEAN
    /\ Lists \subseteq Seq(Items)
    /\ Names # {} /\ Never \notin Names
    /\ Ids \subseteq Nat \ {NoId} /\ IsFiniteSet(Ids)
    /\ NoProc \notin Procs
    /\ Deletes \in BOOLEAN
    /\ PollAttempts \in Nat \ {0}
    /\ MaxEdits \in Nat /\ MaxForeign \in Nat
    /\ MaxFaults \in Nat /\ MaxCrashes \in Nat

VARIABLES
    \* --- settings, and the rest of the database ---
    platform,       \* the server this row is about
    remapped,       \* jellyfin_media_path or plex_media_path is set
    entries,        \* the playlist's assets in order, those without a file left out
    name,           \* the name override, or the playlist's name
    enabled,        \* jellyfin_enabled or plex_enabled of the playlist
    row,            \* the ExternalPlaylist row
    status,         \* jellyfin_sync_status or plex_sync_status of each asset
    \* --- the media server ---
    server,         \* its playlists
    indexed,        \* the assets whose file it has found
    \* --- the process ---
    proc,
    writer,         \* the task whose uncommitted INSERT holds the write lock
    \* --- history ---
    own,            \* the ids of playlists Groovarr created
    edits, foreign, faults, crashes

settings == <<platform, remapped>>
wanted   == <<entries, name, enabled>>
remote   == <<server, indexed>>
bounds   == <<edits, foreign, faults, crashes>>
vars     == <<settings, wanted, row, status, remote, proc, writer, own, bounds>>

-----------------------------------------------------------------------------
NoRow == [live |-> FALSE]

\* snap stands for the digest of the ids: it is the list itself.
Row == [live: {TRUE}, ext: Ids \cup {NoId}, name: Names \cup {Never}, adopted: BOOLEAN,
        state: {"pending", "synced", "failed", "needs_resolution"},
        snap: Seq(Items) \cup {<<Never>>}, dups: Nat]

NewRow == [live |-> TRUE, ext |-> NoId, name |-> Never, adopted |-> FALSE,
           state |-> "pending", snap |-> <<Never>>, dups |-> 0]

NoPlaylist == [on |-> FALSE]
Playlist == [on: {TRUE}, name: Names, items: Seq(Items)]

\* loaded: the row as the session read it; ids, as: ordered_ids and desired_name;
\* made: the id of the playlist it created; item: the asset it was called for.
Task == [pc: {"idle", "refresh", "poll", "find", "begin", "resolve", "list",
              "rename", "delete", "create", "count", "save"},
         loaded: Row, ids: Seq(Items), as: Names \cup {Never},
         made: Ids \cup {NoId}, dups: Nat, item: SUBSET Items, polls: 0 .. PollAttempts - 1]

IdleTask == [pc |-> "idle", loaded |-> NewRow, ids |-> <<>>, as |-> Never,
             made |-> NoId, dups |-> 0, item |-> {}, polls |-> 0]

TypeOK ==
    /\ platform \in Platforms /\ remapped \in Remaps
    /\ entries \in Lists /\ name \in Names /\ enabled \in BOOLEAN
    /\ row \in Row \cup {NoRow}
    /\ status \in [Items -> {"none", "pending_sync", "synced", "failed_sync"}]
    /\ server \in [Ids -> Playlist \cup {NoPlaylist}]
    /\ indexed \subseteq Items
    /\ proc \in [Procs -> Task]
    /\ writer \in Procs \cup {NoProc}
    /\ own \subseteq Ids
    /\ edits \in Nat /\ foreign \in Nat /\ faults \in Nat /\ crashes \in Nat

\* One name is as good as another to start with.
Init ==
    /\ platform \in Platforms /\ remapped \in Remaps
    /\ entries \in Lists /\ name = (CHOOSE n \in Names : TRUE) /\ enabled = TRUE
    /\ row = NoRow
    /\ status = [i \in Items |-> "none"]
    /\ server = [d \in Ids |-> NoPlaylist]
    /\ indexed = {}
    /\ proc = [p \in Procs |-> IdleTask]
    /\ writer = NoProc
    /\ own = {}
    /\ edits = 0 /\ foreign = 0 /\ faults = 0 /\ crashes = 0

-----------------------------------------------------------------------------
At(p, pc) == proc[p].pc = pc
Goto(p, pc) == proc' = [proc EXCEPT ![p].pc = pc]

Exists(d) == server[d].on
\* Ids are handed out in order and never again.
Free == {d \in Ids : d = foreign + Cardinality(own) + 1}

Awaiting(r) == r.live /\ r.state = "needs_resolution" /\ ~r.adopted

\* find_item_by_path gets the path as Groovarr sees it, so it finds nothing on
\* a server that mounts the folder elsewhere; search_section gets Plex's path.
Findable == IF platform = "jellyfin" /\ remapped THEN {} ELSE indexed

\* The entries at some places of a list, in their order.
Kept(list, places) ==
    LET upTo[n \in 0 .. Len(list)] ==
           IF n = 0 THEN <<>>
           ELSE IF n \in places THEN Append(upTo[n - 1], list[n]) ELSE upTo[n - 1]
    IN  upTo[Len(list)]

\* _resolve_ordered_items: order and duplicates kept, undiscovered ones omitted.
ResolveOrderedItems(list) == Kept(list, {i \in DOMAIN list : list[i] \in Findable})

\* Plex drops repeated items of a playlist, Jellyfin keeps them.
Dedup(list) == Kept(list, {i \in DOMAIN list : \A j \in 1 .. i - 1 : list[j] # list[i]})
Stored(list) == IF platform = "plex" THEN Dedup(list) ELSE list

\* The commit of a session writes the columns it changed, and no others.
Merged(old, new) ==
    IF ~row.live THEN new
    ELSE [c \in DOMAIN new |-> IF new[c] # old[c] THEN new[c] ELSE row[c]]

\* The sync ends with a commit: the task's row becomes new.
Commit(p, new) ==
    /\ row' = Merged(proc[p].loaded, new)
    /\ writer' = IF writer = p THEN NoProc ELSE writer
    /\ proc' = [proc EXCEPT ![p] = IdleTask]

-----------------------------------------------------------------------------
\* The world around: the settings and the files, the server and its user.  No sync
\* follows an edit: a name or a switch is written down, a file goes, or it comes
\* where no connection listens for imports.
Edit ==
    /\ edits < MaxEdits /\ writer = NoProc
    /\ edits' = edits + 1
    /\ \/ \E l \in Lists \ {entries} : entries' = l /\ UNCHANGED <<name, enabled>>
       \/ \E n \in Names \ {name} : name' = n /\ UNCHANGED <<entries, enabled>>
       \/ enabled' = ~enabled /\ UNCHANGED <<entries, name>>
    /\ UNCHANGED <<settings, row, status, remote, proc, writer, own, foreign, faults, crashes>>

\* A scan of the server's library finds a file, or a file it had goes.
Rescan(i) ==
    /\ edits < MaxEdits
    /\ edits' = edits + 1
    /\ indexed' = IF i \in indexed THEN indexed \ {i} ELSE indexed \cup {i}
    /\ UNCHANGED <<settings, wanted, row, status, server, proc, writer, own,
                   foreign, faults, crashes>>

UserCreates(n) ==
    /\ foreign < MaxForeign
    /\ foreign' = foreign + 1
    /\ \E d \in Free : server' = [server EXCEPT ![d] = [on |-> TRUE, name |-> n, items |-> <<>>]]
    /\ UNCHANGED <<settings, wanted, row, status, indexed, proc, writer, own,
                   edits, faults, crashes>>

CanFail == faults + crashes < MaxFaults

UserDeletes(d) ==
    /\ Deletes /\ CanFail /\ Exists(d)
    /\ faults' = faults + 1
    /\ server' = [server EXCEPT ![d] = NoPlaylist]
    /\ UNCHANGED <<settings, wanted, row, status, indexed, proc, writer, own,
                   edits, foreign, crashes>>

-----------------------------------------------------------------------------
\* After its import, which an asset has once: refresh the library, wait for the
\* scan, look the file up, then rebuild the playlists that list the asset.
AssetSync(p, i) ==
    /\ At(p, "idle") /\ enabled /\ Contains(entries, i) /\ status[i] = "none"
    /\ proc' = [proc EXCEPT ![p] = [IdleTask EXCEPT !.pc = "refresh", !.item = {i}]]
    /\ UNCHANGED <<settings, wanted, row, status, remote, writer, own, bounds>>

Refresh(p) ==
    /\ At(p, "refresh")
    /\ Goto(p, IF platform = "jellyfin" THEN "poll" ELSE "find")
    /\ UNCHANGED <<settings, wanted, row, status, remote, writer, own, bounds>>

SetStatus(p, s) ==
    /\ writer = NoProc
    /\ status' = [i \in Items |-> IF i \in proc[p].item THEN s ELSE status[i]]

\* The scan is idle, or still runs; after PollAttempts answers it gives up.
PollIdle(p) ==
    /\ At(p, "poll")
    /\ Goto(p, "find")
    /\ UNCHANGED <<settings, wanted, row, status, remote, writer, own, bounds>>

\* MUTANT: one answer too many is waited for.
PollRunningLonger(p) ==
    /\ At(p, "poll")
    /\ IF proc[p].polls < PollAttempts
       THEN proc' = [proc EXCEPT ![p].polls = @ + 1] /\ UNCHANGED status
       ELSE proc' = [proc EXCEPT ![p] = IdleTask] /\ SetStatus(p, "pending_sync")
    /\ UNCHANGED <<settings, wanted, row, remote, writer, own, bounds>>

PollRunning(p) ==
    /\ At(p, "poll")
    /\ IF proc[p].polls + 1 < PollAttempts
       THEN proc' = [proc EXCEPT ![p].polls = @ + 1] /\ UNCHANGED status
       ELSE proc' = [proc EXCEPT ![p] = IdleTask] /\ SetStatus(p, "pending_sync")
    /\ UNCHANGED <<settings, wanted, row, remote, writer, own, bounds>>

\* Both platforms look for the path as the server sees it here.
FindItem(p) ==
    /\ At(p, "find")
    /\ SetStatus(p, IF proc[p].item \subseteq indexed THEN "synced" ELSE "pending_sync")
    /\ proc' = [proc EXCEPT ![p] = [IdleTask EXCEPT !.pc = "begin"]]
    /\ UNCHANGED <<settings, wanted, row, remote, writer, own, bounds>>

-----------------------------------------------------------------------------
\* sync_playlist, of a snapshot that is not the stored one: what Spotify lists, and
\* its name, are committed, and the same task goes on with the servers.  Of the
\* stored snapshot it returns before that.
SpotifySync(p) ==
    /\ At(p, "idle") /\ edits < MaxEdits /\ writer = NoProc
    /\ edits' = edits + 1
    /\ \E l \in Lists, n \in Names : <<l, n>> # <<entries, name>> /\ entries' = l /\ name' = n
    /\ IF enabled THEN Goto(p, "begin") ELSE UNCHANGED proc
    /\ UNCHANGED <<settings, enabled, row, status, remote, writer, own, foreign, faults, crashes>>

\* A sync without a change of the list: POST sync-external and POST sync, and each
\* interval's of Liked Songs, which have no snapshot to skip by.
SyncRequest(p) ==
    /\ At(p, "idle") /\ enabled
    /\ Goto(p, "begin")
    /\ UNCHANGED <<settings, wanted, row, status, remote, writer, own, bounds>>

\* A missing row is inserted and flushed, which takes SQLite's write lock up to
\* the commit; a second task waits and then fails on the unique constraint.
Begin(p) ==
    /\ At(p, "begin") /\ (row.live \/ writer = NoProc)
    /\ IF Awaiting(row)
       THEN proc' = [proc EXCEPT ![p] = IdleTask] /\ UNCHANGED writer
       ELSE /\ proc' = [proc EXCEPT ![p].pc = "resolve", ![p].as = name,
                                    ![p].loaded = IF row.live THEN row ELSE NewRow]
            /\ writer' = IF row.live THEN writer ELSE p
    /\ UNCHANGED <<settings, wanted, row, status, remote, own, bounds>>

\* MUTANT: a new name alone is not a change.
ResolveIgnoringName(p) ==
    LET r == proc[p].loaded
        ids == ResolveOrderedItems(entries)
    IN  /\ At(p, "resolve")
        /\ IF r.ext # NoId /\ (r.snap = ids \/ ids = <<>>)
           THEN Commit(p, [r EXCEPT !.state = "synced"])
           ELSE /\ proc' = [proc EXCEPT ![p].pc = IF r.ext = NoId THEN "list" ELSE "delete",
                                        ![p].ids = ids]
                /\ UNCHANGED <<row, writer>>
        /\ UNCHANGED <<settings, wanted, status, remote, own, bounds>>

\* What follows the resolution without a further call: nothing to do, an empty
\* list on a playlist that exists, or the next call.
Resolve(p) ==
    LET r == proc[p].loaded
        ids == ResolveOrderedItems(entries)
        unchanged == r.ext # NoId /\ r.snap = ids /\ r.name = proc[p].as
        next == IF r.ext = NoId THEN "list" ELSE IF r.name # proc[p].as THEN "rename" ELSE "delete"
    IN  /\ At(p, "resolve")
        /\ IF r.ext # NoId /\ (unchanged \/ ids = <<>>)
           THEN Commit(p, [r EXCEPT !.state = "synced"])
           ELSE /\ proc' = [proc EXCEPT ![p].pc = next, ![p].ids = ids]
                /\ UNCHANGED <<row, writer>>
        /\ UNCHANGED <<settings, wanted, status, remote, own, bounds>>

\* The first sync looks for a playlist of that name before it creates one.
ListNames(p) ==
    LET same == {d \in Ids : Exists(d) /\ server[d].name = proc[p].as}
        r == proc[p].loaded
    IN  /\ At(p, "list")
        /\ \/ \E d \in same : Commit(p, [r EXCEPT !.state = "needs_resolution", !.ext = d])
           \/ same = {} /\ proc[p].ids = <<>> /\ Commit(p, [r EXCEPT !.state = "pending"])
           \/ same = {} /\ proc[p].ids # <<>> /\ Goto(p, "create") /\ UNCHANGED <<row, writer>>
        /\ UNCHANGED <<settings, wanted, status, remote, own, bounds>>

-----------------------------------------------------------------------------
\* What a call does on the server when it succeeds.
ServerRename(d, n) == server' = [server EXCEPT ![d].name = n]
ServerDelete(d) == server' = [server EXCEPT ![d] = NoPlaylist]
ServerCreate(d, n, list) == server' = [server EXCEPT ![d] = [on |-> TRUE, name |-> n, items |-> Stored(list)]]

Target(p) == proc[p].loaded.ext

Rename(p) ==
    /\ At(p, "rename") /\ Exists(Target(p))
    /\ ServerRename(Target(p), proc[p].as)
    /\ Goto(p, "delete")
    /\ UNCHANGED <<settings, wanted, row, status, indexed, writer, own, bounds>>

\* MUTANT: the playlist is created without the old one's removal.
DeleteSkipped(p) ==
    /\ At(p, "delete") /\ Exists(Target(p))
    /\ Goto(p, "create")
    /\ UNCHANGED <<settings, wanted, row, status, remote, writer, own, bounds>>

Delete(p) ==
    /\ At(p, "delete") /\ Exists(Target(p))
    /\ ServerDelete(Target(p))
    /\ Goto(p, "create")
    /\ UNCHANGED <<settings, wanted, row, status, indexed, writer, own, bounds>>

Create(p) ==
    /\ At(p, "create")
    /\ \E d \in Free :
          /\ ServerCreate(d, proc[p].as, proc[p].ids)
          /\ own' = own \cup {d}
          /\ proc' = [proc EXCEPT ![p].made = d,
                                  ![p].pc = IF platform = "plex" THEN "count" ELSE "save"]
    /\ UNCHANGED <<settings, wanted, row, status, indexed, writer, bounds>>

\* Only Plex is asked how many items it kept.
Count(p) ==
    /\ At(p, "count") /\ Exists(proc[p].made)
    /\ proc' = [proc EXCEPT ![p].pc = "save",
                            ![p].dups = Len(proc[p].ids) - Len(server[proc[p].made].items)]
    /\ UNCHANGED <<settings, wanted, row, status, remote, writer, own, bounds>>

\* MUTANT: the id of the playlist that was deleted stays.
SaveKeepsOldId(p) ==
    /\ At(p, "save")
    /\ Commit(p, [proc[p].loaded EXCEPT !.ext = IF @ = NoId THEN proc[p].made ELSE @,
                                        !.name = proc[p].as, !.snap = proc[p].ids,
                                        !.state = "synced", !.dups = proc[p].dups])
    /\ UNCHANGED <<settings, wanted, status, remote, own, bounds>>

Save(p) ==
    /\ At(p, "save")
    /\ Commit(p, [proc[p].loaded EXCEPT !.ext = proc[p].made, !.name = proc[p].as,
                                        !.snap = proc[p].ids, !.state = "synced",
                                        !.dups = proc[p].dups])
    /\ UNCHANGED <<settings, wanted, status, remote, own, bounds>>

-----------------------------------------------------------------------------
\* A call fails: not sent, or done while its answer is lost.
Syncing == {"resolve", "list", "rename", "delete", "create", "count"}

LostAnswer(p) ==
    \/ UNCHANGED <<server, own>>
    \/ At(p, "rename") /\ Exists(Target(p)) /\ ServerRename(Target(p), proc[p].as) /\ UNCHANGED own
    \/ At(p, "delete") /\ Exists(Target(p)) /\ ServerDelete(Target(p)) /\ UNCHANGED own
    \/ At(p, "create") /\ \E d \in Free : /\ ServerCreate(d, proc[p].as, proc[p].ids)
                                          /\ own' = own \cup {d}

\* The row as the except clause finds it: a created id is kept, all else is not.
Failed(p) ==
    [proc[p].loaded EXCEPT !.state = "failed",
                           !.ext = IF At(p, "count") THEN proc[p].made ELSE @]

\* JellyfinError, PlexError, ValueError: FAILED is committed.
CallFails(p) ==
    /\ proc[p].pc \in Syncing /\ CanFail
    /\ faults' = faults + 1
    /\ LostAnswer(p)
    /\ Commit(p, Failed(p))
    /\ UNCHANGED <<settings, wanted, status, indexed, edits, foreign, crashes>>

\* 404 on a playlist that is gone is one of them.
CallNotFound(p) ==
    /\ \/ At(p, "rename") /\ ~Exists(Target(p))
       \/ At(p, "delete") /\ ~Exists(Target(p))
       \/ At(p, "count") /\ ~Exists(proc[p].made)
    /\ Commit(p, Failed(p))
    /\ UNCHANGED <<settings, wanted, status, remote, own, bounds>>

\* Any other status: raise_for_status raises HTTPStatusError, which no clause
\* of this module catches; the session is rolled back.
CallRaises(p) ==
    /\ proc[p].pc \in Syncing \cup {"refresh", "poll", "find"} /\ CanFail
    /\ faults' = faults + 1
    /\ LostAnswer(p)
    /\ proc' = [proc EXCEPT ![p] = IdleTask]
    /\ writer' = IF writer = p THEN NoProc ELSE writer
    /\ UNCHANGED <<settings, wanted, row, status, indexed, edits, foreign, crashes>>

\* A failing call of the asset's own part.
AssetCallFails(p) ==
    /\ proc[p].pc \in {"refresh", "poll", "find"} /\ CanFail
    /\ faults' = faults + 1
    /\ SetStatus(p, "failed_sync")
    /\ proc' = [proc EXCEPT ![p] = IdleTask]
    /\ UNCHANGED <<settings, wanted, row, remote, writer, own, edits, foreign, crashes>>

Crash ==
    /\ CanFail /\ crashes < MaxCrashes
    /\ crashes' = crashes + 1
    /\ proc' = [p \in Procs |-> IdleTask]
    /\ writer' = NoProc
    /\ UNCHANGED <<settings, wanted, row, status, remote, own, edits, foreign, faults>>

-----------------------------------------------------------------------------
\* The operator's answer to a collision; one transaction.
Adopt ==
    /\ row.live /\ row.state = "needs_resolution"
    /\ row' = [row EXCEPT !.adopted = TRUE, !.state = "pending"]
    /\ UNCHANGED <<settings, wanted, status, remote, proc, writer, own, bounds>>

\* MUTANT: the id of the other playlist stays.
CancelKeepsId ==
    /\ row.live /\ row.state = "needs_resolution"
    /\ row' = [row EXCEPT !.adopted = FALSE, !.state = "pending"]
    /\ UNCHANGED <<settings, wanted, status, remote, proc, writer, own, bounds>>

Cancel ==
    /\ row.live /\ row.state = "needs_resolution"
    /\ row' = [row EXCEPT !.ext = NoId, !.adopted = FALSE, !.state = "pending"]
    /\ UNCHANGED <<settings, wanted, status, remote, proc, writer, own, bounds>>

Step(p) ==
    \/ Refresh(p) \/ PollIdle(p) \/ PollRunning(p) \/ FindItem(p)
    \/ Begin(p) \/ Resolve(p) \/ ListNames(p) \/ Rename(p) \/ Delete(p)
    \/ Create(p) \/ Count(p) \/ Save(p) \/ CallNotFound(p)

Next ==
    \/ Edit \/ (\E i \in Items : Rescan(i))
    \/ (\E n \in Names : UserCreates(n)) \/ (\E d \in Ids : UserDeletes(d))
    \/ \E p \in Procs : \/ SpotifySync(p) \/ SyncRequest(p) \/ (\E i \in Items : AssetSync(p, i)) \/ Step(p)
                        \/ CallFails(p) \/ CallRaises(p) \/ AssetCallFails(p)
    \/ Crash \/ Adopt \/ Cancel

Spec == Init /\ [][Next]_vars

\* A task's calls are answered, one way or another.  Nobody has to ask for a sync.
FairSpec == Spec /\ \A p \in Procs : WF_vars(Step(p))

\* Liked Songs are synced in full at every interval of the scheduler, whatever the
\* imports ask for meanwhile (requests do not queue behind each other, the model's
\* tasks do).
LikedSpec == FairSpec /\ \A p \in Procs : SF_vars(SyncRequest(p))

-----------------------------------------------------------------------------
\* A playlist Groovarr did not create is renamed or deleted by it only after
\* the operator adopted it: resolve_playlist_collision and the guard at the
\* top of sync_external_playlist. UserDeletes leaves the tasks as they are.
ForeignNeedsConsent ==
    [][\A d \in Ids \ own : Exists(d) /\ server'[d] # server[d] /\ proc' # proc
          => row.live /\ row.adopted /\ row.ext = d]_vars

AllIdle == \A p \in Procs : At(p, "idle")

Orphans == {d \in own : Exists(d) /\ ~(row.live /\ row.ext = d)}

\* Every playlist Groovarr made and lost track of is the work of a fault: a
\* lost answer, a rolled back session or a crash leave one each, at most.
OrphansAreFaults == AllIdle => Cardinality(Orphans) <= faults + crashes

\* As long as no call failed, what a SYNCED row says was written is what the
\* server holds, duplicates Plex collapsed included: delete and create, the
\* rename before them and the snapshot that makes later syncs skip.
SyncedIsServed ==
    faults + crashes = 0 /\ AllIdle /\ row.live /\ row.state = "synced" /\ row.snap # <<Never>> =>
        /\ Exists(row.ext)
        /\ server[row.ext] = [on |-> TRUE, name |-> row.name, items |-> Stored(row.snap)]
        /\ row.dups = Len(row.snap) - Len(server[row.ext].items)

\* What Groovarr knows of the server is what is there, but for the failures.
ServerIsKnown == OrphansAreFaults /\ SyncedIsServed

Blind == platform = "jellyfin" /\ remapped
Mirrored ==
    \/ ~enabled \/ Awaiting(row) \/ ResolveOrderedItems(entries) = <<>>
    \/ /\ row.live /\ row.ext # NoId
       /\ server[row.ext] = [on |-> TRUE, name |-> name,
                             items |-> Stored(ResolveOrderedItems(entries))]

\* A sync of what was asked for up to the n-th edit is on its way.
Asked(n) == edits = n /\ \E p \in Procs : At(p, "begin")

\* As long as no call fails, a sync that begins, at the end of a Spotify sync above
\* all, ends with what is listed on the server, under the name chosen, unless it is
\* changed again meanwhile or a collision waits for the operator.
AskedIsMirrored ==
    [](faults + crashes = 0) =>
       \A n \in 0 .. MaxEdits : Asked(n) ~> (Mirrored \/ edits # n)

SyncedAtIntervals == \A p \in Procs : []<><<SyncRequest(p)>>_vars

\* Where there is a sync at every interval, what no sync follows is mirrored too:
\* an edit of the operator's, a file the server finds or loses.
LikedIsMirrored == [](faults + crashes = 0) /\ SyncedAtIntervals => []<>Mirrored

\* The server comes to hold what a sync was asked for, and no change of the list or
\* of the name is lost on a playlist that is synced again and again.
Mirrors == AskedIsMirrored /\ LikedIsMirrored

-----------------------------------------------------------------------------
\* What the source promises and the code does not keep.

\* "recreation trivially handles adds/removes/reorders/duplicate-preservation
\* correctly every time" (external_playlists.py:27-28): also when the failures
\* are over, a playlist that is synced at every interval comes to be on the server.
Repairs == []<>Mirrored
=============================================================================
