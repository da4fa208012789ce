------------------------ MODULE MediaReferencesProofs ------------------------
(***************************************************************************)
(* Theorems of MediaReferences.                                            *)
(*                                                                         *)
(* Types hold for any tasks.  Most of the rest is about one task at a      *)
(* time, which is what the locks of the code would give if there were any: *)
(* for any playlists, tracks, assets, edits, crashes and uncaught          *)
(* exceptions, references lead to the right asset, files that are needed   *)
(* stay, and the snapshot check skips nothing.  With two tasks at once     *)
(* most of it is false (README), so the hypothesis cannot be dropped.      *)
(* What is left then, that a swap takes no file from a playlist, is proved *)
(* at the end for one replacement among any number of other tasks.         *)
(*                                                                         *)
(* The inductive invariant says, for each point where the task waits, what *)
(* it has read and is still true (Syncing, Reconciling, Linking,           *)
(* Replacing, Deleting), and carries the properties through the points     *)
(* where the task is not idle (Listed, Snapshots).                         *)
(***************************************************************************)
EXTENDS MediaReferences, TLAPS, FiniteSetTheorems

\* delete_media_asset_if_eligible, called by _reconcile_references.
Dropping(m) == m.pc \in {"check", "unlink", "delete"} /\ m.back = "dropRef"

\* What a task that waits at a point has in its memory.
WellFormed(m) ==
    /\ m.pc \in {"meta", "items", "old", "replace", "drop", "dropRef", "ensure"}
         \/ Dropping(m) => m.playlist \in Playlists
    /\ m.pc \in {"dropRef", "link", "create", "import", "swapRead", "swap"}
         \/ Dropping(m) => m.track \in Tracks
    /\ m.pc \in {"create", "import", "swapRead", "swap", "check", "unlink", "delete"} =>
         m.cur \in Assets
    /\ m.pc \in {"import", "swapRead", "swap"} => m.new \in Assets
    /\ m.pc = "recover" => m.back = "recover"

Typed == TypeOK /\ \A q \in Procs : WellFormed(proc[q])

\* The track has an asset.
HasAsset(t) == \E a \in Rows : asset[a].track = t

\* sync_playlist: the snapshot_id the session loaded is the stored one, the one
\* Spotify answered is no newer than the playlist, and if it is the current one
\* so are the items.
Syncing(m) ==
    /\ m.pc \in {"meta", "items", "old", "replace"} => m.loaded = saved[m.playlist]
    /\ m.pc \in {"items", "old", "replace"} => m.snap <= version[m.playlist]
    /\ m.pc \in {"old", "replace"} /\ m.playlist \notin LikedSongs
         /\ m.snap = version[m.playlist] => m.items = remote[m.playlist]

\* _reconcile_references: the entries are the items, what is dropped is none of
\* them, and what was found leads to an asset of every entry that has one.
Reconciling(m) ==
    /\ m.pc \in {"drop", "dropRef", "ensure"} \/ Dropping(m) =>
         m.playlist \in unreconciled
    /\ m.pc \in {"drop", "dropRef"} \/ Dropping(m) =>
         m.items = entries[m.playlist] /\ m.drop \cap m.items = {}
    /\ m.pc = "dropRef" \/ Dropping(m) => m.track \notin entries[m.playlist]
    /\ m.pc = "ensure" =>
         /\ \A r \in m.found : /\ asset[r.asset].live
                               /\ asset[r.asset].track = r.track
         /\ \A t \in entries[m.playlist] : HasAsset(t) =>
               \E r \in m.found : r.playlist = m.playlist /\ r.track = t

\* _get_or_create_media_asset: the asset it found is there and of the track.
Linking(m) ==
    m.pc = "link" /\ m.cur # None =>
        asset[m.cur].live /\ asset[m.cur].track = m.track

\* replace_track_media: the old asset is the track's, the new one is another,
\* still pending and without references, and once imported it has its file.
Replacing(m) ==
    /\ m.pc \in {"create", "import", "swapRead", "swap"} =>
         asset[m.cur].live /\ asset[m.cur].track = m.track
    /\ m.pc \in {"import", "swapRead", "swap"} =>
         /\ m.new # m.cur /\ RefsTo(m.new) = {}
         /\ asset[m.new].live /\ asset[m.new].track = m.track
         /\ asset[m.new].pending
    /\ m.pc \in {"swapRead", "swap"} => asset[m.new].file /\ m.new \in disk
    /\ m.pc = "swap" => m.found = RefsTo(m.cur)

\* A deletion under way is of an asset without references.
Deleting(m) == m.pc \in {"unlink", "delete"} => RefsTo(m.cur) = {}

Known(m) ==
    Syncing(m) /\ Reconciling(m) /\ Linking(m) /\ Replacing(m) /\ Deleting(m)

\* A reconciled playlist references an asset of every entry that has one.
Listed ==
    \A p \in Playlists \ unreconciled : \A t \in entries[p] :
       HasAsset(t) => \E r \in refs : r.playlist = p /\ r.track = t

\* The stored snapshot_id is no newer than the playlist, and means something.
Snapshots ==
    \A p \in Playlists :
       /\ saved[p] <= version[p]
       /\ p \notin LikedSongs /\ saved[p] = version[p] => entries[p] = remote[p]

Inv ==
    /\ Typed
    /\ \A q \in Procs : Known(proc[q])
    /\ ReferencesMatchTracks
    /\ Listed
    /\ Snapshots

-----------------------------------------------------------------------------

\* An idle task remembers nothing.
LEMMA IdleFacts ==
    /\ Idle \in Proc /\ Idle.pc = "idle" /\ Idle.back = "idle"
    /\ WellFormed(Idle) /\ ~Dropping(Idle)
  BY DEF Idle, Proc, PC, WellFormed, Dropping, None

\* The step of one task leaves the other tasks well-formed.
LEMMA Move ==
    ASSUME Typed, NEW q \in Procs, NEW r \in Proc, WellFormed(r),
           proc' = [proc EXCEPT ![q] = r]
    PROVE  /\ proc' \in [Procs -> Proc]
           /\ \A u \in Procs : WellFormed(proc'[u])
           /\ proc'[q] = r
  BY DEF Typed, TypeOK

\* A step that changes nothing but a task.
LEMMA ReadOnlyTyped ==
    ASSUME Typed, NEW q \in Procs, NEW r \in Proc, WellFormed(r),
           proc' = [proc EXCEPT ![q] = r],
           UNCHANGED <<spotify, synced, final, media, history>>
    PROVE  Typed'
<1>1. /\ proc' \in [Procs -> Proc]
      /\ \A u \in Procs : WellFormed(proc'[u])
  BY Move
<1> QED BY <1>1 DEF Typed, TypeOK, spotify, synced, media, history, WellFormed, Dropping

\* Handing out an id keeps the types.
LEMMA HandOutTyped ==
    ASSUME Typed, NEW a, HandOut(a)
    PROVE  crashes' \in Nat /\ unreconciled' \subseteq Playlists /\ aliased' \in BOOLEAN
  BY DEF Typed, TypeOK, HandOut

LEMMA SyncReadsTyped ==
    ASSUME Typed, NEW q \in Procs,
           \/ \E p \in Playlists : SyncStart(q, p)
           \/ SyncMeta(q) \/ SyncItems(q) \/ ReadOldEntries(q)
    PROVE  Typed'
<1>0. /\ proc[q] \in Proc /\ WellFormed(proc[q]) /\ None \in Nat
      /\ remote \in [Playlists -> SUBSET Tracks] /\ version \in [Playlists -> Nat]
      /\ entries \in [Playlists -> SUBSET Tracks] /\ saved \in [Playlists -> Nat]
  BY DEF Typed, TypeOK, None
<1>1. ASSUME NEW p \in Playlists, SyncStart(q, p)
      PROVE  Typed'
  <2>1. PICK force \in BOOLEAN :
          proc' = [proc EXCEPT ![q] = [Idle EXCEPT !.pc = "meta", !.playlist = p,
                                                   !.force = force, !.loaded = saved[p]]]
    BY <1>1 DEF SyncStart
  <2> DEFINE r == [Idle EXCEPT !.pc = "meta", !.playlist = p,
                               !.force = force, !.loaded = saved[p]]
  <2>3. saved[p] \in Nat
    BY <1>0
  <2>2. r \in Proc /\ WellFormed(r)
    BY <2>3 DEF Idle, Proc, PC, WellFormed, Dropping, None
  <2> HIDE DEF r
  <2> QED BY <1>1, <2>1, <2>2, ReadOnlyTyped DEF SyncStart, r
<1>2. CASE SyncMeta(q)
  <2> DEFINE snap == IF proc[q].playlist \in LikedSongs THEN None ELSE version[proc[q].playlist]
             s == [proc[q] EXCEPT !.pc = "items", !.snap = snap]
  <2>1. snap \in Nat
    BY <1>0, <1>2 DEF SyncMeta, At, WellFormed
  <2>2. proc' = [proc EXCEPT ![q] = Idle] \/ proc' = [proc EXCEPT ![q] = s]
    BY <1>2 DEF SyncMeta
  <2> HIDE DEF snap
  <2>3. s \in Proc /\ WellFormed(s)
    BY ZenonT(60), <1>0, <1>2, <2>1 DEF Proc, PC, WellFormed, Dropping, SyncMeta, At
  <2> HIDE DEF s
  <2> QED BY <1>2, <2>2, <2>3, IdleFacts, ReadOnlyTyped DEF SyncMeta
<1>3. CASE SyncItems(q)
  <2> DEFINE r == [proc[q] EXCEPT !.pc = "old", !.items = remote[proc[q].playlist]]
  <2>1. r \in Proc /\ WellFormed(r)
    BY ZenonT(60), <1>0, <1>3 DEF Proc, PC, WellFormed, Dropping, SyncItems, At
  <2>2. proc' = [proc EXCEPT ![q] = r]
    BY <1>3 DEF SyncItems
  <2> HIDE DEF r
  <2> QED BY <1>3, <2>1, <2>2, ReadOnlyTyped DEF SyncItems
<1>4. CASE ReadOldEntries(q)
  <2> DEFINE r == [proc[q] EXCEPT !.pc = "replace", !.old = entries[proc[q].playlist]]
  <2>1. r \in Proc /\ WellFormed(r)
    BY ZenonT(60), <1>0, <1>4 DEF Proc, PC, WellFormed, Dropping, ReadOldEntries, At
  <2>2. proc' = [proc EXCEPT ![q] = r]
    BY <1>4 DEF ReadOldEntries
  <2> HIDE DEF r
  <2> QED BY <1>4, <2>1, <2>2, ReadOnlyTyped DEF ReadOldEntries
<1> QED BY <1>1, <1>2, <1>3, <1>4

LEMMA ReplaceEntriesTyped ==
    ASSUME Typed, NEW q \in Procs, ReplaceEntries(q)
    PROVE  Typed'
<1> DEFINE p == proc[q].playlist
           old == IF At(q, "old") THEN entries[p] ELSE proc[q].old
           r == [Idle EXCEPT !.pc = "drop", !.playlist = p, !.items = proc[q].items,
                             !.drop = old \ proc[q].items]
<1>1. /\ proc[q] \in Proc /\ p \in Playlists
      /\ entries \in [Playlists -> SUBSET Tracks] /\ saved \in [Playlists -> Nat]
  BY DEF Typed, TypeOK, WellFormed, ReplaceEntries, At
<1>2. proc[q].items \subseteq Tracks /\ proc[q].snap \in Nat /\ old \subseteq Tracks
  BY <1>1 DEF Proc
<1>3. proc' = [proc EXCEPT ![q] = r]
  BY DEF ReplaceEntries
<1> HIDE DEF old
<1>4. r \in Proc /\ WellFormed(r)
  <2>1. Idle \in Proc /\ old \ proc[q].items \subseteq Tracks /\ proc[q].items \subseteq Tracks
    BY <1>2 DEF Idle, Proc, PC, None
  <2>2. \A m \in Proc, y \in SUBSET Tracks : [m EXCEPT !.drop = y] \in Proc
    BY DEF Proc
  <2>3. \A m \in Proc, x \in SUBSET Tracks : [m EXCEPT !.items = x] \in Proc
    BY DEF Proc
  <2>4. \A m \in Proc : [m EXCEPT !.pc = "drop", !.playlist = p] \in Proc
    BY ZenonT(60), <1>1 DEF Proc, PC
  <2>5. r = [[[Idle EXCEPT !.pc = "drop", !.playlist = p]
                 EXCEPT !.items = proc[q].items] EXCEPT !.drop = old \ proc[q].items]
    BY DEF Idle
  <2>6. r \in Proc
    BY <2>1, <2>2, <2>3, <2>4, <2>5
  <2>7. r.pc = "drop" /\ r.playlist = p
    BY DEF Idle
  <2> QED
    BY <1>1, <2>6, <2>7 DEF WellFormed, Dropping
<1> HIDE DEF r
<1>5. proc' \in [Procs -> Proc] /\ \A u \in Procs : WellFormed(proc'[u])
  BY <1>3, <1>4, Move
<1>6. /\ entries' \in [Playlists -> SUBSET Tracks] /\ saved' \in [Playlists -> Nat]
      /\ unreconciled' \subseteq Playlists
      /\ UNCHANGED <<spotify, final, media, crashes, aliased>>
  BY <1>1, <1>2 DEF ReplaceEntries, Typed, TypeOK
<1> QED BY <1>5, <1>6 DEF Typed, TypeOK, spotify, media, WellFormed, Dropping

LEMMA ReconcileTyped ==
    ASSUME Typed, NEW q \in Procs,
           \/ ListStaleRefs(q) \/ DropRef(q) \/ TrackDropped(q)
           \/ LookUpAssets(q) \/ EnsureReferences(q)
    PROVE  Typed'
<1>0. /\ proc[q] \in Proc /\ WellFormed(proc[q]) /\ refs \subseteq Ref
  BY DEF Typed, TypeOK
<1>1. CASE ListStaleRefs(q)
  <2>1. PICK t \in proc[q].drop :
          proc' = [proc EXCEPT ![q] = [proc[q] EXCEPT
                      !.pc = "dropRef", !.track = t, !.drop = proc[q].drop \ {t},
                      !.stale = {r.asset : r \in {s \in refs :
                                    s.playlist = proc[q].playlist /\ s.track = t}}]]
    BY <1>1 DEF ListStaleRefs
  <2> DEFINE stale == {r.asset : r \in {s \in refs :
                                    s.playlist = proc[q].playlist /\ s.track = t}}
             m == [proc[q] EXCEPT !.pc = "dropRef", !.track = t,
                                  !.drop = proc[q].drop \ {t},
                                  !.stale = stale]
  <2>2. stale \subseteq Assets
    BY <1>0 DEF Ref
  <2>3. proc' = [proc EXCEPT ![q] = m]
    BY SMTT(60), <2>1
  <2> HIDE DEF stale
  <2>4. m \in Proc /\ WellFormed(m)
    BY ZenonT(60), <1>0, <1>1, <2>2 DEF Proc, PC, WellFormed, Dropping, ListStaleRefs, At
  <2> HIDE DEF m
  <2> QED BY ZenonT(60), <1>1, <2>3, <2>4, ReadOnlyTyped DEF ListStaleRefs
<1>2. CASE DropRef(q)
  <2>1. PICK a \in proc[q].stale :
          /\ refs' = refs \ {ReferencesNeeded(proc[q].playlist, proc[q].track, a)}
          /\ proc' = [proc EXCEPT ![q] = [proc[q] EXCEPT
                         !.pc = "check", !.cur = a, !.back = "dropRef",
                         !.stale = proc[q].stale \ {a}]]
    BY <1>2 DEF DropRef
  <2> DEFINE m == [proc[q] EXCEPT !.pc = "check", !.cur = a, !.back = "dropRef",
                                  !.stale = proc[q].stale \ {a}]
  <2>2. m \in Proc /\ WellFormed(m)
    BY <1>0, <1>2 DEF Proc, PC, WellFormed, Dropping, DropRef, At
  <2>3. proc' = [proc EXCEPT ![q] = m]
    BY <2>1
  <2> HIDE DEF m
  <2>4. proc' \in [Procs -> Proc] /\ \A u \in Procs : WellFormed(proc'[u])
    BY <2>2, <2>3, Move
  <2> QED BY <1>2, <2>1, <2>4 DEF DropRef, Typed, TypeOK, spotify, synced, history,
                                  WellFormed, Dropping
<1>3. CASE TrackDropped(q)
  <2> DEFINE m == [proc[q] EXCEPT !.pc = "drop", !.track = None, !.cur = None,
                                  !.back = "idle"]
  <2>1. m \in Proc /\ WellFormed(m)
    BY ZenonT(60), <1>0, <1>3 DEF Proc, PC, WellFormed, Dropping, TrackDropped, At
  <2>2. proc' = [proc EXCEPT ![q] = m]
    BY <1>3 DEF TrackDropped
  <2> HIDE DEF m
  <2> QED BY <1>3, <2>1, <2>2, ReadOnlyTyped DEF TrackDropped
<1>4. CASE LookUpAssets(q)
  <2> DEFINE p == proc[q].playlist
             found == UNION {{ReferencesNeeded(p, t, a) : a \in AssetOf(t)} :
                                 t \in proc[q].items}
             m == [proc[q] EXCEPT !.pc = "ensure", !.items = {}, !.found = found]
  <2>1. p \in Playlists /\ proc[q].items \subseteq Tracks
    BY <1>0, <1>4 DEF LookUpAssets, At, WellFormed, Proc
  <2>2. found \subseteq Ref
    BY <2>1 DEF ReferencesNeeded, Ref, AssetOf, Rows
  <2>3. proc' = [proc EXCEPT ![q] = m]
    BY <1>4 DEF LookUpAssets
  <2> HIDE DEF found
  <2>4. m \in Proc /\ WellFormed(m)
    BY ZenonT(60), <1>0, <2>1, <2>2 DEF Proc, PC, WellFormed, Dropping
  <2> HIDE DEF m
  <2> QED BY <1>4, <2>3, <2>4, ReadOnlyTyped DEF LookUpAssets
<1>5. CASE EnsureReferences(q)
  <2>1. proc' = [proc EXCEPT ![q] = Idle] /\ proc[q].found \subseteq Ref
    BY <1>0, <1>5 DEF EnsureReferences, Stop, Proc
  <2>2. proc' \in [Procs -> Proc] /\ \A u \in Procs : WellFormed(proc'[u])
    BY <2>1, IdleFacts, Move
  <2> QED BY <1>5, <2>1, <2>2 DEF EnsureReferences, Typed, TypeOK, spotify, synced,
                                  WellFormed, Dropping
<1> QED BY <1>1, <1>2, <1>3, <1>4, <1>5

\* What was created is an asset of its own track.
LEMMA LinkTyped ==
    ASSUME Typed, NEW q \in Procs, LinkStep(q)
    PROVE  Typed'
<1>0. /\ proc[q] \in Proc /\ WellFormed(proc[q]) /\ refs \subseteq Ref
      /\ asset \in [Assets -> Asset]
  BY DEF Typed, TypeOK
<1>1. ASSUME NEW t \in Tracks, LinkRead(q, t)
      PROVE  Typed'
  <2>1. PICK a \in Assets \cup {None} :
          proc' = [proc EXCEPT ![q] = [Idle EXCEPT !.pc = "link", !.track = t, !.cur = a]]
    BY <1>1 DEF LinkRead, AssetOf, Rows
  <2> DEFINE m == [Idle EXCEPT !.pc = "link", !.track = t, !.cur = a]
  <2>2. m \in Proc /\ WellFormed(m)
    BY DEF Idle, Proc, PC, WellFormed, Dropping, None
  <2> HIDE DEF m
  <2> QED BY <1>1, <2>1, <2>2, ReadOnlyTyped DEF LinkRead, m
<1>2. CASE LinkCommit(q)
  <2> DEFINE t == proc[q].track
             new == [NoAsset EXCEPT !.live = TRUE, !.track = t]
  <2>1. PICK a \in IF proc[q].cur = None THEN NewId ELSE {proc[q].cur} :
          /\ refs' = refs \cup {ReferencesNeeded(p, t, a) :
                                   p \in {r \in Playlists : t \in entries[r]}}
          /\ asset' = IF proc[q].cur = None THEN [asset EXCEPT ![a] = new] ELSE asset
          /\ IF proc[q].cur = None THEN HandOut(a) ELSE UNCHANGED history
    BY <1>2 DEF LinkCommit
  <2>2. /\ proc' = [proc EXCEPT ![q] = Idle] /\ t \in Tracks
        /\ UNCHANGED <<spotify, synced, final, disk>>
    BY <1>0, <1>2 DEF LinkCommit, Stop, At, WellFormed
  <2>3. a \in Assets /\ new \in Asset
    BY <1>0, <2>1, <2>2 DEF NewId, Proc, Asset, NoAsset
  <2>4. refs' \subseteq Ref
    BY <1>0, <2>1, <2>2, <2>3 DEF ReferencesNeeded, Ref
  <2>5. asset' \in [Assets -> Asset]
    BY <1>0, <2>1, <2>3
  <2>6. proc' \in [Procs -> Proc] /\ \A u \in Procs : WellFormed(proc'[u])
    BY <2>2, IdleFacts, Move
  <2>7. crashes' \in Nat /\ unreconciled' \subseteq Playlists /\ aliased' \in BOOLEAN
    BY <2>1, HandOutTyped DEF Typed, TypeOK, history
  <2> QED BY <2>2, <2>4, <2>5, <2>6, <2>7 DEF Typed, TypeOK, spotify, synced,
                                               WellFormed, Dropping
<1> QED BY <1>1, <1>2 DEF LinkStep

LEMMA ReplaceTyped ==
    ASSUME Typed, NEW q \in Procs, ReplaceStep(q)
    PROVE  Typed'
<1>0. /\ proc[q] \in Proc /\ WellFormed(proc[q]) /\ refs \subseteq Ref
      /\ asset \in [Assets -> Asset] /\ disk \subseteq Assets
  BY DEF Typed, TypeOK
<1>1. ASSUME NEW t \in Tracks, ReplaceStart(q, t)
      PROVE  Typed'
  <2>1. PICK a \in Assets :
          proc' = [proc EXCEPT ![q] = [Idle EXCEPT !.pc = "create", !.track = t, !.cur = a]]
    BY <1>1 DEF ReplaceStart, AssetOf, Rows
  <2> DEFINE m == [Idle EXCEPT !.pc = "create", !.track = t, !.cur = a]
  <2>2. m \in Proc /\ WellFormed(m)
    BY DEF Idle, Proc, PC, WellFormed, Dropping, None
  <2> HIDE DEF m
  <2> QED BY <1>1, <2>1, <2>2, ReadOnlyTyped DEF ReplaceStart, m
<1>2. CASE ReplaceCreate(q)
  <2> DEFINE new == [live |-> TRUE, track |-> proc[q].track, file |-> FALSE,
                     pending |-> TRUE]
  <2>1. PICK a \in NewId :
          /\ asset' = [asset EXCEPT ![a] = new]
          /\ proc' = [proc EXCEPT ![q] = [@ EXCEPT !.pc = "import", !.new = a]]
          /\ HandOut(a)
    BY <1>2 DEF ReplaceCreate
  <2> DEFINE m == [proc[q] EXCEPT !.pc = "import", !.new = a]
  <2>2. a \in Assets /\ new \in Asset
    BY <1>0, <1>2 DEF NewId, Asset, ReplaceCreate, At, WellFormed, Proc
  <2>3. m \in Proc /\ WellFormed(m)
    BY <1>0, <1>2, <2>2 DEF Proc, PC, WellFormed, Dropping, ReplaceCreate, At
  <2>4. proc' = [proc EXCEPT ![q] = m]
    BY <2>1
  <2> HIDE DEF m, new
  <2>5. proc' \in [Procs -> Proc] /\ \A u \in Procs : WellFormed(proc'[u])
    BY <2>3, <2>4, Move
  <2>6. asset' \in [Assets -> Asset]
    BY <1>0, <2>1, <2>2
  <2>7. crashes' \in Nat /\ unreconciled' \subseteq Playlists /\ aliased' \in BOOLEAN
    BY <2>1, HandOutTyped
  <2> QED BY <1>2, <2>5, <2>6, <2>7 DEF ReplaceCreate, Typed, TypeOK, spotify, synced,
                                        WellFormed, Dropping
<1>3. CASE ReplaceImport(q)
  <2> DEFINE m == [proc[q] EXCEPT !.pc = "swapRead"]
             a == proc[q].new
  <2>1. m \in Proc /\ WellFormed(m) /\ a \in Assets
    BY <1>0, <1>3 DEF Proc, PC, WellFormed, Dropping, ReplaceImport, At
  <2>2. proc' = [proc EXCEPT ![q] = m]
    BY <1>3 DEF ReplaceImport, Goto
  <2> HIDE DEF m
  <2>3. proc' \in [Procs -> Proc] /\ \A u \in Procs : WellFormed(proc'[u])
    BY <2>1, <2>2, Move
  <2>4. asset' \in [Assets -> Asset] /\ disk' \subseteq Assets
    BY ZenonT(60), <1>0, <1>3, <2>1 DEF ReplaceImport, Asset
  <2> QED BY <1>3, <2>3, <2>4 DEF ReplaceImport, Typed, TypeOK, spotify, synced, history,
                                  WellFormed, Dropping
<1>4. CASE ReplaceFails(q)
  <2>1. /\ proc' = [proc EXCEPT ![q] = Idle] /\ NoAsset \in Asset
        /\ asset' = [asset EXCEPT ![proc[q].new] = NoAsset]
    BY <1>4 DEF ReplaceFails, Stop, NoAsset, Asset
  <2>2. proc' \in [Procs -> Proc] /\ \A u \in Procs : WellFormed(proc'[u])
    BY <2>1, IdleFacts, Move
  <2>3. asset' \in [Assets -> Asset]
    BY <1>0, <2>1
  <2> QED BY <1>4, <2>2, <2>3 DEF ReplaceFails, Typed, TypeOK, spotify, synced, history,
                                  WellFormed, Dropping
<1>5. CASE SwapRead(q)
  <2> DEFINE m == [proc[q] EXCEPT !.pc = "swap", !.found = RefsTo(proc[q].cur)]
  <2>1. m \in Proc /\ WellFormed(m)
    BY <1>0, <1>5 DEF Proc, PC, WellFormed, Dropping, SwapRead, At, RefsTo
  <2>2. proc' = [proc EXCEPT ![q] = m]
    BY <1>5 DEF SwapRead
  <2> HIDE DEF m
  <2> QED BY <1>5, <2>1, <2>2, ReadOnlyTyped DEF SwapRead
<1>6. CASE Swap(q)
  <2> DEFINE old == proc[q].cur
             new == proc[q].new
             moved == {[r EXCEPT !.asset = new] : r \in proc[q].found}
             m == [proc[q] EXCEPT !.pc = "check", !.back = "idle"]
  <2>1. /\ m \in Proc /\ WellFormed(m)
        /\ old \in Assets /\ new \in Assets /\ proc[q].found \subseteq Ref
    BY <1>0, <1>6 DEF Proc, PC, WellFormed, Dropping, Swap, At
  <2>2. /\ proc' = [proc EXCEPT ![q] = m]
        /\ refs' = (refs \ proc[q].found) \cup moved
        /\ asset' = [asset EXCEPT ![old] = [@ EXCEPT !.track = None],
                                  ![new] = [@ EXCEPT !.pending = FALSE]]
    BY <1>6 DEF Swap
  <2> HIDE DEF m
  <2>3. proc' \in [Procs -> Proc] /\ \A u \in Procs : WellFormed(proc'[u])
    BY <2>1, <2>2, Move
  <2>4. moved \subseteq Ref
    BY <2>1 DEF Ref
  <2>5. asset' \in [Assets -> Asset]
    BY ZenonT(60), <1>0, <2>1, <2>2 DEF Asset
  <2>6. refs' \subseteq Ref
    BY <1>0, <2>2, <2>4
  <2> QED BY <1>6, <2>3, <2>5, <2>6 DEF Swap, Typed, TypeOK, spotify, synced, history,
                                  WellFormed, Dropping
<1>7. CASE ReplaceBreaks(q)
  BY <1>7, IdleFacts, ReadOnlyTyped DEF ReplaceBreaks, Stop
<1> QED BY <1>1, <1>2, <1>3, <1>4, <1>5, <1>6, <1>7 DEF ReplaceStep

\* Where delete_media_asset_if_eligible returns to.
LEMMA ReturnRecord ==
    ASSUME Typed, NEW q \in Procs, proc[q].pc \in {"check", "delete"}, Return(q)
    PROVE  \E r \in Proc : /\ WellFormed(r) /\ proc' = [proc EXCEPT ![q] = r]
                           /\ \/ r = Idle
                              \/ r = [proc[q] EXCEPT !.pc = proc[q].back]
                                 /\ proc[q].back \in {"dropRef", "recover"}
<1>0. proc[q] \in Proc /\ WellFormed(proc[q])
  BY DEF Typed, TypeOK
<1>1. CASE proc[q].back = "idle"
  BY <1>1, IdleFacts DEF Return, Stop
<1>2. CASE proc[q].back # "idle"
  <2> DEFINE r == [proc[q] EXCEPT !.pc = proc[q].back]
  <2>1. proc' = [proc EXCEPT ![q] = r]
    BY <1>2 DEF Return, Goto
  <2>2. proc[q].back \in {"dropRef", "recover"}
    BY <1>0, <1>2 DEF Proc
  <2>3. r \in Proc /\ WellFormed(r)
    BY <1>0, <2>2 DEF Proc, PC, WellFormed, Dropping
  <2> HIDE DEF r
  <2> QED BY <2>1, <2>2, <2>3 DEF r
<1> QED BY <1>1, <1>2

LEMMA DeleteTyped ==
    ASSUME Typed, NEW q \in Procs, DeleteStep(q)
    PROVE  Typed'
<1>0. /\ proc[q] \in Proc /\ WellFormed(proc[q])
      /\ asset \in [Assets -> Asset] /\ disk \subseteq Assets
  BY DEF Typed, TypeOK
<1>1. CASE CheckEligible(q)
  <2>1. CASE Return(q)
    <3>1. PICK r \in Proc : WellFormed(r) /\ proc' = [proc EXCEPT ![q] = r]
      BY <1>1, <2>1, ReturnRecord DEF CheckEligible, At
    <3> QED BY <1>1, <3>1, ReadOnlyTyped DEF CheckEligible
  <2>2. CASE ~Return(q)
    <3>1. PICK pc \in {"unlink", "delete"} :
            proc' = [proc EXCEPT ![q] = [@ EXCEPT !.pc = pc]]
      BY <1>1, <2>2 DEF CheckEligible, Goto
    <3> DEFINE r == [proc[q] EXCEPT !.pc = pc]
    <3>2. r \in Proc /\ WellFormed(r)
      BY <1>0, <1>1 DEF Proc, PC, WellFormed, Dropping, CheckEligible, At
    <3>3. proc' = [proc EXCEPT ![q] = r]
      BY <3>1
    <3> HIDE DEF r
    <3> QED BY <1>1, <3>2, <3>3, ReadOnlyTyped DEF CheckEligible
  <2> QED BY <2>1, <2>2
<1>2. CASE Unlink(q)
  <2> DEFINE r == [proc[q] EXCEPT !.pc = "delete"]
  <2>1. r \in Proc /\ WellFormed(r)
    BY <1>0, <1>2 DEF Proc, PC, WellFormed, Dropping, Unlink, At
  <2>2. proc' = [proc EXCEPT ![q] = r] /\ disk' \subseteq Assets
    BY <1>0, <1>2 DEF Unlink, Goto
  <2> HIDE DEF r
  <2>3. proc' \in [Procs -> Proc] /\ \A u \in Procs : WellFormed(proc'[u])
    BY <2>1, <2>2, Move
  <2> QED BY <1>2, <2>2, <2>3 DEF Unlink, Typed, TypeOK, spotify, synced, history,
                                  WellFormed, Dropping
<1>3. CASE DeleteRow(q)
  <2>1. PICK r \in Proc : WellFormed(r) /\ proc' = [proc EXCEPT ![q] = r]
    BY <1>3, ReturnRecord DEF DeleteRow, At
  <2>2. proc' \in [Procs -> Proc] /\ \A u \in Procs : WellFormed(proc'[u])
    BY <2>1, Move
  <2>3. asset' \in [Assets -> Asset]
    <3>1. NoAsset \in Asset
      BY DEF NoAsset, Asset
    <3> QED BY <1>0, <1>3, <3>1 DEF DeleteRow
  <2> QED BY <1>3, <2>2, <2>3 DEF DeleteRow, Typed, TypeOK, spotify, synced, history,
                                  WellFormed, Dropping
<1> QED BY <1>1, <1>2, <1>3 DEF DeleteStep

LEMMA CrashTyped ==
    ASSUME Typed, Crash
    PROVE  Typed'
<1> DEFINE m == [Idle EXCEPT !.pc = "recover", !.back = "recover",
                             !.stale = {a \in Rows : asset[a].pending}]
<1>1. m \in Proc /\ WellFormed(m)
  BY DEF Idle, Proc, PC, WellFormed, Dropping, None, Rows
<1>2. proc' = [q \in Procs |-> IF q = Startup THEN m ELSE Idle]
  BY DEF Crash
<1> HIDE DEF m
<1>3. proc' \in [Procs -> Proc] /\ \A u \in Procs : WellFormed(proc'[u])
  BY <1>1, <1>2, IdleFacts
<1>4. crashes' \in Nat
  <2>1. crashes \in Nat
    BY DEF Typed, TypeOK
  <2>2. crashes' = crashes + 1
    BY DEF Crash
  <2> QED BY <2>1, <2>2
<1> QED BY ZenonT(60), <1>3, <1>4
    DEF Crash, Typed, TypeOK, spotify, synced, media, WellFormed, Dropping

LEMMA OthersTyped ==
    ASSUME Typed,
           \/ \E q \in Procs : RecoverStep(q) \/ StepRaises(q)
           \/ Environment
           \/ UNCHANGED vars
    PROVE  Typed'
<1>1. ASSUME NEW q \in Procs, RecoverNext(q)
      PROVE  Typed'
  <2>1. PICK a \in proc[q].stale :
          proc' = [proc EXCEPT ![q] = [proc[q] EXCEPT !.pc = "check", !.cur = a,
                                                      !.stale = @ \ {a}]]
    BY <1>1 DEF RecoverNext
  <2> DEFINE r == [proc[q] EXCEPT !.pc = "check", !.cur = a, !.stale = @ \ {a}]
  <2>2. r \in Proc /\ WellFormed(r)
    <3>1. proc[q] \in Proc /\ WellFormed(proc[q])
      BY DEF Typed, TypeOK
    <3> QED BY ZenonT(60), <1>1, <3>1 DEF Proc, PC, WellFormed, Dropping, RecoverNext, At
  <2> HIDE DEF r
  <2> QED BY <1>1, <2>1, <2>2, ReadOnlyTyped DEF RecoverNext, r
<1>2. ASSUME NEW q \in Procs, Recovered(q) \/ StepRaises(q)
      PROVE  Typed'
  BY <1>2, IdleFacts, ReadOnlyTyped DEF Recovered, StepRaises, Stop
<1>3. ASSUME NEW p \in Playlists, Edit(p)
      PROVE  Typed'
  <2>1. remote' \in [Playlists -> SUBSET Tracks] /\ version' \in [Playlists -> Nat]
    BY <1>3 DEF Edit, Typed, TypeOK
  <2> QED BY <1>3, <2>1 DEF Edit, Typed, TypeOK, synced, media, history, WellFormed, Dropping
<1>4. ASSUME NEW p \in Playlists, Disconnect(p)
      PROVE  Typed'
  BY <1>4 DEF Disconnect, Typed, TypeOK, spotify, synced, media, history, WellFormed, Dropping
<1>5. ASSUME NEW a \in Assets, Import(a)
      PROVE  Typed'
  <2>1. asset' \in [Assets -> Asset] /\ disk' \subseteq Assets
    BY ZenonT(60), <1>5 DEF Import, Typed, TypeOK, Asset
  <2> QED BY <1>5, <2>1 DEF Import, Typed, TypeOK, spotify, synced, history, WellFormed, Dropping
<1>6. CASE UNCHANGED vars
  BY <1>6 DEF Typed, TypeOK, vars, spotify, synced, media, history, WellFormed, Dropping
<1> QED BY <1>1, <1>2, <1>3, <1>4, <1>5, <1>6 DEF RecoverStep, Environment

LEMMA NextTyped ==
    ASSUME Typed, [Next]_vars
    PROVE  Typed'
<1>1. ASSUME NEW q \in Procs, SyncStep(q)
      PROVE  Typed'
  BY <1>1, SyncReadsTyped, ReplaceEntriesTyped, ReconcileTyped DEF SyncStep
<1> QED BY <1>1, LinkTyped, ReplaceTyped, DeleteTyped, CrashTyped, OthersTyped DEF Next

\* Every task's memory and every table hold what they are meant to, for any
\* number of tasks that do anything at once.
THEOREM TypesHold == Spec => []TypeOK
<1>1. Init => Typed
  <2> SUFFICES ASSUME Init PROVE Typed
    OBVIOUS
  <2>1. /\ version \in [Playlists -> Nat] /\ saved \in [Playlists -> Nat]
        /\ entries \in [Playlists -> SUBSET Tracks]
    BY DEF Init, None
  <2>2. asset \in [Assets -> Asset]
    BY DEF Init, NoAsset, Asset
  <2>3. proc \in [Procs -> Proc] /\ \A q \in Procs : WellFormed(proc[q])
    BY IdleFacts DEF Init
  <2> QED BY <2>1, <2>2, <2>3 DEF Init, Typed, TypeOK
<1>2. Typed /\ [Next]_vars => Typed'
  BY NextTyped
<1>3. Typed => TypeOK
  BY DEF Typed
<1> QED BY <1>1, <1>2, <1>3, PTL DEF Spec

-----------------------------------------------------------------------------

\* One task at a time.
Sequential == \A q, r \in Procs : q = r

\* A finite set of ids has a first one.
LEMMA LeastId ==
    ASSUME NEW S \in SUBSET Nat, IsFiniteSet(S), S # {}
    PROVE  \E x \in S : \A y \in S : x <= y
<1> DEFINE below(x) == {y \in S : y <= x}
           D == {below(x) : x \in S}
           R == StrictSubsetOrdering(S)
<1>1. IsWellFoundedOn(R, SUBSET S)
  BY FS_StrictSubsetOrderingWellFounded, FS_FiniteSubsetsOfFinite
<1>2. D \subseteq SUBSET S /\ D # {}
  OBVIOUS
<1>3. \A x \in S : below(x) \in D
  OBVIOUS
<1> HIDE DEF D, R
<1>4. PICK d \in D : \A e \in D : <<e, d>> \notin R
  BY <1>1, <1>2, WFMin
<1>5. PICK x \in S : d = below(x)
  BY <1>4 DEF D
<1>6. ASSUME NEW y \in S, y < x
      PROVE  FALSE
  <2>1. x \in Nat /\ y \in Nat /\ S \subseteq Nat
    OBVIOUS
  <2>2. below(y) \in D /\ below(y) \subseteq S /\ d \subseteq S
    BY <1>3, <1>5
  <2>3. \A z \in below(y) : z \in S /\ z <= x
    BY <1>6, <2>1
  <2>4. below(y) \subseteq d
    BY <1>5, <2>3
  <2>5. x \in d
    BY <1>5, <2>1
  <2>6. x \notin below(y)
    BY <1>6, <2>1
  <2>7. <<below(y), d>> \in R
    BY <2>2, <2>4, <2>5, <2>6 DEF R, StrictSubsetOrdering
  <2> QED BY <1>4, <2>2, <2>7
<1> QED BY <1>6

\* The query for a track's asset finds one whenever there is one, and what it
\* finds is an asset of the track.
LEMMA AssetOfFinds ==
    ASSUME NEW t
    PROVE  /\ HasAsset(t) <=> AssetOf(t) # {}
           /\ \A a \in AssetOf(t) : a \in Assets /\ asset[a].live /\ asset[a].track = t
<1> DEFINE S == {a \in Rows : asset[a].track = t}
<1>1. S \in SUBSET Nat /\ IsFiniteSet(S)
  <2>1. S \subseteq Assets
    BY DEF Rows
  <2> QED BY <2>1, ReferencesAssumption, FS_Subset
<1>2. ASSUME S # {}
      PROVE  AssetOf(t) # {}
  <2> HIDE DEF S
  <2>1. PICK a \in S : \A b \in S : a <= b
    BY <1>1, <1>2, LeastId
  <2> QED BY <2>1 DEF AssetOf, S
<1> QED BY <1>2 DEF AssetOf, HasAsset, Rows

\* A new id is one without a row.
LEMMA NewIdIsFree ==
    ASSUME NEW a \in NewId
    PROVE  a \in Assets /\ ~asset[a].live
<1>1. a \in Assets /\ \A b \in Rows : b < a
  BY DEF NewId
<1>2. a \in Nat
  BY <1>1, ReferencesAssumption
<1> QED BY <1>1, <1>2 DEF Rows

-----------------------------------------------------------------------------

\* What the only task knows, everybody knows.
LEMMA OneKnows ==
    ASSUME Sequential, Typed, NEW q \in Procs, NEW r, proc' = [proc EXCEPT ![q] = r],
           Known(r)'
    PROVE  \A u \in Procs : Known(proc[u])'
<1>1. \A u \in Procs : u = q /\ proc'[u] = r
  BY DEF Sequential, Typed, TypeOK
<1> QED BY SMTT(60), <1>1 DEF Known, Syncing, Reconciling, Dropping, Linking, Replacing, Deleting,
                    RefsTo, HasAsset, Rows

\* An idle task knows nothing that could be wrong.
LEMMA IdleKnows == Known(Idle) /\ Known(Idle)'
  BY IdleFacts DEF Known, Syncing, Reconciling, Linking, Replacing, Deleting, Dropping, Idle

\* A step that only reads, and ends with what is known.
LEMMA ReadOnlyInv ==
    ASSUME Sequential, Inv, Typed', NEW q \in Procs, NEW r, Known(r),
           proc' = [proc EXCEPT ![q] = r],
           UNCHANGED <<spotify, synced, final, media, history>>
    PROVE  Inv'
<1> USE DEF spotify, synced, media, history
<1>1. Known(r)'
  BY DEF Known, Syncing, Reconciling, Dropping, Linking, Replacing, Deleting,
         RefsTo, HasAsset, Rows
<1>2. \A u \in Procs : Known(proc[u])'
  BY <1>1, OneKnows DEF Inv
<1>3. ReferencesMatchTracks' /\ Listed' /\ Snapshots'
  BY DEF Inv, ReferencesMatchTracks, Listed, Snapshots, HasAsset, Rows
<1> QED BY <1>2, <1>3 DEF Inv

LEMMA SyncReadsInv ==
    ASSUME Sequential, Inv, Typed', NEW q \in Procs,
           \/ \E p \in Playlists : SyncStart(q, p)
           \/ SyncMeta(q) \/ SyncItems(q) \/ ReadOldEntries(q)
    PROVE  Inv'
<1>0. /\ proc[q] \in Proc /\ WellFormed(proc[q]) /\ Known(proc[q])
      /\ version \in [Playlists -> Nat] /\ saved \in [Playlists -> Nat]
  BY DEF Inv, Typed, TypeOK
<1>1. ASSUME NEW p \in Playlists, SyncStart(q, p)
      PROVE  Inv'
  <2>1. PICK r : /\ \E force \in BOOLEAN :
                        r = [Idle EXCEPT !.pc = "meta", !.playlist = p,
                                         !.force = force, !.loaded = saved[p]]
                 /\ proc' = [proc EXCEPT ![q] = r]
    BY <1>1 DEF SyncStart
  <2>2. r.pc = "meta" /\ r.playlist = p /\ r.loaded = saved[p]
    BY <2>1 DEF Idle
  <2>3. Known(r)
    BY <2>2 DEF Known, Syncing, Reconciling, Dropping, Linking, Replacing, Deleting
  <2> QED BY <1>1, <2>1, <2>3, ReadOnlyInv DEF SyncStart
<1>2. CASE SyncMeta(q)
  <2>1. CASE proc' = [proc EXCEPT ![q] = Idle]
    BY <1>2, <2>1, IdleKnows, ReadOnlyInv DEF SyncMeta
  <2>2. CASE proc' # [proc EXCEPT ![q] = Idle]
    <3> DEFINE snap == IF proc[q].playlist \in LikedSongs THEN None
                       ELSE version[proc[q].playlist]
    <3>1. PICK r : /\ r = [proc[q] EXCEPT !.pc = "items", !.snap = snap]
                   /\ proc' = [proc EXCEPT ![q] = r]
      BY <1>2, <2>2 DEF SyncMeta
    <3>2. /\ proc[q].playlist \in Playlists
          /\ proc[q].loaded = saved[proc[q].playlist]
      BY <1>0, <1>2 DEF SyncMeta, At, WellFormed, Known, Syncing
    <3>3. snap <= version[proc[q].playlist]
      BY <1>0, <3>2 DEF None
    <3>4. /\ r.pc = "items" /\ r.snap = snap
          /\ r.playlist = proc[q].playlist /\ r.loaded = proc[q].loaded
      BY <1>0, <3>1 DEF Proc
    <3> HIDE DEF snap
    <3>5. Known(r)
      BY <3>2, <3>3, <3>4
         DEF Known, Syncing, Reconciling, Dropping, Linking, Replacing, Deleting
    <3> QED BY <1>2, <3>1, <3>5, ReadOnlyInv DEF SyncMeta
  <2> QED BY <2>1, <2>2
<1>3. CASE SyncItems(q)
  <2>1. PICK r : /\ r = [proc[q] EXCEPT !.pc = "old", !.items = remote[proc[q].playlist]]
                 /\ proc' = [proc EXCEPT ![q] = r]
    BY <1>3 DEF SyncItems
  <2>2. /\ r.pc = "old" /\ r.items = remote[r.playlist] /\ r.snap = proc[q].snap
        /\ r.playlist = proc[q].playlist /\ r.loaded = proc[q].loaded
    BY <1>0, <2>1 DEF Proc
  <2>3. /\ proc[q].loaded = saved[proc[q].playlist]
        /\ proc[q].snap <= version[proc[q].playlist]
    BY <1>0, <1>3 DEF SyncItems, At, Known, Syncing
  <2>4. Known(r)
    BY <2>2, <2>3 DEF Known, Syncing, Reconciling, Dropping, Linking, Replacing, Deleting
  <2> QED BY <1>3, <2>1, <2>4, ReadOnlyInv DEF SyncItems
<1>4. CASE ReadOldEntries(q)
  <2>1. PICK r : /\ r = [proc[q] EXCEPT !.pc = "replace", !.old = entries[proc[q].playlist]]
                 /\ proc' = [proc EXCEPT ![q] = r]
    BY <1>4 DEF ReadOldEntries
  <2>2. /\ r.pc = "replace" /\ r.items = proc[q].items /\ r.snap = proc[q].snap
        /\ r.playlist = proc[q].playlist /\ r.loaded = proc[q].loaded
    BY <1>0, <2>1 DEF Proc
  <2>3. Known(r)
    BY <1>0, <1>4, <2>2 DEF ReadOldEntries, At, Known, Syncing, Reconciling, Dropping,
                            Linking, Replacing, Deleting
  <2> QED BY <1>4, <2>1, <2>3, ReadOnlyInv DEF ReadOldEntries
<1> QED BY <1>1, <1>2, <1>3, <1>4

\* The snapshot_id is stored together with the items it was read before.
LEMMA ReplaceEntriesInv ==
    ASSUME Sequential, Inv, Typed', NEW q \in Procs, ReplaceEntries(q)
    PROVE  Inv'
<1> USE DEF spotify, media
<1> DEFINE p == proc[q].playlist
           old == IF At(q, "old") THEN entries[p] ELSE proc[q].old
<1>0. /\ proc[q] \in Proc /\ p \in Playlists /\ proc[q].snap \in Nat
      /\ version \in [Playlists -> Nat] /\ saved \in [Playlists -> Nat]
      /\ entries \in [Playlists -> SUBSET Tracks]
  BY DEF Inv, Typed, TypeOK, WellFormed, ReplaceEntries, At, Proc
<1>1. /\ proc[q].loaded = saved[p] /\ proc[q].snap <= version[p]
      /\ p \notin LikedSongs /\ proc[q].snap = version[p] => proc[q].items = remote[p]
  BY DEF Inv, ReplaceEntries, At, Known, Syncing
<1>2. /\ entries' = [entries EXCEPT ![p] = proc[q].items]
      /\ saved' = [saved EXCEPT ![p] = proc[q].snap]
      /\ unreconciled' = unreconciled \cup {p}
      /\ UNCHANGED <<spotify, final, media, crashes, aliased>>
  BY <1>0, <1>1 DEF ReplaceEntries
<1>3. PICK r : /\ r = [Idle EXCEPT !.pc = "drop", !.playlist = p, !.items = proc[q].items,
                                   !.drop = old \ proc[q].items]
               /\ proc' = [proc EXCEPT ![q] = r]
  BY DEF ReplaceEntries
<1>4. /\ r.pc = "drop" /\ r.playlist = p /\ r.items = proc[q].items
      /\ r.drop \cap r.items = {}
  <2> HIDE DEF old
  <2> QED BY <1>3 DEF Idle
<1>5. entries'[p] = r.items /\ p \in unreconciled'
  BY <1>0, <1>2, <1>4
<1> HIDE DEF old
<1>6. Known(r)'
  BY <1>4, <1>5 DEF Known, Syncing, Reconciling, Dropping, Linking, Replacing, Deleting
<1>7. \A u \in Procs : Known(proc[u])'
  BY <1>3, <1>6, OneKnows DEF Inv
<1>8. ReferencesMatchTracks'
  BY <1>2 DEF Inv, ReferencesMatchTracks
<1>9. Listed'
  BY <1>0, <1>2 DEF Inv, Listed, HasAsset, Rows
<1>10. Snapshots'
  BY <1>0, <1>1, <1>2 DEF Inv, Snapshots
<1> QED BY SMTT(60), <1>7, <1>8, <1>9, <1>10 DEF Inv

LEMMA ReconcileReadsInv ==
    ASSUME Sequential, Inv, Typed', NEW q \in Procs,
           ListStaleRefs(q) \/ TrackDropped(q) \/ LookUpAssets(q)
    PROVE  Inv'
<1>0. proc[q] \in Proc /\ WellFormed(proc[q]) /\ Known(proc[q])
  BY SMTT(60) DEF Inv, Typed, TypeOK
<1>1. CASE ListStaleRefs(q)
  <2>0. PICK t \in proc[q].drop :
          proc' = [proc EXCEPT ![q] = [proc[q] EXCEPT
                      !.pc = "dropRef", !.track = t, !.drop = proc[q].drop \ {t},
                      !.stale = {r.asset : r \in {s \in refs :
                                    s.playlist = proc[q].playlist /\ s.track = t}}]]
    BY <1>1 DEF ListStaleRefs
  <2>1. PICK r :
          /\ r = [proc[q] EXCEPT !.pc = "dropRef", !.track = t,
                      !.drop = proc[q].drop \ {t},
                      !.stale = {x.asset : x \in {s \in refs :
                                    s.playlist = proc[q].playlist /\ s.track = t}}]
          /\ proc' = [proc EXCEPT ![q] = r]
    BY <2>0
  <2>2. /\ r.pc = "dropRef" /\ r.track = t /\ r.drop = proc[q].drop \ {t}
        /\ r.playlist = proc[q].playlist /\ r.items = proc[q].items
    BY SMTT(60), <1>0, <2>1 DEF Proc
  <2>3. /\ proc[q].playlist \in unreconciled /\ proc[q].items = entries[proc[q].playlist]
        /\ proc[q].drop \cap proc[q].items = {}
    BY <1>0, <1>1 DEF ListStaleRefs, At, Known, Reconciling
  <2>4. Known(r)
    BY <2>2, <2>3 DEF Known, Syncing, Reconciling, Dropping, Linking, Replacing, Deleting
  <2> QED BY ZenonT(60), <1>1, <2>1, <2>4, ReadOnlyInv DEF ListStaleRefs
<1>2. CASE TrackDropped(q)
  <2>1. PICK r : /\ r = [proc[q] EXCEPT !.pc = "drop", !.track = None, !.cur = None,
                                        !.back = "idle"]
                 /\ proc' = [proc EXCEPT ![q] = r]
    BY <1>2 DEF TrackDropped
  <2>2. /\ r.pc = "drop" /\ r.drop = proc[q].drop
        /\ r.playlist = proc[q].playlist /\ r.items = proc[q].items
    BY <1>0, <2>1 DEF Proc
  <2>3. Known(r)
    BY <1>0, <1>2, <2>2 DEF TrackDropped, At, Known, Syncing, Reconciling, Dropping,
                            Linking, Replacing, Deleting
  <2> QED BY <1>2, <2>1, <2>3, ReadOnlyInv DEF TrackDropped
<1>3. CASE LookUpAssets(q)
  <2> DEFINE p == proc[q].playlist
             found == UNION {{ReferencesNeeded(p, t, a) : a \in AssetOf(t)} :
                                 t \in proc[q].items}
  <2>1. PICK r : /\ r = [proc[q] EXCEPT !.pc = "ensure", !.items = {}, !.found = found]
                 /\ proc' = [proc EXCEPT ![q] = r]
    BY <1>3 DEF LookUpAssets
  <2>2. p \in unreconciled /\ proc[q].items = entries[p]
    BY <1>0, <1>3 DEF LookUpAssets, At, Known, Reconciling
  <2>3. \A x \in found : asset[x.asset].live /\ asset[x.asset].track = x.track
    BY AssetOfFinds DEF ReferencesNeeded
  <2>4. ASSUME NEW t \in entries[p], HasAsset(t)
        PROVE  \E x \in found : x.playlist = p /\ x.track = t
    <3>1. PICK a \in AssetOf(t) : TRUE
      BY <2>4, AssetOfFinds
    <3>2. ReferencesNeeded(p, t, a) \in found
      BY <2>2
    <3> QED BY <3>2 DEF ReferencesNeeded
  <2> HIDE DEF found
  <2>5. r.pc = "ensure" /\ r.playlist = p /\ r.found = found
    BY <1>0, <2>1 DEF Proc
  <2>6. Known(r)
    BY <2>2, <2>3, <2>4, <2>5
       DEF Known, Syncing, Reconciling, Dropping, Linking, Replacing, Deleting
  <2> QED BY <1>3, <2>1, <2>6, ReadOnlyInv DEF LookUpAssets
<1> QED BY <1>1, <1>2, <1>3

\* A reference that is dropped is of a track the playlist does not list.
LEMMA DropRefInv ==
    ASSUME Sequential, Inv, Typed', NEW q \in Procs, DropRef(q)
    PROVE  Inv'
<1> USE DEF spotify, synced, history
<1>0. proc[q] \in Proc /\ Known(proc[q])
  BY DEF Inv, Typed, TypeOK
<1>1. PICK a \in proc[q].stale :
        /\ refs' = refs \ {ReferencesNeeded(proc[q].playlist, proc[q].track, a)}
        /\ proc' = [proc EXCEPT ![q] = [proc[q] EXCEPT
                       !.pc = "check", !.cur = a, !.back = "dropRef",
                       !.stale = proc[q].stale \ {a}]]
  BY DEF DropRef
<1>2. PICK r : /\ r = [proc[q] EXCEPT !.pc = "check", !.cur = a, !.back = "dropRef",
                                      !.stale = proc[q].stale \ {a}]
               /\ proc' = [proc EXCEPT ![q] = r]
  BY <1>1
<1>3. /\ r.pc = "check" /\ r.back = "dropRef" /\ r.track = proc[q].track
      /\ r.playlist = proc[q].playlist /\ r.items = proc[q].items
      /\ r.drop = proc[q].drop
  BY <1>0, <1>2 DEF Proc
<1>4. UNCHANGED <<spotify, synced, final, asset, disk, history>>
  BY DEF DropRef
<1>5. /\ proc[q].playlist \in unreconciled
      /\ proc[q].items = entries[proc[q].playlist]
      /\ proc[q].drop \cap proc[q].items = {}
      /\ proc[q].track \notin entries[proc[q].playlist]
  BY <1>0 DEF DropRef, At, Known, Reconciling
<1>6. Known(r)'
  BY <1>3, <1>4, <1>5 DEF Known, Syncing, Reconciling, Dropping, Linking, Replacing, Deleting
<1>7. \A u \in Procs : Known(proc[u])'
  BY <1>2, <1>6, OneKnows DEF Inv
<1>8. ReferencesMatchTracks' /\ Snapshots'
  BY <1>1, <1>4 DEF Inv, ReferencesMatchTracks, Snapshots
<1>9. Listed'
  BY <1>1, <1>4, <1>5 DEF Inv, Listed, HasAsset, Rows, ReferencesNeeded
<1> QED BY <1>7, <1>8, <1>9 DEF Inv

\* ensure_reference makes the playlist a reconciled one.
LEMMA EnsureReferencesInv ==
    ASSUME Sequential, Inv, Typed', NEW q \in Procs, EnsureReferences(q)
    PROVE  Inv'
<1> USE DEF spotify, synced
<1>0. Known(proc[q]) /\ proc[q].pc = "ensure"
  BY DEF Inv, EnsureReferences, At
<1>1. /\ proc' = [proc EXCEPT ![q] = Idle]
      /\ refs' = refs \cup proc[q].found
      /\ unreconciled' = unreconciled \ {proc[q].playlist}
      /\ UNCHANGED <<spotify, synced, final, asset, disk, crashes, aliased>>
  BY DEF EnsureReferences, Stop
<1>2. \A u \in Procs : Known(proc[u])'
  BY <1>1, IdleKnows, OneKnows DEF Inv
<1>3. ReferencesMatchTracks'
  BY <1>0, <1>1 DEF Inv, ReferencesMatchTracks, Known, Reconciling
<1>4. Listed'
  <2> SUFFICES ASSUME NEW p \in Playlists \ unreconciled', NEW t \in entries'[p], HasAsset(t)'
               PROVE  \E x \in refs' : x.playlist = p /\ x.track = t
    BY DEF Listed
  <2>1. HasAsset(t) /\ t \in entries[p]
    BY <1>1 DEF HasAsset, Rows
  <2>2. CASE p = proc[q].playlist
    BY <1>0, <1>1, <2>1, <2>2 DEF Known, Reconciling
  <2>3. CASE p # proc[q].playlist
    BY <1>1, <2>1, <2>3 DEF Inv, Listed
  <2> QED BY <2>2, <2>3
<1>5. Snapshots'
  BY <1>1 DEF Inv, Snapshots
<1> QED BY <1>2, <1>3, <1>4, <1>5 DEF Inv

LEMMA LinkInv ==
    ASSUME Sequential, Inv, Typed', NEW q \in Procs, LinkStep(q)
    PROVE  Inv'
<1> USE DEF spotify, synced
<1>0. /\ proc[q] \in Proc /\ Known(proc[q]) /\ WellFormed(proc[q])
      /\ refs \subseteq Ref /\ asset \in [Assets -> Asset]
  BY DEF Inv, Typed, TypeOK
<1>1. ASSUME NEW t \in Tracks, LinkRead(q, t)
      PROVE  Inv'
  <2>1. PICK a \in IF AssetOf(t) = {} THEN {None} ELSE AssetOf(t) :
          proc' = [proc EXCEPT ![q] = [Idle EXCEPT !.pc = "link", !.track = t, !.cur = a]]
    BY <1>1 DEF LinkRead
  <2>2. PICK r : /\ r = [Idle EXCEPT !.pc = "link", !.track = t, !.cur = a]
                 /\ proc' = [proc EXCEPT ![q] = r]
    BY <2>1
  <2>3. r.pc = "link" /\ r.track = t /\ r.cur = a
    BY <2>2 DEF Idle
  <2>4. a # None => asset[a].live /\ asset[a].track = t
    BY <2>1, AssetOfFinds
  <2>5. Known(r)
    BY <2>3, <2>4 DEF Known, Syncing, Reconciling, Dropping, Linking, Replacing, Deleting
  <2> QED BY <1>1, <2>2, <2>5, ReadOnlyInv DEF LinkRead
<1>2. CASE LinkCommit(q)
  <2> DEFINE t == proc[q].track
             new == [NoAsset EXCEPT !.live = TRUE, !.track = t]
  <2>1. PICK a \in IF proc[q].cur = None THEN NewId ELSE {proc[q].cur} :
          /\ refs' = refs \cup {ReferencesNeeded(p, t, a) :
                                   p \in {r \in Playlists : t \in entries[r]}}
          /\ asset' = IF proc[q].cur = None THEN [asset EXCEPT ![a] = new] ELSE asset
          /\ IF proc[q].cur = None THEN HandOut(a) ELSE UNCHANGED history
    BY <1>2 DEF LinkCommit
  <2>2. /\ proc' = [proc EXCEPT ![q] = Idle] /\ proc[q].pc = "link"
        /\ UNCHANGED <<spotify, synced, final, disk>>
    BY <1>2 DEF LinkCommit, Stop, At
  <2>3. unreconciled' = unreconciled
    BY <2>1 DEF HandOut, history
  <2>4. new.live /\ new.track = t
    BY DEF NoAsset
  <2>5. /\ asset'[a].live /\ asset'[a].track = t
        /\ \A b \in Assets : asset[b].live => asset'[b] = asset[b]
        /\ \A b \in Assets : b # a => asset'[b] = asset[b]
    <3>1. CASE proc[q].cur = None
      <4>1. a \in Assets /\ ~asset[a].live
        BY <2>1, <3>1, NewIdIsFree
      <4> HIDE DEF new
      <4> QED BY <1>0, <2>1, <2>4, <3>1, <4>1
    <3>2. CASE proc[q].cur # None
      BY <1>0, <2>1, <2>2, <3>2 DEF Known, Linking
    <3> QED BY <3>1, <3>2
  <2> HIDE DEF new
  <2>6. \A u \in Procs : Known(proc[u])'
    BY <2>2, IdleKnows, OneKnows DEF Inv
  <2>7. ReferencesMatchTracks'
    <3> SUFFICES ASSUME NEW x \in refs'
                 PROVE  asset'[x.asset].live /\ asset'[x.asset].track = x.track
      BY DEF ReferencesMatchTracks
    <3>1. CASE x \in refs
      BY <1>0, <2>5, <3>1 DEF Inv, ReferencesMatchTracks, Ref
    <3>2. CASE x \notin refs
      BY <2>1, <2>5, <3>2 DEF ReferencesNeeded
    <3> QED BY <3>1, <3>2
  <2>8. Listed'
    <3> SUFFICES ASSUME NEW p \in Playlists \ unreconciled', NEW s \in entries'[p], HasAsset(s)'
                 PROVE  \E x \in refs' : x.playlist = p /\ x.track = s
      BY DEF Listed
    <3>1. p \in Playlists \ unreconciled /\ s \in entries[p]
      BY <2>2, <2>3
    <3>2. CASE s = t
      <4>1. ReferencesNeeded(p, t, a) \in refs'
        BY <2>1, <3>1, <3>2
      <4> QED BY <3>2, <4>1 DEF ReferencesNeeded
    <3>3. CASE s # t
      <4>1. PICK b \in Assets : asset'[b].live /\ asset'[b].track = s
        BY DEF HasAsset, Rows
      <4>2. HasAsset(s)
        BY <2>5, <3>3, <4>1 DEF HasAsset, Rows
      <4> QED BY <2>1, <3>1, <4>2 DEF Inv, Listed
    <3> QED BY <3>2, <3>3
  <2>9. Snapshots'
    BY <2>2 DEF Inv, Snapshots
  <2> QED BY <2>6, <2>7, <2>8, <2>9 DEF Inv
<1> QED BY <1>1, <1>2 DEF LinkStep

\* A swap moves every reference of the old asset to the new one, which is there
\* with its file; a row that is dropped has no references.
LEMMA ReplaceInv ==
    ASSUME Sequential, Inv, Typed', NEW q \in Procs, ReplaceStep(q)
    PROVE  Inv'
<1> USE DEF spotify, synced, history
<1> DEFINE m == proc[q]
<1>0. /\ m \in Proc /\ Known(m) /\ WellFormed(m)
      /\ refs \subseteq Ref /\ asset \in [Assets -> Asset]
  BY DEF Inv, Typed, TypeOK
<1>1. ASSUME NEW t \in Tracks, ReplaceStart(q, t)
      PROVE  Inv'
  <2>1. PICK a \in AssetOf(t) :
          proc' = [proc EXCEPT ![q] = [Idle EXCEPT !.pc = "create", !.track = t, !.cur = a]]
    BY <1>1 DEF ReplaceStart
  <2>2. PICK r : /\ r = [Idle EXCEPT !.pc = "create", !.track = t, !.cur = a]
                 /\ proc' = [proc EXCEPT ![q] = r]
    BY <2>1
  <2>3. r.pc = "create" /\ r.track = t /\ r.cur = a
    BY <2>2 DEF Idle
  <2>4. Known(r)
    BY <2>3, AssetOfFinds
       DEF Known, Syncing, Reconciling, Dropping, Linking, Replacing, Deleting
  <2> QED BY <1>1, <2>2, <2>4, ReadOnlyInv DEF ReplaceStart
<1>2. CASE ReplaceCreate(q)
  <2> DEFINE new == [live |-> TRUE, track |-> m.track, file |-> FALSE, pending |-> TRUE]
  <2>1. PICK a \in NewId :
          /\ asset' = [asset EXCEPT ![a] = new]
          /\ proc' = [proc EXCEPT ![q] = [m EXCEPT !.pc = "import", !.new = a]]
          /\ HandOut(a)
    BY <1>2 DEF ReplaceCreate
  <2>2. PICK r : /\ r = [m EXCEPT !.pc = "import", !.new = a]
                 /\ proc' = [proc EXCEPT ![q] = r]
    BY <2>1
  <2>3. r.pc = "import" /\ r.new = a /\ r.cur = m.cur /\ r.track = m.track
    BY <1>0, <2>2 DEF Proc
  <2>4. m.pc = "create" /\ UNCHANGED <<spotify, synced, final, refs, disk, unreconciled>>
    BY <1>2, <2>1 DEF ReplaceCreate, At, HandOut
  <2>5. a \in Assets /\ ~asset[a].live /\ m.cur \in Assets
    BY <1>0, <2>4, NewIdIsFree DEF WellFormed
  <2>6. asset[m.cur].live /\ asset[m.cur].track = m.track
    BY <1>0, <2>4 DEF Known, Replacing
  <2>7. /\ asset'[a] = new /\ \A b \in Assets : b # a => asset'[b] = asset[b]
    BY <1>0, <2>1, <2>5
  <2>8. new.live /\ new.track = m.track /\ new.pending
    OBVIOUS
  <2> HIDE DEF new, m
  <2>9. \A x \in refs : x.asset # a /\ x.asset \in Assets
    BY <1>0, <2>5 DEF Inv, ReferencesMatchTracks, Ref
  <2>10. Known(r)'
    <3>1. RefsTo(a)' = {}
      BY <2>4, <2>9 DEF RefsTo
    <3> QED BY <2>3, <2>5, <2>6, <2>7, <2>8, <3>1
            DEF Known, Syncing, Reconciling, Dropping, Linking, Replacing, Deleting
  <2>11. \A u \in Procs : Known(proc[u])'
    BY <2>2, <2>10, OneKnows DEF Inv
  <2>12. ReferencesMatchTracks'
    BY <2>4, <2>7, <2>9 DEF Inv, ReferencesMatchTracks
  <2>13. Listed'
    <3> SUFFICES ASSUME NEW p \in Playlists \ unreconciled', NEW t \in entries'[p], HasAsset(t)'
                 PROVE  \E x \in refs' : x.playlist = p /\ x.track = t
      BY DEF Listed
    <3>1. HasAsset(t)
      BY <2>5, <2>6, <2>7, <2>8 DEF HasAsset, Rows
    <3> QED BY <2>4, <3>1 DEF Inv, Listed
  <2>14. Snapshots'
    BY <2>4 DEF Inv, Snapshots
  <2> QED BY <2>11, <2>12, <2>13, <2>14 DEF Inv
<1>3. CASE ReplaceImport(q)
  <2>1. PICK r : /\ r = [m EXCEPT !.pc = "swapRead"] /\ proc' = [proc EXCEPT ![q] = r]
    BY <1>3 DEF ReplaceImport, Goto
  <2>2. r.pc = "swapRead" /\ r.new = m.new /\ r.cur = m.cur /\ r.track = m.track
    BY <1>0, <2>1 DEF Proc
  <2>3. /\ m.pc = "import" /\ m.new \in Assets /\ m.cur \in Assets
        /\ asset' = [asset EXCEPT ![m.new] = [@ EXCEPT !.file = TRUE]]
        /\ disk' = disk \cup {m.new}
        /\ UNCHANGED <<spotify, synced, final, refs, history>>
    BY <1>0, <1>3 DEF ReplaceImport, At, WellFormed
  <2>4. \A b \in Assets : /\ asset'[b].live = asset[b].live
                          /\ asset'[b].track = asset[b].track
                          /\ asset'[b].pending = asset[b].pending
                          /\ asset'[b].file = (asset[b].file \/ b = m.new)
    BY <1>0, <2>3 DEF Asset
  <2> HIDE DEF m
  <2>5. Known(r)'
    BY <1>0, <2>2, <2>3, <2>4 DEF Known, Syncing, Reconciling, Dropping, Linking, Replacing,
                                  Deleting, RefsTo
  <2>6. \A u \in Procs : Known(proc[u])'
    BY <2>1, <2>5, OneKnows DEF Inv
  <2>7. ReferencesMatchTracks' /\ Snapshots'
    BY <1>0, <2>3, <2>4 DEF Inv, ReferencesMatchTracks, Snapshots, Ref
  <2>8. Listed'
    BY <2>3, <2>4 DEF Inv, Listed, HasAsset, Rows
  <2> QED BY <2>6, <2>7, <2>8 DEF Inv
<1>4. CASE ReplaceFails(q)
  <2>1. /\ proc' = [proc EXCEPT ![q] = Idle] /\ m.pc = "import" /\ m.new \in Assets
        /\ asset' = [asset EXCEPT ![m.new] = NoAsset]
        /\ UNCHANGED <<spotify, synced, final, refs, disk, history>>
    BY <1>0, <1>4 DEF ReplaceFails, Stop, At, WellFormed
  <2>2. \A x \in refs : x.asset # m.new /\ x.asset \in Assets
    BY <1>0, <2>1 DEF Known, Replacing, RefsTo, Ref
  <2>3. /\ \A b \in Assets : b # m.new => asset'[b] = asset[b]
        /\ ~asset'[m.new].live
    BY <1>0, <2>1 DEF NoAsset
  <2> HIDE DEF m
  <2>4. \A u \in Procs : Known(proc[u])'
    BY <2>1, IdleKnows, OneKnows DEF Inv
  <2>5. ReferencesMatchTracks' /\ Snapshots'
    BY <2>1, <2>2, <2>3 DEF Inv, ReferencesMatchTracks, Snapshots
  <2>6. Listed'
    BY <2>1, <2>3 DEF Inv, Listed, HasAsset, Rows
  <2> QED BY <2>4, <2>5, <2>6 DEF Inv
<1>5. CASE SwapRead(q)
  <2>1. PICK r : /\ r = [m EXCEPT !.pc = "swap", !.found = RefsTo(m.cur)]
                 /\ proc' = [proc EXCEPT ![q] = r]
    BY <1>5 DEF SwapRead
  <2>2. /\ r.pc = "swap" /\ r.new = m.new /\ r.cur = m.cur /\ r.track = m.track
        /\ r.found = RefsTo(m.cur) /\ m.pc = "swapRead"
    BY <1>0, <1>5, <2>1 DEF Proc, SwapRead, At
  <2> HIDE DEF m
  <2>3. Known(r)
    BY <1>0, <2>2 DEF Known, Syncing, Reconciling, Dropping, Linking, Replacing, Deleting
  <2> QED BY <1>5, <2>1, <2>3, ReadOnlyInv DEF SwapRead
<1>6. CASE Swap(q)
  <2> DEFINE moved == {[x EXCEPT !.asset = m.new] : x \in m.found}
  <2>1. PICK r : /\ r = [m EXCEPT !.pc = "check", !.back = "idle"]
                 /\ proc' = [proc EXCEPT ![q] = r]
    BY <1>6 DEF Swap
  <2>2. r.pc = "check" /\ r.back = "idle"
    BY <1>0, <2>1 DEF Proc
  <2>3. /\ m.pc = "swap" /\ m.new \in Assets /\ m.cur \in Assets
        /\ refs' = (refs \ m.found) \cup moved
        /\ asset' = [asset EXCEPT ![m.cur] = [@ EXCEPT !.track = None],
                                  ![m.new] = [@ EXCEPT !.pending = FALSE]]
        /\ UNCHANGED <<spotify, synced, final, disk, history>>
    BY <1>0, <1>6 DEF Swap, At, WellFormed
  <2>4. /\ m.new # m.cur /\ m.found = RefsTo(m.cur)
        /\ asset[m.cur].track = m.track /\ asset[m.cur].live
        /\ asset[m.new].track = m.track /\ asset[m.new].live
    BY SMTT(60), <1>0, <2>3 DEF Known, Replacing
  <2>5. /\ asset'[m.new].live /\ asset'[m.new].track = m.track
        /\ asset'[m.cur].track = None
        /\ \A b \in Assets : b # m.cur => /\ asset'[b].live = asset[b].live
                                          /\ asset'[b].track = asset[b].track
    BY <1>0, <2>3, <2>4 DEF Asset
  <2>6. \A x \in m.found : x \in refs /\ x.asset = m.cur /\ x \in Ref
    BY <1>0, <2>4 DEF RefsTo
  <2>7. \A x \in moved : /\ x.asset = m.new
                         /\ \E y \in m.found : x.playlist = y.playlist /\ x.track = y.track
    BY <2>6 DEF Ref
  <2>8. ASSUME NEW y \in m.found
        PROVE  \E x \in moved : x.playlist = y.playlist /\ x.track = y.track
    <3>1. [y EXCEPT !.asset = m.new] \in moved /\ y \in Ref
      BY <2>6
    <3>2. /\ [y EXCEPT !.asset = m.new].playlist = y.playlist
          /\ [y EXCEPT !.asset = m.new].track = y.track
      BY <3>1 DEF Ref
    <3> HIDE DEF moved
    <3> QED BY <3>1, <3>2
  <2> HIDE DEF m, moved
  <2>9. Known(r)'
    BY <2>2 DEF Known, Syncing, Reconciling, Dropping, Linking, Replacing, Deleting
  <2>10. \A u \in Procs : Known(proc[u])'
    BY <2>1, <2>9, OneKnows DEF Inv
  <2>11. ReferencesMatchTracks'
    <3> SUFFICES ASSUME NEW x \in refs'
                 PROVE  asset'[x.asset].live /\ asset'[x.asset].track = x.track
      BY DEF ReferencesMatchTracks
    <3>1. CASE x \in moved
      BY <2>4, <2>5, <2>6, <2>7, <3>1 DEF Inv, ReferencesMatchTracks
    <3>2. CASE x \in refs \ m.found
      <4>1. x.asset # m.cur /\ x.asset \in Assets
        BY <1>0, <2>4, <3>2 DEF RefsTo, Ref
      <4> QED BY <2>5, <3>2, <4>1 DEF Inv, ReferencesMatchTracks
    <3> QED BY <2>3, <3>1, <3>2
  <2>12. Listed'
    <3> SUFFICES ASSUME NEW p \in Playlists \ unreconciled', NEW t \in entries'[p], HasAsset(t)'
                 PROVE  \E x \in refs' : x.playlist = p /\ x.track = t
      BY DEF Listed
    <3>1. p \in Playlists \ unreconciled /\ t \in entries[p] /\ t \in Tracks
      BY <2>3 DEF Inv, Typed, TypeOK
    <3>2. t # None
      BY <3>1, ReferencesAssumption
    <3>3. HasAsset(t)
      BY <2>5, <3>2 DEF HasAsset, Rows
    <3>4. PICK x \in refs : x.playlist = p /\ x.track = t
      BY <3>1, <3>3 DEF Inv, Listed
    <3> QED BY <2>3, <2>8, <3>4
  <2>13. Snapshots'
    BY <2>3 DEF Inv, Snapshots
  <2> QED BY <2>10, <2>11, <2>12, <2>13 DEF Inv
<1>7. CASE ReplaceBreaks(q)
  BY <1>7, IdleKnows, ReadOnlyInv DEF ReplaceBreaks, Stop
<1> QED BY <1>1, <1>2, <1>3, <1>4, <1>5, <1>6, <1>7 DEF ReplaceStep

\* Where a deletion returns to, what was known of a reconciliation still is.
LEMMA ReturnKnows ==
    ASSUME Inv, NEW q \in Procs, proc[q].pc \in {"check", "delete"}, Return(q),
           UNCHANGED <<spotify, synced, unreconciled>>
    PROVE  \E r : Known(r) /\ Known(r)' /\ proc' = [proc EXCEPT ![q] = r]
<1>0. /\ proc[q] \in Proc /\ Known(proc[q]) /\ Typed
  BY DEF Inv, Typed, TypeOK
<1>1. PICK r \in Proc : /\ proc' = [proc EXCEPT ![q] = r]
                        /\ \/ r = Idle
                           \/ /\ r = [proc[q] EXCEPT !.pc = proc[q].back]
                              /\ proc[q].back \in {"dropRef", "recover"}
  BY <1>0, ReturnRecord
<1>2. CASE r = Idle
  BY <1>1, <1>2, IdleKnows
<1>3. CASE r # Idle
  <2>1. /\ r.pc = proc[q].back /\ r.pc \in {"dropRef", "recover"}
        /\ r.track = proc[q].track /\ r.playlist = proc[q].playlist
        /\ r.items = proc[q].items /\ r.drop = proc[q].drop
    BY <1>0, <1>1, <1>3 DEF Proc
  <2>2. r.pc = "dropRef" =>
           /\ r.playlist \in unreconciled /\ r.items = entries[r.playlist]
           /\ r.drop \cap r.items = {} /\ r.track \notin entries[r.playlist]
    BY <1>0, <2>1 DEF Known, Reconciling, Dropping
  <2>3. Known(r)
    BY <2>1, <2>2 DEF Known, Syncing, Reconciling, Dropping, Linking, Replacing, Deleting
  <2>4. Known(r)'
    BY <2>1, <2>2 DEF Known, Syncing, Reconciling, Dropping, Linking, Replacing, Deleting,
                      synced
  <2> QED BY <1>1, <2>3, <2>4
<1> QED BY <1>2, <1>3

\* Nothing that is referenced is deleted.
LEMMA DeleteInv ==
    ASSUME Sequential, Inv, Typed', NEW q \in Procs, DeleteStep(q)
    PROVE  Inv'
<1> USE DEF spotify, synced, history
<1> DEFINE m == proc[q]
<1>0. /\ m \in Proc /\ Known(m) /\ WellFormed(m)
      /\ refs \subseteq Ref /\ asset \in [Assets -> Asset]
  BY DEF Inv, Typed, TypeOK
<1>1. CASE CheckEligible(q)
  <2>1. CASE Return(q)
    <3>1. PICK r : Known(r) /\ proc' = [proc EXCEPT ![q] = r]
      BY <1>1, <2>1, ReturnKnows DEF CheckEligible, At
    <3> QED BY <1>1, <3>1, ReadOnlyInv DEF CheckEligible
  <2>2. CASE ~Return(q)
    <3>1. /\ RefsTo(m.cur) = {} /\ m.pc = "check"
          /\ \E pc \in {"unlink", "delete"} : proc' = [proc EXCEPT ![q] = [m EXCEPT !.pc = pc]]
      BY <1>1, <2>2 DEF CheckEligible, Goto, At
    <3>2. PICK pc \in {"unlink", "delete"} : proc' = [proc EXCEPT ![q] = [m EXCEPT !.pc = pc]]
      BY <3>1
    <3>3. PICK r : r = [m EXCEPT !.pc = pc] /\ proc' = [proc EXCEPT ![q] = r]
      BY <3>2
    <3>4. /\ r.pc = pc /\ r.cur = m.cur /\ r.back = m.back
          /\ r.track = m.track /\ r.playlist = m.playlist
          /\ r.items = m.items /\ r.drop = m.drop
      BY <1>0, <3>3 DEF Proc
    <3> HIDE DEF m
    <3>5. Known(r)
      BY <1>0, <3>1, <3>4
         DEF Known, Syncing, Reconciling, Dropping, Linking, Replacing, Deleting
    <3> QED BY <1>1, <3>3, <3>5, ReadOnlyInv DEF CheckEligible
  <2> QED BY <2>1, <2>2
<1>2. CASE Unlink(q)
  <2>1. PICK r : r = [m EXCEPT !.pc = "delete"] /\ proc' = [proc EXCEPT ![q] = r]
    BY <1>2 DEF Unlink, Goto
  <2>2. /\ r.pc = "delete" /\ r.cur = m.cur /\ r.back = m.back
        /\ r.track = m.track /\ r.playlist = m.playlist
        /\ r.items = m.items /\ r.drop = m.drop
    BY <1>0, <2>1 DEF Proc
  <2>3. m.pc = "unlink" /\ UNCHANGED <<spotify, synced, final, asset, refs, history>>
    BY <1>2 DEF Unlink, At
  <2> HIDE DEF m
  <2>4. Known(r)'
    BY <1>0, <2>2, <2>3
       DEF Known, Syncing, Reconciling, Dropping, Linking, Replacing, Deleting, RefsTo
  <2>5. \A u \in Procs : Known(proc[u])'
    BY <2>1, <2>4, OneKnows DEF Inv
  <2>6. ReferencesMatchTracks' /\ Listed' /\ Snapshots'
    BY <2>3 DEF Inv, ReferencesMatchTracks, Listed, Snapshots, HasAsset, Rows
  <2> QED BY <2>5, <2>6 DEF Inv
<1>3. CASE DeleteRow(q)
  <2>1. /\ m.pc = "delete" /\ m.cur \in Assets
        /\ asset' = [asset EXCEPT ![m.cur] = NoAsset]
        /\ UNCHANGED <<spotify, synced, final, refs, disk, history>>
    BY <1>0, <1>3 DEF DeleteRow, At, WellFormed
  <2>2. PICK r : Known(r)' /\ proc' = [proc EXCEPT ![q] = r]
    BY <1>3, <2>1, ReturnKnows DEF DeleteRow
  <2>3. \A x \in refs : x.asset # m.cur /\ x.asset \in Assets
    BY <1>0, <2>1 DEF Known, Deleting, RefsTo, Ref
  <2>4. /\ \A b \in Assets : b # m.cur => asset'[b] = asset[b]
        /\ ~asset'[m.cur].live
    BY <1>0, <2>1 DEF NoAsset
  <2> HIDE DEF m
  <2>5. \A u \in Procs : Known(proc[u])'
    BY <2>2, OneKnows DEF Inv
  <2>6. ReferencesMatchTracks' /\ Snapshots'
    BY <2>1, <2>3, <2>4 DEF Inv, ReferencesMatchTracks, Snapshots
  <2>7. Listed'
    BY <2>1, <2>4 DEF Inv, Listed, HasAsset, Rows
  <2> QED BY <2>5, <2>6, <2>7 DEF Inv
<1> QED BY <1>1, <1>2, <1>3 DEF DeleteStep

LEMMA CrashInv ==
    ASSUME Inv, Typed', Crash
    PROVE  Inv'
<1> USE DEF spotify, synced, media
<1>1. PICK r : /\ r = [Idle EXCEPT !.pc = "recover", !.back = "recover",
                                   !.stale = {a \in Rows : asset[a].pending}]
               /\ proc' = [q \in Procs |-> IF q = Startup THEN r ELSE Idle]
  BY DEF Crash
<1>2. r.pc = "recover"
  BY <1>1 DEF Idle
<1>3. UNCHANGED <<spotify, synced, final, media, unreconciled>>
  BY DEF Crash
<1>4. \A u \in Procs : Known(proc[u])'
  <2>1. \A u \in Procs : proc'[u].pc \in {"idle", "recover"}
    BY <1>1, <1>2, IdleFacts
  <2> QED BY <2>1 DEF Known, Syncing, Reconciling, Dropping, Linking, Replacing, Deleting
<1>5. ReferencesMatchTracks' /\ Listed' /\ Snapshots'
  BY <1>3 DEF Inv, ReferencesMatchTracks, Listed, Snapshots, HasAsset, Rows
<1> QED BY <1>4, <1>5 DEF Inv

LEMMA OthersInv ==
    ASSUME Sequential, Inv, Typed',
           \/ \E q \in Procs : RecoverStep(q) \/ StepRaises(q)
           \/ Environment
           \/ UNCHANGED vars
    PROVE  Inv'
<1>0. /\ \A q \in Procs : proc[q] \in Proc /\ WellFormed(proc[q]) /\ Known(proc[q])
      /\ version \in [Playlists -> Nat] /\ saved \in [Playlists -> Nat]
      /\ remote \in [Playlists -> SUBSET Tracks] /\ asset \in [Assets -> Asset]
      /\ refs \subseteq Ref
  BY DEF Inv, Typed, TypeOK
<1>1. ASSUME NEW q \in Procs, RecoverNext(q)
      PROVE  Inv'
  <2>1. PICK a \in proc[q].stale :
          proc' = [proc EXCEPT ![q] = [proc[q] EXCEPT !.pc = "check", !.cur = a,
                                                      !.stale = @ \ {a}]]
    BY <1>1 DEF RecoverNext
  <2>2. PICK r : /\ r = [proc[q] EXCEPT !.pc = "check", !.cur = a, !.stale = @ \ {a}]
                 /\ proc' = [proc EXCEPT ![q] = r]
    BY <2>1
  <2>3. r.pc = "check" /\ r.back = "recover"
    BY <1>0, <1>1, <2>2 DEF Proc, RecoverNext, At, WellFormed
  <2>4. Known(r)
    BY <2>3 DEF Known, Syncing, Reconciling, Dropping, Linking, Replacing, Deleting
  <2> QED BY <1>1, <2>2, <2>4, ReadOnlyInv DEF RecoverNext
<1>2. ASSUME NEW q \in Procs, Recovered(q) \/ StepRaises(q)
      PROVE  Inv'
  BY <1>2, IdleKnows, ReadOnlyInv DEF Recovered, StepRaises, Stop
<1>3. ASSUME NEW p \in Playlists, Edit(p)
      PROVE  Inv'
  <2>1. /\ version' = [version EXCEPT ![p] = @ + 1]
        /\ \A s \in Playlists : s # p => remote'[s] = remote[s]
        /\ UNCHANGED <<synced, final, media, proc, history>>
    BY <1>0, <1>3 DEF Edit
  <2>2. \A s \in Playlists : /\ version'[s] \in Nat /\ version[s] \in Nat
                             /\ version'[s] = IF s = p THEN version[s] + 1 ELSE version[s]
    BY <1>0, <2>1
  <2>3. ASSUME NEW q \in Procs
        PROVE  Syncing(proc[q])'
    <3>1. Syncing(proc[q])
      BY <1>0 DEF Known
    <3>2. \/ proc[q].pc \notin {"items", "old", "replace"}
          \/ proc[q].playlist \in Playlists /\ proc[q].snap \in Nat
      BY <1>0 DEF WellFormed, Proc
    <3>3. UNCHANGED <<saved, proc>>
      BY <2>1 DEF synced
    <3> QED BY <2>1, <2>2, <3>1, <3>2, <3>3 DEF Syncing
  <2>4. ASSUME NEW q \in Procs
        PROVE  (Reconciling(proc[q]) /\ Linking(proc[q]) /\ Replacing(proc[q])
                  /\ Deleting(proc[q]))'
    BY <1>0, <2>1 DEF synced, media, history, Known, Reconciling, Dropping, Linking,
                      Replacing, Deleting, RefsTo, HasAsset, Rows
  <2>5. ReferencesMatchTracks' /\ Listed'
    BY <2>1 DEF Inv, synced, media, history, ReferencesMatchTracks, Listed, HasAsset, Rows
  <2>6. Snapshots'
    <3>1. UNCHANGED <<saved, entries>> /\ \A s \in Playlists : saved[s] \in Nat
      BY <1>0, <2>1 DEF synced
    <3> QED BY <2>1, <2>2, <3>1 DEF Inv, Snapshots
  <2> QED BY <2>3, <2>4, <2>5, <2>6 DEF Inv, Known
<1>4. ASSUME NEW a \in Assets, Import(a)
      PROVE  Inv'
  <2>1. /\ \A b \in Assets : /\ asset'[b].live = asset[b].live
                             /\ asset'[b].track = asset[b].track
                             /\ asset'[b].pending = asset[b].pending
                             /\ asset[b].file => asset'[b].file
        /\ disk \subseteq disk'
        /\ UNCHANGED <<spotify, synced, final, refs, proc, history>>
    BY <1>0, <1>4 DEF Import, Asset
  <2>2. ASSUME NEW q \in Procs
        PROVE  (Syncing(proc[q]) /\ Linking(proc[q]) /\ Deleting(proc[q]))'
    <3>1. Syncing(proc[q]) /\ Linking(proc[q]) /\ Deleting(proc[q])
      BY <1>0 DEF Known
    <3>2. proc[q].cur \in Assets \/ proc[q].cur = None
      BY <1>0 DEF Proc
    <3> QED BY <2>1, <3>1, <3>2 DEF spotify, synced, Syncing, Linking, Deleting, RefsTo
  <2>3. ASSUME NEW q \in Procs
        PROVE  Reconciling(proc[q])'
    <3>1. Reconciling(proc[q]) /\ \A x \in proc[q].found : x.asset \in Assets
      BY <1>0 DEF Known, Proc, Ref
    <3> QED BY <2>1, <3>1 DEF synced, history, Reconciling, Dropping, HasAsset, Rows
  <2>4. ASSUME NEW q \in Procs
        PROVE  Replacing(proc[q])'
    <3>1. Replacing(proc[q]) /\ WellFormed(proc[q])
      BY <1>0 DEF Known
    <3> QED BY <2>1, <3>1 DEF Replacing, WellFormed, RefsTo
  <2>5. ReferencesMatchTracks' /\ Listed' /\ Snapshots'
    BY <1>0, <2>1 DEF Inv, spotify, synced, history, ReferencesMatchTracks, Listed,
                      Snapshots, HasAsset, Rows, Ref
  <2> QED BY <2>2, <2>3, <2>4, <2>5 DEF Inv, Known
<1>5. CASE UNCHANGED vars \/ \E p \in Playlists : Disconnect(p)
  <2>1. UNCHANGED <<spotify, synced, media, proc, history>>
    BY <1>5 DEF vars, Disconnect
  <2>2. \A u \in Procs : Known(proc[u])'
    BY <1>0, <2>1 DEF spotify, synced, media, history, Known, Syncing, Reconciling, Dropping,
                      Linking, Replacing, Deleting, RefsTo, HasAsset, Rows
  <2>3. ReferencesMatchTracks' /\ Listed' /\ Snapshots'
    BY <2>1 DEF Inv, spotify, synced, media, history, ReferencesMatchTracks, Listed,
                Snapshots, HasAsset, Rows
  <2> QED BY <2>2, <2>3 DEF Inv
<1> QED BY <1>1, <1>2, <1>3, <1>4, <1>5 DEF RecoverStep, Environment

LEMMA NextInv ==
    ASSUME Sequential, Inv, [Next]_vars
    PROVE  Inv'
<1>1. Typed'
  BY NextTyped DEF Inv
<1>2. ASSUME NEW q \in Procs, SyncStep(q)
      PROVE  Inv'
  BY <1>1, <1>2, SyncReadsInv, ReplaceEntriesInv, ReconcileReadsInv, DropRefInv,
     EnsureReferencesInv DEF SyncStep
<1> QED BY <1>1, <1>2, LinkInv, ReplaceInv, DeleteInv, CrashInv, OthersInv DEF Next

LEMMA InitInv == Init => Inv
<1> SUFFICES ASSUME Init PROVE Inv
  OBVIOUS
<1>1. Typed
  <2>1. /\ version \in [Playlists -> Nat] /\ saved \in [Playlists -> Nat]
        /\ entries \in [Playlists -> SUBSET Tracks]
    BY DEF Init, None
  <2>2. asset \in [Assets -> Asset]
    BY DEF Init, NoAsset, Asset
  <2>3. proc \in [Procs -> Proc] /\ \A q \in Procs : WellFormed(proc[q])
    BY IdleFacts DEF Init
  <2> QED BY <2>1, <2>2, <2>3 DEF Init, Typed, TypeOK
<1>2. \A q \in Procs : Known(proc[q])
  BY IdleKnows DEF Init
<1>3. ReferencesMatchTracks /\ Listed /\ Snapshots
  BY DEF Init, ReferencesMatchTracks, Listed, Snapshots, None
<1> QED BY <1>1, <1>2, <1>3 DEF Inv

\* One task at a time keeps the invariant.
LEMMA InvariantHolds == ASSUME Sequential PROVE Spec => []Inv
<1>1. Inv /\ [Next]_vars => Inv'
  BY NextInv
<1> QED BY InitInv, <1>1, PTL DEF Spec

\* A reference leads to an asset that exists and is of its track, through every
\* sync, search, replacement, deletion, failure and restart of one task
\* (reference_counting.py, deletion.py, replacement.py).
THEOREM ReferencesHold == ASSUME Sequential PROVE Spec => []ReferencesMatchTracks
<1>1. Inv => ReferencesMatchTracks
  BY DEF Inv
<1> QED BY InvariantHolds, <1>1, PTL

\* A reconciled playlist references an asset of every track it lists that has
\* one (_reconcile_references, sync_references_for_track).
THEOREM ListedHolds == ASSUME Sequential PROVE Spec => []ListedIsReferenced
<1>1. Inv => ListedIsReferenced
  <2> SUFFICES ASSUME Inv, NEW p \in Playlists \ unreconciled, NEW t \in entries[p],
                      AssetOf(t) # {}
               PROVE  \E r \in refs : r.playlist = p /\ r.track = t
    BY DEF ListedIsReferenced
  <2>1. HasAsset(t)
    BY AssetOfFinds
  <2> QED BY <2>1 DEF Inv, Listed
<1> QED BY InvariantHolds, <1>1, PTL

\* The stored snapshot_id is that of the entries (sync_playlist), so the sync
\* it lets skip has nothing to do.
THEOREM SnapshotHolds == ASSUME Sequential PROVE Spec => []SnapshotSkipsNoChange
<1>1. Inv => SnapshotSkipsNoChange
  BY DEF Inv, Snapshots, SnapshotSkipsNoChange
<1> QED BY InvariantHolds, <1>1, PTL

-----------------------------------------------------------------------------
(* What a step may never take away *)

\* After the step the reference leads to no file.
Loses(x) == ~(/\ x \in refs'
              /\ asset'[x.asset].live /\ asset'[x.asset].file /\ x.asset \in disk')

\* A reference that leads to a file.
Serves(x) == x \in refs /\ asset[x.asset].live /\ asset[x.asset].file /\ x.asset \in disk

\* No step but a swap and the release of a dropped track loses a reference to a
\* file: what is unlinked or deleted has none, and a new row takes a free id.
LEMMA NothingElseLoses ==
    ASSUME Inv, [Next]_vars, NEW x, Serves(x), Loses(x)
    PROVE  \E q \in Procs : DropRef(q) \/ Swap(q)
<1>0. /\ \A q \in Procs : proc[q] \in Proc /\ WellFormed(proc[q]) /\ Known(proc[q])
      /\ asset \in [Assets -> Asset] /\ x.asset \in Assets
      /\ x \in refs /\ asset[x.asset].live /\ asset[x.asset].file /\ x.asset \in disk
  BY DEF Inv, Typed, TypeOK, Serves, Ref
<1>1. ~(UNCHANGED media)
  BY <1>0 DEF Loses, media
<1>2. ASSUME NEW q \in Procs, ReplaceEntries(q) \/ EnsureReferences(q)
      PROVE  FALSE
  BY <1>0, <1>1, <1>2 DEF ReplaceEntries, EnsureReferences, Loses
<1>3. ASSUME NEW q \in Procs, LinkCommit(q)
      PROVE  FALSE
  <2>1. PICK a : /\ refs \subseteq refs' /\ disk' = disk
                 /\ \/ /\ a \in NewId
                       /\ asset' = [asset EXCEPT ![a] = [NoAsset EXCEPT !.live = TRUE,
                                                            !.track = proc[q].track]]
                    \/ asset' = asset
    BY <1>3 DEF LinkCommit
  <2>2. asset'[x.asset] = asset[x.asset]
    BY <1>0, <2>1, NewIdIsFree
  <2> QED BY <1>0, <2>1, <2>2 DEF Loses
<1>4. ASSUME NEW q \in Procs, ReplaceCreate(q)
      PROVE  FALSE
  <2>1. PICK a \in NewId : asset' = [asset EXCEPT ![a] = [live |-> TRUE,
                              track |-> proc[q].track, file |-> FALSE, pending |-> TRUE]]
    BY <1>4 DEF ReplaceCreate
  <2>2. asset'[x.asset] = asset[x.asset]
    BY <1>0, <2>1, NewIdIsFree
  <2> QED BY <1>0, <1>4, <2>2 DEF Loses, ReplaceCreate
<1>5. ASSUME NEW q \in Procs, ReplaceImport(q)
      PROVE  FALSE
  <2>1. asset'[x.asset].live /\ asset'[x.asset].file
    BY <1>0, <1>5 DEF ReplaceImport, Asset
  <2> QED BY <1>0, <1>5, <2>1 DEF Loses, ReplaceImport
<1>6. ASSUME NEW q \in Procs, ReplaceFails(q)
      PROVE  FALSE
  <2>1. x.asset # proc[q].new
    BY <1>0, <1>6 DEF ReplaceFails, At, Known, Replacing, RefsTo
  <2> QED BY <1>0, <1>6, <2>1 DEF Loses, ReplaceFails
<1>7. ASSUME NEW q \in Procs, Unlink(q) \/ DeleteRow(q)
      PROVE  FALSE
  <2>1. x.asset # proc[q].cur
    BY <1>0, <1>7 DEF Unlink, DeleteRow, At, Known, Deleting, RefsTo
  <2> QED BY <1>0, <1>7, <2>1 DEF Loses, Unlink, DeleteRow
<1>8. ASSUME NEW a \in Assets, Import(a)
      PROVE  FALSE
  <2>1. asset'[x.asset].live /\ asset'[x.asset].file
    BY SMTT(60), <1>0, <1>8 DEF Import, Asset
  <2> QED BY <1>0, <1>8, <2>1 DEF Loses, Import
<1>9. CASE \/ UNCHANGED vars \/ Crash
           \/ \E p \in Playlists : Edit(p) \/ Disconnect(p)
           \/ \E q \in Procs : \/ RecoverStep(q) \/ StepRaises(q) \/ CheckEligible(q)
                               \/ SwapRead(q) \/ ReplaceBreaks(q)
  BY ZenonT(60), <1>1, <1>9
      DEF vars, Crash, Edit, Disconnect, RecoverStep, RecoverNext, Recovered,
                    StepRaises, CheckEligible, SwapRead, ReplaceBreaks
<1>10. CASE \E q \in Procs :
               \/ \E p \in Playlists : SyncStart(q, p)
               \/ SyncMeta(q) \/ SyncItems(q) \/ ReadOldEntries(q) \/ ListStaleRefs(q)
               \/ TrackDropped(q) \/ LookUpAssets(q)
               \/ \E t \in Tracks : LinkRead(q, t) \/ ReplaceStart(q, t)
  BY <1>1, <1>10 DEF SyncStart, SyncMeta, SyncItems, ReadOldEntries, ListStaleRefs,
                     TrackDropped, LookUpAssets, LinkRead, ReplaceStart
<1> QED BY <1>2, <1>3, <1>4, <1>5, <1>6, <1>7, <1>8, <1>9, <1>10
        DEF Next, SyncStep, LinkStep, ReplaceStep, DeleteStep, Environment

\* A sync releases only what is no longer listed.
LEMMA DropRefServes ==
    ASSUME Inv, NEW q \in Procs, DropRef(q), NEW p \in Playlists, NEW t \in Tracks,
           t \in entries'[p], Served(p, t)
    PROVE  Served(p, t)'
<1>1. proc[q].track \notin entries[proc[q].playlist]
  BY DEF Inv, DropRef, At, Known, Reconciling
<1>2. UNCHANGED <<entries, asset, disk>>
  BY DEF DropRef, synced
<1>3. PICK a : refs' = refs \ {ReferencesNeeded(proc[q].playlist, proc[q].track, a)}
  BY DEF DropRef
<1>4. PICK x \in refs : /\ x.playlist = p /\ x.track = t
                        /\ asset[x.asset].live /\ asset[x.asset].file
                        /\ x.asset \in disk
  BY DEF Served
<1>5. x # ReferencesNeeded(proc[q].playlist, proc[q].track, a)
  BY <1>1, <1>2, <1>4 DEF ReferencesNeeded
<1>6. x \in refs'
  BY <1>3, <1>5
<1> QED BY <1>2, <1>4, <1>6 DEF Served

\* A swap moves references of the old asset to one that has its file.
LEMMA SwapServes ==
    ASSUME Typed, NEW q \in Procs, Swap(q), proc[q].cur # proc[q].new,
           asset[proc[q].new].file, proc[q].new \in disk,
           NEW p \in Playlists, NEW t \in Tracks, Served(p, t)
    PROVE  Served(p, t)'
<1> DEFINE old == proc[q].cur
           new == proc[q].new
           moved == {[r EXCEPT !.asset = new] : r \in proc[q].found}
<1>1. /\ old \in Assets /\ new \in Assets /\ old # new
      /\ asset[new].live /\ asset[new].file /\ new \in disk
      /\ refs \subseteq Ref /\ asset \in [Assets -> Asset]
  BY DEF Typed, TypeOK, WellFormed, Swap, At
<1>2. /\ refs' = (refs \ proc[q].found) \cup moved
      /\ asset' = [asset EXCEPT ![old] = [@ EXCEPT !.track = None],
                                ![new] = [@ EXCEPT !.pending = FALSE]]
      /\ entries' = entries /\ disk' = disk
  BY DEF Swap, synced
<1> HIDE DEF old, new
<1>3. \A a \in Assets : asset'[a].live = asset[a].live /\ asset'[a].file = asset[a].file
  BY <1>1, <1>2 DEF Asset
<1>4. PICK x \in refs : /\ x.playlist = p /\ x.track = t
                        /\ asset[x.asset].live /\ asset[x.asset].file
                        /\ x.asset \in disk
  BY DEF Served
<1>5. x \in Ref /\ x.asset \in Assets /\ t \in entries[p]
  BY <1>1, <1>4 DEF Served, Ref
<1>6. CASE x \in proc[q].found
  <2>1. PICK y : y = [x EXCEPT !.asset = new]
    OBVIOUS
  <2>2. y.playlist = p /\ y.track = t /\ y.asset = new
    BY <1>4, <1>5, <2>1 DEF Ref
  <2>3. y \in moved
    BY <1>6, <2>1
  <2>4. y \in refs'
    BY <1>2, <2>3
  <2> QED BY <1>1, <1>2, <1>3, <1>5, <2>2, <2>4 DEF Served
<1>7. CASE x \notin proc[q].found
  BY ZenonT(60), <1>2, <1>3, <1>4, <1>5, <1>7 DEF Served
<1> QED BY <1>6, <1>7

\* What a playlist has and still lists, it has after every step.
LEMMA StepServes ==
    ASSUME Inv, [Next]_vars, NEW p \in Playlists, NEW t \in Tracks,
           t \in entries'[p], Served(p, t)
    PROVE  Served(p, t)'
<1>1. PICK x : Serves(x) /\ x.playlist = p /\ x.track = t
  BY DEF Served, Serves
<1>2. CASE Loses(x)
  <2>1. CASE \E q \in Procs : DropRef(q)
    BY <2>1, DropRefServes
  <2>2. ASSUME NEW q \in Procs, Swap(q)
        PROVE  Served(p, t)'
    <3>1. /\ proc[q].cur # proc[q].new /\ asset[proc[q].new].file
          /\ proc[q].new \in disk
      BY <2>2 DEF Inv, Swap, At, Known, Replacing
    <3> QED BY <2>2, <3>1, SwapServes DEF Inv
  <2> QED BY <1>1, <1>2, <2>1, <2>2, NothingElseLoses
<1>3. CASE ~Loses(x)
  BY <1>1, <1>3 DEF Loses, Served
<1> QED BY <1>2, <1>3

\* As long as a playlist lists a track it has a file of, it keeps having one:
\* deletion.py unlinks what nothing references, replacement.py moves the
\* references in one commit, _reconcile_references releases what is not listed.
THEOREM ServedHolds == ASSUME Sequential PROVE Spec => ServedStaysServed
<1> DEFINE Stays == \A p \in Playlists, t \in Tracks :
                       Served(p, t) /\ t \in entries'[p] => Served(p, t)'
<1>1. Inv /\ [Next]_vars => [Stays]_vars
  BY StepServes
<1> HIDE DEF Stays
<1>2. Spec => [][Stays]_vars
  BY InvariantHolds, <1>1, PTL DEF Spec
<1> QED BY <1>2 DEF ServedStaysServed, Stays

\* A row goes when a replacement failed, or by delete_media_asset_if_eligible.
LEMMA RowsVanish ==
    ASSUME Inv, Next, NEW a \in Rows, ~asset'[a].live
    PROVE  \E q \in Procs : \/ ReplaceFails(q) /\ a = proc[q].new
                            \/ DeleteRow(q) /\ a = proc[q].cur
<1>0. /\ \A q \in Procs : proc[q] \in Proc /\ WellFormed(proc[q])
      /\ asset \in [Assets -> Asset] /\ a \in Assets /\ asset[a].live
  BY DEF Inv, Typed, TypeOK, Rows
<1>1. ~(UNCHANGED asset)
  BY <1>0
<1>2. ASSUME NEW q \in Procs, LinkCommit(q) \/ ReplaceCreate(q)
      PROVE  FALSE
  <2>1. \/ asset' = asset
        \/ \E b \in NewId : \E r : asset' = [asset EXCEPT ![b] = r]
    BY <1>2 DEF LinkCommit, ReplaceCreate
  <2>2. PICK b \in NewId : \E r : asset' = [asset EXCEPT ![b] = r]
    BY <1>1, <2>1
  <2>3. a # b
    BY <1>0, NewIdIsFree
  <2> QED BY <1>0, <2>2, <2>3
<1>3. ASSUME NEW q \in Procs, ReplaceImport(q) \/ Swap(q)
      PROVE  FALSE
  BY SMTT(60), <1>0, <1>3 DEF ReplaceImport, Swap, Asset
<1>4. ASSUME NEW b \in Assets, Import(b)
      PROVE  FALSE
  BY <1>0, <1>4 DEF Import, Asset
<1>5. ASSUME NEW q \in Procs, ReplaceFails(q)
      PROVE  a = proc[q].new
  BY <1>0, <1>5 DEF ReplaceFails
<1>6. ASSUME NEW q \in Procs, DeleteRow(q)
      PROVE  a = proc[q].cur
  BY <1>0, <1>6 DEF DeleteRow
<1>7. ASSUME NEW q \in Procs, SyncStep(q)
      PROVE  FALSE
  BY ZenonT(60), <1>1, <1>7
      DEF SyncStep, SyncStart, SyncMeta, SyncItems, ReadOldEntries, ReplaceEntries,
              ListStaleRefs, DropRef, TrackDropped, LookUpAssets, EnsureReferences, media
<1>8. CASE \/ Crash
           \/ \E p \in Playlists : Edit(p) \/ Disconnect(p)
           \/ \E q \in Procs : \/ RecoverStep(q) \/ StepRaises(q) \/ CheckEligible(q)
                               \/ SwapRead(q) \/ ReplaceBreaks(q) \/ Unlink(q)
                               \/ \E t \in Tracks : LinkRead(q, t) \/ ReplaceStart(q, t)
  BY <1>1, <1>8 DEF media, Crash, Edit, Disconnect, RecoverStep, RecoverNext, Recovered,
                    StepRaises, CheckEligible, SwapRead, ReplaceBreaks, Unlink, LinkRead,
                    ReplaceStart
<1> QED BY <1>2, <1>3, <1>4, <1>5, <1>6, <1>7, <1>8
        DEF Next, LinkStep, ReplaceStep, DeleteStep, Environment

\* An asset goes only when every reconciled playlist that lists its track
\* references another one (reference_counting.py, deletion.py).
LEMMA StepKeepsWanted ==
    ASSUME Inv, Next, NEW a \in Rows, ~asset[a].pending, ~asset'[a].live,
           NEW p \in Playlists \ unreconciled, asset[a].track \in entries[p]
    PROVE  \E r \in refs : /\ r.playlist = p /\ r.track = asset[a].track
                           /\ r.asset # a
<1>1. PICK q \in Procs : \/ ReplaceFails(q) /\ a = proc[q].new
                         \/ DeleteRow(q) /\ a = proc[q].cur
  BY RowsVanish
<1>2. RefsTo(a) = {}
  BY <1>1 DEF Inv, Known, Replacing, Deleting, ReplaceFails, DeleteRow, At
<1>3. HasAsset(asset[a].track)
  BY DEF HasAsset
<1>4. PICK r \in refs : r.playlist = p /\ r.track = asset[a].track
  BY <1>3 DEF Inv, Listed
<1> QED BY <1>2, <1>4 DEF RefsTo

\* An asset goes only when nothing needs it (is_eligible_for_deletion): every
\* reconciled playlist that lists its track references another one.
THEOREM WantedHolds == ASSUME Sequential PROVE Spec => WantedIsKept
<1> DEFINE Keeps == \A a \in Rows : ~asset[a].pending /\ ~asset'[a].live =>
                       \A p \in Playlists \ unreconciled : asset[a].track \in entries[p] =>
                          \E r \in refs : /\ r.playlist = p /\ r.track = asset[a].track
                                          /\ r.asset # a
<1>1. Inv /\ [Next]_vars => [Keeps]_vars
  BY StepKeepsWanted
<1>2. [Keeps]_vars =>
        [\A a \in Rows :
            ~asset[a].pending /\ ~asset'[a].live =>
               \A p \in Playlists \ unreconciled :
                  asset[a].track \in entries[p] =>
                     \E r \in refs : /\ r.playlist = p /\ r.track = asset[a].track
                                    /\ r.asset # a]_vars
  OBVIOUS
<1> HIDE DEF Keeps
<1> QED BY InvariantHolds, <1>1, <1>2, PTL DEF Spec, WantedIsKept

-----------------------------------------------------------------------------
(* A replacement among other tasks                                           *)

\* At most one task replaces media; any number of others sync, search, delete
\* and recover meanwhile.
OneReplacer ==
    \A q, r \in Procs : "replace" \in Kinds[q] /\ "replace" \in Kinds[r] => q = r

\* Where replace_track_media is between its first read and the swap.
ReplacePoints == {"create", "import", "swapRead", "swap"}

\* The old asset stays the first one of its track.
OldIsFirst(q) ==
    proc[q].pc \in ReplacePoints /\ asset[proc[q].cur].live =>
        /\ asset[proc[q].cur].track = proc[q].track
        /\ \A b \in Rows : asset[b].track = proc[q].track => proc[q].cur <= b

\* So nobody finds the new one, which keeps the file it was given.
NewIsPrivate(q) ==
    proc[q].pc \in ReplacePoints \ {"create"} =>
        /\ proc[q].new # proc[q].cur
        /\ asset[proc[q].cur].live /\ asset[proc[q].new].live =>
              /\ asset[proc[q].new].pending
              /\ asset[proc[q].new].track = proc[q].track
              /\ RefsTo(proc[q].new) = {}
              /\ \A r \in Procs \ {q} : proc[q].new \notin Holds(r)
              /\ proc[q].pc # "import" => /\ asset[proc[q].new].file
                                          /\ proc[q].new \in disk

Private(q) == OldIsFirst(q) /\ NewIsPrivate(q)

SwapInv ==
    /\ Typed
    /\ \A q \in Procs : proc[q].pc \in ReplacePoints => "replace" \in Kinds[q]
    /\ ~aliased => \A q \in Procs : Private(q)

\* What a step of a task that does not replace touches: ids it held, ids of
\* references and of first assets, and one free id for a new row.
Footprint(r) ==
    /\ \E m : proc' = [proc EXCEPT ![r] = m] /\ m.pc \notin ReplacePoints
    /\ \A a \in Holds(r)' : \/ a \in Holds(r) \/ a = None
                            \/ RefsTo(a) # {}
                            \/ \E t \in Tracks : a \in AssetOf(t)
    /\ \A x \in refs' : \/ x \in refs \/ x.asset \in Holds(r)
                        \/ ~asset[x.asset].live
    /\ \A b \in disk : b \in disk' \/ b \in Holds(r)
    /\ \A b \in Assets : \/ asset'[b] = asset[b]
                         \/ ~asset'[b].live
                         \/ b \in NewId /\ HandOut(b)
    /\ aliased => aliased'

\* A task that is over holds nothing.
LEMMA StopFootprint ==
    ASSUME Typed, NEW r \in Procs, Stop(r), UNCHANGED <<media, aliased>>
    PROVE  Footprint(r)
<1>1. proc'[r] = Idle /\ proc' = [proc EXCEPT ![r] = Idle]
  BY DEF Stop, Typed, TypeOK
<1>2. Idle.pc \notin ReplacePoints /\ Holds(r)' = {None}
  BY <1>1 DEF Idle, Holds, ReplacePoints
<1> QED BY <1>1, <1>2 DEF Footprint, media

\* A task that only moves on holds what it held.
LEMMA GotoFootprint ==
    ASSUME Typed, NEW r \in Procs, NEW pc \in PC \ ReplacePoints, Goto(r, pc),
           UNCHANGED <<asset, refs, aliased>>,
           \A b \in disk : b \in disk' \/ b \in Holds(r)
    PROVE  Footprint(r)
<1>1. PICK m : m = [proc[r] EXCEPT !.pc = pc] /\ proc' = [proc EXCEPT ![r] = m]
  BY DEF Goto
<1>2. /\ m.pc = pc /\ m.cur = proc[r].cur /\ m.new = proc[r].new
      /\ m.stale = proc[r].stale /\ m.found = proc[r].found /\ proc'[r] = m
  BY <1>1 DEF Typed, TypeOK, Proc
<1>3. Holds(r)' = Holds(r)
  BY <1>2 DEF Holds
<1> QED BY <1>1, <1>2, <1>3 DEF Footprint

\* A task that reads or drops references comes to hold what it found.
LEMMA ReadFootprint ==
    ASSUME Typed, NEW r \in Procs, NEW m, proc' = [proc EXCEPT ![r] = m],
           m.pc \notin ReplacePoints,
           \A a \in {m.cur, m.new} \cup m.stale \cup {x.asset : x \in m.found} :
              \/ a \in Holds(r) \/ a = None \/ RefsTo(a) # {}
              \/ \E t \in Tracks : a \in AssetOf(t),
           UNCHANGED <<asset, disk, aliased>>, refs' \subseteq refs
    PROVE  Footprint(r)
<1>1. proc'[r] = m
  BY DEF Typed, TypeOK
<1>2. Holds(r)' = {m.cur, m.new} \cup m.stale \cup {x.asset : x \in m.found}
  BY <1>1 DEF Holds
<1> QED BY <1>2 DEF Footprint

\* Those are the steps of a sync.
LEMMA SyncFootprint ==
    ASSUME Typed, NEW r \in Procs, SyncStep(r)
    PROVE  Footprint(r)
<1> USE DEF synced, media, history
<1>0. proc[r] \in Proc /\ Idle \in Proc
  BY IdleFacts DEF Typed, TypeOK
<1>1. ASSUME NEW p \in Playlists, SyncStart(r, p)
      PROVE  Footprint(r)
  <2>1. PICK force \in BOOLEAN :
          proc' = [proc EXCEPT ![r] = [Idle EXCEPT !.pc = "meta", !.playlist = p,
                                                   !.force = force, !.loaded = saved[p]]]
    BY <1>1 DEF SyncStart
  <2>2. PICK m : /\ m = [Idle EXCEPT !.pc = "meta", !.playlist = p,
                                     !.force = force, !.loaded = saved[p]]
                 /\ proc' = [proc EXCEPT ![r] = m]
    BY <2>1
  <2>3. m.pc = "meta" /\ m.cur = None /\ m.new = None /\ m.stale = {} /\ m.found = {}
    BY <2>2 DEF Idle
  <2> QED BY <1>1, <2>2, <2>3, ReadFootprint DEF SyncStart, ReplacePoints
<1>2. CASE SyncMeta(r)
  <2>1. CASE proc' = [proc EXCEPT ![r] = Idle]
    BY <1>2, <2>1, StopFootprint DEF SyncMeta, Stop
  <2>2. CASE proc' # [proc EXCEPT ![r] = Idle]
    <3>1. PICK snap : proc' = [proc EXCEPT ![r] = [proc[r] EXCEPT !.pc = "items",
                                                                  !.snap = snap]]
      BY <1>2, <2>2 DEF SyncMeta
    <3>2. PICK m : /\ m = [proc[r] EXCEPT !.pc = "items", !.snap = snap]
                   /\ proc' = [proc EXCEPT ![r] = m]
      BY <3>1
    <3>3. /\ m.pc = "items" /\ m.cur = proc[r].cur /\ m.new = proc[r].new
          /\ m.stale = proc[r].stale /\ m.found = proc[r].found
      BY <1>0, <3>2 DEF Proc
    <3> QED BY <1>2, <3>2, <3>3, ReadFootprint DEF SyncMeta, Holds, ReplacePoints
  <2> QED BY <2>1, <2>2
<1>3. CASE SyncItems(r) \/ ReadOldEntries(r)
  <2>1. PICK m : /\ \/ m = [proc[r] EXCEPT !.pc = "old", !.items = remote[proc[r].playlist]]
                    \/ m = [proc[r] EXCEPT !.pc = "replace", !.old = entries[proc[r].playlist]]
                 /\ proc' = [proc EXCEPT ![r] = m]
    BY <1>3 DEF SyncItems, ReadOldEntries
  <2>2. /\ m.pc \in {"old", "replace"} /\ m.cur = proc[r].cur /\ m.new = proc[r].new
        /\ m.stale = proc[r].stale /\ m.found = proc[r].found
    BY ZenonT(60), <1>0, <2>1 DEF Proc
  <2> QED BY <1>3, <2>1, <2>2, ReadFootprint DEF SyncItems, ReadOldEntries, Holds, ReplacePoints
<1>4. CASE ReplaceEntries(r)
  <2>1. PICK old : proc' = [proc EXCEPT ![r] =
                      [Idle EXCEPT !.pc = "drop", !.playlist = proc[r].playlist,
                                   !.items = proc[r].items, !.drop = old]]
    BY <1>4 DEF ReplaceEntries
  <2>2. PICK m : /\ m = [Idle EXCEPT !.pc = "drop", !.playlist = proc[r].playlist,
                                     !.items = proc[r].items, !.drop = old]
                 /\ proc' = [proc EXCEPT ![r] = m]
    BY <2>1
  <2>3. m.pc = "drop" /\ m.cur = None /\ m.new = None /\ m.stale = {} /\ m.found = {}
    BY <2>2 DEF Idle
  <2> QED BY ZenonT(60), <1>4, <2>2, <2>3, ReadFootprint DEF ReplaceEntries, ReplacePoints
<1>5. CASE ListStaleRefs(r)
  <2> DEFINE stale(t) == {x.asset : x \in {y \in refs :
                                    y.playlist = proc[r].playlist /\ y.track = t}}
  <2>1. PICK t \in proc[r].drop :
          proc' = [proc EXCEPT ![r] = [proc[r] EXCEPT
                      !.pc = "dropRef", !.track = t, !.drop = proc[r].drop \ {t},
                      !.stale = stale(t)]]
    BY <1>5 DEF ListStaleRefs
  <2>2. PICK m : /\ m = [proc[r] EXCEPT !.pc = "dropRef", !.track = t,
                                        !.drop = proc[r].drop \ {t}, !.stale = stale(t)]
                 /\ proc' = [proc EXCEPT ![r] = m]
    BY <2>1
  <2>3. /\ m.pc = "dropRef" /\ m.cur = proc[r].cur /\ m.new = proc[r].new
        /\ m.stale = stale(t) /\ m.found = proc[r].found
    BY <1>0, <2>2 DEF Proc
  <2>4. \A a \in stale(t) : RefsTo(a) # {}
    BY DEF RefsTo
  <2> HIDE DEF stale
  <2> QED BY ZenonT(60), <1>5, <2>2, <2>3, <2>4, ReadFootprint
      DEF ListStaleRefs, Holds, ReplacePoints
<1>6. CASE DropRef(r)
  <2>1. PICK a \in proc[r].stale :
          /\ refs' = refs \ {ReferencesNeeded(proc[r].playlist, proc[r].track, a)}
          /\ proc' = [proc EXCEPT ![r] = [proc[r] EXCEPT
                         !.pc = "check", !.cur = a, !.back = "dropRef",
                         !.stale = proc[r].stale \ {a}]]
    BY <1>6 DEF DropRef
  <2>2. PICK m : /\ m = [proc[r] EXCEPT !.pc = "check", !.cur = a, !.back = "dropRef",
                                        !.stale = proc[r].stale \ {a}]
                 /\ proc' = [proc EXCEPT ![r] = m]
    BY <2>1
  <2>3. /\ m.pc = "check" /\ m.cur = a /\ m.new = proc[r].new
        /\ m.stale = proc[r].stale \ {a} /\ m.found = proc[r].found
    BY <1>0, <2>2 DEF Proc
  <2> QED BY ZenonT(60), <1>6, <2>1, <2>2, <2>3, ReadFootprint DEF DropRef, Holds, ReplacePoints
<1>7. CASE TrackDropped(r)
  <2>1. PICK m : /\ m = [proc[r] EXCEPT !.pc = "drop", !.track = None, !.cur = None,
                                        !.back = "idle"]
                 /\ proc' = [proc EXCEPT ![r] = m]
    BY <1>7 DEF TrackDropped
  <2>2. /\ m.pc = "drop" /\ m.cur = None /\ m.new = proc[r].new
        /\ m.stale = proc[r].stale /\ m.found = proc[r].found
    BY <1>0, <2>1 DEF Proc
  <2> QED BY <1>7, <2>1, <2>2, ReadFootprint DEF TrackDropped, Holds, ReplacePoints
<1>8. CASE LookUpAssets(r)
  <2> DEFINE p == proc[r].playlist
             found == UNION {{ReferencesNeeded(p, t, a) : a \in AssetOf(t)} :
                                 t \in proc[r].items}
  <2>1. PICK m : /\ m = [proc[r] EXCEPT !.pc = "ensure", !.items = {}, !.found = found]
                 /\ proc' = [proc EXCEPT ![r] = m]
    BY <1>8 DEF LookUpAssets
  <2>2. /\ m.pc = "ensure" /\ m.cur = proc[r].cur /\ m.new = proc[r].new
        /\ m.stale = proc[r].stale /\ m.found = found
    BY <1>0, <2>1 DEF Proc
  <2>3. proc[r].items \subseteq Tracks
    BY <1>0 DEF Proc
  <2>4. \A x \in found : \E t \in Tracks : x.asset \in AssetOf(t)
    BY <2>3 DEF ReferencesNeeded
  <2> HIDE DEF found
  <2>5. ASSUME NEW a \in {m.cur, m.new} \cup m.stale \cup {x.asset : x \in m.found}
        PROVE  a \in Holds(r) \/ \E t \in Tracks : a \in AssetOf(t)
    BY <2>2, <2>4 DEF Holds
  <2>6. m.pc \notin ReplacePoints /\ UNCHANGED <<asset, disk, refs, aliased>>
    BY <1>8, <2>2 DEF LookUpAssets, ReplacePoints
  <2> QED BY <2>1, <2>5, <2>6, ReadFootprint
<1>9. CASE EnsureReferences(r)
  <2>1. proc' = [proc EXCEPT ![r] = Idle] /\ proc'[r] = Idle
    BY <1>9 DEF EnsureReferences, Stop, Typed, TypeOK
  <2>2. Idle.pc \notin ReplacePoints /\ Holds(r)' = {None}
    BY <2>1 DEF Idle, Holds, ReplacePoints
  <2>3. \A x \in proc[r].found : x.asset \in Holds(r)
    BY DEF Holds
  <2> QED BY <1>9, <2>1, <2>2, <2>3 DEF Footprint, EnsureReferences
<1> QED BY <1>1, <1>2, <1>3, <1>4, <1>5, <1>6, <1>7, <1>8, <1>9 DEF SyncStep

\* So are those of a search, a deletion and a recovery.
LEMMA OtherFootprint ==
    ASSUME Typed, NEW r \in Procs,
           LinkStep(r) \/ DeleteStep(r) \/ RecoverStep(r) \/ StepRaises(r)
    PROVE  Footprint(r)
<1> USE DEF synced, media, history
<1>0. /\ proc[r] \in Proc /\ WellFormed(proc[r]) /\ Idle \in Proc
      /\ asset \in [Assets -> Asset]
  BY IdleFacts DEF Typed, TypeOK
<1>1. ASSUME NEW t \in Tracks, LinkRead(r, t)
      PROVE  Footprint(r)
  <2>1. PICK a \in IF AssetOf(t) = {} THEN {None} ELSE AssetOf(t) :
          proc' = [proc EXCEPT ![r] = [Idle EXCEPT !.pc = "link", !.track = t, !.cur = a]]
    BY <1>1 DEF LinkRead
  <2>2. PICK m : /\ m = [Idle EXCEPT !.pc = "link", !.track = t, !.cur = a]
                 /\ proc' = [proc EXCEPT ![r] = m]
    BY <2>1
  <2>3. m.pc = "link" /\ m.cur = a /\ m.new = None /\ m.stale = {} /\ m.found = {}
    BY <2>2 DEF Idle
  <2>4. a = None \/ a \in AssetOf(t)
    BY <2>1
  <2>5. m.pc \notin ReplacePoints /\ UNCHANGED <<asset, disk, refs, aliased>>
    BY <1>1, <2>3 DEF LinkRead, ReplacePoints
  <2> QED BY <2>2, <2>3, <2>4, <2>5, ReadFootprint
<1>2. CASE LinkCommit(r)
  <2> DEFINE t == proc[r].track
  <2>1. PICK a \in IF proc[r].cur = None THEN NewId ELSE {proc[r].cur} :
          /\ refs' = refs \cup {ReferencesNeeded(p, t, a) :
                                   p \in {u \in Playlists : t \in entries[u]}}
          /\ asset' = IF proc[r].cur = None
                      THEN [asset EXCEPT ![a] = [NoAsset EXCEPT !.live = TRUE, !.track = t]]
                      ELSE asset
          /\ IF proc[r].cur = None THEN HandOut(a) ELSE UNCHANGED history
    BY <1>2 DEF LinkCommit
  <2>2. proc' = [proc EXCEPT ![r] = Idle] /\ proc'[r] = Idle /\ disk' = disk
    BY <1>2 DEF LinkCommit, Stop, Typed, TypeOK
  <2>3. Idle.pc \notin ReplacePoints /\ Holds(r)' = {None}
    BY <2>2 DEF Idle, Holds, ReplacePoints
  <2>4. \A x \in refs' : x \in refs \/ x.asset = a
    BY <2>1 DEF ReferencesNeeded
  <2>5. a \in Holds(r) \/ ~asset[a].live
    BY <2>1, NewIdIsFree DEF Holds
  <2>6. \A b \in Assets : asset'[b] = asset[b] \/ (b \in NewId /\ HandOut(b))
    <3>1. CASE proc[r].cur = None
      BY <1>0, <2>1, <3>1
    <3>2. CASE proc[r].cur # None
      BY <2>1, <3>2
    <3> QED BY <3>1, <3>2
  <2>7. aliased => aliased'
    BY <2>1 DEF HandOut
  <2> QED BY <2>2, <2>3, <2>4, <2>5, <2>6, <2>7 DEF Footprint
<1>3. CASE CheckEligible(r)
  <2>1. CASE Goto(r, "unlink") \/ Goto(r, "delete")
    BY <1>3, <2>1, GotoFootprint DEF CheckEligible, PC, ReplacePoints
  <2>2. CASE Return(r)
    <3>1. Stop(r) \/ Goto(r, "dropRef") \/ Goto(r, "recover")
      BY <1>0, <2>2 DEF Return, Proc
    <3>2. \A b \in disk : b \in disk'
      BY <1>3 DEF CheckEligible
    <3> QED BY <1>3, <3>1, <3>2, GotoFootprint, StopFootprint
            DEF CheckEligible, PC, ReplacePoints
  <2> QED BY <1>3, <2>1, <2>2 DEF CheckEligible
<1>4. CASE Unlink(r)
  <2>1. \A b \in disk : b \in disk' \/ b \in Holds(r)
    BY <1>4 DEF Unlink, Holds
  <2> QED BY <1>4, <2>1, GotoFootprint DEF Unlink, PC, ReplacePoints
<1>5. CASE DeleteRow(r)
  <2>1. PICK m \in Proc : /\ proc' = [proc EXCEPT ![r] = m]
                          /\ \/ m = Idle
                             \/ /\ m = [proc[r] EXCEPT !.pc = proc[r].back]
                                /\ proc[r].back \in {"dropRef", "recover"}
    BY <1>0, <1>5, ReturnRecord DEF DeleteRow, At, Inv
  <2>2. /\ m.pc \notin ReplacePoints /\ proc'[r] = m
        /\ \/ m.cur = None /\ m.new = None /\ m.stale = {} /\ m.found = {}
           \/ /\ m.cur = proc[r].cur /\ m.new = proc[r].new
              /\ m.stale = proc[r].stale /\ m.found = proc[r].found
    BY <1>0, <2>1 DEF Proc, Idle, ReplacePoints, Typed, TypeOK
  <2>3. \A a \in Holds(r)' : a \in Holds(r) \/ a = None
    BY <2>2 DEF Holds
  <2>4. \A b \in Assets : asset'[b] = asset[b] \/ ~asset'[b].live
    BY <1>0, <1>5 DEF DeleteRow, NoAsset
  <2> QED BY <1>5, <2>1, <2>2, <2>3, <2>4 DEF DeleteRow, Footprint
<1>6. CASE RecoverNext(r)
  <2>1. PICK a \in proc[r].stale :
          proc' = [proc EXCEPT ![r] = [proc[r] EXCEPT !.pc = "check", !.cur = a,
                                                      !.stale = proc[r].stale \ {a}]]
    BY <1>6 DEF RecoverNext
  <2>2. PICK m : /\ m = [proc[r] EXCEPT !.pc = "check", !.cur = a,
                                        !.stale = proc[r].stale \ {a}]
                 /\ proc' = [proc EXCEPT ![r] = m]
    BY <2>1
  <2>3. /\ m.pc = "check" /\ m.cur = a /\ m.new = proc[r].new
        /\ m.stale = proc[r].stale \ {a} /\ m.found = proc[r].found
    BY <1>0, <2>2 DEF Proc
  <2> QED BY ZenonT(60), <1>6, <2>1, <2>2, <2>3, ReadFootprint
      DEF RecoverNext, Holds, ReplacePoints
<1>7. CASE Recovered(r) \/ StepRaises(r)
  BY <1>7, StopFootprint DEF Recovered, StepRaises
<1> QED BY <1>1, <1>2, <1>3, <1>4, <1>5, <1>6, <1>7 DEF LinkStep, DeleteStep, RecoverStep

\* The steps of other tasks leave a replacement what it knows: they hold neither
\* the new asset nor a way to find it.
LEMMA OthersKeepPrivate ==
    ASSUME Typed, NEW q \in Procs, NEW r \in Procs, q # r, Footprint(r),
           Private(q), ~aliased'
    PROVE  Private(q)'
<1> DEFINE m == proc[q]
<1>0. /\ m \in Proc /\ WellFormed(m) /\ proc'[q] = m
      /\ Assets \subseteq Nat /\ None \notin Assets
      /\ \A u \in Procs : u # r => proc'[u] = proc[u]
  BY ReferencesAssumption DEF Typed, TypeOK, Footprint
<1>1. ASSUME NEW b \in Assets, b \in {m.cur, m.new}, asset'[b].live
      PROVE  asset'[b] = asset[b]
  <2>1. b \in Holds(q)
    BY <1>1 DEF Holds
  <2> QED BY <1>1, <2>1 DEF Footprint, HandOut
<1>2. OldIsFirst(q)'
  <2> SUFFICES ASSUME m.pc \in ReplacePoints, asset'[m.cur].live
               PROVE  /\ asset'[m.cur].track = m.track
                      /\ \A b \in Rows' : asset'[b].track = m.track => m.cur <= b
    BY <1>0 DEF OldIsFirst
  <2>1. m.cur \in Assets
    BY <1>0 DEF WellFormed, ReplacePoints
  <2>2. asset'[m.cur] = asset[m.cur] /\ m.cur \in Rows
    BY <1>1, <2>1 DEF Rows
  <2>3. /\ asset[m.cur].track = m.track
        /\ \A b \in Rows : asset[b].track = m.track => m.cur <= b
    BY <2>2 DEF Private, OldIsFirst, Rows
  <2>4. ASSUME NEW b \in Rows', asset'[b].track = m.track
        PROVE  m.cur <= b
    <3>1. b \in Assets /\ asset'[b].live
      BY DEF Rows
    <3>2. CASE asset'[b] = asset[b]
      BY <2>3, <2>4, <3>1, <3>2 DEF Rows
    <3>3. CASE b \in NewId
      <4>1. m.cur < b
        BY <2>2, <3>3 DEF NewId
      <4>2. m.cur \in Nat /\ b \in Nat
        BY <1>0, <2>1, <3>1
      <4> HIDE DEF m
      <4> QED BY <4>1, <4>2
    <3> QED BY <3>1, <3>2, <3>3 DEF Footprint
  <2> QED BY <2>2, <2>3, <2>4
<1>3. NewIsPrivate(q)'
  <2> SUFFICES ASSUME m.pc \in ReplacePoints \ {"create"}
               PROVE  /\ m.new # m.cur
                      /\ asset'[m.cur].live /\ asset'[m.new].live =>
                            /\ asset'[m.new].pending
                            /\ asset'[m.new].track = m.track
                            /\ RefsTo(m.new)' = {}
                            /\ \A u \in Procs \ {q} : m.new \notin Holds(u)'
                            /\ m.pc # "import" => asset'[m.new].file /\ m.new \in disk'
    BY <1>0 DEF NewIsPrivate, RefsTo
  <2>1. m.new # m.cur /\ m.cur \in Assets /\ m.new \in Assets
    BY <1>0 DEF Private, NewIsPrivate, WellFormed, ReplacePoints
  <2> SUFFICES ASSUME asset'[m.cur].live, asset'[m.new].live
               PROVE  /\ asset'[m.new].pending
                      /\ asset'[m.new].track = m.track
                      /\ RefsTo(m.new)' = {}
                      /\ \A u \in Procs \ {q} : m.new \notin Holds(u)'
                      /\ m.pc # "import" => asset'[m.new].file /\ m.new \in disk'
    BY <2>1
  <2>2. asset'[m.cur] = asset[m.cur] /\ asset'[m.new] = asset[m.new]
    BY <1>1, <2>1
  <2>3. /\ asset[m.new].pending /\ asset[m.new].track = m.track
        /\ RefsTo(m.new) = {}
        /\ \A u \in Procs \ {q} : m.new \notin Holds(u)
        /\ m.pc # "import" => asset[m.new].file /\ m.new \in disk
    BY <2>2 DEF Private, NewIsPrivate
  <2>4. /\ asset[m.cur].track = m.track
        /\ \A b \in Rows : asset[b].track = m.track => m.cur <= b
        /\ m.cur \in Rows /\ m.new \in Rows
    BY <2>1, <2>2 DEF Private, OldIsFirst, Rows
  <2>5. \A t \in Tracks : m.new \notin AssetOf(t)
    <3> SUFFICES ASSUME NEW t \in Tracks, m.new \in AssetOf(t)
                 PROVE  FALSE
      OBVIOUS
    <3>1. m.new <= m.cur /\ m.cur <= m.new
      BY <2>3, <2>4 DEF AssetOf
    <3>2. m.new \in Nat /\ m.cur \in Nat
      BY <1>0, <2>1
    <3> HIDE DEF m
    <3> QED BY <2>1, <3>1, <3>2
  <2>6. \A u \in Procs \ {q} : m.new \notin Holds(u)'
    <3> SUFFICES ASSUME NEW u \in Procs \ {q}, m.new \in Holds(u)'
                 PROVE  FALSE
      OBVIOUS
    <3>1. CASE u = r
      BY <1>0, <2>1, <2>3, <2>5, <3>1 DEF Footprint
    <3>2. CASE u # r
      BY <1>0, <2>3, <3>2 DEF Holds
    <3> QED BY <3>1, <3>2
  <2>7. RefsTo(m.new)' = {}
    <3> SUFFICES ASSUME NEW x \in refs', x.asset = m.new
                 PROVE  FALSE
      BY <1>0 DEF RefsTo
    <3>1. x \in refs \/ x.asset \in Holds(r) \/ ~asset[x.asset].live
      BY DEF Footprint
    <3> QED BY <2>2, <2>3, <3>1 DEF RefsTo
  <2>8. m.new \in disk => m.new \in disk'
    BY <2>3 DEF Footprint
  <2> QED BY <2>2, <2>3, <2>6, <2>7, <2>8
<1> QED BY <1>2, <1>3 DEF Private

\* The replacement gives the new row a free id, and then its file.
LEMMA ReplaceKeepsPrivate ==
    ASSUME Typed, NEW q \in Procs, ReplaceStep(q), Private(q), ~aliased'
    PROVE  Private(q)'
<1> USE DEF media, history
<1> DEFINE m == proc[q]
<1>0. /\ m \in Proc /\ WellFormed(m) /\ asset \in [Assets -> Asset]
      /\ Assets \subseteq Nat /\ None \notin Assets /\ Idle \in Proc
      /\ proc \in [Procs -> Proc]
  BY ReferencesAssumption, IdleFacts DEF Typed, TypeOK
<1>1. ASSUME NEW t \in Tracks, ReplaceStart(q, t)
      PROVE  Private(q)'
  <2>1. PICK a \in AssetOf(t) :
          proc' = [proc EXCEPT ![q] = [Idle EXCEPT !.pc = "create", !.track = t, !.cur = a]]
    BY <1>1 DEF ReplaceStart
  <2>2. PICK r : /\ r = [Idle EXCEPT !.pc = "create", !.track = t, !.cur = a]
                 /\ proc' = [proc EXCEPT ![q] = r]
    BY <2>1
  <2>3. r.pc = "create" /\ r.track = t /\ r.cur = a /\ proc'[q] = r
    BY <1>0, <2>2 DEF Idle
  <2>4. UNCHANGED asset /\ asset[a].track = t /\ \A b \in Rows : asset[b].track = t => a <= b
    BY <1>1 DEF ReplaceStart, AssetOf
  <2> QED BY <2>3, <2>4 DEF Private, OldIsFirst, NewIsPrivate, Rows
<1>2. CASE ReplaceCreate(q)
  <2> DEFINE new == [live |-> TRUE, track |-> m.track, file |-> FALSE, pending |-> TRUE]
  <2>1. PICK a \in NewId :
          /\ asset' = [asset EXCEPT ![a] = new]
          /\ proc' = [proc EXCEPT ![q] = [m EXCEPT !.pc = "import", !.new = a]]
          /\ HandOut(a)
    BY <1>2 DEF ReplaceCreate
  <2>2. PICK r : /\ r = [m EXCEPT !.pc = "import", !.new = a]
                 /\ proc' = [proc EXCEPT ![q] = r]
    BY <2>1
  <2>3. /\ r.pc = "import" /\ r.new = a /\ r.cur = m.cur /\ r.track = m.track
        /\ proc'[q] = r /\ \A u \in Procs \ {q} : proc'[u] = proc[u]
    BY <1>0, <2>2 DEF Proc
  <2>4. m.pc = "create" /\ refs' = refs /\ m.cur \in Assets
    BY <1>0, <1>2 DEF ReplaceCreate, At, WellFormed
  <2>5. /\ a \in Assets /\ ~asset[a].live /\ \A b \in Rows : b < a
        /\ RefsTo(a) = {} /\ \A u \in Procs : a \notin Holds(u)
    BY <2>1, NewIdIsFree DEF NewId, HandOut
  <2>6. a # m.cur
    BY <2>5 DEF Holds
  <2>7. /\ asset'[a] = new /\ \A b \in Assets : b # a => asset'[b] = asset[b]
    BY <1>0, <2>1, <2>5
  <2>8. new.live /\ new.track = m.track /\ new.pending
    OBVIOUS
  <2> HIDE DEF new
  <2>9. OldIsFirst(q)'
    <3> SUFFICES ASSUME asset'[m.cur].live
                 PROVE  /\ asset'[m.cur].track = m.track
                        /\ \A b \in Rows' : asset'[b].track = m.track => m.cur <= b
      BY <2>3 DEF OldIsFirst
    <3>1. asset'[m.cur] = asset[m.cur] /\ m.cur \in Rows
      BY <2>4, <2>6, <2>7 DEF Rows
    <3>2. /\ asset[m.cur].track = m.track
          /\ \A b \in Rows : asset[b].track = m.track => m.cur <= b
      BY <2>4, <3>1 DEF Private, OldIsFirst, ReplacePoints, Rows
    <3>3. m.cur <= a
      <4>1. m.cur < a /\ m.cur \in Nat /\ a \in Nat
        BY <1>0, <2>4, <2>5, <3>1
      <4> HIDE DEF m
      <4> QED BY <4>1
    <3> QED BY <2>7, <3>1, <3>2, <3>3 DEF Rows
  <2>10. \A u \in Procs \ {q} : a \notin Holds(u)'
    BY <2>3, <2>5 DEF Holds
  <2>11. RefsTo(a)' = {}
    BY <2>4, <2>5 DEF RefsTo
  <2>12. RefsTo(proc[q].new)' = {}
    BY <2>3, <2>11 DEF RefsTo
  <2> QED BY <2>3, <2>6, <2>7, <2>8, <2>9, <2>10, <2>12 DEF Private, NewIsPrivate
<1>3. CASE ReplaceImport(q)
  <2>1. PICK r : /\ r = [m EXCEPT !.pc = "swapRead"] /\ proc' = [proc EXCEPT ![q] = r]
    BY <1>3 DEF ReplaceImport, Goto
  <2>2. /\ r.pc = "swapRead" /\ r.new = m.new /\ r.cur = m.cur /\ r.track = m.track
        /\ proc'[q] = r /\ \A u \in Procs \ {q} : proc'[u] = proc[u]
    BY <1>0, <2>1 DEF Proc
  <2>3. /\ m.pc = "import" /\ m.new \in Assets /\ m.cur \in Assets
        /\ asset' = [asset EXCEPT ![m.new] = [@ EXCEPT !.file = TRUE]]
        /\ disk' = disk \cup {m.new} /\ refs' = refs
    BY <1>0, <1>3 DEF ReplaceImport, At, WellFormed
  <2>4. \A b \in Assets : /\ asset'[b].live = asset[b].live
                          /\ asset'[b].track = asset[b].track
                          /\ asset'[b].pending = asset[b].pending
                          /\ b = m.new => asset'[b].file
    BY <1>0, <2>3 DEF Asset
  <2>5. OldIsFirst(q)'
    BY <2>2, <2>3, <2>4 DEF Private, OldIsFirst, ReplacePoints, Rows
  <2>6. RefsTo(proc[q].new)' = RefsTo(m.new) /\ \A u \in Procs \ {q} : Holds(u)' = Holds(u)
    BY <2>2, <2>3 DEF RefsTo, Holds
  <2> QED BY <2>2, <2>3, <2>4, <2>5, <2>6 DEF Private, NewIsPrivate, ReplacePoints
<1>4. CASE SwapRead(q)
  <2>1. PICK r : /\ r = [m EXCEPT !.pc = "swap", !.found = RefsTo(m.cur)]
                 /\ proc' = [proc EXCEPT ![q] = r]
    BY <1>4 DEF SwapRead
  <2>2. /\ r.pc = "swap" /\ r.new = m.new /\ r.cur = m.cur /\ r.track = m.track
        /\ proc'[q] = r /\ \A u \in Procs \ {q} : proc'[u] = proc[u]
        /\ m.pc = "swapRead" /\ UNCHANGED media
    BY <1>0, <1>4, <2>1 DEF Proc, SwapRead, At
  <2>3. OldIsFirst(q)'
    BY <2>2 DEF Private, OldIsFirst, ReplacePoints, Rows
  <2>4. RefsTo(proc[q].new)' = RefsTo(m.new) /\ \A u \in Procs \ {q} : Holds(u)' = Holds(u)
    BY <2>2 DEF RefsTo, Holds
  <2> QED BY <2>2, <2>3, <2>4 DEF Private, NewIsPrivate, ReplacePoints
<1>5. CASE ReplaceFails(q) \/ Swap(q) \/ ReplaceBreaks(q)
  <2>1. PICK r : /\ r = Idle \/ r = [m EXCEPT !.pc = "check", !.back = "idle"]
                 /\ proc' = [proc EXCEPT ![q] = r]
    BY <1>5 DEF ReplaceFails, Swap, ReplaceBreaks, Stop
  <2>2. r.pc \in {"idle", "check"} /\ proc'[q] = r
    BY ZenonT(60), <1>0, <2>1, IdleFacts DEF Proc
  <2> QED BY SMTT(60), <2>2 DEF Private, OldIsFirst, NewIsPrivate, ReplacePoints
<1> QED BY <1>1, <1>2, <1>3, <1>4, <1>5 DEF ReplaceStep

\* A download, an edit, a disconnect and a restart touch no pending row.
LEMMA EnvironmentKeepsPrivate ==
    ASSUME Typed, NEW q \in Procs, Environment \/ Crash \/ UNCHANGED vars, Private(q)
    PROVE  Private(q)'
<1> USE DEF vars, media
<1>0. /\ WellFormed(proc[q]) /\ asset \in [Assets -> Asset]
  BY DEF Typed, TypeOK
<1>1. ASSUME NEW a \in Assets, Import(a)
      PROVE  Private(q)'
  <2>1. /\ \A b \in Assets : /\ asset'[b].live = asset[b].live
                             /\ asset'[b].track = asset[b].track
                             /\ asset'[b].pending = asset[b].pending
                             /\ asset[b].file => asset'[b].file
        /\ disk \subseteq disk'
        /\ UNCHANGED <<refs, proc>>
    BY <1>0, <1>1 DEF Import, Asset
  <2>2. OldIsFirst(q)'
    BY <1>0, <2>1 DEF Private, OldIsFirst, WellFormed, ReplacePoints, Rows
  <2>3. NewIsPrivate(q)'
    BY <1>0, <2>1 DEF Private, NewIsPrivate, WellFormed, ReplacePoints, RefsTo, Holds
  <2> QED BY <2>2, <2>3 DEF Private
<1>2. CASE Crash
  <2>1. proc'[q].pc \in {"idle", "recover"}
    BY <1>2, IdleFacts DEF Crash, Idle
  <2> QED BY <2>1 DEF Private, OldIsFirst, NewIsPrivate, ReplacePoints
<1>3. CASE UNCHANGED vars \/ \E p \in Playlists : Edit(p) \/ Disconnect(p)
  <2>1. UNCHANGED <<asset, refs, disk, proc>>
    BY <1>3 DEF Edit, Disconnect
  <2> QED BY <2>1 DEF Private, OldIsFirst, NewIsPrivate, RefsTo, Holds, Rows
<1> QED BY <1>1, <1>2, <1>3 DEF Environment

\* Only a task of that kind is at a point of replace_track_media.
LEMMA ReplacersReplace ==
    ASSUME SwapInv, [Next]_vars, NEW q \in Procs, proc'[q].pc \in ReplacePoints
    PROVE  "replace" \in Kinds[q]
<1>0. proc \in [Procs -> Proc]
  BY DEF SwapInv, Typed, TypeOK
<1>1. CASE proc'[q] = proc[q]
  BY <1>1 DEF SwapInv
<1>2. ASSUME NEW r \in Procs, Footprint(r)
      PROVE  proc'[q] = proc[q]
  BY SMTT(60), <1>0, <1>2 DEF Footprint
<1>3. ASSUME NEW r \in Procs, ReplaceStep(r)
      PROVE  proc'[q] = proc[q] \/ q = r
  BY ZenonT(60), <1>0, <1>3
      DEF ReplaceStep, ReplaceStart, ReplaceCreate, ReplaceImport, ReplaceFails,
                    SwapRead, Swap, ReplaceBreaks, Goto, Stop
<1>4. ASSUME ReplaceStep(q)
      PROVE  "replace" \in Kinds[q]
  BY <1>4 DEF SwapInv, ReplacePoints, ReplaceStep, ReplaceStart, ReplaceCreate, ReplaceImport,
              ReplaceFails, SwapRead, Swap, ReplaceBreaks, At
<1>5. CASE Environment \/ UNCHANGED vars
  BY <1>1, <1>5 DEF Environment, Edit, Disconnect, Import, vars
<1>6. CASE Crash
  BY <1>6, IdleFacts DEF Crash, Idle, ReplacePoints
<1> QED BY <1>1, <1>2, <1>3, <1>4, <1>5, <1>6, SyncFootprint, OtherFootprint
        DEF Next, SwapInv

\* So the replacement keeps what it knows, whatever the others do.
LEMMA SwapNext ==
    ASSUME OneReplacer, SwapInv, [Next]_vars
    PROVE  SwapInv'
<1>1. Typed'
  BY NextTyped DEF SwapInv
<1>2. \A q \in Procs : proc'[q].pc \in ReplacePoints => "replace" \in Kinds[q]
  BY ReplacersReplace
<1>3. ASSUME NEW q \in Procs, ~aliased'
      PROVE  Private(q)'
  <2>0. Typed /\ proc \in [Procs -> Proc]
    BY DEF SwapInv, Typed, TypeOK
  <2>1. ASSUME NEW r \in Procs, Footprint(r)
        PROVE  Private(q)'
    <3>1. Private(q)
      BY <1>3, <2>1 DEF SwapInv, Footprint
    <3>2. CASE q = r
      <4>1. proc'[q].pc \notin ReplacePoints
        BY <2>0, <2>1, <3>2 DEF Footprint
      <4> QED BY <4>1 DEF Private, OldIsFirst, NewIsPrivate
    <3>3. CASE q # r
      BY SMTT(60), <1>3, <2>0, <2>1, <3>1, <3>3, OthersKeepPrivate
    <3> QED BY <3>2, <3>3
  <2>2. ASSUME NEW r \in Procs, ReplaceStep(r)
        PROVE  Private(q)'
    <3>1. Private(q)
      BY <1>3, <2>2 DEF SwapInv, ReplaceStep, ReplaceStart, ReplaceCreate, ReplaceImport,
                        ReplaceFails, SwapRead, Swap, ReplaceBreaks, HandOut, history
    <3>2. CASE q = r
      BY SMTT(60), <1>3, <2>0, <2>2, <3>1, <3>2, ReplaceKeepsPrivate
    <3>3. CASE q # r
      <4>1. "replace" \in Kinds[r]
        BY <2>2 DEF SwapInv, ReplacePoints, ReplaceStep, ReplaceStart, ReplaceCreate,
                    ReplaceImport, ReplaceFails, SwapRead, Swap, ReplaceBreaks, At
      <4>2. proc'[q].pc \notin ReplacePoints
        BY <1>2, <3>3, <4>1 DEF OneReplacer
      <4> QED BY <4>2 DEF Private, OldIsFirst, NewIsPrivate
    <3> QED BY <3>2, <3>3
  <2>3. CASE Environment \/ Crash \/ UNCHANGED vars
    <3>1. aliased' = aliased
      BY <2>3 DEF Environment, Edit, Disconnect, Import, Crash, vars, history
    <3>2. Private(q)
      BY <1>3, <3>1 DEF SwapInv
    <3> QED BY <2>0, <2>3, <3>2, EnvironmentKeepsPrivate
  <2> QED BY <2>0, <2>1, <2>2, <2>3, SyncFootprint, OtherFootprint DEF Next
<1> QED BY <1>1, <1>2, <1>3 DEF SwapInv

\* It is the swap that takes the mark of a pending row.
LEMMA SwapsOnly ==
    ASSUME SwapInv, Next, NEW a \in Rows, asset[a].pending, asset'[a].live,
           ~asset'[a].pending
    PROVE  \E q \in Procs : Swap(q)
<1>0. a \in Assets /\ asset[a].live /\ asset \in [Assets -> Asset]
  BY DEF Rows, SwapInv, Typed, TypeOK
<1>1. asset'[a] # asset[a] /\ a \notin NewId
  BY <1>0, NewIdIsFree
<1>2. \A r \in Procs : ~Footprint(r)
  BY SMTT(60), <1>0, <1>1 DEF Footprint
<1>3. ASSUME NEW q \in Procs, ReplaceStep(q)
      PROVE  Swap(q)
  <2>1. ~ReplaceCreate(q)
    BY <1>0, <1>1 DEF ReplaceCreate
  <2>2. ~ReplaceImport(q)
    BY <1>0 DEF ReplaceImport, Asset
  <2>3. ~ReplaceFails(q)
    BY <1>0, <1>1 DEF ReplaceFails, NoAsset
  <2> QED BY <1>1, <1>3, <2>1, <2>2, <2>3
          DEF ReplaceStep, ReplaceStart, SwapRead, ReplaceBreaks, media
<1>4. ~(Environment \/ Crash)
  BY <1>0, <1>1 DEF Environment, Edit, Disconnect, Import, Crash, media, Asset
<1> QED BY <1>2, <1>3, <1>4, SyncFootprint, OtherFootprint DEF Next, SwapInv

\* The commit of a swap takes no file from a playlist (replacement.py), while
\* any number of tasks sync, search, delete and recover during the download.
THEOREM SwapHolds == ASSUME OneReplacer PROVE Spec => SwapKeepsServing
<1> DEFINE Swaps == \E a \in Rows : asset[a].pending /\ asset'[a].live /\ ~asset'[a].pending
           Keeps == ~aliased /\ Swaps => \A p \in Playlists, t \in Tracks :
                                            Served(p, t) => Served(p, t)'
<1>1. Init => SwapInv
  BY InitInv DEF Inv, SwapInv, Init, Idle, ReplacePoints, Private, OldIsFirst, NewIsPrivate
<1>2. SwapInv /\ [Next]_vars => SwapInv'
  BY SwapNext
<1>3. SwapInv /\ [Next]_vars => [Keeps]_vars
  <2> SUFFICES ASSUME SwapInv, Next, ~aliased, Swaps, NEW p \in Playlists, NEW t \in Tracks,
                      Served(p, t)
               PROVE  Served(p, t)'
    OBVIOUS
  <2>1. PICK q \in Procs : Swap(q)
    BY SMTT(60), SwapsOnly
  <2>2. /\ proc[q].cur # proc[q].new /\ asset[proc[q].new].file
        /\ proc[q].new \in disk
    BY <2>1 DEF SwapInv, Swap, At, Private, NewIsPrivate, ReplacePoints
  <2> QED BY <2>1, <2>2, SwapServes DEF SwapInv
<1>4. [Keeps]_vars =>
        [~aliased /\ (\E a \in Rows : asset[a].pending /\ asset'[a].live /\ ~asset'[a].pending) =>
            \A p \in Playlists, t \in Tracks : Served(p, t) => Served(p, t)']_vars
  OBVIOUS
<1> HIDE DEF Keeps
<1> QED BY <1>1, <1>2, <1>3, <1>4, PTL DEF Spec, SwapKeepsServing
=============================================================================
