------------------------- MODULE MediaLibraryProofs --------------------------
(***************************************************************************)
(* Theorems of MediaLibrary, for any tracks, names, containers, ids and    *)
(* operations under way at once: the folder is what the rows say, and a    *)
(* video leaves it only with its row.                                      *)
(*                                                                         *)
(* FolderMatchesRows is not inductive.  What carries it is Folder: a row   *)
(* whose file is not there is in the hand of an operation that will drop   *)
(* or rename it (RowsKnown), two videos with one stem are remembered       *)
(* (StemsMixed), and a sidecar is of the track that the row beside it      *)
(* names, or that the rename which has the video in hand read (Owned).     *)
(***************************************************************************)
EXTENDS MediaLibrary, TLAPS

\* What a task that waits at a point has in its memory.
WellFormed(m) ==
    /\ m.pc \notin {"idle", "walk", "add"} => m.aid \in Assets
    /\ m.pc = "swap" => m.old \in Assets
    /\ m.pc = "store" => m.track \in Tracks
    /\ m.pc \in {"lyrics", "store", "import"} => m.ext \in Containers
    /\ m.pc \in {"commit", "moved"} => m.name \in Names
    /\ m.pc \in {"move", "moved"} => m.was.path \in Names /\ m.was.track \in Tracks
    /\ \A x, y \in m.found : /\ x.path \in Names \ m.known
                             /\ x.path = y.path => x = y

\* A row that is gone has left nothing.
Typed ==
    /\ TypeOK
    /\ \A q \in Procs : WellFormed(proc[q])
    /\ \A a \in Assets : ~asset[a].live => asset[a] = NoRow

\* A row that names a file names one that is there, or that an operation is
\* about to drop or rename the row of.
RowsKnown ==
    \A a \in Live : asset[a].path \in Names \ torn =>
       \/ asset[a].path \in Videos
       \/ \E q \in Procs : /\ proc[q].pc \in {"drop", "moved"}
                           /\ proc[q].aid = a /\ proc[q].was.path = asset[a].path

\* Two videos with one stem have been seen.
StemsMixed == \A m, n \in Videos : m # n /\ Stem(m) = Stem(n) => Stem(n) \in mixed

\* The video n is of the track t: by its row, or by what a rename that has it in
\* hand read.
OfTrack(n, t) ==
    \/ \E a \in Live : asset[a].path = n /\ asset[a].track \in {t, None}
    \/ \E q \in Procs : /\ At(q, "moved") /\ proc[q].name = n
                        /\ proc[q].was.track \in {t, None}

\* A sidecar is of the track of the video beside it.
Owned ==
    \A s \in Stems : /\ lrc[s] # None
                     /\ s \notin mixed
                     /\ \A n \in torn : Stem(n) # s
                     => \E n \in Videos : Stem(n) = s /\ OfTrack(n, lrc[s])

Folder == RowsKnown /\ OneRowPerFile /\ SidecarsFollow /\ StemsMixed /\ Owned

-----------------------------------------------------------------------------

\* No name of a file is the name of none, and a name is its stem and container.
LEMMA NameFacts ==
    /\ NoName \notin Names
    /\ \A n \in Names : Stem(n) \in Stems /\ n.ext \in Containers
    /\ \A m, n \in Names : Stem(m) = Stem(n) /\ m.ext = n.ext => m = n
<1>1. NoName \notin Names
  BY LibraryAssumption DEF NoName, Names
<1>2. ASSUME NEW m \in Names, NEW n \in Names, Stem(m) = Stem(n), m.ext = n.ext
      PROVE  m = n
  <2>1. Stem(m).base = Stem(n).base /\ Stem(m).n = Stem(n).n
    BY <1>2
  <2>2. m.base = n.base /\ m.n = n.n
    BY <2>1 DEF Stem
  <2> QED BY <2>2, <1>2 DEF Names
<1>3. \A n \in Names : Stem(n) \in Stems /\ n.ext \in Containers
  BY DEF Names, Stems, Stem
<1> QED BY <1>1, <1>2, <1>3

\* An id handed out is no row's.
LEMMA UnusedFacts == \A a \in Unused : a \in Assets /\ ~asset[a].live
<1> SUFFICES ASSUME NEW a \in Unused
             PROVE  a \in Assets /\ ~asset[a].live
  OBVIOUS
<1>1. a \in Assets /\ a \in Nat
  BY LibraryAssumption DEF Unused
<1>2. ~(a < a)
  BY <1>1
<1> QED BY <1>1, <1>2 DEF Unused, Live

\* A task that is done remembers nothing; nothing has a row that is gone.
LEMMA IdleFacts ==
    /\ NoRow \in Row /\ NoRow.path = NoName /\ NoRow.track = None
    /\ ~NoRow.live /\ ~NoRow.pending
    /\ IdleTask \in Task /\ IdleTask.pc = "idle" /\ WellFormed(IdleTask)
    /\ IdleTask.found = {}
    /\ None \notin Assets /\ None \notin Tracks
<1>1. None \notin Assets /\ None \notin Tracks
  BY LibraryAssumption
<1>2. NoRow \in Row /\ NoRow.path = NoName /\ NoRow.track = None
  BY DEF NoRow, Row
<1>3. ~NoRow.live /\ ~NoRow.pending
  BY DEF NoRow
<1>4. IdleTask \in Task
  BY <1>2 DEF IdleTask, Task, LyricsKind
<1>5. IdleTask.pc = "idle" /\ IdleTask.found = {}
  BY DEF IdleTask
<1>6. WellFormed(IdleTask)
  BY <1>5 DEF WellFormed
<1> QED BY <1>1, <1>2, <1>3, <1>4, <1>5, <1>6

\* The step of one task leaves the other tasks well-formed.
LEMMA Steps ==
    ASSUME Typed, NEW q \in Procs, NEW r \in Task, WellFormed(r),
           proc' = [proc EXCEPT ![q] = r]
    PROVE  /\ proc' \in [Procs -> Task]
           /\ \A u \in Procs : WellFormed(proc'[u])
           /\ proc'[q] = r
           /\ \A u \in Procs \ {q} : proc'[u] = proc[u]
  BY DEF Typed, TypeOK

\* A step that changes nothing but a task, and perhaps a counter.
LEMMA TaskTyped ==
    ASSUME Typed, NEW q \in Procs, NEW r \in Task, WellFormed(r),
           proc' = [proc EXCEPT ![q] = r],
           UNCHANGED <<files, lrc, asset, lyrics, history, foreign, crashes>>,
           starts' \in 0 .. MaxStarts
    PROVE  Typed'
<1>1. /\ proc' \in [Procs -> Task]
      /\ \A u \in Procs : WellFormed(proc'[u])
  BY Steps
<1> QED BY <1>1 DEF Typed, TypeOK, history, WellFormed

\* A step of a task that writes one row.
LEMMA RowTyped ==
    ASSUME Typed, NEW q \in Procs, NEW r \in Task, WellFormed(r),
           proc' = [proc EXCEPT ![q] = r],
           NEW a \in Assets, NEW row \in Row, row.live \/ row = NoRow,
           asset' = [asset EXCEPT ![a] = row],
           UNCHANGED <<lyrics, mixed, foreign, crashes>>,
           files' \in [Names -> Assets \cup {None, Foreign}],
           lrc' \in [Stems -> Tracks \cup {None}],
           torn' \subseteq Names, starts' \in 0 .. MaxStarts
    PROVE  Typed'
<1>1. /\ proc' \in [Procs -> Task]
      /\ \A u \in Procs : WellFormed(proc'[u])
  BY Steps
<1>2. /\ asset' \in [Assets -> Row]
      /\ \A b \in Assets : ~asset'[b].live => asset'[b] = NoRow
  BY DEF Typed, TypeOK
<1> QED BY <1>1, <1>2 DEF Typed, TypeOK, WellFormed

\* The operations begun are counted up to the bound.
LEMMA BeginsTyped ==
    ASSUME Typed, Begins
    PROVE  starts' \in 0 .. MaxStarts
<1>1. starts \in 0 .. MaxStarts /\ starts < MaxStarts /\ starts' = starts + 1
  BY DEF Begins, Typed, TypeOK
<1>2. MaxStarts \in Nat
  BY LibraryAssumption
<1> QED BY <1>1, <1>2

\* Searches, files of a user's, and the steps that read or write lyrics.
LEMMA QueueTyped ==
    ASSUME Typed, NEW t \in Tracks, Queue(t)
    PROVE  Typed'
<1> DEFINE row == [NoRow EXCEPT !.live = TRUE, !.track = t]
<1>1. PICK a \in Free : asset' = [asset EXCEPT ![a] = row]
  BY DEF Queue
<1>2. a \in Assets
  BY UnusedFacts DEF Free
<1>3. row \in Row /\ row.live
  BY DEF NoRow, Row
<1> HIDE DEF row
<1>4. /\ asset' \in [Assets -> Row]
      /\ \A b \in Assets : ~asset'[b].live => asset'[b] = NoRow
  BY <1>1, <1>2, <1>3 DEF Typed, TypeOK
<1>5. starts' \in 0 .. MaxStarts
  BY BeginsTyped DEF Queue
<1> QED BY <1>4, <1>5 DEF Queue, Typed, TypeOK, history, WellFormed

LEMMA PutsFileTyped ==
    ASSUME Typed, NEW name \in Names, PutsFile(name)
    PROVE  Typed'
<1>1. Stem(name) \in Stems
  BY NameFacts
<1>2. foreign' \in 0 .. MaxForeign
  <2>1. foreign \in 0 .. MaxForeign /\ foreign < MaxForeign /\ foreign' = foreign + 1
    BY DEF PutsFile, Typed, TypeOK
  <2>2. MaxForeign \in Nat
    BY LibraryAssumption
  <2> QED BY <2>1, <2>2
<1>3. files' \in [Names -> Assets \cup {None, Foreign}] /\ mixed' \subseteq Stems
  BY <1>1 DEF PutsFile, Typed, TypeOK
<1> QED BY <1>2, <1>3 DEF PutsFile, Typed, TypeOK, WellFormed

\* The operations begin.
LEMMA BeginTyped ==
    ASSUME Typed, NEW q \in Procs, Begin(q)
    PROVE  Typed'
<1>0. /\ \A a \in Assets : asset[a] \in Row
      /\ \A row \in Row : row.track \in Tracks \cup {None} /\ row.path \in Names \cup {NoName}
  BY DEF Typed, TypeOK, Row
<1>s. Begins => starts' \in 0 .. MaxStarts
  BY BeginsTyped
<1>1. ASSUME NEW a \in Assets, Claim(q, a)
      PROVE  Typed'
  <2> DEFINE row == [asset[a] EXCEPT !.state = "DOWNLOADING"]
             r == [IdleTask EXCEPT !.pc = "mux", !.aid = a, !.track = asset[a].track]
  <2>1. row \in Row /\ row.live
    BY <1>0, <1>1 DEF Row, Claim
  <2>2. r \in Task /\ WellFormed(r)
    <3>1. r \in Task
      BY ZenonT(60), <1>0, IdleFacts DEF Task
    <3>2. WellFormed(r)
      BY ZenonT(60), <1>0, IdleFacts DEF Task, WellFormed
    <3> QED BY <3>1, <3>2
  <2>3. asset' = [asset EXCEPT ![a] = row] /\ proc' = [proc EXCEPT ![q] = r]
    BY <1>1 DEF Claim
  <2> HIDE DEF row, r
  <2> QED BY <1>1, <1>s, <2>1, <2>2, <2>3, RowTyped DEF Claim, history, Typed, TypeOK
<1>2. ASSUME NEW a \in Assets, ReplaceBegin(q, a)
      PROVE  Typed'
  <2>1. PICK new \in Free :
          /\ asset' = [asset EXCEPT ![new] = [NoRow EXCEPT
                          !.live = TRUE, !.track = asset[a].track,
                          !.state = "DOWNLOADING", !.pending = TRUE]]
          /\ proc' = [proc EXCEPT ![q] = [IdleTask EXCEPT
                          !.pc = "mux", !.aid = new, !.track = asset[a].track,
                          !.old = a, !.was = asset[a]]]
    BY <1>2 DEF ReplaceBegin
  <2> DEFINE row == [NoRow EXCEPT !.live = TRUE, !.track = asset[a].track,
                                  !.state = "DOWNLOADING", !.pending = TRUE]
             r == [IdleTask EXCEPT !.pc = "mux", !.aid = new, !.track = asset[a].track,
                                   !.old = a, !.was = asset[a]]
  <2>2. new \in Assets
    BY UnusedFacts DEF Free
  <2>3. row \in Row /\ row.live
    BY <1>0 DEF Row, NoRow
  <2>4. r \in Task /\ WellFormed(r)
    <3>1. r \in Task
      BY ZenonT(60), <1>0, <2>2, IdleFacts DEF Task
    <3>2. WellFormed(r)
      BY ZenonT(60), <1>0, <2>2, IdleFacts DEF Task, WellFormed
    <3> QED BY <3>1, <3>2
  <2>5. asset' = [asset EXCEPT ![new] = row] /\ proc' = [proc EXCEPT ![q] = r]
    BY <2>1
  <2> HIDE DEF row, r
  <2> QED BY <1>2, <1>s, <2>2, <2>3, <2>4, <2>5, RowTyped DEF ReplaceBegin, history, Typed, TypeOK
<1>3. ASSUME NEW a \in Assets, DeleteBegin(q, a)
      PROVE  Typed'
  <2> DEFINE r == [IdleTask EXCEPT !.pc = "unlink", !.aid = a, !.was = asset[a]]
  <2>1. r \in Task /\ WellFormed(r)
    <3>1. r \in Task
      BY ZenonT(60), <1>0, IdleFacts DEF Task
    <3>2. WellFormed(r)
      BY ZenonT(60), <1>0, IdleFacts DEF Task, WellFormed
    <3> QED BY <3>1, <3>2
  <2>2. proc' = [proc EXCEPT ![q] = r]
    BY <1>3 DEF DeleteBegin
  <2> HIDE DEF r
  <2> QED BY <1>3, <1>s, <2>1, <2>2, TaskTyped DEF DeleteBegin
<1>4. ASSUME NEW a \in Assets, OrganizeBegin(q, a)
      PROVE  Typed'
  <2> DEFINE r == [IdleTask EXCEPT !.pc = "move", !.aid = a, !.was = asset[a]]
  <2>1. asset[a].path \in Names /\ asset[a].track \in Tracks
    BY <1>0, <1>4 DEF OrganizeBegin, Videos
  <2>2. r \in Task /\ WellFormed(r)
    <3>1. r \in Task
      BY ZenonT(60), <1>0, <2>1, IdleFacts DEF Task
    <3>2. WellFormed(r)
      BY ZenonT(60), <1>0, <2>1, IdleFacts DEF Task, WellFormed
    <3> QED BY <3>1, <3>2
  <2>3. proc' = [proc EXCEPT ![q] = r]
    BY <1>4 DEF OrganizeBegin
  <2> HIDE DEF r
  <2> QED BY <1>4, <1>s, <2>2, <2>3, TaskTyped DEF OrganizeBegin
<1>5. CASE ScanBegin(q)
  <2> DEFINE known == {asset[a].path : a \in {b \in Live : asset[b].path # NoName}}
             r == [IdleTask EXCEPT !.pc = "walk", !.known = known]
  <2>1. known \subseteq Names
    BY <1>0 DEF Live
  <2>2. proc' = [proc EXCEPT ![q] = r]
    BY <1>5 DEF ScanBegin
  <2> HIDE DEF known
  <2>3. r \in Task /\ WellFormed(r)
    <3>1. r \in Task
      BY ZenonT(60), <2>1, IdleFacts DEF Task
    <3>2. WellFormed(r)
      BY ZenonT(60), <2>1, IdleFacts DEF Task, WellFormed
    <3> QED BY <3>1, <3>2
  <2> HIDE DEF r
  <2> QED BY <1>5, <1>s, <2>2, <2>3, TaskTyped DEF ScanBegin
<1> QED BY <1>1, <1>2, <1>3, <1>4, <1>5 DEF Begin

\* A task in memory, by the type of its parts.
LEMMA TaskFacts ==
    ASSUME Typed, NEW q \in Procs
    PROVE  /\ proc[q] \in Task /\ WellFormed(proc[q])
           /\ proc[q].track \in Tracks \cup {None}
           /\ proc[q].was \in Row
           /\ proc[q].was.path \in Names \cup {NoName}
           /\ proc[q].was.track \in Tracks \cup {None}
           /\ proc[q].name \in Names \cup {NoName}
           /\ proc[q].found \in SUBSET [path: Names, track: Tracks \cup {None}]
<1>1. proc[q] \in Task /\ WellFormed(proc[q])
  BY DEF Typed, TypeOK
<1>2. /\ proc[q].track \in Tracks \cup {None}
      /\ proc[q].was \in Row
      /\ proc[q].name \in Names \cup {NoName}
      /\ proc[q].found \in SUBSET [path: Names, track: Tracks \cup {None}]
  BY <1>1 DEF Task
<1>3. proc[q].was.path \in Names \cup {NoName} /\ proc[q].was.track \in Tracks \cup {None}
  BY <1>2 DEF Row
<1> QED BY <1>1, <1>2, <1>3

\* A row, by the type of its parts.
LEMMA RowFacts ==
    ASSUME Typed, NEW a \in Assets
    PROVE  /\ asset[a] \in Row
           /\ asset[a].live \in BOOLEAN /\ asset[a].pending \in BOOLEAN
           /\ asset[a].path \in Names \cup {NoName}
           /\ asset[a].track \in Tracks \cup {None}
           /\ ~asset[a].live => asset[a] = NoRow
<1>1. asset[a] \in Row /\ (~asset[a].live => asset[a] = NoRow)
  BY DEF Typed, TypeOK
<1> QED BY <1>1 DEF Row

\* A task that goes on to a point where it needs nothing.
LEMMA GoesTyped ==
    ASSUME Typed, NEW q \in Procs,
           NEW pc \in {"import", "swap", "drop", "idle"}, Goes(q, pc),
           proc[q].aid \in Assets,
           pc = "import" => proc[q].ext \in Containers,
           pc = "swap" => proc[q].old \in Assets
    PROVE  \E r \in Task : /\ proc' = [proc EXCEPT ![q] = r] /\ WellFormed(r) /\ r.pc = pc
                           /\ r = [proc[q] EXCEPT !.pc = pc]
<1> DEFINE r == [proc[q] EXCEPT !.pc = pc]
<1>1. proc[q] \in Task /\ WellFormed(proc[q])
  BY TaskFacts
<1>2. r \in Task /\ r.pc = pc
  BY ZenonT(60), <1>1 DEF Task
<1>3. WellFormed(r)
  BY <1>1 DEF Task, WellFormed
<1>4. proc' = [proc EXCEPT ![q] = r]
  BY DEF Goes
<1> QED BY <1>2, <1>3, <1>4

\* The first steps of the pipeline: the media, the lyrics, and what goes wrong.
LEMMA LyricsTyped ==
    ASSUME Typed, NEW q \in Procs,
           \/ Mux(q) \/ ReadLyrics(q) \/ StoreLyrics(q) \/ LyricsPoison(q)
    PROVE  Typed'
<1>0. proc[q] \in Task /\ WellFormed(proc[q]) /\ proc[q].track \in Tracks \cup {None}
  BY TaskFacts
<1>s. UNCHANGED counters => UNCHANGED <<foreign, crashes>> /\ starts' \in 0 .. MaxStarts
  BY DEF counters, Typed, TypeOK
<1>1. CASE Mux(q)
  <2>1. PICK ext \in Containers :
          proc' = [proc EXCEPT ![q] = [proc[q] EXCEPT !.pc = "lyrics", !.ext = ext]]
    BY <1>1 DEF Mux
  <2> DEFINE r == [proc[q] EXCEPT !.pc = "lyrics", !.ext = ext]
  <2>2. r \in Task
    BY <1>0 DEF Task
  <2>3. WellFormed(r)
    BY ZenonT(60), <1>0, <1>1 DEF Task, WellFormed, Mux, At
  <2>4. proc' = [proc EXCEPT ![q] = r]
    BY <2>1
  <2> HIDE DEF r
  <2> QED BY <1>1, <1>s, <2>2, <2>3, <2>4, TaskTyped DEF Mux
<1>2. CASE ReadLyrics(q)
  <2>1. \/ proc' = [proc EXCEPT ![q] = [proc[q] EXCEPT !.pc = "import"]]
        \/ \E w \in BOOLEAN :
              proc' = [proc EXCEPT ![q] = [proc[q] EXCEPT !.pc = "import", !.words = w]]
        \/ /\ proc[q].track # None
           /\ \E kind \in LyricsKind :
                 proc' = [proc EXCEPT ![q] = [proc[q] EXCEPT !.pc = "store", !.kind = kind]]
    BY ZenonT(60), <1>0, <1>2 DEF ReadLyrics, Goes, Typed, TypeOK
  <2>2. PICK r : /\ proc' = [proc EXCEPT ![q] = r]
                 /\ \/ r = [proc[q] EXCEPT !.pc = "import"]
                    \/ \E w \in BOOLEAN : r = [proc[q] EXCEPT !.pc = "import", !.words = w]
                    \/ /\ proc[q].track # None
                       /\ \E kind \in LyricsKind : r = [proc[q] EXCEPT !.pc = "store", !.kind = kind]
    BY <2>1
  <2>3. r \in Task
    <3>1. CASE r = [proc[q] EXCEPT !.pc = "import"]
      BY <1>0, <3>1 DEF Task
    <3>2. CASE \E w \in BOOLEAN : r = [proc[q] EXCEPT !.pc = "import", !.words = w]
      BY ZenonT(60), <1>0, <3>2 DEF Task
    <3>3. CASE \E kind \in LyricsKind : r = [proc[q] EXCEPT !.pc = "store", !.kind = kind]
      BY ZenonT(60), <1>0, <3>3 DEF Task
    <3> QED BY <2>2, <3>1, <3>2, <3>3
  <2>4. WellFormed(r)
    BY ZenonT(60), <1>0, <1>2, <2>2 DEF Task, WellFormed, ReadLyrics, At
  <2> QED BY <1>2, <1>s, <2>2, <2>3, <2>4, TaskTyped DEF ReadLyrics
<1>3. CASE StoreLyrics(q)
  <2>1. PICK hit \in BOOLEAN :
          /\ lyrics' = [lyrics EXCEPT ![proc[q].track] = IF hit THEN "found" ELSE "missing"]
          /\ proc' = [proc EXCEPT ![q].pc = "import", ![q].words = hit]
    BY <1>3 DEF StoreLyrics
  <2> DEFINE r == [proc[q] EXCEPT !.pc = "import", !.words = hit]
  <2>2. r \in Task
    BY ZenonT(60), <1>0 DEF Task
  <2>3. WellFormed(r)
    BY <1>0, <1>3 DEF Task, WellFormed, StoreLyrics, At
  <2>4. proc' = [proc EXCEPT ![q] = r]
    BY <2>1
  <2>5. lyrics' \in [Tracks -> LyricsKind]
    BY <2>1 DEF Typed, TypeOK, LyricsKind
  <2> HIDE DEF r
  <2>6. /\ proc' \in [Procs -> Task]
        /\ \A u \in Procs : WellFormed(proc'[u])
    BY <2>2, <2>3, <2>4, Steps
  <2> QED BY <1>3, <1>s, <2>5, <2>6 DEF StoreLyrics, history, Typed, TypeOK, WellFormed
<1>4. CASE LyricsPoison(q)
  BY <1>4, <1>s, IdleFacts, TaskTyped DEF LyricsPoison, Ends
<1> QED BY <1>1, <1>2, <1>3, <1>4

LEMMA FailTyped ==
    ASSUME Typed, NEW q \in Procs, Fail(q) \/ ReplaceFails(q)
    PROVE  Typed'
<1> DEFINE a == proc[q].aid
<1>0. a \in Assets
  BY TaskFacts DEF WellFormed, Fail, ReplaceFails
<1>1. /\ asset[a] \in Row /\ asset[a].path \in Names \cup {NoName}
      /\ ~asset[a].live => asset[a] = NoRow
  BY <1>0, RowFacts
<1>s. UNCHANGED counters => UNCHANGED <<foreign, crashes>> /\ starts' \in 0 .. MaxStarts
  BY DEF counters, Typed, TypeOK
<1>2. CASE Fail(q) /\ asset[a].live
  <2> DEFINE row == [asset[a] EXCEPT !.state = "FAILED"]
  <2>1. row \in Row /\ row.live
    BY <1>1, <1>2 DEF Row
  <2>2. asset' = [asset EXCEPT ![a] = row] /\ proc' = [proc EXCEPT ![q] = IdleTask]
    BY <1>2 DEF Fail, Ends
  <2> HIDE DEF row, a
  <2> QED BY ZenonT(60), <1>0, <1>2, <1>s, <2>1, <2>2, IdleFacts, RowTyped
      DEF Fail, history, Typed, TypeOK
<1>3. CASE Fail(q) /\ ~asset[a].live
  BY <1>3, <1>s, IdleFacts, TaskTyped DEF Fail, Ends
<1>4. CASE ReplaceFails(q)
  <2>1. torn' \subseteq Names
    BY <1>1, <1>4 DEF ReplaceFails, Typed, TypeOK
  <2>2. asset' = [asset EXCEPT ![a] = NoRow] /\ proc' = [proc EXCEPT ![q] = IdleTask]
    BY <1>4 DEF ReplaceFails, Ends
  <2> HIDE DEF a
  <2> QED BY <1>0, <1>4, <1>s, <2>1, <2>2, IdleFacts, RowTyped DEF ReplaceFails, Typed, TypeOK
<1> QED BY <1>2, <1>3, <1>4

\* A free name is a name, and no video's.
LEMMA FreeNameFacts ==
    ASSUME Typed, NEW q \in Procs, At(q, "import"), NEW name \in FreeNames(q)
    PROVE  name \in Names /\ name \notin Videos
<1> DEFINE nm(n) == [base |-> BaseOf[proc[q].track], n |-> n, ext |-> proc[q].ext]
<1>1. PICK n \in Numbers : name = nm(n) /\ nm(n) \notin Videos
  BY DEF FreeNames
<1>2. BaseOf[proc[q].track] \in Bases
  BY LibraryAssumption, TaskFacts
<1>3. proc[q].ext \in Containers
  BY SMTT(60), TaskFacts DEF WellFormed, At
<1> QED BY <1>1, <1>2, <1>3 DEF Names

LEMMA ImportTyped ==
    ASSUME Typed, NEW q \in Procs, Import(q)
    PROVE  Typed'
<1>0. proc[q] \in Task /\ WellFormed(proc[q]) /\ proc[q].aid \in Assets
  BY TaskFacts DEF WellFormed, Import, At
<1>1. PICK name \in FreeNames(q) :
        /\ files' = [files EXCEPT ![name] = proc[q].aid]
        /\ mixed' = IF Mixes(name, NoName) THEN mixed \cup {Stem(name)} ELSE mixed
        /\ proc' = [proc EXCEPT ![q] = [proc[q] EXCEPT !.pc = "commit", !.name = name]]
  BY ZenonT(60) DEF Import
<1> DEFINE r == [proc[q] EXCEPT !.pc = "commit", !.name = name]
<1>2. name \in Names /\ Stem(name) \in Stems
  BY FreeNameFacts, NameFacts DEF Import
<1>3. r \in Task
  BY <1>0, <1>2 DEF Task
<1>4. WellFormed(r)
  BY <1>0, <1>2 DEF Task, WellFormed, Import, At
<1>5. proc' = [proc EXCEPT ![q] = r]
  BY <1>1
<1> HIDE DEF r
<1>6. /\ proc' \in [Procs -> Task]
      /\ \A u \in Procs : WellFormed(proc'[u])
  BY <1>3, <1>4, <1>5, Steps
<1>7. files' \in [Names -> Assets \cup {None, Foreign}] /\ mixed' \subseteq Stems
  BY <1>0, <1>1, <1>2 DEF Typed, TypeOK
<1> QED BY <1>6, <1>7 DEF Import, counters, Typed, TypeOK, WellFormed

LEMMA ImportCommitTyped ==
    ASSUME Typed, NEW q \in Procs, ImportCommit(q)
    PROVE  Typed'
<1> DEFINE a == proc[q].aid
           name == proc[q].name
           row == [asset[a] EXCEPT !.state = "AVAILABLE", !.path = name]
<1>0. /\ proc[q] \in Task /\ WellFormed(proc[q]) /\ a \in Assets /\ name \in Names
      /\ proc[q].track \in Tracks \cup {None} /\ proc[q].old \in Assets \cup {None}
  BY TaskFacts DEF WellFormed, ImportCommit, At, Task
<1>1. asset[a] \in Row /\ asset[a].live /\ asset[a].path \in Names \cup {NoName}
  BY <1>0, RowFacts DEF ImportCommit
<1>2. row \in Row /\ row.live
  BY <1>0, <1>1 DEF Row
<1>3. asset' = [asset EXCEPT ![a] = row]
  BY DEF ImportCommit
<1>4. torn' \subseteq Names
  BY <1>0, <1>1 DEF ImportCommit, Typed, TypeOK
<1>5. lrc' \in [Stems -> Tracks \cup {None}]
  BY <1>0 DEF ImportCommit, Typed, TypeOK
<1>6. \E r \in Task : WellFormed(r) /\ proc' = [proc EXCEPT ![q] = r]
  BY <1>0, IdleFacts, GoesTyped DEF ImportCommit, Ends
<1>7. UNCHANGED <<files, lyrics, mixed, foreign, crashes, starts>>
  BY SMTT(60) DEF ImportCommit, counters
<1> HIDE DEF row, a, name
<1> QED BY <1>0, <1>2, <1>3, <1>4, <1>5, <1>6, <1>7, RowTyped DEF Typed, TypeOK

LEMMA SwapTyped ==
    ASSUME Typed, NEW q \in Procs, Swap(q)
    PROVE  Typed'
<1> DEFINE p == proc[q]
           r == [IdleTask EXCEPT !.pc = "unlink", !.aid = p.old, !.was = p.was]
<1>0. p \in Task /\ p.aid \in Assets /\ p.old \in Assets /\ p.was \in Row
  BY TaskFacts DEF WellFormed, Swap, At
<1>1. asset[p.aid] \in Row /\ asset[p.old] \in Row
  BY <1>0, RowFacts
<1>2. asset' \in [Assets -> Row]
  BY ZenonT(60), <1>0, <1>1 DEF Swap, Typed, TypeOK, Row
<1>3. \A b \in Assets : ~asset'[b].live => asset'[b] = NoRow
  <2> SUFFICES ASSUME NEW b \in Assets, ~asset'[b].live
               PROVE  asset'[b] = NoRow
    OBVIOUS
  <2>1. asset[b] \in Row /\ asset'[b].live = asset[b].live
    BY <1>0, RowFacts DEF Swap, Typed, TypeOK, Row
  <2>2. asset[b] = NoRow
    BY <2>1, RowFacts
  <2>3. b # p.old
    BY <2>1 DEF Swap
  <2>4. CASE b = p.aid
    <3>1. asset'[b] = [asset[b] EXCEPT !.pending = FALSE]
      BY <1>0, <2>3, <2>4 DEF Swap, Typed, TypeOK
    <3>2. [NoRow EXCEPT !.pending = FALSE] = NoRow
      BY IdleFacts DEF Row
    <3> QED BY <2>2, <3>1, <3>2
  <2>5. CASE b # p.aid
    BY <1>0, <2>2, <2>3, <2>5 DEF Swap, Typed, TypeOK
  <2> QED BY <2>4, <2>5
<1>4. r \in Task
  BY ZenonT(60), <1>0, IdleFacts DEF Task
<1>5. WellFormed(r)
  BY ZenonT(60), <1>0, IdleFacts DEF Task, WellFormed
<1>6. proc' = [proc EXCEPT ![q] = r]
  BY DEF Swap
<1> HIDE DEF r
<1>7. /\ proc' \in [Procs -> Task]
      /\ \A u \in Procs : WellFormed(proc'[u])
  BY <1>4, <1>5, <1>6, Steps
<1> QED BY <1>2, <1>3, <1>7 DEF Swap, history, counters, Typed, TypeOK, WellFormed

\* A deletion's steps.
LEMMA DeleteTyped ==
    ASSUME Typed, NEW q \in Procs, Unlink(q) \/ Drop(q)
    PROVE  Typed'
<1> DEFINE a == proc[q].aid
           path == proc[q].was.path
<1>0. a \in Assets /\ path \in Names \cup {NoName}
  BY TaskFacts DEF WellFormed, Unlink, Drop, At
<1>1. asset[a].path \in Names \cup {NoName}
  BY <1>0, RowFacts
<1>s. UNCHANGED counters => UNCHANGED <<foreign, crashes>> /\ starts' \in 0 .. MaxStarts
  BY DEF counters, Typed, TypeOK
<1>2. CASE Unlink(q)
  <2>1. \E r \in Task : WellFormed(r) /\ proc' = [proc EXCEPT ![q] = r]
    BY <1>0, <1>2, IdleFacts, GoesTyped DEF Unlink, Ends
  <2>2. /\ proc' \in [Procs -> Task]
        /\ \A u \in Procs : WellFormed(proc'[u])
    BY <2>1, Steps
  <2>3. torn' \subseteq Names
    BY <1>0, <1>1, <1>2 DEF Unlink, Typed, TypeOK
  <2>4. files' \in [Names -> Assets \cup {None, Foreign}]
    BY <1>2 DEF Unlink, Typed, TypeOK
  <2>5. lrc' \in [Stems -> Tracks \cup {None}]
    BY <1>2 DEF Unlink, Typed, TypeOK
  <2> QED BY <1>2, <1>s, <2>2, <2>3, <2>4, <2>5 DEF Unlink, Typed, TypeOK, WellFormed
<1>3. CASE Drop(q)
  <2>1. torn' \subseteq Names
    BY <1>1, <1>3 DEF Drop, Typed, TypeOK
  <2>2. asset' = [asset EXCEPT ![a] = NoRow] /\ proc' = [proc EXCEPT ![q] = IdleTask]
    BY <1>3 DEF Drop, Ends
  <2> HIDE DEF a
  <2> QED BY <1>0, <1>3, <1>s, <2>1, <2>2, IdleFacts, RowTyped DEF Drop, Typed, TypeOK
<1> QED BY <1>2, <1>3

\* What a rename gives the file: a name, of the same container.
LEMMA RenderedFacts ==
    ASSUME Typed, NEW q \in Procs, At(q, "move")
    PROVE  /\ Rendered(q) \in Names /\ proc[q].was.path \in Names
           /\ Rendered(q).ext = proc[q].was.path.ext
<1>1. proc[q].was.path \in Names /\ proc[q].was.track \in Tracks
  BY TaskFacts DEF WellFormed, At
<1>2. BaseOf[proc[q].was.track] \in Bases
  BY <1>1, LibraryAssumption
<1>3. proc[q].was.path.ext \in Containers
  BY SMTT(60), <1>1, NameFacts
<1> QED BY <1>1, <1>2, <1>3, LibraryAssumption DEF Rendered, Names

\* A rename's steps.
LEMMA MoveTyped ==
    ASSUME Typed, NEW q \in Procs, Move(q)
    PROVE  Typed'
<1> DEFINE from == proc[q].was.path
           to   == Rendered(q)
           r    == [proc[q] EXCEPT !.pc = "moved", !.name = to]
<1>0. /\ proc[q] \in Task /\ WellFormed(proc[q]) /\ proc[q].was.track \in Tracks
      /\ from \in Names /\ to \in Names /\ At(q, "move") /\ proc[q].aid \in Assets
  BY TaskFacts, RenderedFacts DEF WellFormed, Move, At
<1>1. Stem(from) \in Stems /\ Stem(to) \in Stems
  BY <1>0, NameFacts
<1>2. /\ files' = [files EXCEPT ![to] = files[from], ![from] = None]
      /\ lrc' = IF lrc[Stem(from)] = None \/ Stem(from) = Stem(to) THEN lrc
                ELSE [lrc EXCEPT ![Stem(to)] = lrc[Stem(from)], ![Stem(from)] = None]
      /\ mixed' = IF Mixes(to, from) THEN mixed \cup {Stem(to)} ELSE mixed
      /\ torn' = IF asset[proc[q].aid] # proc[q].was \/ Tainted(from)
                 THEN torn \cup {from, to} ELSE torn
      /\ proc' = [proc EXCEPT ![q].pc = "moved", ![q].name = to]
      /\ UNCHANGED <<asset, lyrics, counters>>
  BY DEF Move, Moved
<1>3. proc' = [proc EXCEPT ![q] = r]
  BY <1>2
<1> HIDE DEF from, to
<1>4. r \in Task
  BY <1>0 DEF Task
<1>5. WellFormed(r)
  BY <1>0 DEF Task, WellFormed, At, from
<1> HIDE DEF r
<1>6. /\ proc' \in [Procs -> Task]
      /\ \A u \in Procs : WellFormed(proc'[u])
  BY <1>3, <1>4, <1>5, Steps
<1>7. files' \in [Names -> Assets \cup {None, Foreign}]
  BY <1>0, <1>2 DEF Typed, TypeOK
<1>8. lrc' \in [Stems -> Tracks \cup {None}]
  BY <1>1, <1>2 DEF Typed, TypeOK
<1>9. torn' \subseteq Names /\ mixed' \subseteq Stems
  BY <1>0, <1>1, <1>2 DEF Typed, TypeOK
<1> QED BY <1>2, <1>6, <1>7, <1>8, <1>9 DEF counters, Typed, TypeOK, WellFormed

LEMMA OrganizeCommitTyped ==
    ASSUME Typed, NEW q \in Procs, OrganizeCommit(q)
    PROVE  Typed'
<1> DEFINE a == proc[q].aid
           name == proc[q].name
           row == [asset[a] EXCEPT !.path = name]
<1>0. /\ a \in Assets /\ name \in Names /\ proc[q].was.path \in Names
  BY TaskFacts DEF WellFormed, OrganizeCommit, At
<1>1. asset[a] \in Row /\ asset[a].live /\ asset[a].path \in Names \cup {NoName}
  BY <1>0, RowFacts DEF OrganizeCommit
<1>2. row \in Row /\ row.live
  BY <1>0, <1>1 DEF Row
<1>3. asset' = [asset EXCEPT ![a] = row] /\ proc' = [proc EXCEPT ![q] = IdleTask]
  BY DEF OrganizeCommit, Ends
<1>4. torn' \subseteq Names
  BY <1>0, <1>1 DEF OrganizeCommit, Typed, TypeOK
<1>5. UNCHANGED <<files, lrc, lyrics, mixed, foreign, crashes, starts>>
  BY DEF OrganizeCommit, counters
<1> HIDE DEF row, a, name
<1> QED BY <1>0, <1>2, <1>3, <1>4, <1>5, IdleFacts, RowTyped DEF Typed, TypeOK

\* A scan's steps.
LEMMA WalkTyped ==
    ASSUME Typed, NEW q \in Procs, Walk(q)
    PROVE  Typed'
<1>0. proc[q] \in Task /\ WellFormed(proc[q])
  BY TaskFacts
<1>a. PICK names \in SUBSET (Videos \ proc[q].known) :
         \E match \in [names -> Tracks \cup {None}] :
            proc' = [proc EXCEPT ![q].pc = "add",
                        ![q].found = {[path |-> n, track |-> match[n]] : n \in names}]
  BY DEF Walk
<1>1. PICK match \in [names -> Tracks \cup {None}] :
         proc' = [proc EXCEPT ![q] = [proc[q] EXCEPT !.pc = "add",
                     !.found = {[path |-> n, track |-> match[n]] : n \in names}]]
  BY ZenonT(60), <1>a
<1> DEFINE found == {[path |-> n, track |-> match[n]] : n \in names}
           r == [proc[q] EXCEPT !.pc = "add", !.found = found]
<1>2. found \subseteq [path: Names, track: Tracks \cup {None}]
  BY DEF Videos
<1>3. \A x, y \in found : /\ x.path \in Names \ proc[q].known
                          /\ x.path = y.path => x = y
  BY DEF Videos
<1>4. proc' = [proc EXCEPT ![q] = r]
  BY <1>1
<1> HIDE DEF found
<1>5. r \in Task
  BY ZenonT(60), <1>0, <1>2 DEF Task
<1>6. WellFormed(r)
  BY ZenonT(60), <1>0, <1>3 DEF Task, WellFormed
<1> HIDE DEF r
<1>7. UNCHANGED <<files, lrc, asset, lyrics, history, foreign, crashes, starts>>
  BY DEF Walk, counters
<1> QED BY <1>4, <1>5, <1>6, <1>7, TaskTyped DEF Typed, TypeOK

\* The row a scan adds for a file.
Added(x) == [NoRow EXCEPT !.live = TRUE, !.track = x.track, !.path = x.path,
                          !.state = IF x.track = None THEN "REVIEW" ELSE "AVAILABLE"]

\* What a scan commits: a row of its own for each file, under an id no row has.
LEMMA ScanFacts ==
    ASSUME Typed, NEW q \in Procs, ScanCommit(q)
    PROVE  /\ \A a \in Assets :
                 \/ asset'[a] = asset[a]
                 \/ /\ ~asset[a].live
                    /\ \E x \in proc[q].found : asset'[a] = Added(x)
           /\ \A a, b \in Assets : \A x \in proc[q].found :
                 ~asset[a].live /\ ~asset[b].live /\ asset'[a] = Added(x) /\ asset'[b] = Added(x)
                    => a = b
           /\ asset' = [a \in Assets |-> asset'[a]]
<1>1. PICK ids \in [proc[q].found -> Unused] :
          /\ \A x, y \in proc[q].found : ids[x] = ids[y] => x = y
          /\ asset' = [a \in Assets |->
                IF \E x \in proc[q].found : ids[x] = a
                THEN LET x == CHOOSE y \in proc[q].found : ids[y] = a
                     IN  [NoRow EXCEPT !.live = TRUE, !.track = x.track, !.path = x.path,
                              !.state = IF x.track = None THEN "REVIEW" ELSE "AVAILABLE"]
                ELSE asset[a]]
  BY ZenonT(60) DEF ScanCommit
<1>2. \A a \in Assets : (\E x \in proc[q].found : ids[x] = a) =>
         \E x \in proc[q].found : ids[x] = a /\ asset'[a] = Added(x)
  BY ZenonT(60), <1>1 DEF Added
<1>3. \A a \in Assets : ~(\E x \in proc[q].found : ids[x] = a) => asset'[a] = asset[a]
  BY <1>1
<1>4. \A x \in proc[q].found : ids[x] \in Assets /\ ~asset[ids[x]].live
  BY UnusedFacts
<1>5. \A x \in proc[q].found : x = [path |-> x.path, track |-> x.track]
  BY TaskFacts
<1>6. \A x \in proc[q].found : Added(x).live /\ Added(x).path = x.path /\ Added(x).track = x.track
  BY DEF Added, NoRow
<1>7. ASSUME NEW a \in Assets, NEW b \in Assets, NEW x \in proc[q].found,
             ~asset[a].live, ~asset[b].live, asset'[a] = Added(x), asset'[b] = Added(x)
      PROVE  a = b
  <2>1. asset'[a] # asset[a] /\ asset'[b] # asset[b]
    BY <1>6, <1>7
  <2>2. PICK y \in proc[q].found : ids[y] = a /\ asset'[a] = Added(y)
    BY <1>2, <1>3, <2>1
  <2>3. PICK z \in proc[q].found : ids[z] = b /\ asset'[b] = Added(z)
    BY <1>2, <1>3, <2>1
  <2>4. y.path = z.path /\ y.track = z.track
    BY <1>6, <1>7, <2>2, <2>3
  <2>5. y = z
    BY SMTT(60), <1>5, <2>4
  <2> QED BY <2>2, <2>3, <2>5
<1>8. asset' = [a \in Assets |-> asset'[a]]
  BY ZenonT(60), <1>1
<1> QED BY <1>2, <1>3, <1>4, <1>7, <1>8

LEMMA ScanCommitTyped ==
    ASSUME Typed, NEW q \in Procs, ScanCommit(q)
    PROVE  Typed'
<1>0. /\ proc[q].found \in SUBSET [path: Names, track: Tracks \cup {None}]
      /\ IdleTask \in Task /\ WellFormed(IdleTask)
  BY TaskFacts, IdleFacts
<1>1. ASSUME NEW x \in proc[q].found
      PROVE  Added(x) \in Row /\ Added(x).live
  <2>1. x.path \in Names /\ x.track \in Tracks \cup {None}
    BY <1>0, <1>1
  <2> QED BY <2>1 DEF Added, NoRow, Row
<1>2. \A a \in Assets : asset'[a] \in Row /\ (~asset'[a].live => asset'[a] = NoRow)
  BY <1>1, ScanFacts, RowFacts
<1>3. asset' \in [Assets -> Row]
  <2>1. asset' = [a \in Assets |-> asset'[a]]
    BY ScanFacts
  <2> QED BY <1>2, <2>1
<1>4. torn' \subseteq Names
  <2>1. \A x \in proc[q].found : x.path \in Names
    BY <1>0
  <2> DEFINE late == {y \in proc[q].found :
                         y.path \notin Videos \/ (Named(y.path) /\ y.path \notin proc[q].known)}
  <2>2. torn' = torn \cup {x.path : x \in late}
    BY DEF ScanCommit
  <2>3. late \subseteq proc[q].found
    OBVIOUS
  <2> HIDE DEF late
  <2> QED BY <2>1, <2>2, <2>3 DEF Typed, TypeOK
<1>5. /\ proc' \in [Procs -> Task]
      /\ \A u \in Procs : WellFormed(proc'[u])
  BY <1>0, Steps DEF ScanCommit, Ends
<1> QED BY <1>2, <1>3, <1>4, <1>5 DEF ScanCommit, counters, Typed, TypeOK, WellFormed

\* A session whose row is gone.
LEMMA RowGoneTyped ==
    ASSUME Typed, NEW q \in Procs, RowGone(q)
    PROVE  Typed'
<1>1. torn' \subseteq Names
  BY TaskFacts DEF RowGone, Typed, TypeOK, WellFormed
<1>2. /\ proc' \in [Procs -> Task]
      /\ \A u \in Procs : WellFormed(proc'[u])
  BY IdleFacts, Steps DEF RowGone, Ends
<1> QED BY <1>1, <1>2 DEF RowGone, counters, Typed, TypeOK, WellFormed

\* The process stops and starts again.
LEMMA RestartTyped ==
    ASSUME Typed, Restart
    PROVE  Typed'
<1>1. \A q \in Procs : proc[q].name \in Names \cup {NoName}
                       /\ proc[q].was.path \in Names \cup {NoName}
  BY TaskFacts
<1>2. torn' \subseteq Names
  <2> DEFINE late == {r \in Procs : proc[r].pc \in {"moved", "drop"}}
  <2>1. \A q \in late : {proc[q].name, proc[q].was.path} \ {NoName} \subseteq Names
    BY <1>1
  <2>2. torn' = torn \cup UNION {{proc[q].name, proc[q].was.path} \ {NoName} : q \in late}
    BY DEF Restart
  <2> QED BY <2>1, <2>2 DEF Typed, TypeOK
<1>3. ASSUME NEW a \in Assets
      PROVE  asset'[a] \in Row /\ (~asset'[a].live => asset'[a] = NoRow)
  <2>0. asset[a] \in Row /\ (~asset[a].live => asset[a] = NoRow)
    BY RowFacts
  <2>1. CASE asset[a].pending
    BY <2>1, IdleFacts DEF Restart
  <2>2. CASE ~asset[a].pending /\ asset[a].state = "DOWNLOADING"
    <3>1. asset'[a] = [asset[a] EXCEPT !.state = "QUEUED"]
      BY <2>2 DEF Restart
    <3>2. asset[a].live
      BY <2>0, <2>2 DEF NoRow
    <3> QED BY <2>0, <3>1, <3>2 DEF Row
  <2>3. CASE ~asset[a].pending /\ asset[a].state # "DOWNLOADING"
    BY <2>0, <2>3 DEF Restart
  <2> QED BY <2>1, <2>2, <2>3
<1>4. asset' \in [Assets -> Row]
  <2>1. asset' = [a \in Assets |-> asset'[a]]
    BY DEF Restart
  <2> QED BY <1>3, <2>1
<1>5. proc' = [u \in Procs |-> IdleTask]
  BY DEF Restart
<1>6. files' \in [Names -> Assets \cup {None, Foreign}]
  BY DEF Restart, Typed, TypeOK
<1>7. lrc' \in [Stems -> Tracks \cup {None}]
  BY DEF Restart, Typed, TypeOK
<1>8. crashes' \in 0 .. MaxCrashes
  <2>1. crashes \in 0 .. MaxCrashes /\ crashes < MaxCrashes /\ crashes' = crashes + 1
    BY DEF Restart, Typed, TypeOK
  <2>2. MaxCrashes \in Nat
    BY LibraryAssumption
  <2> QED BY <2>1, <2>2
<1>9. proc' \in [Procs -> Task] /\ \A u \in Procs : WellFormed(proc'[u])
  BY <1>5, IdleFacts
<1> QED BY <1>2, <1>3, <1>4, <1>6, <1>7, <1>8, <1>9 DEF Restart, Typed, TypeOK, WellFormed

\* Every step keeps the types.
LEMMA NextTyped == Typed /\ [Next]_vars => Typed'
<1> SUFFICES ASSUME Typed, [Next]_vars
             PROVE  Typed'
  OBVIOUS
<1>1. CASE UNCHANGED vars
  BY <1>1 DEF vars, history, counters, Typed, TypeOK, WellFormed
<1>2. CASE External
  BY <1>2, QueueTyped, PutsFileTyped DEF External
<1>3. CASE Restart
  BY <1>3, RestartTyped
<1>4. ASSUME NEW q \in Procs, Begin(q)
      PROVE  Typed'
  BY <1>4, BeginTyped
<1>5. ASSUME NEW q \in Procs, Pipeline(q)
      PROVE  Typed'
  BY <1>5, LyricsTyped, FailTyped, ImportTyped, ImportCommitTyped, SwapTyped DEF Pipeline
<1>6. ASSUME NEW q \in Procs, FileStep(q)
      PROVE  Typed'
  <2>1. CASE OrganizeRefused(q)
    BY <2>1, IdleFacts, TaskTyped DEF OrganizeRefused, Ends, counters, Typed, TypeOK
  <2> QED BY <1>6, <2>1, DeleteTyped, MoveTyped, OrganizeCommitTyped, WalkTyped,
             ScanCommitTyped, RowGoneTyped DEF FileStep
<1> QED BY <1>1, <1>2, <1>3, <1>4, <1>5, <1>6 DEF Next

\* The first state has nothing in it.
LEMMA InitTyped == Init => Typed
<1> SUFFICES ASSUME Init
             PROVE  Typed
  OBVIOUS
<1>1. \A q \in Procs : proc[q] = IdleTask
  BY DEF Init
<1>2. \A a \in Assets : asset[a] = NoRow
  BY DEF Init
<1>3. /\ starts \in 0 .. MaxStarts /\ foreign \in 0 .. MaxForeign
      /\ crashes \in 0 .. MaxCrashes
  <2>1. starts = 0 /\ foreign = 0 /\ crashes = 0
    BY DEF Init
  <2>2. MaxStarts \in Nat /\ MaxForeign \in Nat /\ MaxCrashes \in Nat
    BY LibraryAssumption
  <2> QED BY <2>1, <2>2
<1>4. /\ asset \in [Assets -> Row] /\ proc \in [Procs -> Task]
      /\ lyrics \in [Tracks -> LyricsKind]
  BY <1>1, <1>2, IdleFacts DEF Init, LyricsKind
<1>5. /\ files \in [Names -> Assets \cup {None, Foreign}]
      /\ lrc \in [Stems -> Tracks \cup {None}]
      /\ torn \subseteq Names /\ mixed \subseteq Stems
  BY DEF Init
<1> QED BY <1>1, <1>2, <1>3, <1>4, <1>5, IdleFacts DEF Typed, TypeOK

\* The types hold, whatever is under way.
THEOREM TypesHold == Spec => []TypeOK
<1>1. Typed => TypeOK
  BY DEF Typed
<1> QED BY <1>1, InitTyped, NextTyped, PTL DEF Spec

-----------------------------------------------------------------------------
(* The folder *)

\* The step leaves alone the tasks that have a file in hand.
QuietTasks == \A u \in Procs : proc[u].pc \in {"moved", "drop"} => proc'[u] = proc[u]

\* The step leaves alone the file that a row names, and does not change its
\* track except to none; a row it adds names no file.
QuietRows ==
    \A a \in Assets :
       /\ asset[a].live => /\ asset'[a].live /\ asset'[a].path = asset[a].path
                           /\ asset'[a].track \in {asset[a].track, None}
       /\ ~asset[a].live => asset'[a].path = NoName

\* Such a step leaves a video the track's.
LEMMA QuietOfTrack ==
    ASSUME Typed, QuietTasks, QuietRows, NEW n \in Names, NEW t, OfTrack(n, t)
    PROVE  OfTrack(n, t)'
<1>1. CASE \E a \in Live : asset[a].path = n /\ asset[a].track \in {t, None}
  BY <1>1 DEF QuietRows, Live, OfTrack
<1>2. CASE \E q \in Procs : /\ At(q, "moved") /\ proc[q].name = n
                            /\ proc[q].was.track \in {t, None}
  BY <1>2 DEF QuietTasks, OfTrack, At
<1> QED BY <1>1, <1>2 DEF OfTrack

\* Rows that keep their files keep them apart and accounted for.
LEMMA QuietRowsKnown ==
    ASSUME Typed, RowsKnown, OneRowPerFile, QuietTasks, QuietRows,
           torn \subseteq torn', Videos \subseteq Videos'
    PROVE  RowsKnown' /\ OneRowPerFile'
<1>1. \A a \in Live' : asset'[a].path # NoName =>
         a \in Live /\ asset'[a].path = asset[a].path
  BY DEF QuietRows, Live
<1>2. RowsKnown'
  <2> SUFFICES ASSUME NEW a \in Live', asset'[a].path \in Names \ torn'
               PROVE  \/ asset'[a].path \in Videos'
                      \/ \E q \in Procs : /\ proc'[q].pc \in {"drop", "moved"}
                                          /\ proc'[q].aid = a /\ proc'[q].was.path = asset'[a].path
    BY DEF RowsKnown
  <2>1. a \in Live /\ asset'[a].path = asset[a].path /\ asset[a].path \in Names \ torn
    BY <1>1, NameFacts
  <2>2. CASE asset[a].path \in Videos
    BY <2>1, <2>2
  <2>3. CASE \E q \in Procs : /\ proc[q].pc \in {"drop", "moved"}
                              /\ proc[q].aid = a /\ proc[q].was.path = asset[a].path
    BY <2>1, <2>3 DEF QuietTasks
  <2> QED BY <2>1, <2>2, <2>3 DEF RowsKnown
<1>3. OneRowPerFile'
  <2> SUFFICES ASSUME NEW a \in Live', NEW b \in Live', a # b,
                      asset'[a].path = asset'[b].path, asset'[a].path # NoName
               PROVE  asset'[a].path \in torn'
    BY DEF OneRowPerFile
  <2>1. /\ a \in Live /\ asset'[a].path = asset[a].path
        /\ b \in Live /\ asset'[b].path = asset[b].path
    BY <1>1
  <2> QED BY <2>1 DEF OneRowPerFile
<1> QED BY <1>2, <1>3

\* A step that moves no file and rewrites no row.
LEMMA QuietFolder ==
    ASSUME Typed, Folder, QuietTasks, QuietRows, UNCHANGED <<files, lrc, torn, mixed>>
    PROVE  Folder'
<1>0. /\ Videos' = Videos /\ lrc' = lrc /\ torn' = torn /\ mixed' = mixed
      /\ Videos \subseteq Names
  BY DEF Videos
<1>1. RowsKnown' /\ OneRowPerFile'
  BY <1>0, QuietRowsKnown DEF Folder
<1>2. SidecarsFollow'
  BY <1>0 DEF Folder, SidecarsFollow
<1>3. StemsMixed'
  BY <1>0 DEF Folder, StemsMixed
<1>4. Owned'
  <2> SUFFICES ASSUME NEW s \in Stems, lrc[s] # None, s \notin mixed,
                      \A n \in torn : Stem(n) # s
               PROVE  \E n \in Videos : Stem(n) = s /\ OfTrack(n, lrc[s])'
    BY <1>0 DEF Owned
  <2>1. PICK n \in Videos : Stem(n) = s /\ OfTrack(n, lrc[s])
    BY DEF Folder, Owned
  <2>2. PICK t : t = lrc[s]
    OBVIOUS
  <2>3. OfTrack(n, t)'
    BY <1>0, <2>1, <2>2, QuietOfTrack
  <2>4. OfTrack(n, lrc[s])'
    BY <1>0, <2>2, <2>3 DEF OfTrack
  <2> QED BY <2>1, <2>4
<1> QED BY <1>1, <1>2, <1>3, <1>4 DEF Folder

\* A video comes: what an import brings, what a user puts there.
LEMMA NewFileFolder ==
    ASSUME Typed, Folder, QuietTasks, QuietRows, UNCHANGED <<lrc, torn>>,
           NEW name \in Names, name \notin Videos, NEW x, x # None,
           files' = [files EXCEPT ![name] = x],
           mixed' = IF Mixes(name, NoName) THEN mixed \cup {Stem(name)} ELSE mixed
    PROVE  Folder'
<1>0. /\ Videos' = Videos \cup {name} /\ Videos \subseteq Names
      /\ mixed \subseteq mixed'
  BY DEF Videos, Typed, TypeOK
<1>1. RowsKnown' /\ OneRowPerFile'
  BY <1>0, QuietRowsKnown DEF Folder
<1>2. SidecarsFollow'
  BY <1>0 DEF Folder, SidecarsFollow
<1>3. StemsMixed'
  <2> SUFFICES ASSUME NEW m \in Videos', NEW n \in Videos', m # n, Stem(m) = Stem(n)
               PROVE  Stem(n) \in mixed'
    BY DEF StemsMixed
  <2>1. CASE m \in Videos /\ n \in Videos
    BY <1>0, <2>1 DEF Folder, StemsMixed
  <2>2. ASSUME NEW v \in Videos, Stem(v) = Stem(name)
        PROVE  Stem(name) \in mixed'
    BY <1>0, <2>2, NameFacts DEF Mixes
  <2> QED BY <1>0, <2>1, <2>2
<1>4. Owned'
  <2> SUFFICES ASSUME NEW s \in Stems, lrc[s] # None, s \notin mixed,
                      \A n \in torn : Stem(n) # s
               PROVE  \E n \in Videos' : Stem(n) = s /\ OfTrack(n, lrc[s])'
    BY <1>0 DEF Owned
  <2>1. PICK n \in Videos : Stem(n) = s /\ OfTrack(n, lrc[s])
    BY DEF Folder, Owned
  <2>2. PICK t : t = lrc[s]
    OBVIOUS
  <2>3. OfTrack(n, t)'
    BY <1>0, <2>1, <2>2, QuietOfTrack
  <2>4. OfTrack(n, lrc[s])'
    BY <2>2, <2>3 DEF OfTrack
  <2> QED BY <1>0, <2>1, <2>4
<1> QED BY <1>1, <1>2, <1>3, <1>4 DEF Folder

\* A row is dropped: what names a video is flagged.
LEMMA RowDroppedFolder ==
    ASSUME Typed, Folder, NEW q \in Procs, NEW a \in Assets,
           proc[q].pc # "moved", proc[q].pc = "drop" => proc[q].aid = a,
           asset' = [asset EXCEPT ![a] = NoRow],
           proc' = [proc EXCEPT ![q] = IdleTask],
           torn \subseteq torn', asset[a].path \in Videos => asset[a].path \in torn',
           UNCHANGED <<files, lrc, mixed>>
    PROVE  Folder'
<1>0. /\ Videos' = Videos /\ Videos \subseteq Names
      /\ \A b \in Live' : b \in Live /\ b # a /\ asset'[b] = asset[b]
      /\ \A b \in Live : b # a => b \in Live' /\ asset'[b] = asset[b]
      /\ \A u \in Procs : u # q => proc'[u] = proc[u]
  BY IdleFacts DEF Videos, Live, Typed, TypeOK
<1>1. RowsKnown'
  <2> SUFFICES ASSUME NEW b \in Live', asset'[b].path \in Names \ torn'
               PROVE  \/ asset'[b].path \in Videos'
                      \/ \E u \in Procs : /\ proc'[u].pc \in {"drop", "moved"}
                                          /\ proc'[u].aid = b /\ proc'[u].was.path = asset'[b].path
    BY DEF RowsKnown
  <2> QED BY <1>0 DEF Folder, RowsKnown
<1>2. OneRowPerFile'
  BY <1>0 DEF Folder, OneRowPerFile
<1>3. SidecarsFollow'
  BY <1>0 DEF Folder, SidecarsFollow
<1>4. StemsMixed'
  BY <1>0 DEF Folder, StemsMixed
<1>5. Owned'
  <2> SUFFICES ASSUME NEW s \in Stems, lrc[s] # None, s \notin mixed,
                      \A n \in torn' : Stem(n) # s
               PROVE  \E n \in Videos : Stem(n) = s /\ OfTrack(n, lrc[s])'
    BY <1>0 DEF Owned
  <2>1. PICK n \in Videos : Stem(n) = s /\ OfTrack(n, lrc[s])
    BY DEF Folder, Owned
  <2>2. asset[a].path # n
    BY <2>1
  <2>3. CASE \E b \in Live : asset[b].path = n /\ asset[b].track \in {lrc[s], None}
    BY <1>0, <2>1, <2>2, <2>3 DEF OfTrack
  <2>4. CASE \E u \in Procs : /\ At(u, "moved") /\ proc[u].name = n
                              /\ proc[u].was.track \in {lrc[s], None}
    BY <1>0, <2>1, <2>4 DEF OfTrack, At
  <2> QED BY <2>1, <2>3, <2>4 DEF OfTrack
<1> QED BY <1>1, <1>2, <1>3, <1>4, <1>5 DEF Folder

\* A session finds its row gone: the file that was in hand is flagged.
LEMMA RowGoneFolder ==
    ASSUME Typed, Folder, NEW q \in Procs, RowGone(q)
    PROVE  Folder'
<1>0. /\ Videos' = Videos /\ Videos \subseteq Names /\ Live' = Live
      /\ asset' = asset /\ lrc' = lrc /\ mixed' = mixed /\ torn \subseteq torn'
      /\ \A u \in Procs : u # q => proc'[u] = proc[u]
      /\ proc[q].pc # "drop"
  BY DEF RowGone, Ends, Videos, Live, Typed, TypeOK
<1>m. proc[q].pc = "moved" => proc[q].name \in torn' /\ proc[q].aid \notin Live
  BY DEF RowGone, At, Live
<1>1. RowsKnown'
  <2> SUFFICES ASSUME NEW b \in Live, asset[b].path \in Names \ torn'
               PROVE  \/ asset[b].path \in Videos
                      \/ \E u \in Procs : /\ proc'[u].pc \in {"drop", "moved"}
                                          /\ proc'[u].aid = b /\ proc'[u].was.path = asset[b].path
    BY <1>0 DEF RowsKnown
  <2> QED BY <1>0, <1>m DEF Folder, RowsKnown
<1>2. OneRowPerFile'
  BY <1>0 DEF Folder, OneRowPerFile
<1>3. SidecarsFollow'
  BY <1>0 DEF Folder, SidecarsFollow
<1>4. StemsMixed'
  BY <1>0 DEF Folder, StemsMixed
<1>5. Owned'
  <2> SUFFICES ASSUME NEW s \in Stems, lrc[s] # None, s \notin mixed,
                      \A n \in torn' : Stem(n) # s
               PROVE  \E n \in Videos : Stem(n) = s /\ OfTrack(n, lrc[s])'
    BY <1>0 DEF Owned
  <2>1. PICK n \in Videos : Stem(n) = s /\ OfTrack(n, lrc[s])
    BY <1>0 DEF Folder, Owned
  <2>3. CASE \E b \in Live : asset[b].path = n /\ asset[b].track \in {lrc[s], None}
    BY <1>0, <2>1, <2>3 DEF OfTrack
  <2>4. CASE \E u \in Procs : /\ At(u, "moved") /\ proc[u].name = n
                              /\ proc[u].was.track \in {lrc[s], None}
    BY <1>0, <1>m, <2>1, <2>4 DEF OfTrack, At
  <2> QED BY <2>1, <2>3, <2>4 DEF OfTrack
<1> QED BY <1>1, <1>2, <1>3, <1>4, <1>5 DEF Folder

\* The import is committed: the row names the file this task brought, or the
\* name is flagged.
LEMMA ImportCommitFolder ==
    ASSUME Typed, Folder, NEW q \in Procs, ImportCommit(q)
    PROVE  Folder'
<1> DEFINE a == proc[q].aid
           name == proc[q].name
<1>0. /\ a \in Assets /\ name \in Names /\ a # None /\ Stem(name) \in Stems
      /\ asset[a].live /\ proc[q].pc = "commit"
  BY TaskFacts, NameFacts, IdleFacts DEF WellFormed, ImportCommit, At
<1>1. /\ Videos' = Videos /\ Videos \subseteq Names /\ mixed' = mixed /\ torn \subseteq torn'
      /\ \A u \in Procs : u # q => proc'[u] = proc[u]
  BY DEF ImportCommit, Ends, Goes, Videos, Typed, TypeOK
<1>2. /\ Live' = Live
      /\ \A b \in Assets : b # a => asset'[b] = asset[b]
      /\ asset'[a].path = name /\ asset'[a].track = asset[a].track
  BY <1>0 DEF ImportCommit, Live, Typed, TypeOK, Row
<1>3. name \notin torn' =>
         /\ ~Named(name) /\ name \in Videos /\ asset[a].path = NoName
         /\ asset[a].track = proc[q].track
  BY <1>0, NameFacts DEF ImportCommit, Videos
<1>4. asset[a].path # NoName => asset[a].path \in torn'
  BY DEF ImportCommit
<1>5. \/ lrc' = lrc
      \/ lrc' = [lrc EXCEPT ![Stem(name)] = proc[q].track]
  BY DEF ImportCommit
<1> HIDE DEF a, name
<1>6. RowsKnown'
  <2> SUFFICES ASSUME NEW b \in Live, asset'[b].path \in Names \ torn'
               PROVE  \/ asset'[b].path \in Videos
                      \/ \E u \in Procs : /\ proc'[u].pc \in {"drop", "moved"}
                                          /\ proc'[u].aid = b /\ proc'[u].was.path = asset'[b].path
    BY <1>1, <1>2 DEF RowsKnown
  <2>1. CASE b = a
    BY <1>2, <1>3, <2>1
  <2>2. CASE b # a
    BY <1>0, <1>1, <1>2, <2>2 DEF Folder, RowsKnown, Live
  <2> QED BY <2>1, <2>2
<1>7. OneRowPerFile'
  <2> SUFFICES ASSUME NEW b \in Live, NEW c \in Live, b # c,
                      asset'[b].path = asset'[c].path, asset'[b].path \notin torn' \cup {NoName}
               PROVE  FALSE
    BY <1>2 DEF OneRowPerFile
  <2>1. CASE b # a /\ c # a
    BY <1>1, <1>2, <2>1 DEF Folder, OneRowPerFile, Live
  <2>2. CASE b = a \/ c = a
    BY <1>2, <1>3, <2>2 DEF Named, Live
  <2> QED BY <2>1, <2>2
<1>8. SidecarsFollow'
  <2> SUFFICES ASSUME NEW s \in Stems, lrc'[s] # None
               PROVE  \E n \in Names : Stem(n) = s /\ n \in Videos \cup torn'
    BY <1>1 DEF SidecarsFollow
  <2>1. CASE s = Stem(name)
    BY <1>0, <1>3, <2>1
  <2>2. CASE s # Stem(name)
    BY <1>1, <1>5, <2>2 DEF Folder, SidecarsFollow, Typed, TypeOK
  <2> QED BY <2>1, <2>2
<1>9. StemsMixed'
  BY <1>1 DEF Folder, StemsMixed
<1>10. Owned'
  <2> SUFFICES ASSUME NEW s \in Stems, lrc'[s] # None, s \notin mixed,
                      \A n \in torn' : Stem(n) # s
               PROVE  \E n \in Videos : Stem(n) = s /\ OfTrack(n, lrc[s])'
    BY <1>1 DEF Owned
  <2>1. CASE lrc'[s] # lrc[s]
    <3>1. s = Stem(name) /\ lrc'[s] = proc[q].track
      BY <1>5, <2>1 DEF Typed, TypeOK
    <3>2. name \notin torn'
      BY <3>1
    <3>3. PICK n \in Names, b \in Assets : n = name /\ b = a
      BY <1>0
    <3>4. OfTrack(n, lrc[s])'
      BY <1>0, <1>2, <1>3, <3>1, <3>2, <3>3 DEF OfTrack, Live
    <3> QED BY <1>3, <3>1, <3>2, <3>3, <3>4
  <2>2. CASE lrc'[s] = lrc[s]
    <3>1. PICK n \in Videos : Stem(n) = s /\ OfTrack(n, lrc[s])
      BY <1>1, <2>2 DEF Folder, Owned
    <3>2. asset[a].path # n
      BY <1>1, <1>4, <3>1, NameFacts
    <3>3. CASE \E b \in Live : asset[b].path = n /\ asset[b].track \in {lrc[s], None}
      BY <1>2, <2>2, <3>1, <3>2, <3>3 DEF OfTrack, Live
    <3>4. CASE \E u \in Procs : /\ At(u, "moved") /\ proc[u].name = n
                                /\ proc[u].was.track \in {lrc[s], None}
      BY <1>0, <1>1, <2>2, <3>1, <3>4 DEF OfTrack, At
    <3> QED BY <3>1, <3>3, <3>4 DEF OfTrack
  <2> QED BY <2>1, <2>2
<1> QED BY <1>6, <1>7, <1>8, <1>9, <1>10 DEF Folder

\* A file is unlinked, and its sidecar with it: of the row that names it and will
\* be dropped, or the name is flagged.
LEMMA UnlinkFolder ==
    ASSUME Typed, Folder, NEW q \in Procs, Unlink(q), ~Ends(q)
    PROVE  Folder'
<1>0. PICK a \in Assets, path \in Names \cup {NoName} : a = proc[q].aid /\ path = proc[q].was.path
  BY TaskFacts DEF WellFormed, Unlink, At
<1>1. /\ files' = IF path = NoName THEN files ELSE [files EXCEPT ![path] = None]
      /\ lrc' = IF path = NoName THEN lrc ELSE [lrc EXCEPT ![Stem(path)] = None]
      /\ torn' = IF asset[a].path # path THEN torn \cup ({path, asset[a].path} \ {NoName})
                 ELSE torn
      /\ proc' = [proc EXCEPT ![q] = [proc[q] EXCEPT !.pc = "drop"]]
      /\ asset' = asset /\ mixed' = mixed /\ proc[q].pc = "unlink"
  BY <1>0 DEF Unlink, Goes, At
<1>2. /\ Videos' = Videos \ {path} /\ Videos \subseteq Names
      /\ Live' = Live /\ torn \subseteq torn'
  BY <1>1, NameFacts DEF Videos, Live, Typed, TypeOK
<1>3. /\ \A u \in Procs : u # q => proc'[u] = proc[u]
      /\ proc'[q].pc = "drop" /\ proc'[q].aid = a /\ proc'[q].was.path = path
  BY <1>0, <1>1 DEF Typed, TypeOK, Task
<1>4. RowsKnown'
  <2> SUFFICES ASSUME NEW b \in Live, asset[b].path \in Names \ torn'
               PROVE  \/ asset[b].path \in Videos'
                      \/ \E u \in Procs : /\ proc'[u].pc \in {"drop", "moved"}
                                          /\ proc'[u].aid = b /\ proc'[u].was.path = asset[b].path
    BY <1>1, <1>2 DEF RowsKnown
  <2>1. CASE asset[b].path = path
    <3>1. asset[a].path = path
      BY <1>1, <2>1, NameFacts
    <3>2. asset[a].live
      BY <2>1, <3>1, RowFacts, IdleFacts, NameFacts
    <3>3. b = a
      BY <1>2, <2>1, <3>1, <3>2, NameFacts DEF Folder, OneRowPerFile, Live
    <3> QED BY <1>3, <2>1, <3>3
  <2>2. CASE asset[b].path # path
    <3>1. CASE asset[b].path \in Videos
      BY <1>2, <2>2, <3>1
    <3>2. CASE \E u \in Procs : /\ proc[u].pc \in {"drop", "moved"}
                                /\ proc[u].aid = b /\ proc[u].was.path = asset[b].path
      BY <1>1, <1>3, <3>2
    <3> QED BY <1>2, <3>1, <3>2 DEF Folder, RowsKnown
  <2> QED BY <2>1, <2>2
<1>5. OneRowPerFile'
  BY <1>1, <1>2 DEF Folder, OneRowPerFile
<1>6. ASSUME NEW s \in Stems, lrc'[s] # None
      PROVE  lrc'[s] = lrc[s] /\ (path = NoName \/ s # Stem(path))
  BY <1>1, <1>6 DEF Typed, TypeOK
<1>7. SidecarsFollow'
  <2> SUFFICES ASSUME NEW s \in Stems, lrc'[s] # None
               PROVE  \E n \in Names : Stem(n) = s /\ n \in Videos' \cup torn'
    BY DEF SidecarsFollow
  <2>1. lrc[s] # None
    BY <1>6
  <2>2. PICK n \in Names : Stem(n) = s /\ n \in Videos \cup torn
    BY <2>1 DEF Folder, SidecarsFollow
  <2>3. n # path
    BY <1>6, <2>2, NameFacts
  <2> QED BY <1>2, <2>2, <2>3
<1>8. StemsMixed'
  BY <1>1, <1>2 DEF Folder, StemsMixed
<1>9. Owned'
  <2> SUFFICES ASSUME NEW s \in Stems, lrc'[s] # None, s \notin mixed,
                      \A n \in torn' : Stem(n) # s
               PROVE  \E n \in Videos' : Stem(n) = s /\ OfTrack(n, lrc[s])'
    BY <1>1 DEF Owned
  <2>1. lrc[s] # None /\ lrc'[s] = lrc[s]
    BY <1>6
  <2>2. PICK n \in Videos : Stem(n) = s /\ OfTrack(n, lrc[s])
    BY <1>2, <2>1 DEF Folder, Owned
  <2>3. n # path
    BY <1>2, <1>6, <2>2, NameFacts
  <2>4. CASE \E b \in Live : asset[b].path = n /\ asset[b].track \in {lrc[s], None}
    BY <1>1, <1>2, <2>1, <2>2, <2>3, <2>4 DEF OfTrack
  <2>5. CASE \E u \in Procs : /\ At(u, "moved") /\ proc[u].name = n
                              /\ proc[u].was.track \in {lrc[s], None}
    BY <1>1, <1>2, <1>3, <2>1, <2>2, <2>3, <2>5 DEF OfTrack, At
  <2> QED BY <2>2, <2>4, <2>5 DEF OfTrack
<1> QED BY <1>4, <1>5, <1>7, <1>8, <1>9 DEF Folder

\* A file moves with its sidecar, and this task has it in hand: it is the file the
\* row named when it was read, and still names, or both names are flagged.
LEMMA MoveFolder ==
    ASSUME Typed, Folder, NEW q \in Procs, Move(q)
    PROVE  Folder'
<1>0. PICK a \in Assets, from \in Names, to \in Names, t \in Tracks, was \in Row :
         /\ a = proc[q].aid /\ from = proc[q].was.path /\ to = Rendered(q)
         /\ t = proc[q].was.track /\ was = proc[q].was
  BY TaskFacts, RenderedFacts DEF WellFormed, Move, At
<1>1. /\ files' = [files EXCEPT ![to] = files[from], ![from] = None]
      /\ lrc' = IF lrc[Stem(from)] = None \/ Stem(from) = Stem(to) THEN lrc
                ELSE [lrc EXCEPT ![Stem(to)] = lrc[Stem(from)], ![Stem(from)] = None]
      /\ mixed' = IF Mixes(to, from) THEN mixed \cup {Stem(to)} ELSE mixed
      /\ torn' = IF asset[a] # was \/ Tainted(from)
                 THEN torn \cup {from, to} ELSE torn
      /\ proc' = [proc EXCEPT ![q] = [proc[q] EXCEPT !.pc = "moved", !.name = to]]
      /\ asset' = asset /\ from \in Videos /\ to \notin Videos /\ proc[q].pc = "move"
  BY <1>0 DEF Move, Moved, At
<1>2. /\ from # to /\ Stem(from) # Stem(to)
      /\ Stem(from) \in Stems /\ Stem(to) \in Stems
  BY <1>0, <1>1, NameFacts, RenderedFacts DEF At
<1>3. /\ Videos' = (Videos \ {from}) \cup {to} /\ Videos \subseteq Names
      /\ Live' = Live /\ torn \subseteq torn' /\ mixed \subseteq mixed'
  BY <1>1, <1>2 DEF Videos, Live, Typed, TypeOK
<1>4. /\ \A u \in Procs : u # q => proc'[u] = proc[u]
      /\ proc'[q].pc = "moved" /\ proc'[q].aid = a /\ proc'[q].was.path = from
      /\ proc'[q].was.track = t /\ proc'[q].name = to
  BY ZenonT(60), <1>0, <1>1 DEF Typed, TypeOK, Task
<1>5. from \notin torn' \/ to \notin torn' =>
         /\ asset[a].live /\ asset[a].path = from /\ asset[a].track = t
         /\ \A n \in torn : Stem(n) # Stem(from)
         /\ \A u \in Procs : ~(At(u, "moved") /\ proc[u].name = from)
  BY <1>0, <1>1, RowFacts, IdleFacts, NameFacts DEF Tainted
<1>6. RowsKnown'
  <2> SUFFICES ASSUME NEW b \in Live, asset[b].path \in Names \ torn'
               PROVE  \/ asset[b].path \in Videos'
                      \/ \E u \in Procs : /\ proc'[u].pc \in {"drop", "moved"}
                                          /\ proc'[u].aid = b /\ proc'[u].was.path = asset[b].path
    BY <1>1, <1>3 DEF RowsKnown
  <2>1. CASE asset[b].path = from
    <3>1. b = a
      BY <1>3, <1>5, <2>1, NameFacts DEF Folder, OneRowPerFile, Live
    <3> QED BY <1>4, <2>1, <3>1
  <2>2. CASE asset[b].path # from
    <3>1. CASE asset[b].path \in Videos
      BY <1>3, <2>2, <3>1
    <3>2. CASE \E u \in Procs : /\ proc[u].pc \in {"drop", "moved"}
                                /\ proc[u].aid = b /\ proc[u].was.path = asset[b].path
      BY <1>1, <1>4, <3>2
    <3> QED BY <1>3, <3>1, <3>2 DEF Folder, RowsKnown
  <2> QED BY <2>1, <2>2
<1>7. OneRowPerFile'
  BY <1>1, <1>3 DEF Folder, OneRowPerFile
<1>8. /\ lrc'[Stem(from)] = None
      /\ lrc[Stem(from)] # None => lrc'[Stem(to)] = lrc[Stem(from)]
      /\ lrc[Stem(from)] = None => lrc'[Stem(to)] = lrc[Stem(to)]
      /\ \A s \in Stems : s # Stem(from) /\ s # Stem(to) => lrc'[s] = lrc[s]
  BY <1>1, <1>2 DEF Typed, TypeOK
<1>9. SidecarsFollow'
  <2> SUFFICES ASSUME NEW s \in Stems, lrc'[s] # None
               PROVE  \E n \in Names : Stem(n) = s /\ n \in Videos' \cup torn'
    BY DEF SidecarsFollow
  <2>1. CASE s = Stem(to)
    BY <1>3, <2>1
  <2>2. CASE s # Stem(to)
    <3>1. s # Stem(from) /\ lrc[s] # None
      BY <1>8, <2>2
    <3>2. PICK n \in Names : Stem(n) = s /\ n \in Videos \cup torn
      BY <3>1 DEF Folder, SidecarsFollow
    <3> QED BY <1>3, <3>1, <3>2
  <2> QED BY <2>1, <2>2
<1>10. \A v \in Videos \ {from} : Stem(v) = Stem(to) => Stem(to) \in mixed'
  BY <1>1 DEF Mixes
<1>11. StemsMixed'
  <2> SUFFICES ASSUME NEW m \in Videos', NEW n \in Videos', m # n, Stem(m) = Stem(n)
               PROVE  Stem(n) \in mixed'
    BY DEF StemsMixed
  <2>1. CASE m \in Videos \ {from} /\ n \in Videos \ {from}
    BY <1>3, <2>1 DEF Folder, StemsMixed
  <2> QED BY <1>3, <1>10, <2>1
<1>12. Owned'
  <2> SUFFICES ASSUME NEW s \in Stems, lrc'[s] # None, s \notin mixed',
                      \A n \in torn' : Stem(n) # s
               PROVE  \E n \in Videos' : Stem(n) = s /\ OfTrack(n, lrc[s])'
    BY DEF Owned
  <2>1. CASE s = Stem(to) /\ lrc[Stem(from)] # None
    <3>1. lrc'[s] = lrc[Stem(from)]
      BY <1>8, <2>1
    <3>2. to \notin torn'
      BY <2>1
    <3>3. Stem(from) \notin mixed
      BY <1>1, <2>1, NameFacts DEF Mixes
    <3>4. PICK n \in Videos : Stem(n) = Stem(from) /\ OfTrack(n, lrc[Stem(from)])
      BY <1>2, <1>5, <2>1, <3>2, <3>3 DEF Folder, Owned
    <3>5. n = from
      BY <1>1, <3>3, <3>4 DEF Folder, StemsMixed
    <3>6. PICK b \in Live : asset[b].path = from /\ asset[b].track \in {lrc[Stem(from)], None}
      BY <1>5, <3>2, <3>4, <3>5 DEF OfTrack
    <3>7. from \notin torn
      BY <1>5, <3>2
    <3>8. b = a
      BY <1>5, <3>2, <3>6, <3>7, NameFacts DEF Folder, OneRowPerFile, Live
    <3>9. OfTrack(to, lrc[s])'
      BY <1>4, <1>5, <3>1, <3>2, <3>6, <3>8 DEF OfTrack, At
    <3> QED BY <1>3, <2>1, <3>9
  <2>2. CASE s = Stem(to) /\ lrc[Stem(from)] = None
    <3>1. lrc[s] # None
      BY <1>8, <2>2
    <3>2. PICK n \in Videos : Stem(n) = s
      BY <1>3, <3>1 DEF Folder, Owned
    <3> QED BY <1>2, <1>10, <2>2, <3>2
  <2>3. CASE s # Stem(to)
    <3>1. s # Stem(from) /\ lrc'[s] = lrc[s] /\ lrc[s] # None
      BY <1>8, <2>3
    <3>2. PICK n \in Videos : Stem(n) = s /\ OfTrack(n, lrc[s])
      BY <1>3, <3>1 DEF Folder, Owned
    <3>3. n \in Videos'
      BY <1>3, <3>1, <3>2
    <3>4. CASE \E b \in Live : asset[b].path = n /\ asset[b].track \in {lrc[s], None}
      BY <1>1, <1>3, <3>1, <3>2, <3>3, <3>4 DEF OfTrack
    <3>5. CASE \E u \in Procs : /\ At(u, "moved") /\ proc[u].name = n
                                /\ proc[u].was.track \in {lrc[s], None}
      BY ZenonT(60), <1>1, <1>4, <3>1, <3>2, <3>3, <3>5 DEF OfTrack, At
    <3> QED BY <3>2, <3>4, <3>5 DEF OfTrack
  <2> QED BY <2>1, <2>2, <2>3
<1> QED BY <1>6, <1>7, <1>9, <1>11, <1>12 DEF Folder

\* A rename is committed: the row names the file this task has in hand, or the
\* names are flagged.
LEMMA OrganizeCommitFolder ==
    ASSUME Typed, Folder, NEW q \in Procs, OrganizeCommit(q)
    PROVE  Folder'
<1>0. PICK a \in Assets, name \in Names, was \in Row :
         a = proc[q].aid /\ name = proc[q].name /\ was = proc[q].was
  BY TaskFacts DEF WellFormed, OrganizeCommit, At
<1>1. /\ asset[a].live /\ proc[q].pc = "moved"
      /\ asset' = [asset EXCEPT ![a] = [asset[a] EXCEPT !.path = name]]
      /\ torn' = IF \/ Named(name) \/ asset[a] # was
                    \/ name \notin Videos \/ asset[a].path \in Videos
                 THEN torn \cup ({name, was.path, asset[a].path} \ {NoName})
                 ELSE torn
      /\ proc' = [proc EXCEPT ![q] = IdleTask]
      /\ files' = files /\ lrc' = lrc /\ mixed' = mixed
  BY <1>0 DEF OrganizeCommit, Ends, At
<1>2. /\ Videos' = Videos /\ Videos \subseteq Names /\ torn \subseteq torn'
      /\ \A u \in Procs : u # q => proc'[u] = proc[u]
  BY <1>1 DEF Videos, Typed, TypeOK
<1>3. /\ Live' = Live
      /\ \A b \in Assets : b # a => asset'[b] = asset[b]
      /\ asset'[a].path = name /\ asset'[a].track = asset[a].track
  BY <1>0, <1>1 DEF Live, Typed, TypeOK, Row
<1>4. name \notin torn' => ~Named(name) /\ name \in Videos /\ asset[a] = was
  BY <1>1, NameFacts
<1>5. asset[a].path \in Videos => asset[a].path \in torn'
  BY <1>1, <1>2, NameFacts
<1>6. RowsKnown'
  <2> SUFFICES ASSUME NEW b \in Live, asset'[b].path \in Names \ torn'
               PROVE  \/ asset'[b].path \in Videos
                      \/ \E u \in Procs : /\ proc'[u].pc \in {"drop", "moved"}
                                          /\ proc'[u].aid = b /\ proc'[u].was.path = asset'[b].path
    BY <1>2, <1>3 DEF RowsKnown
  <2>1. CASE b = a
    BY <1>3, <1>4, <2>1
  <2>2. CASE b # a
    BY <1>0, <1>1, <1>2, <1>3, <2>2 DEF Folder, RowsKnown, Live
  <2> QED BY <2>1, <2>2
<1>7. OneRowPerFile'
  <2> SUFFICES ASSUME NEW b \in Live, NEW c \in Live, b # c,
                      asset'[b].path = asset'[c].path, asset'[b].path \notin torn' \cup {NoName}
               PROVE  FALSE
    BY <1>3 DEF OneRowPerFile
  <2>1. CASE b # a /\ c # a
    BY <1>2, <1>3, <2>1 DEF Folder, OneRowPerFile, Live
  <2>2. CASE b = a \/ c = a
    BY <1>3, <1>4, <2>2 DEF Named, Live
  <2> QED BY <2>1, <2>2
<1>8. SidecarsFollow'
  BY <1>1, <1>2 DEF Folder, SidecarsFollow
<1>9. StemsMixed'
  BY <1>1, <1>2 DEF Folder, StemsMixed
<1>10. Owned'
  <2> SUFFICES ASSUME NEW s \in Stems, lrc[s] # None, s \notin mixed,
                      \A n \in torn' : Stem(n) # s
               PROVE  \E n \in Videos : Stem(n) = s /\ OfTrack(n, lrc[s])'
    BY <1>1, <1>2 DEF Owned
  <2>1. PICK n \in Videos : Stem(n) = s /\ OfTrack(n, lrc[s])
    BY <1>2 DEF Folder, Owned
  <2>2. asset[a].path # n
    BY <1>5, <2>1
  <2>3. CASE \E b \in Live : asset[b].path = n /\ asset[b].track \in {lrc[s], None}
    BY <1>1, <1>3, <2>1, <2>2, <2>3 DEF OfTrack, Live
  <2>4. CASE \E u \in Procs : /\ u # q /\ At(u, "moved") /\ proc[u].name = n
                              /\ proc[u].was.track \in {lrc[s], None}
    BY <1>1, <1>2, <2>1, <2>4 DEF OfTrack, At
  <2>5. CASE proc[q].name = n /\ proc[q].was.track \in {lrc[s], None}
    <3>1. n = name /\ was.track \in {lrc[s], None}
      BY <1>0, <2>5
    <3>2. asset'[a].track \in {lrc[s], None}
      BY <1>3, <1>4, <2>1, <3>1
    <3>3. OfTrack(n, lrc[s])'
      BY <1>0, <1>1, <1>3, <3>1, <3>2 DEF OfTrack, Live
    <3> QED BY <2>1, <3>3
  <2> QED BY <2>1, <2>3, <2>4, <2>5 DEF OfTrack
<1> QED BY <1>6, <1>7, <1>8, <1>9, <1>10 DEF Folder

\* A scan adds its rows: each names a file of its own that no row named when it
\* read the rows, and that is there, or the name is flagged.
LEMMA ScanCommitFolder ==
    ASSUME Typed, Folder, NEW q \in Procs, ScanCommit(q)
    PROVE  Folder'
<1>0. PICK found \in SUBSET [path: Names, track: Tracks \cup {None}] : found = proc[q].found
  BY SMTT(60), TaskFacts
<1>1. /\ files' = files /\ lrc' = lrc /\ mixed' = mixed /\ proc[q].pc = "add"
      /\ proc' = [proc EXCEPT ![q] = IdleTask]
  BY ZenonT(60) DEF ScanCommit, Ends, At
<1>2. /\ Videos' = Videos /\ Videos \subseteq Names /\ torn \subseteq torn'
      /\ \A u \in Procs : u # q => proc'[u] = proc[u]
  BY ZenonT(60), <1>1 DEF ScanCommit, Videos, Typed, TypeOK
<1>3. \A x \in found : Added(x).live /\ Added(x).path = x.path /\ Added(x).path # NoName
  BY NameFacts DEF Added, NoRow
<1>4. \A x, y \in found : x.path = y.path => x = y
  BY <1>0, TaskFacts DEF WellFormed
<1>5. \A x \in found : x.path \notin torn' => x.path \in Videos /\ ~Named(x.path)
  <2> SUFFICES ASSUME NEW x \in found, x.path \notin Videos \/ Named(x.path)
               PROVE  x.path \in torn'
    OBVIOUS
  <2>1. x.path \notin proc[q].known
    BY <1>0, TaskFacts DEF WellFormed
  <2>2. x \in {y \in proc[q].found :
                  y.path \notin Videos \/ (Named(y.path) /\ y.path \notin proc[q].known)}
    BY <1>0, <2>1
  <2> QED BY <2>2 DEF ScanCommit
<1>6. \A a \in Assets : \/ asset'[a] = asset[a]
                        \/ ~asset[a].live /\ \E x \in found : asset'[a] = Added(x)
  BY <1>0, ScanFacts
<1>7. Live \subseteq Live' /\ \A a \in Live : asset'[a] = asset[a]
  BY <1>6 DEF Live
<1>8. \A a \in Live' : \/ a \in Live
                       \/ ~asset[a].live /\ \E x \in found : asset'[a] = Added(x)
  BY <1>6 DEF Live
<1>9. RowsKnown'
  <2> SUFFICES ASSUME NEW b \in Live', asset'[b].path \in Names \ torn'
               PROVE  \/ asset'[b].path \in Videos
                      \/ \E u \in Procs : /\ proc'[u].pc \in {"drop", "moved"}
                                          /\ proc'[u].aid = b /\ proc'[u].was.path = asset'[b].path
    BY <1>2 DEF RowsKnown
  <2>1. CASE b \in Live
    BY <1>1, <1>2, <1>7, <2>1 DEF Folder, RowsKnown
  <2>2. CASE b \notin Live
    BY <1>3, <1>5, <1>8, <2>2
  <2> QED BY <2>1, <2>2
<1>10. OneRowPerFile'
  <2> SUFFICES ASSUME NEW b \in Live', NEW c \in Live', b # c,
                      asset'[b].path = asset'[c].path, asset'[b].path \notin torn' \cup {NoName}
               PROVE  FALSE
    BY DEF OneRowPerFile
  <2>1. CASE b \in Live /\ c \in Live
    BY <1>2, <1>7, <2>1 DEF Folder, OneRowPerFile
  <2>2. CASE b \notin Live /\ c \notin Live
    <3>1. PICK x \in found : ~asset[b].live /\ asset'[b] = Added(x)
      BY <1>8, <2>2
    <3>2. PICK y \in found : ~asset[c].live /\ asset'[c] = Added(y)
      BY <1>8, <2>2
    <3>3. x = y
      BY <1>3, <1>4, <3>1, <3>2
    <3>4. b \in Assets /\ c \in Assets
      BY DEF Live
    <3> QED BY <1>0, <3>1, <3>2, <3>3, <3>4, ScanFacts
  <2>3. CASE b \in Live /\ c \notin Live
    BY <1>3, <1>5, <1>7, <1>8, <2>3 DEF Named
  <2>4. CASE c \in Live /\ b \notin Live
    BY <1>3, <1>5, <1>7, <1>8, <2>4 DEF Named
  <2> QED BY <2>1, <2>2, <2>3, <2>4
<1>11. SidecarsFollow'
  BY <1>1, <1>2 DEF Folder, SidecarsFollow
<1>12. StemsMixed'
  BY <1>1, <1>2 DEF Folder, StemsMixed
<1>13. Owned'
  <2> SUFFICES ASSUME NEW s \in Stems, lrc[s] # None, s \notin mixed,
                      \A n \in torn' : Stem(n) # s
               PROVE  \E n \in Videos : Stem(n) = s /\ OfTrack(n, lrc[s])'
    BY <1>1, <1>2 DEF Owned
  <2>1. PICK n \in Videos : Stem(n) = s /\ OfTrack(n, lrc[s])
    BY <1>2 DEF Folder, Owned
  <2>3. CASE \E b \in Live : asset[b].path = n /\ asset[b].track \in {lrc[s], None}
    BY <1>1, <1>7, <2>1, <2>3 DEF OfTrack
  <2>4. CASE \E u \in Procs : /\ At(u, "moved") /\ proc[u].name = n
                              /\ proc[u].was.track \in {lrc[s], None}
    BY <1>1, <1>2, <2>1, <2>4 DEF OfTrack, At
  <2> QED BY <2>1, <2>3, <2>4 DEF OfTrack
<1> QED BY <1>9, <1>10, <1>11, <1>12, <1>13 DEF Folder

\* The process stops and starts again: what a task had in hand is flagged, and
\* what an unfinished replacement brought goes with its row.
LEMMA RestartFolder ==
    ASSUME Typed, Folder, Restart
    PROVE  Folder'
<1> DEFINE undone == {asset[a].path : a \in {b \in Live : asset[b].pending}} \ {NoName}
<1>1. /\ files' = [n \in Names |-> IF n \in undone THEN None ELSE files[n]]
      /\ lrc' = [s \in Stems |-> IF \E n \in undone : Stem(n) = s THEN None ELSE lrc[s]]
      /\ mixed' = mixed /\ torn \subseteq torn'
  BY DEF Restart
<1>2. \A n \in undone : \E a \in Live : asset[a].pending /\ asset[a].path = n
  OBVIOUS
<1>3. \A a \in Live : asset[a].pending => asset[a].path \in undone \cup {NoName}
  OBVIOUS
<1> HIDE DEF undone
<1>4. Videos' = Videos \ undone /\ Videos \subseteq Names
  BY <1>1 DEF Videos, Typed, TypeOK
<1>5. \A a \in Live' : /\ a \in Live /\ ~asset[a].pending
                       /\ asset'[a].path = asset[a].path /\ asset'[a].track = asset[a].track
  <2> SUFFICES ASSUME NEW a \in Live'
               PROVE  /\ a \in Live /\ ~asset[a].pending
                      /\ asset'[a].path = asset[a].path /\ asset'[a].track = asset[a].track
    OBVIOUS
  <2>1. a \in Assets /\ asset'[a].live /\ asset[a] \in Row
    BY RowFacts DEF Live
  <2>2. ~asset[a].pending
    BY <2>1, IdleFacts DEF Restart
  <2>3. asset'[a] = asset[a] \/ asset'[a] = [asset[a] EXCEPT !.state = "QUEUED"]
    BY <2>1, <2>2 DEF Restart
  <2> QED BY <2>1, <2>2, <2>3 DEF Live, Row
<1>6. \A a \in Live : ~asset[a].pending =>
         /\ a \in Live'
         /\ asset'[a].path = asset[a].path /\ asset'[a].track = asset[a].track
  <2> SUFFICES ASSUME NEW a \in Live, ~asset[a].pending
               PROVE  /\ a \in Live'
                      /\ asset'[a].path = asset[a].path /\ asset'[a].track = asset[a].track
    OBVIOUS
  <2>1. a \in Assets /\ asset[a].live /\ asset[a] \in Row
    BY RowFacts DEF Live
  <2>2. asset'[a] = asset[a] \/ asset'[a] = [asset[a] EXCEPT !.state = "QUEUED"]
    BY <2>1 DEF Restart
  <2> QED BY <2>1, <2>2 DEF Live, Row
<1>7. ASSUME NEW q \in Procs, proc[q].pc \in {"moved", "drop"},
             NEW n \in {proc[q].name, proc[q].was.path} \ {NoName}
      PROVE  n \in torn'
  <2> DEFINE late == {r \in Procs : proc[r].pc \in {"moved", "drop"}}
  <2>1. torn' = torn \cup UNION {{proc[r].name, proc[r].was.path} \ {NoName} : r \in late}
    BY DEF Restart
  <2>2. q \in late
    BY <1>7
  <2> QED BY <1>7, <2>1, <2>2
<1>8. RowsKnown'
  <2> SUFFICES ASSUME NEW b \in Live', asset'[b].path \in Names \ torn'
               PROVE  asset'[b].path \in Videos'
    BY DEF RowsKnown
  <2>1. /\ b \in Live /\ ~asset[b].pending /\ asset'[b].path = asset[b].path
        /\ asset[b].path \in Names \ torn
    BY <1>1, <1>5
  <2>2. asset[b].path \in Videos
    BY <1>7, <2>1, NameFacts DEF Folder, RowsKnown
  <2>3. asset[b].path \notin undone
    BY <1>2, <2>1, NameFacts DEF Folder, OneRowPerFile
  <2> QED BY <1>4, <2>1, <2>2, <2>3
<1>9. OneRowPerFile'
  BY <1>1, <1>5 DEF Folder, OneRowPerFile
<1>10. \A s \in Stems : lrc'[s] # None => lrc'[s] = lrc[s] /\ \A n \in undone : Stem(n) # s
  BY <1>1
<1>11. SidecarsFollow'
  <2> SUFFICES ASSUME NEW s \in Stems, lrc'[s] # None
               PROVE  \E n \in Names : Stem(n) = s /\ n \in Videos' \cup torn'
    BY DEF SidecarsFollow
  <2>1. PICK n \in Names : Stem(n) = s /\ n \in Videos \cup torn
    BY <1>10 DEF Folder, SidecarsFollow
  <2> QED BY <1>1, <1>4, <1>10, <2>1
<1>12. StemsMixed'
  BY <1>1, <1>4 DEF Folder, StemsMixed
<1>13. Owned'
  <2> SUFFICES ASSUME NEW s \in Stems, lrc'[s] # None, s \notin mixed,
                      \A n \in torn' : Stem(n) # s
               PROVE  \E n \in Videos' : Stem(n) = s /\ OfTrack(n, lrc[s])'
    BY <1>1 DEF Owned
  <2>1. PICK n \in Videos : Stem(n) = s /\ OfTrack(n, lrc[s])
    BY <1>1, <1>10 DEF Folder, Owned
  <2>2. n \in Videos' /\ n \notin undone
    BY <1>4, <1>10, <2>1
  <2>3. CASE \E b \in Live : asset[b].path = n /\ asset[b].track \in {lrc[s], None}
    <3>1. PICK b \in Live : asset[b].path = n /\ asset[b].track \in {lrc[s], None}
      BY <2>3
    <3>2. ~asset[b].pending
      BY <1>3, <1>4, <2>2, <3>1, NameFacts
    <3> QED BY <1>6, <1>10, <2>1, <2>2, <3>1, <3>2 DEF OfTrack
  <2>4. CASE \E u \in Procs : At(u, "moved") /\ proc[u].name = n
    BY <1>4, <1>7, <2>1, <2>4, NameFacts DEF At
  <2> QED BY <2>1, <2>3, <2>4 DEF OfTrack
<1> QED BY <1>8, <1>9, <1>11, <1>12, <1>13 DEF Folder

\* The steps that move no file and rewrite no row.
LEMMA QuietSteps ==
    ASSUME Typed, Folder, NEW q \in Procs,
           \/ Begin(q) \/ Mux(q) \/ ReadLyrics(q) \/ StoreLyrics(q) \/ LyricsPoison(q)
           \/ Fail(q) \/ Swap(q) \/ (Ends(q) /\ Unlink(q))
           \/ OrganizeRefused(q) \/ Walk(q)
    PROVE  Folder'
<1>0. /\ \A a \in Assets : asset[a] \in Row
      /\ \A a \in Assets : ~asset[a].live => asset[a].path = NoName
      /\ proc \in [Procs -> Task] /\ asset \in [Assets -> Row]
  BY RowFacts, IdleFacts DEF Typed, TypeOK
<1>r. asset' = asset => QuietRows
  BY <1>0 DEF QuietRows
<1>t. ASSUME proc[q].pc \notin {"moved", "drop"},
             \A u \in Procs : u # q => proc'[u] = proc[u]
      PROVE  QuietTasks
  BY <1>t DEF QuietTasks
<1>1. ASSUME NEW a \in Assets, Claim(q, a)
      PROVE  Folder'
  <2>1. QuietRows
    BY <1>0, <1>1 DEF QuietRows, Claim, Row
  <2>2. QuietTasks
    BY <1>0, <1>1 DEF QuietTasks, Claim, At
  <2> QED BY <1>1, <2>1, <2>2, QuietFolder DEF Claim, history
<1>2. ASSUME NEW a \in Assets, ReplaceBegin(q, a)
      PROVE  Folder'
  <2>1. PICK new \in Free : asset' = [asset EXCEPT ![new] = [NoRow EXCEPT
                          !.live = TRUE, !.track = asset[a].track,
                          !.state = "DOWNLOADING", !.pending = TRUE]]
    BY <1>2 DEF ReplaceBegin
  <2>2. new \in Assets /\ ~asset[new].live
    BY UnusedFacts DEF Free
  <2>3. QuietRows
    BY <1>0, <2>1, <2>2 DEF QuietRows, NoRow
  <2>4. QuietTasks
    BY <1>0, <1>2 DEF QuietTasks, ReplaceBegin, At
  <2> QED BY <1>2, <2>3, <2>4, QuietFolder DEF ReplaceBegin, history
<1>3. CASE Swap(q)
  <2>1. proc[q].old \in Assets /\ proc[q].aid \in Assets
    BY <1>3, TaskFacts DEF WellFormed, Swap, At
  <2>2. QuietRows
    BY <1>0, <1>3, <2>1 DEF QuietRows, Swap, Row
  <2>3. QuietTasks
    BY <1>0, <1>3 DEF QuietTasks, Swap, At
  <2> QED BY <1>3, <2>2, <2>3, QuietFolder DEF Swap, history
<1>4. CASE Fail(q)
  <2>1. proc[q].aid \in Assets
    BY <1>4, TaskFacts DEF WellFormed, Fail
  <2>2. QuietRows
    BY <1>0, <1>4, <2>1 DEF QuietRows, Fail, Row
  <2>3. QuietTasks
    BY <1>0, <1>4 DEF QuietTasks, Fail, Ends
  <2> QED BY <1>4, <2>2, <2>3, QuietFolder DEF Fail, history
<1>5. ASSUME \/ \E a \in Assets : DeleteBegin(q, a) \/ OrganizeBegin(q, a)
             \/ ScanBegin(q) \/ Walk(q) \/ OrganizeRefused(q) \/ (Ends(q) /\ Unlink(q))
      PROVE  Folder'
  <2>1. /\ QuietTasks
        /\ UNCHANGED <<files, lrc, asset, torn, mixed>>
    <3>1. ASSUME NEW a \in Assets, DeleteBegin(q, a) \/ OrganizeBegin(q, a)
          PROVE  QuietTasks /\ UNCHANGED <<files, lrc, asset, torn, mixed>>
      BY <1>0, <3>1 DEF QuietTasks, DeleteBegin, OrganizeBegin, At, history
    <3>2. CASE ScanBegin(q)
      BY <1>0, <3>2 DEF QuietTasks, ScanBegin, At, history
    <3>3. CASE Walk(q)
      BY <1>0, <3>3 DEF QuietTasks, Walk, At, history
    <3>4. CASE OrganizeRefused(q)
      BY <1>0, <3>4 DEF QuietTasks, OrganizeRefused, At, Ends, history
    <3>5. CASE Ends(q) /\ Unlink(q)
      <4>1. ~Goes(q, "drop")
        <5>1. proc'[q].pc = "idle"
          BY <1>0, <3>5, IdleFacts DEF Ends
        <5>2. Goes(q, "drop") => proc'[q].pc = "drop"
          BY ZenonT(60), <1>0 DEF Goes, Task
        <5> QED BY <5>1, <5>2
      <4> QED BY <1>0, <3>5, <4>1 DEF QuietTasks, Unlink, At, Ends
    <3> QED BY <1>5, <3>1, <3>2, <3>3, <3>4, <3>5
  <2> QED BY <1>r, <2>1, QuietFolder
<1>6. CASE Mux(q) \/ ReadLyrics(q) \/ StoreLyrics(q) \/ LyricsPoison(q)
  <2>1. QuietTasks
    BY <1>0, <1>6 DEF QuietTasks, Mux, ReadLyrics, StoreLyrics, LyricsPoison, At, Ends, Goes
  <2>2. UNCHANGED <<files, lrc, asset, torn, mixed>>
    BY <1>6 DEF Mux, ReadLyrics, StoreLyrics, LyricsPoison, history
  <2> QED BY <1>r, <2>1, <2>2, QuietFolder
<1> QED BY <1>1, <1>2, <1>3, <1>4, <1>5, <1>6 DEF Begin

\* Every step keeps the folder what the rows say.
LEMMA NextFolder == Typed /\ Folder /\ [Next]_vars => Folder'
<1> SUFFICES ASSUME Typed, Folder, [Next]_vars
             PROVE  Folder'
  OBVIOUS
<1>0. /\ proc \in [Procs -> Task] /\ asset \in [Assets -> Row]
      /\ \A a \in Assets : asset[a] \in Row
      /\ \A a \in Assets : ~asset[a].live => asset[a].path = NoName
  BY RowFacts, IdleFacts DEF Typed, TypeOK
<1>1. CASE UNCHANGED vars
  <2>1. QuietRows /\ QuietTasks
    BY <1>0, <1>1 DEF vars, QuietRows, QuietTasks
  <2> QED BY <1>1, <2>1, QuietFolder DEF vars, history
<1>2. ASSUME NEW t \in Tracks, Queue(t)
      PROVE  Folder'
  <2>1. PICK a \in Free : asset' = [asset EXCEPT ![a] = [NoRow EXCEPT !.live = TRUE, !.track = t]]
    BY <1>2 DEF Queue
  <2>2. a \in Assets /\ ~asset[a].live
    BY UnusedFacts DEF Free
  <2>3. QuietRows
    BY <1>0, <2>1, <2>2 DEF QuietRows, NoRow
  <2>4. QuietTasks
    BY <1>2 DEF Queue, QuietTasks
  <2> QED BY <1>2, <2>3, <2>4, QuietFolder DEF Queue, history
<1>3. ASSUME NEW name \in Names, PutsFile(name)
      PROVE  Folder'
  <2>1. QuietRows /\ QuietTasks
    BY <1>0, <1>3 DEF PutsFile, QuietRows, QuietTasks
  <2>2. name \notin Videos /\ Foreign # None
    BY <1>3 DEF PutsFile, Videos, Foreign, None
  <2> QED BY <1>3, <2>1, <2>2, NewFileFolder DEF PutsFile
<1>4. CASE Restart
  BY <1>4, RestartFolder
<1>5. ASSUME NEW q \in Procs, Import(q)
      PROVE  Folder'
  <2>1. PICK name \in FreeNames(q) :
          /\ files' = [files EXCEPT ![name] = proc[q].aid]
          /\ mixed' = IF Mixes(name, NoName) THEN mixed \cup {Stem(name)} ELSE mixed
    BY <1>5 DEF Import
  <2>2. name \in Names /\ name \notin Videos
    BY <1>5, FreeNameFacts DEF Import
  <2>3. PICK x : x = proc[q].aid
    OBVIOUS
  <2>4. x # None
    BY <1>5, <2>3, TaskFacts, IdleFacts DEF Import, At, WellFormed
  <2>5. QuietRows /\ QuietTasks
    BY <1>0, <1>5 DEF Import, QuietRows, QuietTasks, At
  <2> QED BY <1>5, <2>1, <2>2, <2>3, <2>4, <2>5, NewFileFolder DEF Import
<1>6. ASSUME NEW q \in Procs, ReplaceFails(q) \/ Drop(q)
      PROVE  Folder'
  <2>1. PICK a \in Assets : a = proc[q].aid
    BY <1>6, TaskFacts DEF ReplaceFails, Drop, WellFormed, At
  <2>2. asset[a].path \in Videos => asset[a].path \in torn'
    BY <1>6, <2>1, NameFacts DEF ReplaceFails, Drop, Videos
  <2>3. /\ asset' = [asset EXCEPT ![a] = NoRow] /\ proc' = [proc EXCEPT ![q] = IdleTask]
        /\ torn \subseteq torn' /\ UNCHANGED <<files, lrc, mixed>>
        /\ proc[q].pc # "moved"
    BY <1>6, <2>1 DEF ReplaceFails, Drop, Ends, At
  <2> QED BY <2>1, <2>2, <2>3, RowDroppedFolder
<1>7. ASSUME NEW q \in Procs, Begin(q)
      PROVE  Folder'
  BY <1>7, QuietSteps
<1>8. ASSUME NEW q \in Procs, Pipeline(q)
      PROVE  Folder'
  BY <1>5, <1>6, <1>8, QuietSteps, ImportCommitFolder DEF Pipeline
<1>9. ASSUME NEW q \in Procs, FileStep(q)
      PROVE  Folder'
  BY <1>6, <1>9, QuietSteps, UnlinkFolder, MoveFolder, OrganizeCommitFolder,
     ScanCommitFolder, RowGoneFolder DEF FileStep
<1> QED BY <1>1, <1>2, <1>3, <1>4, <1>7, <1>8, <1>9 DEF Next, External

\* The empty folder is what no rows say.
LEMMA InitFolder == Init => Folder
<1> SUFFICES ASSUME Init
             PROVE  Folder
  OBVIOUS
<1>1. Live = {} /\ Videos = {} /\ \A s \in Stems : lrc[s] = None
  BY IdleFacts DEF Init, Live, Videos
<1> QED BY <1>1 DEF Folder, RowsKnown, OneRowPerFile, SidecarsFollow, StemsMixed, Owned

\* Folder says what FolderMatchesRows says, of the rows no operation has in hand.
LEMMA FolderMatches == Typed /\ Folder => FolderMatchesRows
<1> SUFFICES ASSUME Typed, Folder
             PROVE  FolderMatchesRows
  OBVIOUS
<1>1. RowsHaveFiles
  BY DEF Folder, RowsKnown, RowsHaveFiles, InHand
<1>2. OwnLyrics
  <2> SUFFICES ASSUME NEW a \in Live, asset[a].track # None, asset[a].path \in Videos,
                      Stem(asset[a].path) \notin mixed, ~Tainted(asset[a].path),
                      lrc[Stem(asset[a].path)] # None
               PROVE  lrc[Stem(asset[a].path)] = asset[a].track
    BY DEF OwnLyrics
  <2>1. PICK s \in Stems : s = Stem(asset[a].path)
    BY NameFacts DEF Videos
  <2>2. \A n \in torn : Stem(n) # s
    BY <2>1 DEF Tainted
  <2>3. PICK n \in Videos : Stem(n) = s /\ OfTrack(n, lrc[s])
    BY <2>1, <2>2 DEF Folder, Owned
  <2>4. n = asset[a].path
    BY <2>1, <2>3 DEF Folder, StemsMixed
  <2>5. PICK b \in Live : asset[b].path = n /\ asset[b].track \in {lrc[s], None}
    BY <2>3, <2>4 DEF OfTrack, Tainted
  <2>6. b = a
    BY <2>1, <2>2, <2>4, <2>5, NameFacts DEF Folder, OneRowPerFile, Videos
  <2> QED BY <2>1, <2>5, <2>6
<1> QED BY <1>1, <1>2 DEF Folder, FolderMatchesRows

\* The folder is what the rows say, whatever is under way: a row's file is there
\* or in the hand of an operation, no two rows name one file, a sidecar lies
\* beside a video, and it is of the video's track.
THEOREM FolderHolds == Spec => []FolderMatchesRows
<1>1. Init => Typed /\ Folder
  BY InitTyped, InitFolder
<1>2. Typed /\ Folder /\ [Next]_vars => (Typed /\ Folder)'
  BY NextTyped, NextFolder
<1> QED BY <1>1, <1>2, FolderMatches, PTL DEF Spec

-----------------------------------------------------------------------------
(* Videos *)

\* A video that goes has moved, or its row is being deleted.
KeepsVideos ==
    \A n \in Videos : files'[n] # files[n] /\ n \notin torn'
       => \/ \E m \in Names \ Videos : files'[m] = files[n]
          \/ \E q \in Procs : At(q, "unlink") /\ asset[proc[q].aid].path = n
          \/ \E a \in Live : asset[a].pending /\ asset[a].path = n

\* Every step keeps the videos that no step is to delete.
LEMMA NextVideos == Typed /\ [Next]_vars => [KeepsVideos]_vars
<1> SUFFICES ASSUME Typed, Next
             PROVE  KeepsVideos
  OBVIOUS
<1>0. files \in [Names -> Assets \cup {None, Foreign}] /\ Videos \subseteq Names
  BY DEF Typed, TypeOK, Videos
<1>1. CASE UNCHANGED files
  BY <1>1 DEF KeepsVideos
<1>2. ASSUME NEW name \in Names, PutsFile(name)
      PROVE  KeepsVideos
  BY <1>0, <1>2 DEF PutsFile, KeepsVideos, Videos
<1>3. ASSUME NEW q \in Procs, Import(q)
      PROVE  KeepsVideos
  <2>1. PICK name \in FreeNames(q) : files' = [files EXCEPT ![name] = proc[q].aid]
    BY <1>3 DEF Import
  <2>2. name \notin Videos
    BY <1>3, FreeNameFacts DEF Import
  <2> QED BY <1>0, <2>1, <2>2 DEF KeepsVideos
<1>4. ASSUME NEW q \in Procs, Unlink(q)
      PROVE  KeepsVideos
  <2> SUFFICES ASSUME NEW n \in Videos, files'[n] # files[n], n \notin torn'
               PROVE  At(q, "unlink") /\ asset[proc[q].aid].path = n
    BY DEF KeepsVideos
  <2>1. n = proc[q].was.path /\ n # NoName
    BY <1>0, <1>4 DEF Unlink
  <2>2. asset[proc[q].aid].path = proc[q].was.path
    BY <1>0, <1>4, <2>1 DEF Unlink
  <2> QED BY <1>4, <2>1, <2>2 DEF Unlink
<1>5. ASSUME NEW q \in Procs, Move(q)
      PROVE  KeepsVideos
  <2>1. PICK from \in Names, to \in Names : from = proc[q].was.path /\ to = Rendered(q)
    BY <1>5, RenderedFacts DEF Move
  <2>2. /\ files' = [files EXCEPT ![to] = files[from], ![from] = None]
        /\ to \notin Videos /\ from \in Videos
    BY <1>5, <2>1 DEF Move, Moved
  <2>3. files'[to] = files[from] /\ \A n \in Names : n # to /\ n # from => files'[n] = files[n]
    BY <1>0, <2>1, <2>2
  <2> QED BY <1>0, <2>1, <2>2, <2>3 DEF KeepsVideos
<1>6. CASE Restart
  <2> SUFFICES ASSUME NEW n \in Videos, files'[n] # files[n]
               PROVE  \E a \in Live : asset[a].pending /\ asset[a].path = n
    BY DEF KeepsVideos
  <2> DEFINE undone == {asset[a].path : a \in {b \in Live : asset[b].pending}} \ {NoName}
  <2>1. files' = [m \in Names |-> IF m \in undone THEN None ELSE files[m]]
    BY <1>6 DEF Restart
  <2>2. n \in undone
    BY <1>0, <2>1
  <2> QED BY <2>2
<1>7. ASSUME NEW t \in Tracks, Queue(t)
      PROVE  KeepsVideos
  BY SMTT(60), <1>1, <1>7 DEF Queue
<1>8. ASSUME NEW q \in Procs, Begin(q)
      PROVE  KeepsVideos
  BY ZenonT(60), <1>1, <1>8 DEF Begin, Claim, ReplaceBegin, DeleteBegin, OrganizeBegin, ScanBegin
<1>9. ASSUME NEW q \in Procs, Pipeline(q)
      PROVE  KeepsVideos
  BY ZenonT(60), <1>1, <1>3, <1>9 DEF Pipeline, Mux, ReadLyrics, StoreLyrics, LyricsPoison, Fail,
                          ReplaceFails, ImportCommit, Swap
<1>10. ASSUME NEW q \in Procs, FileStep(q)
       PROVE  KeepsVideos
  BY <1>1, <1>4, <1>5, <1>10 DEF FileStep, Drop, OrganizeRefused, OrganizeCommit, Walk,
                                 ScanCommit, RowGone
<1> QED BY <1>2, <1>6, <1>7, <1>8, <1>9, <1>10 DEF Next, External

\* A video leaves the folder only when the row that names it is deleted, whatever
\* is under way: no import, rename or scan overwrites one.
THEOREM VideosHold == Spec => VideosAreKept
<1>1. [KeepsVideos]_vars =>
         [\A n \in Videos : files'[n] # files[n] /\ n \notin torn'
             => \/ \E m \in Names \ Videos : files'[m] = files[n]
                \/ \E q \in Procs : At(q, "unlink") /\ asset[proc[q].aid].path = n
                \/ \E a \in Live : asset[a].pending /\ asset[a].path = n]_vars
  BY DEF KeepsVideos
<1> HIDE DEF KeepsVideos
<1> QED BY <1>1, InitTyped, NextTyped, NextVideos, PTL DEF Spec, VideosAreKept
=============================================================================
