------------------------ MODULE SearchSelectionProofs -----------------------
(***************************************************************************)
(* What holds of SearchSelection for any number of tracks, rows,           *)
(* candidates, tasks and workers, and at any interleaving of them.         *)
(***************************************************************************)
EXTENDS SearchSelection, TLAPS

\* The assumptions on the constants, as the steps below cite them.
LEMMA Constants ==
    /\ Tracks \subseteq Nat /\ None \notin Tracks
    /\ Assets \subseteq Nat /\ None \notin Assets
    /\ Candidates \subseteq Nat /\ None \notin Candidates
    /\ None \notin Videos /\ None \notin Procs
    /\ None = 0
BY SearchAssumption DEF None

-----------------------------------------------------------------------------
(* Tasks, as they are whatever the other tasks do *)

Opened    == {"discover", "wipe", "score"}
Searching == {"open"} \cup Opened
Replacing == {"create", "fetch", "import", "swap", "cleanup"}
Holding   == Searching \cup Replacing \cup {"select", "compare"}

\* The session's row agrees with the one it has read, in what no search writes.
Agree(p, row) ==
    /\ row.live /\ row.track = p.track
    /\ row.pending = p.was.pending /\ row.file = p.was.file

\* What run_search_for_track has made of the row it found, or begun.
OpenedAs(p) ==
    /\ Agree(p, p.now)
    /\ p.now.state = IF p.was.file = None THEN "SEARCHING" ELSE p.was.state
    /\ p.now.cand = p.was.cand /\ p.now.source = p.was.source
    /\ ~p.now.manual
    /\ p.op \notin {"again", "monitor"} => ~p.was.manual

Shape(p) ==
    /\ p.pc = "idle" => p = IdleTask
    /\ p.pc = "next" => p.aid = None
    /\ p.op = "bulk" => p.todo \subseteq Tracks
    /\ p.op = "monitor" => p.todo \subseteq Assets
    /\ p.pc \in Holding =>
          /\ p.track # None
          /\ p.aid = None => p.pc \in Searching /\ p.was = NoRow /\ p.op # "monitor"
          /\ p.aid # None => p.was.live /\ p.was.track = p.track
          /\ p.now.state \in Served => p.now.file # None
          /\ p.pc \notin Opened => p.now = p.was
    /\ p.pc \in Opened => OpenedAs(p)
    /\ p.pc = "select" => p.op = "select" /\ p.cand # None /\ p.video # None
    /\ p.pc = "compare" => p.op = "monitor" /\ p.cand # None /\ p.video # None
    /\ p.pc \in Replacing => p.was.file # None /\ p.video # None
    /\ p.pc \in {"create", "fetch"} => p.new = None
    /\ p.pc \in {"import", "swap"} => p.new # None

\* A row that counts as served has its file.
ServedHasFile == \A a \in Live : asset[a].state \in Served => asset[a].file # None

\* A stored candidate is a video of a track.
CandidatesAreReal ==
    \A c \in Candidates : cands[c] # NoCandidate
       => cands[c].track \in Tracks /\ cands[c].video \in Videos

Typed ==
    /\ TypeOK
    /\ \A q \in Procs : Shape(proc[q])
    /\ ServedHasFile
    /\ CandidatesAreReal

-----------------------------------------------------------------------------
(* Records *)

LEMMA IdleFacts ==
    /\ NoRow \in Row /\ IdleTask \in Task /\ IdleWorker \in Worker
    /\ NoCandidate \in Candidate
    /\ Shape(IdleTask)
<1>1. NoRow \in Row
  BY DEF NoRow, Row, MediaState, Claimable, Served
<1>2. IdleTask \in Task
  BY <1>1 DEF IdleTask, Task
<1>3. IdleWorker \in Worker
  BY <1>1 DEF IdleWorker, Worker
<1>4. NoCandidate \in Candidate
  BY DEF NoCandidate, Candidate
<1>5. IdleTask.pc = "idle" /\ IdleTask.op = "none"
  BY DEF IdleTask
<1>6. Shape(IdleTask)
  BY <1>5 DEF Shape, Holding, Searching, Opened, Replacing
<1> QED
  BY <1>1, <1>2, <1>3, <1>4, <1>6

\* What an UPDATE of the changed columns leaves in the row: all of the session's
\* row if it is as the session has read it, and none of it if nothing changed.
LEMMA MergedRow ==
    ASSUME NEW row \in Row, NEW p \in Task, NEW now \in Row
    PROVE  /\ Merged(row, p, now) \in Row
           /\ row = p.was => Merged(row, p, now) = now
           /\ ~Changed(p, now) => Merged(row, p, now) = row
           /\ Agree(p, now) /\ Agree(p, p.now) /\ p.was.live /\ p.was.track = p.track =>
                 /\ Merged(row, p, now).live = row.live
                 /\ Merged(row, p, now).track = row.track
                 /\ Merged(row, p, now).pending = row.pending
                 /\ Merged(row, p, now).file = row.file
           /\ Merged(row, p, now).state =
                 IF now.state = p.was.state /\ p.now.state = p.was.state
                 THEN row.state ELSE now.state
           /\ Merged(row, p, now).source =
                 IF now.source = p.was.source /\ p.now.source = p.was.source
                 THEN row.source ELSE now.source
<1> DEFINE m == Merged(row, p, now)
<1> DEFINE old(f) == now[f] = p.was[f] /\ p.now[f] = p.was[f]
<1>0. p.was \in Row /\ p.now \in Row
  BY DEF Task
<1>1. DOMAIN row = {"live", "track", "state", "manual", "cand", "source", "visual",
                    "file", "pending"}
  BY DEF Row
<1>2. m = [f \in DOMAIN row |-> IF old(f) THEN row[f] ELSE now[f]]
  BY DEF Merged
<1>3. m = [live |-> m.live, track |-> m.track, state |-> m.state, manual |-> m.manual,
           cand |-> m.cand, source |-> m.source, visual |-> m.visual, file |-> m.file,
           pending |-> m.pending]
  BY <1>1, <1>2
<1>4. /\ m.live = (IF old("live") THEN row.live ELSE now.live)
      /\ m.track = (IF old("track") THEN row.track ELSE now.track)
      /\ m.state = (IF old("state") THEN row.state ELSE now.state)
      /\ m.manual = (IF old("manual") THEN row.manual ELSE now.manual)
      /\ m.cand = (IF old("cand") THEN row.cand ELSE now.cand)
      /\ m.source = (IF old("source") THEN row.source ELSE now.source)
      /\ m.visual = (IF old("visual") THEN row.visual ELSE now.visual)
      /\ m.file = (IF old("file") THEN row.file ELSE now.file)
      /\ m.pending = (IF old("pending") THEN row.pending ELSE now.pending)
  BY <1>1, <1>2
<1> HIDE DEF m
<1>5. m \in Row
  <2>1. /\ m.live \in BOOLEAN /\ m.track \in Tracks \cup {None} /\ m.state \in MediaState
        /\ m.manual \in BOOLEAN /\ m.cand \in Candidates \cup {None}
        /\ m.source \in Videos \cup {None} /\ m.visual \in BOOLEAN
        /\ m.file \in Videos \cup {None} /\ m.pending \in BOOLEAN
    BY <1>4, <1>0 DEF Row
  <2> QED
    BY <2>1, <1>3 DEF Row
<1>6. ASSUME row = p.was PROVE m = now
  <2>1. now = [live |-> now.live, track |-> now.track, state |-> now.state,
               manual |-> now.manual, cand |-> now.cand, source |-> now.source,
               visual |-> now.visual, file |-> now.file, pending |-> now.pending]
    BY DEF Row
  <2> QED
    BY <1>3, <1>4, <1>6, <2>1
<1>7. ASSUME ~Changed(p, now) PROVE m = row
  <2>1. row = [live |-> row.live, track |-> row.track, state |-> row.state,
               manual |-> row.manual, cand |-> row.cand, source |-> row.source,
               visual |-> row.visual, file |-> row.file, pending |-> row.pending]
    BY DEF Row
  <2>2. now = p.was /\ p.now = p.was
    BY <1>7 DEF Changed
  <2> QED
    BY <1>3, <1>4, <2>1, <2>2
<1>8. ASSUME Agree(p, now), Agree(p, p.now), p.was.live, p.was.track = p.track
      PROVE  /\ m.live = row.live /\ m.track = row.track
             /\ m.pending = row.pending /\ m.file = row.file
  BY ZenonT(60), <1>4, <1>8, <1>0 DEF Agree, Row
<1> QED
  BY <1>4, <1>5, <1>6, <1>7, <1>8 DEF m

-----------------------------------------------------------------------------
(* What a session that stores its row does to the rows *)

\* The row it has read.
Updated(q, now, b) ==
    /\ b \in Assets /\ proc[q].aid = b
    /\ \A a \in Assets \ {b} : asset'[a] = asset[a]
    /\ asset'[b] \in Row
    /\ asset'[b].live = asset[b].live /\ asset'[b].track = asset[b].track
    /\ asset'[b].pending = asset[b].pending /\ asset'[b].file = asset[b].file
    /\ \/ asset'[b].state = asset[b].state
       \/ asset'[b].state = now.state /\ now.state # proc[q].was.state
       \/ asset'[b].state = now.state /\ proc[q].now.state # proc[q].was.state
    /\ now.state # proc[q].was.state => asset'[b].state = now.state
    /\ asset[b] = proc[q].was => asset'[b] = now
    /\ ~Changed(proc[q], now) => asset'[b] = asset[b]
    /\ Changed(proc[q], now) => b \in Live

\* A new row, with an id above all others.
Inserted(q, now, b) ==
    /\ b \in Assets /\ proc[q].aid = None
    /\ \A u \in Live : u < b
    /\ b \notin Live
    /\ \A a \in Assets \ {b} : asset'[a] = asset[a]
    /\ asset'[b] = now

LEMMA StoredRows ==
    ASSUME TypeOK, NEW q \in Procs, NEW now \in Row, Shape(proc[q]),
           proc[q].pc \in Holding, Agree(proc[q], now), Agree(proc[q], proc[q].now),
           asset' \in Stored(q, now), CanStore(q, now)
    PROVE  /\ asset' \in [Assets -> Row]
           /\ \E b \in Assets :
                 /\ Updated(q, now, b) \/ Inserted(q, now, b)
                 /\ StoredId(q) = {b}
<1> DEFINE p == proc[q]
<1>0. /\ asset \in [Assets -> Row] /\ p \in Task
      /\ p.aid \in Assets \cup {None} /\ now.live
  BY DEF TypeOK, Task, Agree
<1>1. CASE p.aid # None
  <2> DEFINE b == p.aid
             m == Merged(asset[b], p, now)
  <2>1. b \in Assets /\ asset[b] \in Row
    BY <1>0, <1>1
  <2>2. asset' = [asset EXCEPT ![b] = m]
    BY <1>1 DEF Stored
  <2>3. p.was.live /\ p.was.track = p.track
    BY <1>1 DEF Shape
  <2>4. /\ m \in Row
        /\ asset[b] = p.was => m = now
        /\ ~Changed(p, now) => m = asset[b]
        /\ m.live = asset[b].live /\ m.track = asset[b].track
        /\ m.pending = asset[b].pending /\ m.file = asset[b].file
        /\ m.state = IF now.state = p.was.state /\ p.now.state = p.was.state
                     THEN asset[b].state ELSE now.state
    BY <1>0, <2>1, <2>3, MergedRow
  <2> HIDE DEF m
  <2>5. asset'[b] = m /\ \A a \in Assets \ {b} : asset'[a] = asset[a]
    BY <1>0, <2>1, <2>2
  <2>6. Changed(p, now) => b \in Live
    BY <1>1 DEF CanStore
  <2>a. /\ \/ m.state = asset[b].state
           \/ m.state = now.state /\ now.state # p.was.state
           \/ m.state = now.state /\ p.now.state # p.was.state
        /\ now.state # p.was.state => m.state = now.state
    BY <2>4
  <2>7. Updated(q, now, b)
    <3> SUFFICES /\ b \in Assets /\ p.aid = b
                 /\ \A a \in Assets \ {b} : asset'[a] = asset[a]
                 /\ m \in Row
                 /\ m.live = asset[b].live /\ m.track = asset[b].track
                 /\ m.pending = asset[b].pending /\ m.file = asset[b].file
                 /\ \/ m.state = asset[b].state
                    \/ m.state = now.state /\ now.state # p.was.state
                    \/ m.state = now.state /\ p.now.state # p.was.state
                 /\ now.state # p.was.state => m.state = now.state
                 /\ asset[b] = p.was => m = now
                 /\ ~Changed(p, now) => m = asset[b]
                 /\ Changed(p, now) => b \in Live
      BY <2>5 DEF Updated
    <3> QED
      BY <2>1, <2>4, <2>5, <2>6, <2>a
  <2>8. asset' \in [Assets -> Row]
    BY <1>0, <2>1, <2>2, <2>4
  <2>9. StoredId(q) = {b}
    BY <1>1 DEF StoredId
  <2> QED
    BY <2>1, <2>7, <2>8, <2>9
<1>2. CASE p.aid = None
  <2>1. PICK b \in NextIds(Live, Assets, 1) : asset' = [asset EXCEPT ![b] = now]
    BY <1>2 DEF Stored
  <2>2. b \in Assets /\ \A u \in Live : u < b
    BY <2>1 DEF NextIds
  <2>3. b \notin Live
    BY <2>2, Constants
  <2>4. asset'[b] = now /\ \A a \in Assets \ {b} : asset'[a] = asset[a]
    BY <1>0, <2>1, <2>2
  <2>5. Inserted(q, now, b)
    BY <1>2, <2>2, <2>3, <2>4 DEF Inserted
  <2>6. asset' \in [Assets -> Row]
    BY <1>0, <2>1, <2>2
  <2>7. StoredId(q) = {b}
    BY <1>0, <1>2, <2>2, <2>3, <2>4 DEF StoredId, Live
  <2> QED
    BY <2>2, <2>5, <2>6, <2>7
<1> QED
  BY <1>1, <1>2

-----------------------------------------------------------------------------
(* The tasks' records, step by step *)

\* One task moves.
LEMMA TaskMoves ==
    ASSUME Typed, NEW q \in Procs, NEW r \in Task, Shape(r),
           proc' = [proc EXCEPT ![q] = r]
    PROVE  /\ proc' \in [Procs -> Task]
           /\ (\A p \in Procs : Shape(proc[p]))'
           /\ proc'[q] = r
           /\ \A p \in Procs \ {q} : proc'[p] = proc[p]
<1>1. proc \in [Procs -> Task]
  BY DEF Typed, TypeOK
<1>2. proc' \in [Procs -> Task]
  BY <1>1
<1>3. proc'[q] = r /\ \A p \in Procs \ {q} : proc'[p] = proc[p]
  BY <1>1
<1>4. \A p \in Procs : Shape(proc'[p])
  BY <1>3 DEF Typed
<1> QED
  BY <1>2, <1>3, <1>4

\* The monitor's list is the tick's, and grows shorter.
Lessens(q, r) == r.op = "monitor" => proc[q].op = "monitor" /\ r.todo \subseteq proc[q].todo

\* A task that ends, or goes on with what it has left to do.
LEMMA EndedTask ==
    ASSUME Typed, NEW q \in Procs
    PROVE  /\ Ended(q) \in Task /\ Shape(Ended(q))
           /\ Ended(q).pc \in {"idle", "next"}
           /\ Ended(q).gone = {} /\ Ended(q).aid = None
           /\ Lessens(q, Ended(q)) /\ Lessens(q, IdleTask)
<1> DEFINE p == proc[q]
<1>1. p \in Task /\ Shape(p)
  BY DEF Typed, TypeOK
<1>4. Lessens(q, IdleTask)
  BY DEF Lessens, IdleTask
<1>2. CASE p.op \in {"bulk", "monitor"} /\ p.todo # {}
  <2> DEFINE r == [IdleTask EXCEPT !.pc = "next", !.op = p.op, !.todo = p.todo]
  <2>1. Ended(q) = r
    BY <1>2 DEF Ended
  <2>2. /\ r.pc = "next" /\ r.op = p.op /\ r.todo = p.todo /\ r.gone = {} /\ r.aid = None
    BY DEF IdleTask
  <2>0. p.op \in AllOps /\ p.todo \in SUBSET (Tracks \cup Assets)
    BY <1>1, <1>2 DEF Task, AllOps
  <2>3. r \in Task
    BY ZenonT(60), <2>0, IdleFacts DEF Task
  <2> HIDE DEF r
  <2>4. Shape(r)
    BY <1>1, <2>2 DEF Shape, Holding, Searching, Opened, Replacing
  <2>5. Lessens(q, r)
    BY <2>2 DEF Lessens
  <2> QED
    BY <1>4, <2>1, <2>2, <2>3, <2>4, <2>5
<1>3. CASE ~(p.op \in {"bulk", "monitor"} /\ p.todo # {})
  BY <1>3, <1>4, IdleFacts DEF Ended, IdleTask
<1> QED
  BY <1>2, <1>3

\* One that ends without a commit.
LEMMA EndTask ==
    ASSUME Typed, NEW q \in Procs, End(q)
    PROVE  \E r \in Task :
              /\ proc' = [proc EXCEPT ![q] = r]
              /\ Shape(r) /\ r.pc \in {"idle", "next"} /\ r.aid = None /\ Lessens(q, r)
              /\ r.gone # {} => r.gone = proc[q].gone /\ r.pc = "next"
              /\ lock' = IF lock = q /\ r.gone = {} THEN None ELSE lock
<1> DEFINE p == proc[q]
           gone == IF p.op = "bulk" /\ p.todo # {} THEN p.gone ELSE {}
           r == [Ended(q) EXCEPT !.gone = gone]
<1>1. p \in Task /\ Shape(p)
  BY DEF Typed, TypeOK
<1>2. /\ Ended(q) \in Task /\ Shape(Ended(q)) /\ Ended(q).pc \in {"idle", "next"}
      /\ Ended(q).gone = {} /\ Ended(q).aid = None /\ Lessens(q, Ended(q))
  BY EndedTask
<1>3. gone \subseteq Candidates
  BY <1>1 DEF Task
<1>4. r \in Task /\ r.gone = gone /\ r.pc = Ended(q).pc /\ r.aid = None
      /\ r.op = Ended(q).op /\ r.todo = Ended(q).todo
  BY <1>2, <1>3 DEF Task
<1>5. gone # {} => r.pc = "next"
  BY <1>4 DEF Ended, IdleTask
<1>6. gone = {} => r = Ended(q)
  BY <1>2 DEF Task
<1>7. proc' = [proc EXCEPT ![q] = r] /\ lock' = IF lock = q /\ gone = {} THEN None ELSE lock
  BY DEF End
<1> HIDE DEF r, gone
<1>8. Shape(r)
  <2>1. CASE gone = {}
    BY <1>2, <1>6, <2>1
  <2>2. CASE gone # {}
    BY <1>2, <1>4, <1>5, <2>2 DEF Shape, Holding, Searching, Opened, Replacing
  <2> QED
    BY <2>1, <2>2
<1>9. r.gone # {} => r.gone = proc[q].gone /\ r.pc = "next"
  BY <1>4, <1>5 DEF gone
<1>10. Lessens(q, r)
  BY <1>2, <1>4 DEF Lessens
<1> QED
  BY <1>2, <1>4, <1>7, <1>8, <1>9, <1>10

Turns(q, r) == proc' = [proc EXCEPT ![q] = r]

\* A search that begins.
Looked(q, r) ==
    /\ Turns(q, r) /\ Shape(r) /\ r.pc = "open" /\ r.gone = proc[q].gone
    /\ r.track \in Tracks /\ r.now = r.was
    /\ \/ RowsOf(r.track) = {} /\ r.aid = None /\ r.was = NoRow
       \/ r.aid \in AssetOf(r.track) /\ r.was = asset[r.aid]

\* One that begins a search: with the track's first row, or with none.
LEMMA LookTask ==
    ASSUME Typed, NEW q \in Procs, NEW t \in Tracks, NEW op \in AllOps,
           NEW todo \in SUBSET (Tracks \cup Assets), NEW prev \in Videos \cup {None},
           op = "bulk" => todo \subseteq Tracks,
           op = "monitor" => todo \subseteq Assets /\ RowsOf(t) # {},
           Look(q, t, op, todo, prev)
    PROVE  \E r \in Task : Looked(q, r) /\ r.op = op /\ r.track = t /\ r.todo = todo
<1>1. PICK a \in IF RowsOf(t) = {} THEN {None} ELSE AssetOf(t) :
         LET row == IF a = None THEN NoRow ELSE asset[a]
         IN  proc' = [proc EXCEPT ![q] = [IdleTask EXCEPT
                         !.pc = "open", !.op = op, !.track = t, !.aid = a, !.was = row,
                         !.now = row, !.gone = proc[q].gone, !.todo = todo,
                         !.prev = prev]]
  BY DEF Look
<1> DEFINE row == IF a = None THEN NoRow ELSE asset[a]
           r == [IdleTask EXCEPT
                    !.pc = "open", !.op = op, !.track = t, !.aid = a, !.was = row,
                    !.now = row, !.gone = proc[q].gone, !.todo = todo, !.prev = prev]
<1>2. proc[q] \in Task /\ asset \in [Assets -> Row]
  BY DEF Typed, TypeOK
<1>3. \/ RowsOf(t) = {} /\ a = None /\ row = NoRow
      \/ a \in AssetOf(t) /\ a \in Live /\ a # None /\ row = asset[a] /\ asset[a].live
         /\ asset[a].track = t
  BY <1>1, Constants DEF AssetOf, RowsOf, Live
<1>4. a \in Assets \cup {None} /\ row \in Row
  BY <1>2, <1>3, IdleFacts DEF Live
<1> HIDE DEF row
<1>a. proc[q].gone \in SUBSET Candidates
  BY <1>2 DEF Task
<1>5. r \in Task
  BY ZenonT(60), <1>a, <1>4, IdleFacts DEF Task
<1>6. /\ r.pc = "open" /\ r.op = op /\ r.track = t /\ r.aid = a /\ r.was = row
      /\ r.now = row /\ r.gone = proc[q].gone /\ r.todo = todo
  BY DEF IdleTask
<1>7. proc' = [proc EXCEPT ![q] = r]
  BY <1>1 DEF row
<1> HIDE DEF r
<1>8. row.state \in Served => row.file # None
  BY <1>3 DEF Typed, ServedHasFile, NoRow, Served
<1>9. t # None
  BY Constants
<1>10. Shape(r)
  BY <1>3, <1>6, <1>8, <1>9 DEF Shape, Holding, Searching, Opened, Replacing
<1>11. Looked(q, r)
  BY <1>3, <1>5, <1>6, <1>7, <1>10 DEF Looked, Turns
<1> QED
  BY <1>5, <1>6, <1>11

\* One that replaces the track's first row.
LEMMA RetireTask ==
    ASSUME Typed, NEW q \in Procs, NEW t \in Tracks, NEW c \in Candidates,
           NEW video \in Videos, NEW op \in AllOps, NEW todo \in SUBSET (Tracks \cup Assets),
           op # "bulk", op = "monitor" => todo \subseteq Assets,
           proc[q].aid # None => proc[q].pc \in Holding /\ proc[q].now = proc[q].was
                                 /\ proc[q].track = t,
           Retire(q, t, c, video, op, todo)
    PROVE  \E r \in Task :
              /\ proc' = [proc EXCEPT ![q] = r]
              /\ Shape(r) /\ r.pc = "create" /\ r.op = op /\ r.track = t
              /\ r.gone = {} /\ r.now = r.was /\ r.todo = todo
              /\ r.aid \in AssetOf(t) /\ r.was = Seen(q, r.aid) /\ r.was.state \in Served
<1>1. PICK a \in Replaceable(q, t) :
         proc' = [proc EXCEPT ![q] = [IdleTask EXCEPT
                     !.pc = "create", !.op = op, !.track = t, !.aid = a,
                     !.was = Seen(q, a), !.now = Seen(q, a), !.cand = c,
                     !.video = video, !.todo = todo]]
  BY DEF Retire
<1> DEFINE row == Seen(q, a)
           r == [IdleTask EXCEPT
                     !.pc = "create", !.op = op, !.track = t, !.aid = a,
                     !.was = row, !.now = row, !.cand = c, !.video = video, !.todo = todo]
<1>2. proc[q] \in Task /\ Shape(proc[q]) /\ asset \in [Assets -> Row]
  BY DEF Typed, TypeOK
<1>3. a \in AssetOf(t) /\ a \in Assets /\ a # None /\ asset[a].live /\ asset[a].track = t
      /\ row.state \in Served
  BY <1>1, Constants DEF Replaceable, AssetOf, RowsOf, Live
<1>4. row \in Row /\ row.live /\ row.track = t /\ row.file # None
  <2>1. CASE a = proc[q].aid
    <3>1. row = proc[q].now /\ proc[q].now = proc[q].was /\ proc[q].track = t
          /\ proc[q].pc \in Holding /\ proc[q].aid # None
      BY <2>1, <1>3 DEF Seen
    <3> QED
      BY <1>2, <1>3, <3>1 DEF Shape, Task
  <2>2. CASE a # proc[q].aid
    BY <2>2, <1>2, <1>3 DEF Seen, Typed, ServedHasFile, Live
  <2> QED
    BY <2>1, <2>2
<1> HIDE DEF row
<1>5. r \in Task
  BY ZenonT(60), <1>2, <1>3, <1>4, IdleFacts DEF Task
<1>6. /\ r.pc = "create" /\ r.op = op /\ r.track = t /\ r.aid = a /\ r.was = row
      /\ r.now = row /\ r.gone = {} /\ r.todo = todo /\ r.video = video /\ r.new = None
  BY DEF IdleTask
<1>7. proc' = [proc EXCEPT ![q] = r]
  BY <1>1 DEF row
<1> HIDE DEF r
<1>8. t # None /\ video # None
  BY Constants
<1>9. Shape(r)
  BY <1>3, <1>4, <1>6, <1>8 DEF Shape, Holding, Searching, Opened, Replacing
<1> QED
  BY <1>3, <1>5, <1>6, <1>7, <1>9 DEF row

-----------------------------------------------------------------------------
(* What is stored *)

\* The row a search or a selection stores counts as served only where it did so
\* before, and has its file then.
Leaves(p, now) ==
    /\ now.state \in Served => now.file # None
    /\ now.state \in Served => now.state = p.was.state /\ p.now.state = p.was.state

LEMMA StoredTyped ==
    ASSUME Typed, NEW q \in Procs, NEW now \in Row, proc[q].pc \in Holding,
           Agree(proc[q], now), Agree(proc[q], proc[q].now), Leaves(proc[q], now),
           asset' \in Stored(q, now), CanStore(q, now), Note(q, now)
    PROVE  /\ asset' \in [Assets -> Row] /\ crossed' \subseteq Tracks
           /\ ServedHasFile'
           /\ \E b \in Assets :
                 /\ Updated(q, now, b) \/ Inserted(q, now, b)
                 /\ StoredId(q) = {b}
<1>1. TypeOK /\ Shape(proc[q]) /\ proc[q] \in Task
  BY DEF Typed, TypeOK
<1>2. /\ asset' \in [Assets -> Row]
      /\ \E b \in Assets : /\ Updated(q, now, b) \/ Inserted(q, now, b)
                           /\ StoredId(q) = {b}
  BY <1>1, StoredRows
<1>3. PICK b \in Assets : Updated(q, now, b) \/ Inserted(q, now, b)
  BY <1>2
<1>4. proc[q].track \in Tracks
  BY <1>1 DEF Shape, Task
<1>5. crossed' \subseteq Tracks
  BY <1>1, <1>4 DEF Note, TypeOK
<1>6. ASSUME NEW a \in Assets, asset'[a].live, asset'[a].state \in Served
      PROVE  asset'[a].file # None
  <2>1. CASE a # b
    <3>1. asset'[a] = asset[a]
      BY <2>1, <1>3 DEF Updated, Inserted
    <3> QED
      BY <1>6, <3>1 DEF Typed, ServedHasFile, Live
  <2>2. CASE a = b /\ Updated(q, now, b)
    <3>1. asset'[b].state = asset[b].state
      BY <1>6, <2>2 DEF Updated, Leaves
    <3>2. asset[b].live /\ asset'[b].file = asset[b].file
      BY <1>6, <2>2 DEF Updated
    <3> QED
      BY <1>6, <2>2, <3>1, <3>2 DEF Typed, ServedHasFile, Live
  <2>3. CASE a = b /\ Inserted(q, now, b)
    BY <1>6, <2>3 DEF Inserted, Leaves
  <2> QED
    BY <1>3, <2>1, <2>2, <2>3
<1>7. ServedHasFile'
  BY <1>6 DEF ServedHasFile, Live
<1> QED
  BY <1>2, <1>5, <1>7

\* The candidates with those deleted that the session has deleted.
Kept(q, after) ==
    after = [c \in Candidates |-> IF c \in proc[q].gone THEN NoCandidate ELSE cands[c]]

LEMMA KeptCandidates ==
    ASSUME Typed, NEW q \in Procs, NEW after, Kept(q, after)
    PROVE  /\ after \in [Candidates -> Candidate]
           /\ \A c \in Candidates : after[c] # NoCandidate
                 => after[c].track \in Tracks /\ after[c].video \in Videos
           /\ \A c \in Candidates : c \notin proc[q].gone => after[c] = cands[c]
<1>1. cands \in [Candidates -> Candidate] /\ NoCandidate \in Candidate
  BY IdleFacts DEF Typed, TypeOK
<1>2. \A c \in Candidates : after[c] = IF c \in proc[q].gone THEN NoCandidate ELSE cands[c]
  BY DEF Kept
<1>3. after \in [Candidates -> Candidate]
  BY <1>1 DEF Kept
<1> QED
  BY <1>2, <1>3 DEF Typed, CandidatesAreReal

\* A search's candidates get ids that no remaining candidate has.
LEMMA NewCandidates ==
    ASSUME Typed, NEW q \in Procs, proc[q].pc \in Holding,
           NEW videos \in SUBSET Videos, NEW after \in WithCandidates(q, videos)
    PROVE  /\ after \in [Candidates -> Candidate]
           /\ \A c \in Candidates : after[c] # NoCandidate
                 => after[c].track \in Tracks /\ after[c].video \in Videos
           /\ \A c \in Candidates : c \notin proc[q].gone /\ cands[c] # NoCandidate
                 => after[c] = cands[c]
<1> DEFINE p == proc[q]
           kept == [c \in Candidates |-> IF c \in p.gone THEN NoCandidate ELSE cands[c]]
           used == {c \in Candidates : kept[c] # NoCandidate}
           ids == NextIds(used, Candidates, Cardinality(videos))
<1>1. PICK order \in {f \in [ids -> videos] : {f[c] : c \in ids} = videos} :
         after = [c \in Candidates |-> IF c \in ids THEN [track |-> p.track, video |-> order[c]]
                                                   ELSE kept[c]]
  BY DEF WithCandidates
<1>2. ids \subseteq Candidates /\ \A c \in ids : \A u \in used : u < c
  BY DEF NextIds
<1>3. ids \cap used = {}
  <2> SUFFICES ASSUME NEW c \in ids, c \in used PROVE FALSE
    OBVIOUS
  <2>1. c < c /\ c \in Nat
    BY <1>2, Constants
  <2> QED
    BY <2>1
<1> HIDE DEF ids
<1>4. Kept(q, kept)
  BY DEF Kept
<1>5. /\ kept \in [Candidates -> Candidate]
      /\ \A c \in Candidates : kept[c] # NoCandidate
            => kept[c].track \in Tracks /\ kept[c].video \in Videos
      /\ \A c \in Candidates : c \notin p.gone => kept[c] = cands[c]
  BY <1>4, KeptCandidates
<1> HIDE DEF kept
<1>6. p.track \in Tracks
  BY DEF Typed, TypeOK, Shape, Task
<1>7. \A c \in ids : order[c] \in Videos
  BY <1>1
<1>8. \A c \in Candidates :
         /\ c \in ids => after[c] = [track |-> p.track, video |-> order[c]]
         /\ c \notin ids => after[c] = kept[c]
  BY <1>1
<1>9. \A c \in ids : [track |-> p.track, video |-> order[c]] \in Candidate
  BY <1>6, <1>7 DEF Candidate
<1>10. after \in [Candidates -> Candidate]
  BY <1>1, <1>2, <1>5, <1>9
<1>11. ASSUME NEW c \in Candidates, after[c] # NoCandidate
       PROVE  after[c].track \in Tracks /\ after[c].video \in Videos
  <2>1. CASE c \in ids
    <3>1. after[c] = [track |-> p.track, video |-> order[c]] /\ order[c] \in Videos
      BY <2>1, <1>7, <1>8
    <3> QED
      BY <3>1, <1>6
  <2>2. CASE c \notin ids
    BY <2>2, <1>5, <1>8, <1>11
  <2> QED
    BY <2>1, <2>2
<1>12. ASSUME NEW c \in Candidates, c \notin p.gone, cands[c] # NoCandidate
       PROVE  after[c] = cands[c]
  <2>1. kept[c] = cands[c] /\ c \in used
    BY <1>5, <1>12
  <2> QED
    BY <2>1, <1>3, <1>8
<1> QED
  BY <1>10, <1>11, <1>12

-----------------------------------------------------------------------------
(* Steps of one task: its record afterwards, and types *)

LEMMA TypedStep ==
    ASSUME Typed, NEW q \in Procs, NEW r \in Task, Shape(r), Turns(q, r),
           asset' \in [Assets -> Row], ServedHasFile',
           cands' \in [Candidates -> Candidate], CandidatesAreReal',
           lock' \in {lock, q, None}, worker' \in [Workers -> Worker],
           stranded' \subseteq Assets, crossed' \subseteq Tracks,
           asked' \in 0 .. MaxAsked, crashes' \in 0 .. MaxCrashes
    PROVE  Typed'
<1>1. /\ proc' \in [Procs -> Task] /\ (\A p \in Procs : Shape(proc[p]))'
  BY TaskMoves DEF Turns
<1>2. lock' \in Procs \cup {None}
  BY DEF Typed, TypeOK
<1> QED
  BY <1>1, <1>2 DEF Typed, TypeOK

\* Most steps only move a task.
LEMMA QuietStep ==
    ASSUME Typed, NEW q \in Procs, NEW r \in Task, Shape(r), Turns(q, r),
           UNCHANGED <<db, worker>>, lock' \in {lock, q, None},
           UNCHANGED history \/ (UNCHANGED <<crossed, crashes>> /\ stranded' \subseteq Assets),
           UNCHANGED asked \/ Counted
    PROVE  Typed'
<1>1. asset' = asset /\ cands' = cands /\ worker' = worker /\ crossed' = crossed
      /\ crashes' = crashes
  BY DEF db, history
<1>2. stranded' \subseteq Assets
  BY DEF Typed, TypeOK, history
<1>3. asked' \in 0 .. MaxAsked
  <2>1. asked \in 0 .. MaxAsked /\ MaxAsked \in Nat
    BY SearchAssumption DEF Typed, TypeOK
  <2>2. asked' = asked \/ (asked < MaxAsked /\ asked' = asked + 1)
    BY DEF Counted
  <2> QED
    BY <2>1, <2>2
<1>4. ServedHasFile' /\ CandidatesAreReal'
  BY <1>1 DEF Typed, ServedHasFile, CandidatesAreReal, Live
<1>5. /\ asset \in [Assets -> Row] /\ cands \in [Candidates -> Candidate]
      /\ worker \in [Workers -> Worker] /\ crossed \subseteq Tracks
      /\ crashes \in 0 .. MaxCrashes
  BY DEF Typed, TypeOK
<1> QED
  BY <1>1, <1>2, <1>3, <1>4, <1>5, TypedStep

\* Begin, BulkNext and MonitorNext look a track up.
LEMMA LookTyped ==
    ASSUME Typed, NEW q \in Procs, NEW t \in Tracks, NEW op \in AllOps,
           NEW todo \in SUBSET (Tracks \cup Assets), NEW prev \in Videos \cup {None},
           op = "bulk" => todo \subseteq Tracks,
           op = "monitor" => todo \subseteq Assets /\ RowsOf(t) # {},
           Look(q, t, op, todo, prev),
           UNCHANGED <<db, lock, worker, history>>, UNCHANGED asked \/ Counted
    PROVE  Typed'
<1>1. PICK r \in Task : Turns(q, r) /\ Shape(r)
  BY LookTask DEF Looked
<1> QED
  BY <1>1, QuietStep

LEMMA EndTyped ==
    ASSUME Typed, NEW q \in Procs, End(q), UNCHANGED <<db, worker, history, asked>>
    PROVE  Typed'
<1>1. PICK r \in Task : /\ Turns(q, r) /\ Shape(r)
                        /\ lock' = IF lock = q /\ r.gone = {} THEN None ELSE lock
  BY EndTask DEF Turns
<1> QED
  BY <1>1, QuietStep

LEMMA OpenTask ==
    ASSUME Typed, NEW q \in Procs, Open(q)
    PROVE  /\ \E r \in Task :
                 /\ Turns(q, r) /\ Shape(r) /\ r.pc = "discover"
                 /\ r.op = proc[q].op /\ r.track = proc[q].track /\ r.aid = proc[q].aid
                 /\ r.was = proc[q].was /\ r.gone = proc[q].gone /\ r.todo = proc[q].todo
                 /\ lock' = lock \/ (lock' = q /\ CanWrite(q))
           /\ Typed'
<1> DEFINE p == proc[q]
           now == OpenedRow(q)
           r == [p EXCEPT !.pc = "discover", !.now = now]
<1>1. p \in Task /\ Shape(p) /\ p.pc = "open"
  BY DEF Typed, TypeOK, Open, At
<1>2. p.was \in Row /\ p.track \in Tracks
  BY <1>1 DEF Task, Shape, Holding, Searching
<1>3. /\ now \in Row
      /\ now.live /\ now.track = p.track /\ now.pending = p.was.pending
      /\ now.file = p.was.file /\ now.cand = p.was.cand /\ now.source = p.was.source
      /\ now.state = IF p.was.file = None THEN "SEARCHING" ELSE p.was.state
      /\ now.manual = IF Reopens(q) THEN FALSE ELSE p.was.manual
  BY ZenonT(60), <1>2 DEF OpenedRow, Row, MediaState
<1>4. Turns(q, r) /\ (lock' = lock \/ (lock' = q /\ CanWrite(q)))
      /\ (p.was.manual => Reopens(q))
  BY DEF Turns, Open
<1> HIDE DEF now
<1>5. /\ r \in Task /\ r.pc = "discover" /\ r.now = now
      /\ r.op = p.op /\ r.track = p.track /\ r.aid = p.aid /\ r.was = p.was
      /\ r.gone = p.gone /\ r.todo = p.todo
  BY ZenonT(60), <1>1, <1>3 DEF Task
<1> HIDE DEF r
<1>6. OpenedAs(r)
  <2>1. p.was.manual \in BOOLEAN /\ p.op \notin {"again", "monitor"} => ~Reopens(q)
    BY <1>2 DEF Reopens, Row
  <2>2. ~r.now.manual /\ (r.op \notin {"again", "monitor"} => ~r.was.manual)
    BY <1>3, <1>4, <1>5, <2>1
  <2>3. Agree(r, r.now)
    BY <1>3, <1>5 DEF Agree
  <2> QED
    BY <1>3, <1>5, <2>2, <2>3 DEF OpenedAs
<1>7. r.now.state \in Served => r.now.file # None
  BY <1>1, <1>3, <1>5 DEF Shape, Holding, Searching, Opened, Served
<1>8. Shape(r)
  BY <1>1, <1>5, <1>6, <1>7 DEF Shape, Holding, Searching, Opened, Replacing
<1>9. UNCHANGED <<db, worker, history, asked>> /\ lock' \in {lock, q, None}
  BY <1>4 DEF Open
<1>10. Typed'
  BY <1>4, <1>5, <1>8, <1>9, QuietStep
<1> QED
  BY <1>4, <1>5, <1>8, <1>10

\* The commit of the quota's counter.
LEMMA QuotaTyped ==
    ASSUME Typed, NEW q \in Procs, At(q, "discover"), CommitQuota(q)
    PROVE  /\ asset' \in [Assets -> Row] /\ ServedHasFile'
           /\ cands' \in [Candidates -> Candidate] /\ CandidatesAreReal'
           /\ crossed' \subseteq Tracks /\ lock' \in {lock, q, None}
           /\ proc[q].now \in Row /\ Agree(proc[q], proc[q].now)
           /\ Kept(q, cands')
           /\ \E b \in Assets :
                 /\ Updated(q, proc[q].now, b) \/ Inserted(q, proc[q].now, b)
                 /\ StoredId(q) = {b}
<1> DEFINE p == proc[q]
<1>1. p \in Task /\ Shape(p) /\ p.pc = "discover" /\ p.pc \in Holding /\ p.now \in Row
  BY DEF Typed, TypeOK, At, Task, Holding, Searching, Opened
<1>2. OpenedAs(p) /\ Agree(p, p.now) /\ Leaves(p, p.now)
  BY <1>1 DEF Shape, Opened, OpenedAs, Agree, Leaves, Served
<1>3. /\ CanStore(q, p.now) /\ asset' \in Stored(q, p.now) /\ Note(q, p.now)
      /\ lock' = None /\ Kept(q, cands')
  BY DEF CommitQuota, Kept
<1>4. /\ asset' \in [Assets -> Row] /\ ServedHasFile' /\ crossed' \subseteq Tracks
      /\ \E b \in Assets : /\ Updated(q, p.now, b) \/ Inserted(q, p.now, b)
                           /\ StoredId(q) = {b}
  BY <1>1, <1>2, <1>3, StoredTyped
<1>5. cands' \in [Candidates -> Candidate] /\ CandidatesAreReal'
  BY <1>3, KeptCandidates DEF CandidatesAreReal
<1> QED
  BY <1>1, <1>2, <1>3, <1>4, <1>5

LEMMA DiscoverTask ==
    ASSUME Typed, NEW q \in Procs, Discover(q)
    PROVE  /\ \E r \in Task :
                 /\ Turns(q, r) /\ Shape(r) /\ r.pc = "wipe"
                 /\ r.op = proc[q].op /\ r.track = proc[q].track /\ r.now = proc[q].now
                 /\ r.todo = proc[q].todo
                 /\ ApiKey => /\ r.was = proc[q].now /\ r.gone = {}
                              /\ Updated(q, r.now, r.aid) \/ Inserted(q, r.now, r.aid)
                 /\ ~ApiKey => /\ r.was = proc[q].was /\ r.gone = proc[q].gone
                               /\ r.aid = proc[q].aid /\ UNCHANGED <<db, lock, crossed>>
           /\ Typed'
<1> DEFINE p == proc[q]
<1>1. p \in Task /\ Shape(p) /\ p.pc = "discover" /\ p.now \in Row /\ OpenedAs(p)
      /\ p.was \in Row
  BY ZenonT(60) DEF Typed, TypeOK, At, Discover, Shape, Opened, Task
<1>2. UNCHANGED <<worker, stranded, crashes, asked>>
  BY DEF Discover
<1>3. /\ worker' \in [Workers -> Worker] /\ stranded' \subseteq Assets
      /\ asked' \in 0 .. MaxAsked /\ crashes' \in 0 .. MaxCrashes
  BY <1>2 DEF Typed, TypeOK
<1>4. CASE ApiKey
  <2>1. CommitQuota(q) /\ At(q, "discover")
    BY <1>4 DEF Discover
  <2>2. PICK b \in Assets :
           /\ Updated(q, p.now, b) \/ Inserted(q, p.now, b)
           /\ StoredId(q) = {b}
    BY <2>1, QuotaTyped
  <2> DEFINE r == [p EXCEPT !.pc = "wipe", !.aid = b, !.gone = {}, !.was = p.now]
  <2>3. Turns(q, r)
    BY <1>4, <2>2 DEF Discover, Turns
  <2>4. /\ r \in Task /\ r.pc = "wipe" /\ r.op = p.op /\ r.track = p.track /\ r.aid = b
        /\ r.was = p.now /\ r.now = p.now /\ r.gone = {} /\ r.todo = p.todo
    BY ZenonT(60), <1>1 DEF Task
  <2> HIDE DEF r
  <2>5. OpenedAs(r)
    BY <1>1, <2>4 DEF OpenedAs, Agree
  <2>6. Shape(r)
    BY <1>1, <2>4, <2>5, Constants DEF Shape, Holding, Searching, Opened, Replacing,
                                       OpenedAs, Agree
  <2>7. Typed'
    BY <1>3, <2>1, <2>3, <2>4, <2>6, QuotaTyped, TypedStep
  <2> QED
    BY <1>4, <2>2, <2>3, <2>4, <2>6, <2>7
<1>5. CASE ~ApiKey
  <2> DEFINE r == [p EXCEPT !.pc = "wipe"]
  <2>1. Turns(q, r) /\ UNCHANGED <<db, lock, crossed>>
    BY <1>5 DEF Discover, Turns
  <2>2. /\ r \in Task /\ r.pc = "wipe" /\ r.op = p.op /\ r.track = p.track /\ r.aid = p.aid
        /\ r.was = p.was /\ r.now = p.now /\ r.gone = p.gone /\ r.todo = p.todo
    BY <1>1 DEF Task
  <2> HIDE DEF r
  <2>3. OpenedAs(r)
    BY <1>1, <2>2 DEF OpenedAs, Agree
  <2>4. Shape(r)
    BY <1>1, <2>2, <2>3 DEF Shape, Holding, Searching, Opened, Replacing
  <2>5. Typed'
    BY <1>2, <2>1, <2>2, <2>4, QuietStep DEF history
  <2> QED
    BY <1>5, <2>1, <2>2, <2>4, <2>5
<1> QED
  BY <1>4, <1>5

LEMMA DiscoverFailsTask ==
    ASSUME Typed, NEW q \in Procs, DiscoverFails(q)
    PROVE  /\ \E r \in Task : /\ Turns(q, r) /\ Shape(r) /\ r.pc \in {"idle", "next"}
                              /\ r.gone = {} /\ r.aid = None /\ Lessens(q, r)
           /\ Typed'
<1> DEFINE p == proc[q]
           r == IF p.op = "bulk" THEN IdleTask ELSE Ended(q)
<1>1. /\ r \in Task /\ Shape(r) /\ r.pc \in {"idle", "next"} /\ r.gone = {}
      /\ r.aid = None /\ Lessens(q, r)
  BY EndedTask, IdleFacts DEF IdleTask
<1>2. Turns(q, r)
  BY DEF DiscoverFails, Turns
<1>3. At(q, "discover") /\ CommitQuota(q) /\ UNCHANGED <<worker, crashes, asked>>
  BY DEF DiscoverFails
<1>4. stranded' \subseteq Assets
  <2>1. stranded' \subseteq stranded \cup StoredId(q)
    BY DEF DiscoverFails
  <2>2. StoredId(q) \subseteq Assets
    BY <1>3, QuotaTyped
  <2> QED
    BY <2>1, <2>2 DEF Typed, TypeOK
<1>5. /\ worker' \in [Workers -> Worker] /\ asked' \in 0 .. MaxAsked
      /\ crashes' \in 0 .. MaxCrashes
  BY <1>3 DEF Typed, TypeOK
<1> HIDE DEF r
<1>6. Typed'
  BY <1>1, <1>2, <1>3, <1>4, <1>5, QuotaTyped, TypedStep
<1> QED
  BY <1>1, <1>2, <1>6

LEMMA WipeTask ==
    ASSUME Typed, NEW q \in Procs, Wipe(q)
    PROVE  /\ \E r \in Task :
                 /\ Turns(q, r) /\ Shape(r) /\ r.pc = "score"
                 /\ r.op = proc[q].op /\ r.track = proc[q].track /\ r.aid = proc[q].aid
                 /\ r.was = proc[q].was /\ r.now = proc[q].now /\ r.todo = proc[q].todo
                 /\ r.gone = proc[q].gone \cup CandidatesOf(proc[q].track)
                 /\ lock' = lock \/ (lock' = q /\ CanWrite(q))
                 /\ CandidatesOf(proc[q].track) # {} => lock' = q
           /\ Typed'
<1> DEFINE p == proc[q]
           r == [p EXCEPT !.pc = "score", !.gone = p.gone \cup CandidatesOf(p.track)]
<1>1. p \in Task /\ Shape(p) /\ p.pc = "wipe" /\ OpenedAs(p)
  BY DEF Typed, TypeOK, At, Wipe, Shape, Opened
<1>2. CandidatesOf(p.track) \subseteq Candidates
  BY DEF CandidatesOf
<1>3. Turns(q, r)
  BY DEF Wipe, Turns
<1>4. /\ r \in Task /\ r.pc = "score" /\ r.op = p.op /\ r.track = p.track /\ r.aid = p.aid
      /\ r.was = p.was /\ r.now = p.now /\ r.gone = p.gone \cup CandidatesOf(p.track)
      /\ r.todo = p.todo
  BY ZenonT(60), <1>1, <1>2 DEF Task
<1> HIDE DEF r
<1>5. OpenedAs(r)
  BY <1>1, <1>4 DEF OpenedAs, Agree
<1>6. Shape(r)
  BY <1>1, <1>4, <1>5 DEF Shape, Holding, Searching, Opened, Replacing
<1>7. UNCHANGED <<db, worker, history, asked>> /\ lock' \in {lock, q, None}
  BY DEF Wipe
<1>8. Typed'
  BY <1>3, <1>4, <1>6, <1>7, QuietStep
<1>9. /\ lock' = lock \/ (lock' = q /\ CanWrite(q))
      /\ CandidatesOf(p.track) # {} => lock' = q
  BY DEF Wipe
<1> QED
  BY <1>3, <1>4, <1>6, <1>8, <1>9

\* The commit of a search or a selection.
LEMMA SettleTyped ==
    ASSUME Typed, NEW q \in Procs, proc[q].pc \in Holding, NEW now \in Row,
           Agree(proc[q], now), Agree(proc[q], proc[q].now), Leaves(proc[q], now),
           NEW after \in [Candidates -> Candidate],
           \A c \in Candidates : after[c] # NoCandidate
              => after[c].track \in Tracks /\ after[c].video \in Videos,
           Settle(q, now, after), NEW r \in Task, Shape(r), Turns(q, r)
    PROVE  /\ Typed'
           /\ \E b \in Assets : Updated(q, now, b) \/ Inserted(q, now, b)
<1>1. /\ CanStore(q, now) /\ asset' \in Stored(q, now) /\ Note(q, now) /\ lock' = None
      /\ cands' = after /\ UNCHANGED <<worker, stranded, crashes, asked>>
  BY DEF Settle
<1>2. /\ asset' \in [Assets -> Row] /\ ServedHasFile' /\ crossed' \subseteq Tracks
      /\ \E b \in Assets : Updated(q, now, b) \/ Inserted(q, now, b)
  BY <1>1, StoredTyped
<1>3. cands' \in [Candidates -> Candidate] /\ CandidatesAreReal'
  BY <1>1 DEF CandidatesAreReal
<1>4. /\ worker' \in [Workers -> Worker] /\ stranded' \subseteq Assets
      /\ asked' \in 0 .. MaxAsked /\ crashes' \in 0 .. MaxCrashes
  BY <1>1 DEF Typed, TypeOK
<1>5. Typed'
  BY <1>1, <1>2, <1>3, <1>4, TypedStep
<1> QED
  BY <1>2, <1>5

\* What a search makes of its row.
Verdict(p, now) ==
    /\ now \in Row /\ Agree(p, now) /\ Leaves(p, now)
    /\ p.now.file = None =>
          now.state \in {"MISSING", "CANDIDATE_SELECTED", "MANUAL_REVIEW_REQUIRED"}
    /\ p.now.file # None => now = p.now
    /\ now.manual = p.now.manual

LEMMA NothingFoundTask ==
    ASSUME Typed, NEW q \in Procs, NothingFound(q)
    PROVE  /\ Typed'
           /\ \/ /\ proc[q].now.file # None
                 /\ End(q)
                 /\ UNCHANGED <<db, worker, history, asked>>
              \/ \E now \in Row, b \in Assets :
                    /\ proc[q].now.file = None /\ Verdict(proc[q], now)
                    /\ now.state = "MISSING" /\ now.source = proc[q].now.source
                    /\ \E after \in WithCandidates(q, {}) : Settle(q, now, after)
                    /\ Updated(q, now, b) \/ Inserted(q, now, b)
                    /\ Ends(q)
<1> DEFINE p == proc[q]
           now == [p.now EXCEPT !.state = "MISSING", !.cand = None]
<1>1. /\ p \in Task /\ Shape(p) /\ p.pc = "score" /\ p.now \in Row /\ OpenedAs(p)
      /\ p.pc \in Holding
  BY DEF Typed, TypeOK, At, NothingFound, Shape, Opened, Task, Holding, Searching
<1>2. CASE p.now.file = None
  <2>1. now \in Row /\ now.state = "MISSING" /\ now.source = p.now.source
        /\ now.live = p.now.live /\ now.track = p.now.track
        /\ now.pending = p.now.pending /\ now.file = p.now.file /\ now.manual = p.now.manual
    BY <1>1 DEF Row, MediaState
  <2>2. PICK after \in WithCandidates(q, {}) : Settle(q, now, after)
    BY <1>2 DEF NothingFound
  <2>3. Ends(q) /\ Turns(q, Ended(q)) /\ Ended(q) \in Task /\ Shape(Ended(q))
    BY <1>2, EndedTask DEF NothingFound, Ends, Turns
  <2> HIDE DEF now
  <2>4. Verdict(p, now) /\ Agree(p, p.now)
    BY <1>1, <1>2, <2>1 DEF Verdict, Leaves, OpenedAs, Agree, Served
  <2>5. /\ after \in [Candidates -> Candidate]
        /\ \A c \in Candidates : after[c] # NoCandidate
              => after[c].track \in Tracks /\ after[c].video \in Videos
    BY <1>1, NewCandidates
  <2>6. Typed' /\ \E b \in Assets : Updated(q, now, b) \/ Inserted(q, now, b)
    BY <1>1, <2>1, <2>2, <2>3, <2>4, <2>5, SettleTyped DEF Verdict
  <2> QED
    BY <1>2, <2>1, <2>2, <2>3, <2>4, <2>6
<1>3. CASE p.now.file # None
  <2>1. End(q) /\ UNCHANGED <<db, worker, history, asked>>
    BY <1>3 DEF NothingFound
  <2> QED
    BY <1>3, <2>1, EndTyped
<1> QED
  BY <1>2, <1>3

LEMMA DecidedRow ==
    ASSUME NEW row \in Row, NEW decision \in Decisions, NEW c \in Candidates,
           NEW video \in Videos
    PROVE  LET now == Decided(row, decision, c, video)
           IN  /\ now \in Row
               /\ now.live = row.live /\ now.track = row.track
               /\ now.pending = row.pending /\ now.file = row.file /\ now.manual = row.manual
               /\ row.file # None => now = row
               /\ row.file = None =>
                     \/ now.state = "CANDIDATE_SELECTED" /\ now.cand = c /\ now.source = video
                     \/ now.state = "MANUAL_REVIEW_REQUIRED"
<1>1. CASE row.file # None
  BY <1>1 DEF Decided
<1>2. CASE row.file = None /\ decision = "automatic"
  <2> DEFINE now == [row EXCEPT !.state = "CANDIDATE_SELECTED", !.cand = c,
                                !.source = video, !.visual = video \in Visualizers]
  <2>1. Decided(row, decision, c, video) = now
    BY <1>2 DEF Decided
  <2>a. \A v \in BOOLEAN : [row EXCEPT !.state = "CANDIDATE_SELECTED", !.cand = c,
                                        !.source = video, !.visual = v] \in Row
    BY DEF Row, MediaState, Claimable
  <2>b. (video \in Visualizers) \in BOOLEAN
    OBVIOUS
  <2>2. now \in Row
    BY <2>a, <2>b, Zenon
  <2> QED
    BY ZenonT(60), <1>2, <2>1, <2>2 DEF Row
<1>3. CASE row.file = None /\ decision # "automatic"
  <2> DEFINE now == [row EXCEPT !.state = "MANUAL_REVIEW_REQUIRED", !.cand = None]
  <2>1. Decided(row, decision, c, video) = now
    BY <1>3 DEF Decided
  <2>2. now \in Row
    BY DEF Row, MediaState
  <2> QED
    BY <1>3, <2>1, <2>2 DEF Row
<1> QED
  BY <1>1, <1>2, <1>3

\* The step in which it found some, with its verdict, its candidates and its row.
FoundAs(q, now, b, after, r) ==
    /\ Verdict(proc[q], now) /\ Settle(q, now, after)
    /\ Updated(q, now, b) \/ Inserted(q, now, b)
    /\ now.state \in Claimable /\ now.file = None =>
          /\ now.cand \in Candidates
          /\ after[now.cand] = [track |-> proc[q].track, video |-> now.source]
    /\ Turns(q, r) /\ Shape(r) /\ r.gone = {} /\ Lessens(q, r)
    /\ \/ r.pc \in {"idle", "next"} /\ r.aid = None
       \/ /\ r.pc = "compare" /\ r.track = proc[q].track /\ r.aid = proc[q].aid
          /\ r.was = now /\ r.now = now /\ proc[q].op = "monitor"
          /\ r.op = "monitor"

LEMMA FoundTask ==
    ASSUME Typed, NEW q \in Procs, Found(q)
    PROVE  /\ Typed'
           /\ \E now \in Row, b \in Assets, videos \in SUBSET Videos :
              \E after \in WithCandidates(q, videos), r \in Task :
                 FoundAs(q, now, b, after, r)
<1> DEFINE p == proc[q]
<1>1. /\ p \in Task /\ Shape(p) /\ p.pc = "score" /\ p.now \in Row /\ OpenedAs(p)
      /\ p.pc \in Holding
  BY DEF Typed, TypeOK, At, Found, Shape, Opened, Task, Holding, Searching
<1>2. PICK videos \in SUBSET Videos \ {{}}, decision \in Decisions :
      \E after \in WithCandidates(q, videos), winner \in videos :
      \E c \in {d \in Candidates : after[d] = [track |-> p.track, video |-> winner]} :
         LET row == Decided(p.now, decision, c, winner)
         IN  /\ Settle(q, row, after)
             /\ IF p.op = "monitor" /\ decision = "automatic" /\ winner # p.prev
                THEN proc' = [proc EXCEPT ![q] = [@ EXCEPT
                                 !.pc = "compare", !.cand = c, !.video = winner,
                                 !.gone = {}, !.was = row, !.now = row]]
                ELSE Ends(q)
  BY DEF Found
<1>3. PICK after \in WithCandidates(q, videos), winner \in videos :
      \E c \in {d \in Candidates : after[d] = [track |-> p.track, video |-> winner]} :
         LET row == Decided(p.now, decision, c, winner)
         IN  /\ Settle(q, row, after)
             /\ IF p.op = "monitor" /\ decision = "automatic" /\ winner # p.prev
                THEN proc' = [proc EXCEPT ![q] = [@ EXCEPT
                                 !.pc = "compare", !.cand = c, !.video = winner,
                                 !.gone = {}, !.was = row, !.now = row]]
                ELSE Ends(q)
  BY <1>2
<1>4. PICK c \in {d \in Candidates : after[d] = [track |-> p.track, video |-> winner]} :
         LET row == Decided(p.now, decision, c, winner)
         IN  /\ Settle(q, row, after)
             /\ IF p.op = "monitor" /\ decision = "automatic" /\ winner # p.prev
                THEN proc' = [proc EXCEPT ![q] = [@ EXCEPT
                                 !.pc = "compare", !.cand = c, !.video = winner,
                                 !.gone = {}, !.was = row, !.now = row]]
                ELSE Ends(q)
  BY <1>3
<1> DEFINE now == Decided(p.now, decision, c, winner)
           r1 == [p EXCEPT !.pc = "compare", !.cand = c, !.video = winner,
                           !.gone = {}, !.was = now, !.now = now]
           r == IF p.op = "monitor" /\ decision = "automatic" /\ winner # p.prev
                THEN r1 ELSE Ended(q)
<1>5. Settle(q, now, after) /\ Turns(q, r)
  BY <1>4 DEF Ends, Turns
<1>6. winner \in Videos /\ c \in Candidates /\ videos \in SUBSET Videos
      /\ after[c] = [track |-> p.track, video |-> winner]
  BY <1>2, <1>3, <1>4
<1>7. /\ now \in Row
      /\ now.live = p.now.live /\ now.track = p.now.track
      /\ now.pending = p.now.pending /\ now.file = p.now.file /\ now.manual = p.now.manual
      /\ p.now.file # None => now = p.now
      /\ p.now.file = None =>
            \/ now.state = "CANDIDATE_SELECTED" /\ now.cand = c /\ now.source = winner
            \/ now.state = "MANUAL_REVIEW_REQUIRED"
  BY <1>1, <1>2, <1>6, DecidedRow
<1> HIDE DEF now
<1>8. p.now.state \in Served => p.now.file # None
  BY <1>1 DEF Shape
<1>9. Verdict(p, now) /\ Agree(p, p.now)
  BY <1>1, <1>7, <1>8 DEF Verdict, Leaves, OpenedAs, Agree, Served
<1>10. /\ after \in [Candidates -> Candidate]
       /\ \A d \in Candidates : after[d] # NoCandidate
             => after[d].track \in Tracks /\ after[d].video \in Videos
  BY <1>1, <1>6, NewCandidates
<1>11. now.state \in Claimable /\ now.file = None =>
          now.cand = c /\ now.source = winner
  BY <1>7 DEF Claimable
<1>12. CASE p.op = "monitor" /\ decision = "automatic" /\ winner # p.prev
  <2>1. /\ r1 \in Task /\ r1.pc = "compare" /\ r1.track = p.track /\ r1.aid = p.aid
        /\ r1.was = now /\ r1.now = now /\ r1.gone = {} /\ r1.op = p.op
        /\ r1.todo = p.todo /\ r1.cand = c /\ r1.video = winner
    BY ZenonT(60), <1>1, <1>6, <1>7 DEF Task
  <2>2. Turns(q, r1)
    BY <1>5, <1>12
  <2> HIDE DEF r1
  <2>3. p.aid # None /\ winner # None /\ c # None
    BY <1>1, <1>6, <1>12, Constants DEF Shape
  <2>4. Shape(r1)
    BY <1>1, <1>9, <1>12, <2>1, <2>3
       DEF Shape, Holding, Searching, Opened, Replacing, Verdict, Agree, Leaves
  <2>5. Typed' /\ \E b \in Assets : Updated(q, now, b) \/ Inserted(q, now, b)
    BY <1>1, <1>5, <1>7, <1>9, <1>10, <2>1, <2>2, <2>4, SettleTyped DEF Verdict
  <2>6. PICK b \in Assets : Updated(q, now, b) \/ Inserted(q, now, b)
    BY <2>5
  <2>7. FoundAs(q, now, b, after, r1)
    BY <1>5, <1>6, <1>9, <1>11, <1>12, <2>1, <2>2, <2>4, <2>6 DEF FoundAs, Lessens
  <2> QED
    BY <1>6, <1>7, <2>1, <2>5, <2>7
<1>13. CASE ~(p.op = "monitor" /\ decision = "automatic" /\ winner # p.prev)
  <2>1. Turns(q, Ended(q))
    BY <1>5, <1>13
  <2>2. /\ Ended(q) \in Task /\ Shape(Ended(q)) /\ Ended(q).gone = {}
        /\ Ended(q).pc \in {"idle", "next"} /\ Ended(q).aid = None /\ Lessens(q, Ended(q))
    BY EndedTask
  <2>3. Typed' /\ \E b \in Assets : Updated(q, now, b) \/ Inserted(q, now, b)
    BY <1>1, <1>5, <1>7, <1>9, <1>10, <2>1, <2>2, SettleTyped DEF Verdict
  <2>4. PICK b \in Assets : Updated(q, now, b) \/ Inserted(q, now, b)
    BY <2>3
  <2>5. FoundAs(q, now, b, after, Ended(q))
    BY <1>5, <1>6, <1>9, <1>11, <2>1, <2>2, <2>4 DEF FoundAs
  <2> QED
    BY <1>6, <1>7, <2>2, <2>3, <2>5
<1> QED
  BY <1>12, <1>13

\* BulkList and MonitorTick make a list.
LEMMA ListTyped ==
    ASSUME Typed, NEW q \in Procs, NEW op \in {"bulk", "monitor"},
           NEW todo \in SUBSET (Tracks \cup Assets),
           op = "bulk" => todo \subseteq Tracks, op = "monitor" => todo \subseteq Assets,
           NEW r, r = [IdleTask EXCEPT !.pc = "next", !.op = op, !.todo = todo],
           Turns(q, r), UNCHANGED <<db, lock, worker, history>>, Counted
    PROVE  r \in Task /\ Shape(r) /\ r.pc = "next" /\ r.gone = {} /\ r.aid = None /\ Typed'
<1>0. op \in AllOps
  BY DEF AllOps
<1>1. r \in Task
  BY ZenonT(60), <1>0, IdleFacts DEF Task
<1>2. r.pc = "next" /\ r.gone = {} /\ r.aid = None /\ r.op = op /\ r.todo = todo
  BY DEF IdleTask
<1>3. Shape(r)
  BY <1>2 DEF Shape, Holding, Searching, Opened, Replacing
<1>4. Typed'
  BY <1>1, <1>3, QuietStep
<1> QED
  BY <1>1, <1>2, <1>3, <1>4

LEMMA BulkListTask ==
    ASSUME Typed, NEW q \in Procs, BulkList(q)
    PROVE  /\ Typed'
           /\ \E r \in Task : Turns(q, r) /\ Shape(r) /\ r.pc = "next" /\ r.gone = {}
                              /\ r.aid = None /\ r.op = "bulk"
<1> DEFINE r == [IdleTask EXCEPT !.pc = "next", !.op = "bulk", !.todo = WantedTracks]
<1>1. Turns(q, r) /\ UNCHANGED <<db, lock, worker, history>> /\ Counted
  BY DEF BulkList, Turns
<1>2. WantedTracks \subseteq Tracks
  BY SMTT(60) DEF WantedTracks
<1>3. r.op = "bulk"
  BY DEF IdleTask
<1> HIDE DEF WantedTracks
<1>4. r \in Task /\ Shape(r) /\ r.pc = "next" /\ r.gone = {} /\ r.aid = None /\ Typed'
  BY <1>1, <1>2, ListTyped
<1> QED
  BY <1>1, <1>3, <1>4

LEMMA MonitorTickTask ==
    ASSUME Typed, NEW q \in Procs, MonitorTick(q)
    PROVE  /\ Typed'
           /\ \E r \in Task : Turns(q, r) /\ Shape(r) /\ r.pc = "next" /\ r.gone = {}
                              /\ r.aid = None /\ r.op = "monitor" /\ r.todo = Monitored
<1> DEFINE r == [IdleTask EXCEPT !.pc = "next", !.op = "monitor", !.todo = Monitored]
<1>1. Turns(q, r) /\ UNCHANGED <<db, lock, worker, history>> /\ Counted
  BY DEF MonitorTick, Turns
<1>2. Monitored \subseteq Assets
  BY DEF Monitored, Live
<1>3. r.op = "monitor" /\ r.todo = Monitored
  BY DEF IdleTask
<1>4. r \in Task /\ Shape(r) /\ r.pc = "next" /\ r.gone = {} /\ r.aid = None /\ Typed'
  BY <1>1, <1>2, ListTyped
<1> QED
  BY <1>1, <1>3, <1>4

LEMMA BeginTask ==
    ASSUME Typed, NEW q \in Procs, NEW t \in Tracks, NEW op \in {"run", "again"},
           Begin(q, t, op)
    PROVE  /\ Typed'
           /\ \E r \in Task : Looked(q, r) /\ r.op = op
<1>1. Look(q, t, op, {}, None) /\ UNCHANGED <<db, lock, worker, history>> /\ Counted
  BY DEF Begin
<1>2. op \in AllOps /\ op # "bulk" /\ op # "monitor"
  BY DEF AllOps
<1>3. Typed'
  BY <1>1, <1>2, LookTyped
<1>4. \E r \in Task : Looked(q, r) /\ r.op = op
  <2>1. PICK todo \in SUBSET (Tracks \cup Assets), prev \in Videos \cup {None} :
           todo = {} /\ prev = None
    OBVIOUS
  <2>2. /\ Look(q, t, op, todo, prev)
        /\ todo \in SUBSET (Tracks \cup Assets) /\ prev \in Videos \cup {None}
    BY <1>1, <2>1
  <2>3. \E r \in Task : Looked(q, r) /\ r.op = op /\ r.todo = todo
    BY <1>2, <2>2, LookTask
  <2> QED
    BY <2>3
<1> QED
  BY <1>3, <1>4

LEMMA BulkNextTask ==
    ASSUME Typed, NEW q \in Procs, BulkNext(q)
    PROVE  /\ Typed'
           /\ \E r \in Task : Looked(q, r) /\ r.op = "bulk"
<1>1. PICK t \in proc[q].todo : Look(q, t, "bulk", proc[q].todo \ {t}, None)
  BY DEF BulkNext
<1>2. proc[q].todo \subseteq Tracks
  BY DEF Typed, Shape, BulkNext
<1>3. UNCHANGED <<db, lock, worker, history>> /\ UNCHANGED asked
  BY DEF BulkNext
<1>4. "bulk" \in AllOps
  BY DEF AllOps
<1>5. Typed'
  BY <1>1, <1>2, <1>3, <1>4, LookTyped
<1>6. \E r \in Task : Looked(q, r) /\ r.op = "bulk"
  <2>1. t \in Tracks /\ proc[q].todo \ {t} \in SUBSET (Tracks \cup Assets)
        /\ proc[q].todo \ {t} \subseteq Tracks
    BY <1>2
  <2>2. \E r \in Task : Looked(q, r) /\ r.op = "bulk" /\ r.todo = proc[q].todo \ {t}
    BY <1>1, <1>4, <2>1, LookTask
  <2> QED
    BY <2>2
<1> QED
  BY <1>5, <1>6

LEMMA MonitorNextTask ==
    ASSUME Typed, NEW q \in Procs, MonitorNext(q)
    PROVE  /\ Typed'
           /\ \/ \E r \in Task : /\ Turns(q, r) /\ Shape(r) /\ r.pc \in {"idle", "next"}
                                 /\ r.aid = None /\ (r.gone = {} \/ r.gone = proc[q].gone)
                                 /\ Lessens(q, r)
              \/ \E r \in Task, a \in Live :
                    /\ Looked(q, r) /\ r.op = "monitor" /\ r.aid # None /\ Lessens(q, r)
                    /\ a \in proc[q].todo /\ asset[a].track = r.track /\ asset[a].file # None
<1> DEFINE p == proc[q]
<1>1. PICK a \in p.todo :
         IF asset[a].live /\ asset[a].track # None /\ asset[a].file # None
         THEN Look(q, asset[a].track, "monitor", p.todo \ {a}, asset[a].source)
         ELSE proc' = [proc EXCEPT ![q] =
                          IF p.todo \ {a} = {} THEN IdleTask
                          ELSE [@ EXCEPT !.todo = p.todo \ {a}]]
  BY DEF MonitorNext
<1>2. /\ p \in Task /\ Shape(p) /\ p.pc = "next" /\ p.op = "monitor" /\ p.todo \subseteq Assets
      /\ asset \in [Assets -> Row]
  BY DEF Typed, TypeOK, Shape, MonitorNext, At
<1>3. UNCHANGED <<db, lock, worker, history>> /\ UNCHANGED asked
  BY DEF MonitorNext
<1>4. CASE asset[a].live /\ asset[a].track # None /\ asset[a].file # None
  <2> DEFINE t == asset[a].track
  <2>1. t \in Tracks /\ a \in Live /\ a \in RowsOf(t) /\ asset[a].source \in Videos \cup {None}
    BY <1>2, <1>4 DEF Row, RowsOf, Live
  <2>2. Look(q, t, "monitor", p.todo \ {a}, asset[a].source)
    BY <1>1, <1>4
  <2>3. "monitor" \in AllOps /\ RowsOf(t) # {}
    BY <2>1 DEF AllOps
  <2> HIDE DEF t
  <2>4. Typed'
    BY <1>2, <1>3, <2>1, <2>2, <2>3, LookTyped
  <2>5. \E r \in Task : /\ Looked(q, r) /\ r.op = "monitor" /\ r.track = t
                        /\ r.todo = p.todo \ {a}
    BY <1>2, <2>1, <2>2, <2>3, LookTask
  <2>6. PICK r \in Task : /\ Looked(q, r) /\ r.op = "monitor" /\ r.track = t
                         /\ r.todo = p.todo \ {a}
    BY <2>5
  <2>8. Lessens(q, r)
    BY <1>2, <2>6 DEF Lessens
  <2>7. r.aid # None
    BY <2>3, <2>6, Constants DEF Looked, AssetOf, RowsOf, Live
  <2> QED
    BY <1>1, <1>4, <2>1, <2>4, <2>6, <2>7, <2>8 DEF t
<1>5. CASE ~(asset[a].live /\ asset[a].track # None /\ asset[a].file # None)
  <2> DEFINE left == p.todo \ {a}
             r == IF left = {} THEN IdleTask ELSE [p EXCEPT !.todo = left]
  <2>1. Turns(q, r)
    BY <1>1, <1>5 DEF Turns
  <2>2. CASE left = {}
    <3>1. r = IdleTask
      BY <2>2
    <3> HIDE DEF r
    <3>2. r \in Task /\ Shape(r) /\ r.pc = "idle" /\ r.gone = {} /\ r.aid = None /\ Lessens(q, r)
      BY <3>1, IdleFacts DEF IdleTask, Lessens
    <3> QED
      BY <1>3, <2>1, <3>2, QuietStep
  <2>3. CASE left # {}
    <3>1. r = [p EXCEPT !.todo = left] /\ left \in SUBSET (Tracks \cup Assets)
      BY <1>2, <2>3
    <3> HIDE DEF r
    <3>2. /\ r \in Task /\ r.pc = "next" /\ r.op = "monitor" /\ r.todo = left
          /\ r.gone = p.gone /\ r.aid = p.aid
      BY <1>2, <3>1 DEF Task
    <3>3. Shape(r)
      BY <1>2, <3>2 DEF Shape, Holding, Searching, Opened, Replacing
    <3>4. r.aid = None
      BY <1>2, <3>2 DEF Shape
    <3>5. Lessens(q, r)
      BY <1>2, <3>2 DEF Lessens
    <3> QED
      BY <1>3, <2>1, <3>2, <3>3, <3>4, <3>5, QuietStep
  <2> QED
    BY <2>2, <2>3
<1> QED
  BY <1>4, <1>5

LEMMA SelectBeginTask ==
    ASSUME Typed, NEW q \in Procs, NEW c \in Candidates, SelectBegin(q, c)
    PROVE  /\ Typed'
           /\ \E r \in Task :
                 /\ Turns(q, r) /\ Shape(r) /\ r.pc = "select" /\ r.op = "select" /\ r.gone = {}
                 /\ r.aid \in AssetOf(r.track) /\ r.was = asset[r.aid] /\ r.now = r.was
<1> DEFINE t == cands[c].track
<1>1. PICK a \in AssetOf(t) :
         proc' = [proc EXCEPT ![q] = [IdleTask EXCEPT
                     !.pc = "select", !.op = "select", !.track = t,
                     !.aid = a, !.was = asset[a], !.now = asset[a],
                     !.cand = c, !.video = cands[c].video]]
  BY DEF SelectBegin
<1>2. /\ t \in Tracks /\ cands[c].video \in Videos /\ cands[c].video # None /\ c # None
      /\ t # None /\ asset \in [Assets -> Row]
  BY Constants DEF SelectBegin, Typed, TypeOK, CandidatesAreReal
<1>3. a \in Assets /\ a # None /\ asset[a].live /\ asset[a].track = t /\ asset[a] \in Row
  BY <1>1, <1>2, Constants DEF AssetOf, RowsOf, Live
<1> DEFINE r == [IdleTask EXCEPT
                     !.pc = "select", !.op = "select", !.track = t,
                     !.aid = a, !.was = asset[a], !.now = asset[a],
                     !.cand = c, !.video = cands[c].video]
<1>4. Turns(q, r) /\ UNCHANGED <<db, lock, worker, history>> /\ Counted
  BY <1>1 DEF SelectBegin, Turns
<1>5. r \in Task
  BY ZenonT(60), <1>2, <1>3, IdleFacts DEF Task, AllOps
<1>6. /\ r.pc = "select" /\ r.op = "select" /\ r.track = t /\ r.aid = a /\ r.gone = {}
      /\ r.was = asset[a] /\ r.now = asset[a] /\ r.cand = c /\ r.video = cands[c].video
  BY DEF IdleTask
<1> HIDE DEF r
<1>7. asset[a].state \in Served => asset[a].file # None
  BY <1>3 DEF Typed, ServedHasFile, Live
<1>8. Shape(r)
  BY <1>2, <1>3, <1>6, <1>7 DEF Shape, Holding, Searching, Opened, Replacing
<1>9. Typed'
  BY <1>4, <1>5, <1>8, QuietStep
<1> QED
  BY <1>1, <1>4, <1>5, <1>6, <1>8, <1>9

LEMMA SelectCommitTask ==
    ASSUME Typed, NEW q \in Procs, SelectCommit(q)
    PROVE  /\ Typed' /\ Ends(q) /\ proc[q].was.file = None /\ proc[q].was.state # "DOWNLOADING"
           /\ \E now \in Row, b \in Assets :
                 /\ Agree(proc[q], now) /\ Agree(proc[q], proc[q].now) /\ Leaves(proc[q], now)
                 /\ now.state = "CANDIDATE_SELECTED" /\ now.cand = proc[q].cand
                 /\ now.source = proc[q].video /\ now.manual
                 /\ Settle(q, now, cands) /\ Updated(q, now, b)
<1> DEFINE p == proc[q]
           now == [p.was EXCEPT !.cand = p.cand, !.source = p.video, !.manual = TRUE,
                                !.visual = FALSE, !.state = "CANDIDATE_SELECTED"]
<1>1. /\ p \in Task /\ Shape(p) /\ p.pc = "select" /\ p.was \in Row
      /\ p.was.file = None /\ p.was.state # "DOWNLOADING" /\ p.pc \in Holding
      /\ p.cand \in Candidates \cup {None} /\ p.video \in Videos \cup {None}
  BY DEF Typed, TypeOK, At, SelectCommit, Task, Unsafe, Holding
<1>2. p.aid # None /\ p.now = p.was /\ p.was.live /\ p.was.track = p.track
  BY <1>1 DEF Shape, Searching, Opened, Holding
<1>3. /\ now \in Row /\ now.state = "CANDIDATE_SELECTED" /\ now.cand = p.cand
      /\ now.source = p.video /\ now.live = p.was.live /\ now.track = p.was.track
      /\ now.pending = p.was.pending /\ now.file = p.was.file /\ now.manual
  BY ZenonT(60), <1>1 DEF Row, MediaState, Claimable
<1>4. Settle(q, now, cands) /\ Ends(q) /\ Turns(q, Ended(q))
  BY DEF SelectCommit, Ends, Turns
<1> HIDE DEF now
<1>5. Agree(p, now) /\ Agree(p, p.now) /\ Leaves(p, now)
  BY <1>2, <1>3 DEF Agree, Leaves, Served
<1>6. Ended(q) \in Task /\ Shape(Ended(q))
  BY EndedTask
<1>7. /\ cands \in [Candidates -> Candidate]
      /\ \A c \in Candidates : cands[c] # NoCandidate
            => cands[c].track \in Tracks /\ cands[c].video \in Videos
  BY DEF Typed, TypeOK, CandidatesAreReal
<1>8. Typed' /\ \E b \in Assets : Updated(q, now, b) \/ Inserted(q, now, b)
  BY <1>1, <1>3, <1>4, <1>5, <1>6, <1>7, SettleTyped
<1>9. \E b \in Assets : Updated(q, now, b)
  BY <1>2, <1>8 DEF Inserted
<1> QED
  BY <1>1, <1>3, <1>4, <1>5, <1>8, <1>9

LEMMA ReplaceBeginTask ==
    ASSUME Typed, NEW q \in Procs, NEW c \in Candidates, ReplaceBegin(q, c)
    PROVE  /\ Typed'
           /\ \E r \in Task :
                 /\ Turns(q, r) /\ Shape(r) /\ r.pc = "create" /\ r.op = "replace" /\ r.gone = {}
                 /\ r.aid \in AssetOf(r.track) /\ r.was = asset[r.aid] /\ r.now = r.was
<1> DEFINE t == cands[c].track
           v == cands[c].video
<1>1. /\ Retire(q, t, c, v, "replace", {}) /\ UNCHANGED <<db, lock, worker, history>>
      /\ Counted /\ proc[q] = IdleTask /\ cands[c] # NoCandidate
  BY DEF ReplaceBegin, Typed, Shape, At
<1>2. t \in Tracks /\ v \in Videos
  BY <1>1 DEF Typed, CandidatesAreReal
<1>3. proc[q].aid = None
  BY <1>1 DEF IdleTask
<1>4. "replace" \in AllOps /\ {} \in SUBSET (Tracks \cup Assets)
  BY DEF AllOps
<1> HIDE DEF t, v
<1>5. PICK r \in Task :
         /\ proc' = [proc EXCEPT ![q] = r]
         /\ Shape(r) /\ r.pc = "create" /\ r.op = "replace" /\ r.track = t
         /\ r.gone = {} /\ r.now = r.was
         /\ r.aid \in AssetOf(t) /\ r.was = Seen(q, r.aid) /\ r.was.state \in Served
  BY <1>1, <1>2, <1>3, <1>4, RetireTask
<1>6. r.was = asset[r.aid]
  BY <1>3, <1>5, Constants DEF Seen, AssetOf, RowsOf, Live
<1>7. Turns(q, r)
  BY <1>5 DEF Turns
<1>8. Typed'
  BY <1>1, <1>5, <1>7, QuietStep
<1> QED
  BY <1>5, <1>6, <1>7, <1>8

LEMMA CompareTask ==
    ASSUME Typed, NEW q \in Procs, Compare(q)
    PROVE  /\ Typed'
           /\ \E r \in Task :
                 /\ Turns(q, r) /\ Shape(r) /\ r.gone = {} /\ Lessens(q, r)
                 /\ \/ r.pc \in {"idle", "next"} /\ r.aid = None
                    \/ /\ r.pc = "create" /\ r.op = "monitor" /\ r.track = proc[q].track
                       /\ r.aid \in AssetOf(r.track) /\ r.was = Seen(q, r.aid)
                       /\ r.now = r.was
<1> DEFINE p == proc[q]
<1>1. /\ p \in Task /\ Shape(p) /\ p.pc = "compare" /\ p.now = p.was /\ p.track \in Tracks
      /\ p.op \in AllOps \cup {"none"} /\ p.todo \in SUBSET (Tracks \cup Assets)
      /\ p.cand \in Candidates \cup {None} /\ p.video \in Videos /\ p.pc \in Holding
      /\ p.op = "monitor" /\ p.cand # None
  BY DEF Typed, TypeOK, At, Compare, Task, Shape, Holding, Searching, Opened
<1>2. UNCHANGED <<db, lock, worker, history, asked>>
  BY DEF Compare
<1>3. CASE Retire(q, p.track, p.cand, p.video, p.op, p.todo)
  <2>0. Retire(q, p.track, p.cand, p.video, "monitor", p.todo) /\ "monitor" \in AllOps
    BY <1>1, <1>3 DEF AllOps
  <2>1. /\ p.cand \in Candidates /\ p.op \in AllOps /\ p.todo \subseteq Assets
        /\ p.op # "bulk"
    BY <1>1 DEF Shape
  <2>2. PICK r \in Task :
         /\ proc' = [proc EXCEPT ![q] = r]
         /\ Shape(r) /\ r.pc = "create" /\ r.op = "monitor" /\ r.track = p.track
         /\ r.gone = {} /\ r.now = r.was
         /\ r.aid \in AssetOf(p.track) /\ r.was = Seen(q, r.aid) /\ r.was.state \in Served
         /\ r.todo = p.todo
    <3> DEFINE t == p.track
               c == p.cand
               v == p.video
               todo == p.todo
    <3>1. /\ t \in Tracks /\ c \in Candidates /\ v \in Videos
          /\ todo \in SUBSET (Tracks \cup Assets) /\ todo \subseteq Assets
          /\ Retire(q, t, c, v, "monitor", todo)
          /\ proc[q].pc \in Holding /\ proc[q].now = proc[q].was /\ proc[q].track = t
      BY <1>1, <2>0, <2>1
    <3> HIDE DEF t, c, v, todo
    <3>2. \E r \in Task :
           /\ proc' = [proc EXCEPT ![q] = r]
           /\ Shape(r) /\ r.pc = "create" /\ r.op = "monitor" /\ r.track = t
           /\ r.gone = {} /\ r.now = r.was
           /\ r.aid \in AssetOf(t) /\ r.was = Seen(q, r.aid) /\ r.was.state \in Served
           /\ r.todo = todo
      BY <2>0, <3>1, RetireTask
    <3> QED
      BY <3>2 DEF t, todo
  <2>3. Turns(q, r)
    BY <2>2 DEF Turns
  <2>4. Typed'
    BY <1>2, <2>2, <2>3, QuietStep
  <2>5. Lessens(q, r)
    BY <1>1, <2>2 DEF Lessens
  <2> QED
    BY <2>2, <2>3, <2>4, <2>5
<1>4. CASE Ends(q)
  <2>1. /\ Ended(q) \in Task /\ Shape(Ended(q)) /\ Ended(q).gone = {}
        /\ Ended(q).pc \in {"idle", "next"} /\ Ended(q).aid = None /\ Turns(q, Ended(q))
        /\ Lessens(q, Ended(q))
    BY <1>4, EndedTask DEF Ends, Turns
  <2>2. Typed'
    BY <1>2, <2>1, QuietStep
  <2> QED
    BY <2>1, <2>2
<1> QED
  BY <1>3, <1>4 DEF Compare

\* A replacement goes on with what it has.
Carries(q, r, pc) ==
    /\ Turns(q, r) /\ Shape(r) /\ r.pc = pc /\ r.track = proc[q].track
    /\ r.aid = proc[q].aid /\ r.was = proc[q].was /\ r.now = proc[q].now
    /\ r.video = proc[q].video /\ r.gone = proc[q].gone
    /\ r.op = proc[q].op /\ r.todo = proc[q].todo

LEMMA CarriesOn ==
    ASSUME Typed, NEW q \in Procs, proc[q].pc \in Replacing, NEW pc \in Replacing,
           NEW new \in Assets \cup {None},
           pc \in {"create", "fetch"} => new = None, pc \in {"import", "swap"} => new # None,
           Turns(q, [proc[q] EXCEPT !.pc = pc, !.new = new])
    PROVE  \E r \in Task : Carries(q, r, pc) /\ r.new = new
<1> DEFINE p == proc[q]
           r == [p EXCEPT !.pc = pc, !.new = new]
<1>0. Turns(q, r)
  OBVIOUS
<1>1. p \in Task /\ Shape(p)
  BY DEF Typed, TypeOK
<1>2. r \in Task
  BY ZenonT(60), <1>1 DEF Task, Replacing
<1>3. /\ r.pc = pc /\ r.track = p.track /\ r.aid = p.aid /\ r.was = p.was /\ r.now = p.now
      /\ r.video = p.video /\ r.gone = p.gone /\ r.new = new /\ r.op = p.op /\ r.todo = p.todo
  BY <1>1 DEF Task
<1> HIDE DEF r
<1>4. Shape(r)
  BY <1>1, <1>3 DEF Shape, Holding, Searching, Opened, Replacing
<1> QED
  BY <1>0, <1>2, <1>3, <1>4 DEF Carries

LEMMA CreateTask ==
    ASSUME Typed, NEW q \in Procs, Create(q)
    PROVE  Typed' /\ \E r \in Task : Carries(q, r, "fetch") /\ r.new = None
<1> DEFINE p == proc[q]
           r == [p EXCEPT !.pc = "fetch", !.new = None]
<1>1. p \in Task /\ Shape(p) /\ p.pc = "create" /\ p.pc \in Replacing /\ p.new = None
  BY DEF Typed, TypeOK, At, Create, Shape, Replacing
<1>2. proc' = [proc EXCEPT ![q] = [p EXCEPT !.pc = "fetch"]]
  BY DEF Create
<1>3. [p EXCEPT !.pc = "fetch"] = r
  BY <1>1 DEF Task
<1>4. Turns(q, r)
  BY <1>2, <1>3 DEF Turns
<1>5. "fetch" \in Replacing /\ None \in Assets \cup {None}
  BY DEF Replacing
<1>6. \E s \in Task : Carries(q, s, "fetch") /\ s.new = None
  BY ZenonT(60), <1>1, <1>4, <1>5, CarriesOn
<1>7. UNCHANGED <<db, worker, history, asked>> /\ lock' = q
  BY DEF Create
<1>8. Typed'
  BY <1>4, <1>6, <1>7, QuietStep DEF Carries
<1> QED
  BY <1>6, <1>8

\* The new row of a replacement, above all others.
FetchedRow(q, r, a) ==
    /\ a \in Assets /\ a \notin Live /\ \A u \in Live : u < a
    /\ asset' = [asset EXCEPT ![a] = Replacement(q)]
    /\ Carries(q, r, "import") /\ r.new = a

LEMMA ReplacementRow ==
    ASSUME Typed, NEW q \in Procs, proc[q].pc \in Replacing
    PROVE  LET row == Replacement(q)
           IN  /\ row \in Row /\ row.live /\ row.track = proc[q].track
               /\ row.state = "DOWNLOADING" /\ row.pending /\ row.file = None
               /\ row.source = proc[q].video /\ row.manual
<1>1. /\ proc[q].track \in Tracks \cup {None} /\ proc[q].cand \in Candidates \cup {None}
      /\ proc[q].video \in Videos \cup {None}
  BY DEF Typed, TypeOK, Task
<1>2. Replacement(q) \in Row
  BY <1>1, IdleFacts DEF Replacement, Row, MediaState
<1> QED
  BY <1>2 DEF Replacement, NoRow

LEMMA FetchedTask ==
    ASSUME Typed, NEW q \in Procs, Fetched(q)
    PROVE  Typed' /\ \E r \in Task, a \in Assets : FetchedRow(q, r, a)
<1> DEFINE p == proc[q]
<1>1. PICK a \in NextIds(Live, Assets, 1) :
         /\ asset' = [asset EXCEPT ![a] = Replacement(q)]
         /\ proc' = [proc EXCEPT ![q] = [@ EXCEPT !.pc = "import", !.new = a]]
  BY DEF Fetched
<1> DEFINE r == [p EXCEPT !.pc = "import", !.new = a]
<1>2. p \in Task /\ Shape(p) /\ p.pc = "fetch" /\ p.pc \in Replacing /\ asset \in [Assets -> Row]
  BY DEF Typed, TypeOK, At, Fetched, Replacing
<1>3. a \in Assets /\ a # None /\ \A u \in Live : u < a
  BY <1>1, Constants DEF NextIds
<1>4. a \notin Live
  BY <1>3, Constants
<1>5. Turns(q, r) /\ "import" \in Replacing
  BY <1>1 DEF Turns, Replacing
<1>6. a \in Assets \cup {None} /\ a # None
  BY <1>3
<1>7. \E s \in Task : Carries(q, s, "import") /\ s.new = a
  <2>1. Turns(q, [proc[q] EXCEPT !.pc = "import", !.new = a]) /\ proc[q].pc \in Replacing
    BY <1>2, <1>5
  <2> HIDE DEF r, p
  <2> QED
    BY ZenonT(60), <1>5, <1>6, <2>1, CarriesOn
<1>8. \E s \in Task : FetchedRow(q, s, a)
  BY <1>1, <1>3, <1>4, <1>7 DEF FetchedRow
<1>9. /\ Replacement(q) \in Row /\ Replacement(q).state = "DOWNLOADING"
  BY <1>2, ReplacementRow
<1>10. asset' \in [Assets -> Row]
  BY <1>1, <1>2, <1>3, <1>9
<1>11. ServedHasFile'
  <2> SUFFICES ASSUME NEW b \in Assets, asset'[b].live, asset'[b].state \in Served
               PROVE  asset'[b].file # None
    BY DEF ServedHasFile, Live
  <2>1. b # a
    BY <1>1, <1>2, <1>3, <1>9 DEF Served
  <2>2. asset'[b] = asset[b]
    BY <1>1, <1>2, <2>1
  <2> QED
    BY <2>2 DEF Typed, ServedHasFile, Live
<1>12. /\ UNCHANGED <<cands, worker, history, asked>> /\ lock' = None
  BY DEF Fetched
<1>13. /\ cands' \in [Candidates -> Candidate] /\ CandidatesAreReal'
       /\ worker' \in [Workers -> Worker] /\ stranded' \subseteq Assets
       /\ crossed' \subseteq Tracks /\ asked' \in 0 .. MaxAsked /\ crashes' \in 0 .. MaxCrashes
  BY <1>12 DEF Typed, TypeOK, CandidatesAreReal, history
<1>14. Typed'
  BY <1>5, <1>7, <1>10, <1>11, <1>12, <1>13, TypedStep DEF Carries
<1> QED
  BY <1>3, <1>7, <1>8, <1>14

\* Steps of a replacement that change rows.
LEMMA RowStep ==
    ASSUME Typed, NEW q \in Procs, NEW r \in Task, Shape(r), Turns(q, r),
           asset' \in [Assets -> Row], ServedHasFile',
           UNCHANGED <<cands, worker, history, asked>>, lock' \in {lock, q, None}
    PROVE  Typed'
<1>1. /\ cands' \in [Candidates -> Candidate] /\ CandidatesAreReal'
      /\ worker' \in [Workers -> Worker] /\ stranded' \subseteq Assets
      /\ crossed' \subseteq Tracks /\ asked' \in 0 .. MaxAsked /\ crashes' \in 0 .. MaxCrashes
  BY DEF Typed, TypeOK, CandidatesAreReal, history
<1> QED
  BY <1>1, TypedStep

LEMMA ImportNewTask ==
    ASSUME Typed, NEW q \in Procs, ImportNew(q)
    PROVE  /\ Typed'
           /\ \E r \in Task : Carries(q, r, "swap") /\ r.new = proc[q].new
           /\ proc[q].new \in Assets
           /\ asset' = [asset EXCEPT ![proc[q].new] =
                           [asset[proc[q].new] EXCEPT !.state = "AVAILABLE",
                                                      !.file = proc[q].video]]
<1> DEFINE p == proc[q]
           n == p.new
           row == [asset[n] EXCEPT !.state = "AVAILABLE", !.file = p.video]
           r == [p EXCEPT !.pc = "swap", !.new = n]
<1>1. /\ p \in Task /\ Shape(p) /\ p.pc = "import" /\ p.pc \in Replacing
      /\ asset \in [Assets -> Row] /\ n \in Assets /\ n # None /\ p.video \in Videos
      /\ p.video # None
  BY DEF Typed, TypeOK, At, ImportNew, Shape, Replacing, Task
<1>2. asset' = [asset EXCEPT ![n] = row]
      /\ proc' = [proc EXCEPT ![q] = [p EXCEPT !.pc = "swap"]]
  BY DEF ImportNew
<1>3. [p EXCEPT !.pc = "swap"] = r
  BY <1>1 DEF Task
<1>4. Turns(q, r) /\ "swap" \in Replacing
  BY <1>2, <1>3 DEF Turns, Replacing
<1>5. n \in Assets \cup {None}
  BY <1>1
<1>6. \E s \in Task : Carries(q, s, "swap") /\ s.new = n
  BY <1>1, <1>4, <1>5, CarriesOn
<1>7. row \in Row /\ row.file # None
  <2>1. asset[n] \in Row
    BY <1>1
  <2>2. \A x \in Row, v \in Videos :
           /\ [x EXCEPT !.state = "AVAILABLE", !.file = v] \in Row
           /\ [x EXCEPT !.state = "AVAILABLE", !.file = v].file = v
    BY DEF Row, MediaState, Served
  <2> QED
    BY <1>1, <2>1, <2>2
<1> HIDE DEF row
<1>8. asset' \in [Assets -> Row]
  BY <1>1, <1>2, <1>7
<1>9. ServedHasFile'
  <2> SUFFICES ASSUME NEW b \in Assets, asset'[b].live, asset'[b].state \in Served
               PROVE  asset'[b].file # None
    BY DEF ServedHasFile, Live
  <2>1. b = n => asset'[b] = row
    BY <1>1, <1>2
  <2>2. b # n => asset'[b] = asset[b]
    BY <1>1, <1>2
  <2> QED
    BY <1>7, <2>1, <2>2 DEF Typed, ServedHasFile, Live
<1>10. UNCHANGED <<cands, lock, worker, history, asked>>
  BY DEF ImportNew
<1>11. Typed'
  BY <1>4, <1>6, <1>8, <1>9, <1>10, RowStep DEF Carries
<1> QED
  BY <1>1, <1>2, <1>6, <1>11 DEF row

LEMMA ReplaceFailsTask ==
    ASSUME Typed, NEW q \in Procs, ReplaceFails(q)
    PROVE  /\ Typed' /\ Ends(q) /\ Turns(q, Ended(q))
           /\ \/ asset' = asset
              \/ /\ proc[q].pc = "import" /\ proc[q].new \in Assets
                 /\ asset' = [asset EXCEPT ![proc[q].new] = NoRow]
<1> DEFINE p == proc[q]
           n == p.new
<1>1. /\ p \in Task /\ Shape(p) /\ p.pc \in {"fetch", "import"}
      /\ asset \in [Assets -> Row] /\ n \in Assets \cup {None}
  BY DEF Typed, TypeOK, ReplaceFails, Shape, Task
<1>2. \/ asset' = asset
      \/ p.pc = "import" /\ n \in Assets /\ asset' = [asset EXCEPT ![n] = NoRow]
  BY <1>1, Constants DEF ReplaceFails, Shape
<1>3. /\ Ends(q) /\ Turns(q, Ended(q)) /\ lock' \in {lock, q, None}
      /\ UNCHANGED <<cands, worker, history, asked>>
  BY DEF ReplaceFails, Ends, Turns
<1>4. Ended(q) \in Task /\ Shape(Ended(q))
  BY EndedTask
<1>5. asset' \in [Assets -> Row]
  BY <1>1, <1>2, IdleFacts
<1>6. ServedHasFile'
  <2> SUFFICES ASSUME NEW b \in Assets, asset'[b].live, asset'[b].state \in Served
               PROVE  asset'[b].file # None
    BY DEF ServedHasFile, Live
  <2>1. asset'[b] = asset[b] \/ asset'[b] = NoRow
    BY <1>1, <1>2
  <2>2. ~NoRow.live
    BY DEF NoRow
  <2> QED
    BY <2>1, <2>2 DEF Typed, ServedHasFile, Live
<1>7. Typed'
  BY <1>3, <1>4, <1>5, <1>6, RowStep
<1> QED
  BY <1>2, <1>3, <1>7

LEMMA SwapTask ==
    ASSUME Typed, NEW q \in Procs, Swap(q)
    PROVE  /\ Typed'
           /\ \E r \in Task : Carries(q, r, "cleanup")
           /\ proc[q].aid \in Live /\ proc[q].new \in Assets
           /\ \A b \in Assets \ {proc[q].aid, proc[q].new} : asset'[b] = asset[b]
           /\ proc[q].aid # proc[q].new =>
                 /\ asset'[proc[q].aid] = [asset[proc[q].aid] EXCEPT !.track = None]
                 /\ asset'[proc[q].new] = [asset[proc[q].new] EXCEPT !.pending = FALSE]
<1> DEFINE p == proc[q]
           n == p.new
           a == p.aid
           r == [p EXCEPT !.pc = "cleanup", !.new = n]
<1>1. /\ p \in Task /\ Shape(p) /\ p.pc = "swap" /\ p.pc \in Replacing
      /\ asset \in [Assets -> Row] /\ n \in Assets /\ a \in Assets /\ asset[a].live
  <2>1. /\ p \in Task /\ Shape(p) /\ p.pc = "swap" /\ asset \in [Assets -> Row]
        /\ asset[a].live
    BY DEF Typed, TypeOK, At, Swap
  <2>2. a # None /\ n # None
    BY <2>1 DEF Shape, Holding, Replacing, Searching, Opened
  <2> QED
    BY <2>1, <2>2 DEF Task, Replacing
<1>2. /\ asset' = [b \in Assets |->
                   IF b = a THEN [asset[b] EXCEPT !.track = None]
                   ELSE IF b = n THEN [asset[b] EXCEPT !.pending = FALSE]
                   ELSE asset[b]]
      /\ proc' = [proc EXCEPT ![q] = [p EXCEPT !.pc = "cleanup"]]
  BY DEF Swap
<1>3. [p EXCEPT !.pc = "cleanup"] = r
  BY <1>1 DEF Task
<1>4. Turns(q, r) /\ "cleanup" \in Replacing
  BY <1>2, <1>3 DEF Turns, Replacing
<1>5. n \in Assets \cup {None}
  BY <1>1
<1>6. \E s \in Task : Carries(q, s, "cleanup") /\ s.new = n
  BY ZenonT(60), <1>1, <1>4, <1>5, CarriesOn
<1>c. /\ \A b \in Assets \ {a, n} : asset'[b] = asset[b]
      /\ asset'[a] = [asset[a] EXCEPT !.track = None]
      /\ a # n => asset'[n] = [asset[n] EXCEPT !.pending = FALSE]
  BY <1>1, <1>2
<1> DEFINE Same(x, row) == x \in Row /\ x.live = row.live /\ x.state = row.state
                           /\ x.file = row.file
<1>8. \A row \in Row : Same([row EXCEPT !.track = None], row)
                      /\ Same([row EXCEPT !.pending = FALSE], row) /\ Same(row, row)
  BY ZenonT(60) DEF Row
<1>7. \A b \in Assets : asset[b] \in Row
  BY <1>1
<1> HIDE DEF Same
<1>a. ASSUME NEW b \in Assets PROVE Same(asset'[b], asset[b])
  <2>1. CASE b \notin {a, n}
    BY <1>c, <1>7, <1>8, <2>1
  <2>2. CASE b = a
    BY <1>c, <1>7, <1>8, <2>2
  <2>3. CASE b = n /\ a # n
    BY <1>c, <1>7, <1>8, <2>3
  <2> QED
    BY <2>1, <2>2, <2>3
<1>9. \A b \in Assets : /\ asset'[b] \in Row /\ asset'[b].live = asset[b].live
                        /\ asset'[b].state = asset[b].state /\ asset'[b].file = asset[b].file
  BY <1>a DEF Same
<1>10. asset' \in [Assets -> Row]
  <2>1. DOMAIN asset' = Assets /\ asset' = [b \in Assets |-> asset'[b]]
    BY <1>1, <1>2
  <2> QED
    BY <1>9, <2>1
<1>11. ServedHasFile'
  BY <1>9 DEF Typed, ServedHasFile, Live
<1>12. UNCHANGED <<cands, lock, worker, history, asked>>
  BY DEF Swap
<1>13. Typed'
  BY <1>4, <1>6, <1>10, <1>11, <1>12, RowStep DEF Carries
<1> QED
  BY <1>1, <1>6, <1>c, <1>13 DEF Live

LEMMA CleanupTask ==
    ASSUME Typed, NEW q \in Procs, Cleanup(q)
    PROVE  /\ Typed' /\ Ends(q) /\ Turns(q, Ended(q)) /\ proc[q].aid \in Assets
           /\ asset' = [asset EXCEPT ![proc[q].aid] = NoRow]
<1> DEFINE p == proc[q]
           a == p.aid
<1>1. p \in Task /\ Shape(p) /\ p.pc = "cleanup" /\ asset \in [Assets -> Row] /\ a \in Assets
  <2>1. p \in Task /\ Shape(p) /\ p.pc = "cleanup" /\ asset \in [Assets -> Row]
    BY DEF Typed, TypeOK, At, Cleanup
  <2>2. a # None
    BY <2>1 DEF Shape, Holding, Replacing, Searching, Opened
  <2> QED
    BY <2>1, <2>2 DEF Task
<1>2. /\ asset' = [asset EXCEPT ![a] = NoRow] /\ Ends(q) /\ Turns(q, Ended(q))
      /\ UNCHANGED <<cands, lock, worker, history, asked>>
  BY DEF Cleanup, Ends, Turns
<1>3. Ended(q) \in Task /\ Shape(Ended(q))
  BY EndedTask
<1>4. asset' \in [Assets -> Row]
  BY <1>1, <1>2, IdleFacts
<1>5. ServedHasFile'
  <2> SUFFICES ASSUME NEW b \in Assets, asset'[b].live, asset'[b].state \in Served
               PROVE  asset'[b].file # None
    BY DEF ServedHasFile, Live
  <2>1. asset'[b] = asset[b] \/ asset'[b] = NoRow
    BY <1>1, <1>2
  <2>2. ~NoRow.live
    BY DEF NoRow
  <2> QED
    BY <2>1, <2>2 DEF Typed, ServedHasFile, Live
<1>6. Typed'
  BY <1>2, <1>3, <1>4, <1>5, RowStep
<1> QED
  BY <1>1, <1>2, <1>6

\* A session that fails: what is pending is rolled back.
LEMMA BreaksTask ==
    ASSUME Typed, NEW q \in Procs, Breaks(q)
    PROVE  /\ Typed'
           /\ \E r \in Task : /\ Turns(q, r) /\ Shape(r) /\ r.pc \in {"idle", "next"}
                              /\ r.gone = {} /\ r.aid = None /\ Lessens(q, r)
<1> DEFINE p == proc[q]
           r == IF p.op = "bulk" THEN IdleTask ELSE Ended(q)
<1>1. /\ r \in Task /\ Shape(r) /\ r.pc \in {"idle", "next"} /\ r.gone = {}
      /\ r.aid = None /\ Lessens(q, r)
  BY EndedTask, IdleFacts DEF IdleTask
<1>2. Turns(q, r)
  BY DEF Breaks, Turns
<1>3. /\ UNCHANGED <<db, worker, crossed, crashes, asked>> /\ lock' \in {lock, q, None}
      /\ stranded' = stranded \cup {a \in Live : a = p.aid /\ asset[a].state = "SEARCHING"}
  BY DEF Breaks
<1>4. stranded' \subseteq Assets
  BY <1>3 DEF Typed, TypeOK, Live
<1> HIDE DEF r
<1>5. Typed'
  BY <1>1, <1>2, <1>3, <1>4, QuietStep
<1> QED
  BY <1>1, <1>2, <1>5

-----------------------------------------------------------------------------
(* Workers and the process *)

\* A worker at work has a row in its hands.
WorkersHold == \A w \in Workers : worker[w].pc # "idle" => worker[w].aid # None

\* A step of a worker, or of the process.
LEMMA WorkerTyped ==
    ASSUME Typed, UNCHANGED <<cands, proc, lock, stranded, crashes, asked>>,
           asset' \in [Assets -> Row], ServedHasFile', crossed' \subseteq Tracks,
           worker' \in [Workers -> Worker]
    PROVE  Typed'
<1>1. /\ cands' \in [Candidates -> Candidate] /\ CandidatesAreReal'
      /\ proc' \in [Procs -> Task] /\ (\A q \in Procs : Shape(proc[q]))'
      /\ lock' \in Procs \cup {None} /\ stranded' \subseteq Assets
      /\ asked' \in 0 .. MaxAsked /\ crashes' \in 0 .. MaxCrashes
  BY DEF Typed, TypeOK, CandidatesAreReal
<1> QED
  BY <1>1 DEF Typed, TypeOK

LEMMA ClaimRow ==
    ASSUME Typed, WorkersHold, NEW w \in Workers, NEW a \in Assets, Claim(w, a)
    PROVE  /\ Typed' /\ WorkersHold'
           /\ a \in Live /\ asset[a].state \in Claimable /\ lock = None
           /\ asset' = [asset EXCEPT ![a] = [asset[a] EXCEPT !.state = "DOWNLOADING"]]
           /\ worker'[w].pc = "load" /\ worker'[w].aid = a /\ worker[w].pc = "idle"
           /\ \A v \in Workers \ {w} : worker'[v] = worker[v]
<1> DEFINE row == [asset[a] EXCEPT !.state = "DOWNLOADING"]
           u == [IdleWorker EXCEPT !.pc = "load", !.aid = a]
<1>1. /\ asset \in [Assets -> Row] /\ worker \in [Workers -> Worker] /\ crossed \subseteq Tracks
  BY DEF Typed, TypeOK
<1>2. /\ asset' = [asset EXCEPT ![a] = row] /\ worker' = [worker EXCEPT ![w] = u]
      /\ UNCHANGED <<cands, lock, proc, history, asked>>
      /\ asset[a].live /\ asset[a].state \in Claimable /\ lock = None /\ worker[w].pc = "idle"
  BY DEF Claim
<1>3. row \in Row /\ row.state = "DOWNLOADING"
  <2>1. asset[a] \in Row
    BY <1>1
  <2>2. \A x \in Row : /\ [x EXCEPT !.state = "DOWNLOADING"] \in Row
                       /\ [x EXCEPT !.state = "DOWNLOADING"].state = "DOWNLOADING"
    BY DEF Row, MediaState
  <2> QED
    BY <2>1, <2>2
<1>4. u \in Worker /\ u.pc = "load" /\ u.aid = a
  BY IdleFacts DEF Worker, IdleWorker
<1> HIDE DEF u
<1>5. /\ worker' \in [Workers -> Worker] /\ worker'[w] = u
      /\ \A v \in Workers \ {w} : worker'[v] = worker[v]
  BY <1>1, <1>2, <1>4
<1>6. WorkersHold'
  BY <1>4, <1>5, Constants DEF WorkersHold
<1> HIDE DEF row
<1>7. asset' \in [Assets -> Row]
  BY <1>1, <1>2, <1>3
<1>8. ServedHasFile'
  <2> SUFFICES ASSUME NEW b \in Assets, asset'[b].live, asset'[b].state \in Served
               PROVE  asset'[b].file # None
    BY DEF ServedHasFile, Live
  <2>1. asset'[b] = asset[b] \/ asset'[b] = row
    BY <1>1, <1>2
  <2> QED
    BY <1>3, <2>1 DEF Typed, ServedHasFile, Live, Served
<1>9. Typed'
  BY <1>1, <1>2, <1>5, <1>7, <1>8, WorkerTyped DEF history
<1> QED
  BY <1>2, <1>4, <1>5, <1>6, <1>9 DEF row, Live

LEMMA LoadRow ==
    ASSUME Typed, WorkersHold, NEW w \in Workers, Load(w)
    PROVE  /\ Typed' /\ WorkersHold' /\ worker[w].aid \in Assets
           /\ asset[worker[w].aid].live =>
                 /\ worker'[w].pc = "fetch" /\ worker'[w].aid = worker[w].aid
                 /\ worker'[w].seen = asset[worker[w].aid]
                 /\ asset[worker[w].aid].cand # None =>
                       worker'[w].video = cands[asset[worker[w].aid].cand].video
           /\ ~asset[worker[w].aid].live => worker'[w] = IdleWorker
           /\ \A v \in Workers \ {w} : worker'[v] = worker[v]
<1> DEFINE a == worker[w].aid
           c == asset[a].cand
           x == IF c = None THEN None ELSE cands[c].video
           u == IF asset[a].live
                THEN [worker[w] EXCEPT !.pc = "fetch", !.seen = asset[a], !.video = x]
                ELSE IdleWorker
<1>1. /\ asset \in [Assets -> Row] /\ worker \in [Workers -> Worker] /\ crossed \subseteq Tracks
      /\ cands \in [Candidates -> Candidate]
  BY DEF Typed, TypeOK
<1>2. /\ worker[w].pc = "load" /\ worker' = [worker EXCEPT ![w] = u]
      /\ UNCHANGED <<db, lock, proc, history, asked>>
  BY DEF Load
<1>3. worker[w] \in Worker /\ a \in Assets /\ asset[a] \in Row
  BY <1>1, <1>2 DEF WorkersHold, Worker
<1>4. c \in Candidates \cup {None} /\ x \in Videos \cup {None}
  BY <1>1, <1>3 DEF Row, Candidate
<1> HIDE DEF x
<1>5. /\ u \in Worker
      /\ asset[a].live => u.pc = "fetch" /\ u.aid = a /\ u.seen = asset[a] /\ u.video = x
      /\ ~asset[a].live => u = IdleWorker
  BY <1>3, <1>4, IdleFacts DEF Worker
<1> HIDE DEF u
<1>6. /\ worker' \in [Workers -> Worker] /\ worker'[w] = u
      /\ \A v \in Workers \ {w} : worker'[v] = worker[v]
  BY <1>1, <1>2, <1>5
<1>7. WorkersHold'
  BY <1>3, <1>5, <1>6, Constants DEF WorkersHold, IdleWorker
<1>8. ServedHasFile'
  BY <1>2 DEF Typed, ServedHasFile, Live, db
<1>9. Typed'
  BY <1>1, <1>2, <1>6, <1>8, WorkerTyped DEF history, db
<1> QED
  BY <1>3, <1>5, <1>6, <1>7, <1>9 DEF x

\* What an attempt leaves behind it.
Concluded(w, state, video) ==
    LET a == worker[w].aid
    IN  /\ a \in Assets /\ lock = None /\ UNCHANGED <<cands, lock, proc, stranded>>
        /\ worker[w].pc = "fetch" /\ worker'[w] = IdleWorker
        /\ \A v \in Workers \ {w} : worker'[v] = worker[v]
        /\ \A b \in Assets \ {a} : asset'[b] = asset[b]
        /\ ~asset[a].live => asset'[a] = asset[a] /\ crossed' = crossed
        /\ asset[a].live =>
              /\ asset'[a] = [asset[a] EXCEPT !.state = state,
                                   !.file = IF video = None THEN asset[a].file ELSE video]
              /\ asset'[a].live /\ asset'[a].track = asset[a].track
              /\ asset'[a].state = state /\ asset'[a].pending = asset[a].pending
              /\ asset'[a].file = IF video = None THEN asset[a].file ELSE video
              /\ asset'[a].cand = asset[a].cand /\ asset'[a].source = asset[a].source
              /\ crossed' = IF asset[a] # worker[w].seen /\ asset[a].track # None
                            THEN crossed \cup {asset[a].track} ELSE crossed

LEMMA ConcludeRow ==
    ASSUME Typed, WorkersHold, NEW w \in Workers, worker[w].pc = "fetch",
           NEW state \in {"AVAILABLE", "INCOMPLETE", "DOWNLOAD_FAILED", "QUEUED"},
           NEW video \in Videos \cup {None}, state \in Served => video # None,
           Conclude(w, state, video)
    PROVE  Typed' /\ WorkersHold' /\ Concluded(w, state, video)
<1> DEFINE a == worker[w].aid
           file == IF video = None THEN asset[a].file ELSE video
           row == [asset[a] EXCEPT !.state = state, !.file = file]
<1>1. /\ asset \in [Assets -> Row] /\ worker \in [Workers -> Worker] /\ crossed \subseteq Tracks
  BY DEF Typed, TypeOK
<1>2. worker[w] \in Worker /\ a \in Assets /\ asset[a] \in Row
  BY <1>1 DEF WorkersHold, Worker
<1>3. file \in Videos \cup {None}
  BY <1>2 DEF Row
<1>4. state \in MediaState
  BY DEF MediaState, Claimable, Served
<1>5. /\ lock = None /\ worker' = [worker EXCEPT ![w] = IdleWorker]
      /\ UNCHANGED <<cands, lock, proc, stranded, crashes, asked>>
      /\ asset[a].live =>
            /\ asset' = [asset EXCEPT ![a] = row]
            /\ crossed' = IF asset[a] # worker[w].seen /\ asset[a].track # None
                          THEN crossed \cup {asset[a].track} ELSE crossed
      /\ ~asset[a].live => UNCHANGED <<asset, crossed>>
  BY DEF Conclude
<1>6. state \in Served => file # None
  OBVIOUS
<1> HIDE DEF file
<1>7. /\ row \in Row /\ row.live = asset[a].live /\ row.track = asset[a].track
      /\ row.state = state /\ row.pending = asset[a].pending /\ row.file = file
      /\ row.cand = asset[a].cand /\ row.source = asset[a].source
  BY <1>2, <1>3, <1>4 DEF Row
<1>8. /\ worker' \in [Workers -> Worker] /\ worker'[w] = IdleWorker
      /\ \A v \in Workers \ {w} : worker'[v] = worker[v]
  BY <1>1, <1>5, IdleFacts
<1>9. WorkersHold'
  BY <1>8 DEF WorkersHold, IdleWorker
<1> HIDE DEF row
<1>10. /\ asset' \in [Assets -> Row] /\ crossed' \subseteq Tracks
       /\ \A b \in Assets \ {a} : asset'[b] = asset[b]
       /\ asset[a].live => asset'[a] = row
       /\ ~asset[a].live => asset'[a] = asset[a]
  BY <1>1, <1>2, <1>5, <1>7 DEF Row
<1>11. ServedHasFile'
  <2> SUFFICES ASSUME NEW b \in Assets, asset'[b].live, asset'[b].state \in Served
               PROVE  asset'[b].file # None
    BY DEF ServedHasFile, Live
  <2>1. asset'[b] = asset[b] \/ asset'[b] = row
    BY <1>10
  <2> QED
    BY <1>6, <1>7, <2>1 DEF Typed, ServedHasFile, Live
<1>12. Typed'
  BY SMTT(60), <1>5, <1>8, <1>10, <1>11, WorkerTyped
<1>13. Concluded(w, state, video)
  BY <1>2, <1>5, <1>7, <1>8, <1>10 DEF Concluded, row, file
<1> QED
  BY <1>9, <1>12, <1>13

\* The ends an attempt has.
LEMMA AttemptEnds ==
    ASSUME Typed, WorkersHold, NEW w \in Workers, Import(w) \/ Fail(w)
    PROVE  /\ Typed' /\ WorkersHold'
           /\ \/ /\ worker[w].video \in Videos
                 /\ \E state \in Served : Concluded(w, state, worker[w].video)
              \/ \E state \in {"DOWNLOAD_FAILED", "QUEUED"} : Concluded(w, state, None)
<1>1. worker[w].video \in Videos \cup {None} /\ worker[w].pc = "fetch"
  BY DEF Typed, TypeOK, Worker, Import, Fail
<1>2. ASSUME NEW state \in {"AVAILABLE", "INCOMPLETE"}, worker[w].video # None,
             Conclude(w, state, worker[w].video)
      PROVE  /\ Typed' /\ WorkersHold'
             /\ worker[w].video \in Videos /\ state \in Served
             /\ Concluded(w, state, worker[w].video)
  <2> DEFINE v == worker[w].video
  <2>1. v \in Videos \cup {None} /\ v # None /\ Conclude(w, state, v)
    BY <1>1, <1>2
  <2> HIDE DEF v
  <2>2. Typed' /\ WorkersHold' /\ Concluded(w, state, v)
    BY <1>1, <2>1, ConcludeRow
  <2> QED
    BY <2>1, <2>2 DEF v, Served
<1>3. ASSUME NEW state \in {"DOWNLOAD_FAILED", "QUEUED"}, Conclude(w, state, None)
      PROVE  Typed' /\ WorkersHold' /\ Concluded(w, state, None)
  <2>1. None \in Videos \cup {None} /\ state \notin Served
    BY DEF Served
  <2> QED
    BY <1>1, <1>3, <2>1, ConcludeRow
<1>4. CASE Import(w)
  <2>1. worker[w].video # None
        /\ \E state \in {"AVAILABLE", "INCOMPLETE"} : Conclude(w, state, worker[w].video)
    BY <1>4 DEF Import
  <2> QED
    BY <1>2, <2>1
<1>5. CASE Fail(w)
  <2>1. \E state \in {"DOWNLOAD_FAILED", "QUEUED"} : Conclude(w, state, None)
    BY <1>5 DEF Fail
  <2> QED
    BY <1>3, <2>1
<1> QED
  BY <1>4, <1>5

\* What recovery leaves of the rows.
LEMMA RestartRows ==
    ASSUME Typed, WorkersHold, Restart
    PROVE  /\ Typed' /\ WorkersHold'
           /\ lock' = None /\ proc' = [q \in Procs |-> IdleTask] /\ cands' = cands
           /\ worker' = [w \in Workers |-> IdleWorker] /\ crossed' = crossed
           /\ stranded' = stranded \cup {a \in Live : asset[a].state = "SEARCHING"}
           /\ \A a \in Assets :
                 /\ asset[a].pending => asset'[a] = NoRow
                 /\ ~asset[a].pending =>
                       /\ asset'[a] = IF asset[a].state = "DOWNLOADING"
                                      THEN [asset[a] EXCEPT !.state = "QUEUED"] ELSE asset[a]
                       /\ asset'[a].live = asset[a].live /\ asset'[a].track = asset[a].track
                       /\ asset'[a].file = asset[a].file /\ asset'[a].cand = asset[a].cand
                       /\ asset'[a].source = asset[a].source /\ asset'[a].pending = FALSE
                       /\ asset'[a].state = IF asset[a].state = "DOWNLOADING" THEN "QUEUED"
                                            ELSE asset[a].state
<1>1. /\ asset \in [Assets -> Row] /\ stranded \subseteq Assets /\ crossed \subseteq Tracks
      /\ crashes \in 0 .. MaxCrashes /\ asked \in 0 .. MaxAsked
      /\ cands \in [Candidates -> Candidate] /\ MaxCrashes \in Nat
  BY SearchAssumption DEF Typed, TypeOK
<1>2. /\ crashes < MaxCrashes /\ crashes' = crashes + 1
      /\ asset' = [a \in Assets |->
            IF asset[a].pending THEN NoRow
            ELSE IF asset[a].state = "DOWNLOADING" THEN [asset[a] EXCEPT !.state = "QUEUED"]
            ELSE asset[a]]
      /\ stranded' = stranded \cup {a \in Live : asset[a].state = "SEARCHING"}
      /\ proc' = [q \in Procs |-> IdleTask] /\ worker' = [w \in Workers |-> IdleWorker]
      /\ lock' = None /\ UNCHANGED <<cands, crossed, asked>>
  BY DEF Restart
<1>3. ASSUME NEW row \in Row
      PROVE  LET x == [row EXCEPT !.state = "QUEUED"]
             IN  /\ x \in Row /\ x.live = row.live /\ x.track = row.track /\ x.file = row.file
                 /\ x.cand = row.cand /\ x.source = row.source /\ x.pending = row.pending
                 /\ x.state = "QUEUED"
  BY DEF Row, MediaState, Claimable
<1>4. ASSUME NEW a \in Assets
      PROVE  /\ asset'[a] \in Row
             /\ asset[a].pending => asset'[a] = NoRow
             /\ ~asset[a].pending =>
                   /\ asset'[a] = IF asset[a].state = "DOWNLOADING"
                                  THEN [asset[a] EXCEPT !.state = "QUEUED"] ELSE asset[a]
                   /\ asset'[a].live = asset[a].live /\ asset'[a].track = asset[a].track
                   /\ asset'[a].file = asset[a].file /\ asset'[a].cand = asset[a].cand
                   /\ asset'[a].source = asset[a].source /\ asset'[a].pending = FALSE
                   /\ asset'[a].state = IF asset[a].state = "DOWNLOADING" THEN "QUEUED"
                                        ELSE asset[a].state
  <2>1. asset[a] \in Row /\ NoRow \in Row
    BY <1>1, IdleFacts
  <2>2. asset'[a] = IF asset[a].pending THEN NoRow
                    ELSE IF asset[a].state = "DOWNLOADING" THEN [asset[a] EXCEPT !.state = "QUEUED"]
                    ELSE asset[a]
    BY <1>2
  <2>3. CASE asset[a].pending
    BY <2>1, <2>2, <2>3
  <2>4. CASE ~asset[a].pending /\ asset[a].state = "DOWNLOADING"
    BY <1>3, <2>1, <2>2, <2>4
  <2>5. CASE ~asset[a].pending /\ asset[a].state # "DOWNLOADING"
    <3>1. asset'[a] = asset[a] /\ asset[a].pending = FALSE
      BY <2>1, <2>2, <2>5 DEF Row
    <3> QED
      BY <2>1, <2>5, <3>1
  <2> QED
    BY <2>3, <2>4, <2>5
<1>5. asset' \in [Assets -> Row]
  <2>1. asset' = [a \in Assets |-> asset'[a]]
    BY <1>2
  <2> QED
    BY <1>4, <2>1
<1>6. ServedHasFile'
  <2> SUFFICES ASSUME NEW b \in Assets, asset'[b].live, asset'[b].state \in Served
               PROVE  asset'[b].file # None
    BY DEF ServedHasFile, Live
  <2>0. ~NoRow.live
    BY DEF NoRow
  <2>1. ~asset[b].pending
    BY <1>4, <2>0
  <2> QED
    BY ZenonT(60), <1>4, <2>1 DEF Typed, ServedHasFile, Live, Served
<1>7. /\ proc' \in [Procs -> Task] /\ \A q \in Procs : Shape(proc'[q])
      /\ worker' \in [Workers -> Worker]
  BY <1>2, IdleFacts
<1>8. WorkersHold'
  BY <1>2 DEF WorkersHold, IdleWorker
<1>9. crashes' \in 0 .. MaxCrashes
  BY <1>1, <1>2
<1>10. stranded' \subseteq Assets
  BY <1>1, <1>2 DEF Live
<1>11. TypeOK'
  BY <1>1, <1>2, <1>5, <1>7, <1>9, <1>10 DEF TypeOK
<1>12. CandidatesAreReal'
  BY <1>2 DEF Typed, CandidatesAreReal
<1>13. Typed'
  BY <1>6, <1>7, <1>11, <1>12 DEF Typed
<1> QED
  BY <1>2, <1>4, <1>8, <1>13

-----------------------------------------------------------------------------
(* Type correctness *)

Base == Typed /\ WorkersHold

LEMMA InitBase == Init => Base
<1> SUFFICES ASSUME Init PROVE Base
  OBVIOUS
<1>1. TypeOK
  BY IdleFacts, SearchAssumption DEF Init, TypeOK
<1>2. \A q \in Procs : Shape(proc[q])
  BY IdleFacts DEF Init
<1>3. ServedHasFile /\ CandidatesAreReal /\ WorkersHold
  BY DEF Init, ServedHasFile, CandidatesAreReal, WorkersHold, Live, NoRow, IdleWorker
<1> QED
  BY <1>1, <1>2, <1>3 DEF Base, Typed

\* A task's step leaves the workers alone.
LEMMA TaskTyped ==
    ASSUME Base, NEW q \in Procs,
           Asked(q) \/ SearchStep(q) \/ ChoiceStep(q) \/ Breaks(q)
    PROVE  Base'
<1> USE DEF Base
<1>1. CASE Asked(q)
  <2>1. ASSUME NEW t \in Tracks, NEW op \in {"run", "again"}, Begin(q, t, op)
        PROVE  Typed' /\ worker' = worker
    BY <2>1, BeginTask DEF Begin
  <2>2. ASSUME BulkList(q) PROVE Typed' /\ worker' = worker
    BY <2>2, BulkListTask DEF BulkList
  <2>3. ASSUME MonitorTick(q) PROVE Typed' /\ worker' = worker
    BY <2>3, MonitorTickTask DEF MonitorTick
  <2>4. ASSUME NEW c \in Candidates, SelectBegin(q, c) PROVE Typed' /\ worker' = worker
    BY <2>4, SelectBeginTask DEF SelectBegin
  <2>5. ASSUME NEW c \in Candidates, ReplaceBegin(q, c) PROVE Typed' /\ worker' = worker
    BY <2>5, ReplaceBeginTask DEF ReplaceBegin
  <2> QED
    BY <1>1, <2>1, <2>2, <2>3, <2>4, <2>5 DEF Asked, WorkersHold
<1>2. CASE SearchStep(q)
  <2>1. ASSUME OpenRefused(q) PROVE Typed' /\ worker' = worker
    BY <2>1, EndTyped DEF OpenRefused
  <2>2. ASSUME Open(q) PROVE Typed' /\ worker' = worker
    BY ZenonT(60), <2>2, OpenTask DEF Open
  <2>3. ASSUME Discover(q) PROVE Typed' /\ worker' = worker
    BY <2>3, DiscoverTask DEF Discover
  <2>4. ASSUME DiscoverFails(q) PROVE Typed' /\ worker' = worker
    BY <2>4, DiscoverFailsTask DEF DiscoverFails
  <2>5. ASSUME Wipe(q) PROVE Typed' /\ worker' = worker
    BY <2>5, WipeTask DEF Wipe
  <2>6. ASSUME NothingFound(q) PROVE Typed' /\ worker' = worker
    BY <2>6, NothingFoundTask DEF NothingFound, Settle
  <2>7. ASSUME Found(q) PROVE Typed' /\ worker' = worker
    BY ZenonT(60), <2>7, FoundTask DEF Found, Settle
  <2>8. ASSUME BulkNext(q) PROVE Typed' /\ worker' = worker
    BY <2>8, BulkNextTask DEF BulkNext
  <2>9. ASSUME MonitorNext(q) PROVE Typed' /\ worker' = worker
    BY <2>9, MonitorNextTask DEF MonitorNext
  <2>10. ASSUME Compare(q) PROVE Typed' /\ worker' = worker
    BY <2>10, CompareTask DEF Compare
  <2> QED
    BY <1>2, <2>1, <2>2, <2>3, <2>4, <2>5, <2>6, <2>7, <2>8, <2>9, <2>10
       DEF SearchStep, WorkersHold
<1>3. CASE ChoiceStep(q)
  <2>1. ASSUME SelectRefused(q) PROVE Typed' /\ worker' = worker
    BY <2>1, EndTyped DEF SelectRefused
  <2>2. ASSUME SelectCommit(q) PROVE Typed' /\ worker' = worker
    BY <2>2, SelectCommitTask DEF SelectCommit, Settle
  <2>3. ASSUME Create(q) PROVE Typed' /\ worker' = worker
    BY <2>3, CreateTask DEF Create
  <2>4. ASSUME Fetched(q) PROVE Typed' /\ worker' = worker
    BY <2>4, FetchedTask DEF Fetched
  <2>5. ASSUME ImportNew(q) PROVE Typed' /\ worker' = worker
    BY <2>5, ImportNewTask DEF ImportNew
  <2>6. ASSUME ReplaceFails(q) PROVE Typed' /\ worker' = worker
    BY <2>6, ReplaceFailsTask DEF ReplaceFails
  <2>7. ASSUME Swap(q) PROVE Typed' /\ worker' = worker
    BY <2>7, SwapTask DEF Swap
  <2>8. ASSUME Cleanup(q) PROVE Typed' /\ worker' = worker
    BY <2>8, CleanupTask DEF Cleanup
  <2> QED
    BY <1>3, <2>1, <2>2, <2>3, <2>4, <2>5, <2>6, <2>7, <2>8 DEF ChoiceStep, WorkersHold
<1>4. CASE Breaks(q)
  BY <1>4, BreaksTask DEF Breaks, WorkersHold
<1> QED
  BY <1>1, <1>2, <1>3, <1>4

LEMMA NextBase == Base /\ [Next]_vars => Base'
<1> SUFFICES ASSUME Base, [Next]_vars PROVE Base'
  OBVIOUS
<1>1. ASSUME NEW q \in Procs, Asked(q) \/ SearchStep(q) \/ ChoiceStep(q) \/ Breaks(q)
      PROVE  Base'
  BY <1>1, TaskTyped
<1>2. ASSUME NEW w \in Workers, Works(w) PROVE Base'
  BY <1>2, LoadRow, AttemptEnds DEF Works, Base
<1>3. ASSUME NEW w \in Workers, NEW a \in Assets, Claim(w, a) PROVE Base'
  BY <1>3, ClaimRow DEF Base
<1>4. ASSUME Restart PROVE Base'
  BY <1>4, RestartRows DEF Base
<1>5. ASSUME UNCHANGED vars PROVE Base'
  BY <1>5 DEF Base, Typed, TypeOK, ServedHasFile, CandidatesAreReal, WorkersHold, Live,
               vars, db, history
<1> QED
  BY <1>1, <1>2, <1>3, <1>4, <1>5 DEF Next

LEMMA BaseHolds == Spec => []Base
BY InitBase, NextBase, PTL DEF Spec

\* Types: every row, candidate, task and worker is one the tables can hold.
THEOREM TypeCorrect == Spec => []TypeOK
<1>1. Base => TypeOK
  BY DEF Base, Typed
<1> QED
  BY <1>1, BaseHolds, PTL

-----------------------------------------------------------------------------
(* What stands behind a row that a task holds on to                        *)
(*                                                                         *)
(* A task keeps the id of a row across steps in which others may drop,     *)
(* retire or delete it, and an id is given again once no higher row is     *)
(* left.  That never happens to an id a task still holds: when its row is  *)
(* no longer the track's, a row of the track with a file and at least      *)
(* that id is.  It is also why a track with a file keeps one.              *)

Secure(t, a) ==
    \E b \in Live : /\ a <= b /\ asset[b].track = t
                    /\ ~asset[b].pending /\ asset[b].file # None

\* A file, or a replacement under way, has such a row behind it.
Backed ==
    \A b \in Live : asset[b].track \in Tracks /\ (asset[b].file # None \/ asset[b].pending)
                     => Secure(asset[b].track, None)

Anchored(t, a) ==
    \/ asset[a].live /\ asset[a].track = t
    \/ (asset[a].live => asset[a].track = None) /\ Secure(t, a)

\* The rows a task holds on to.
Handles(p) == {a \in Assets : a = p.aid \/ (p.pc \in {"import", "swap"} /\ a = p.new)}

Anchors(p) ==
    /\ \A a \in Handles(p) : Anchored(p.track, a)
    /\ p.aid # None =>
          /\ asset[p.aid].live /\ asset[p.aid].pending => Secure(p.track, p.aid)
          /\ p.was.file # None => Secure(p.track, p.aid)
    /\ p.pc = "cleanup" => (asset[p.aid].live => asset[p.aid].track = None)
    /\ p.pc \in {"import", "swap"} =>
          /\ p.aid < p.new
          /\ asset[p.new].live => asset[p.new].pending
    /\ p.pc = "swap" => (asset[p.new].live => asset[p.new].file # None)

\* Tasks that hold the same row are about the same track, and no two have made
\* the same new one.
Apart(p, r) ==
    /\ \A a \in Handles(p) \cap Handles(r) : p.track = r.track
    /\ p.pc \in {"import", "swap"} /\ r.pc \in {"import", "swap"} => p.new # r.new

Grounded ==
    /\ Backed
    /\ \A q \in Procs : Anchors(proc[q])
    /\ \A p, q \in Procs : p # q => Apart(proc[p], proc[q])

\* What any step does to the rows: ids are given in order, a row that goes was
\* a replacement's or no track's, and what stays may only leave its track.
Moved ==
    /\ asset' \in [Assets -> Row]
    /\ \A b \in Assets :
          /\ asset'[b].live /\ asset[b].live =>
                /\ asset'[b].track \in {asset[b].track, None}
                /\ asset'[b].pending => asset[b].pending
                /\ asset[b].file # None => asset'[b].file # None
          /\ asset'[b].live /\ ~asset[b].live => \A u \in Live : u < b
          /\ ~asset'[b].live /\ asset[b].live => asset[b].pending \/ asset[b].track = None

SecureStays == \A t \in Tracks, a \in Nat : Secure(t, a) => Secure(t, a)'

StaysGrounded == Grounded' /\ SecureStays

\* A row a task holds stays its track's, or another one stands for it.
LEMMA HandleStays ==
    ASSUME Typed, Moved, SecureStays, NEW t \in Tracks, NEW a \in Assets, Anchored(t, a),
           asset[a].live /\ asset[a].pending => Secure(t, a) \/ asset'[a].live,
           asset[a].live /\ asset[a].track = t /\ asset'[a].live
              => asset'[a].track = t \/ Secure(t, a)'
    PROVE  /\ Anchored(t, a)'
           /\ asset'[a].live => asset[a].live
<1>1. a \in Nat /\ t # None /\ asset \in [Assets -> Row] /\ Assets \subseteq Nat
  BY Constants DEF Typed, TypeOK
<1>2. Secure(t, a) => Secure(t, a)'
  BY <1>1 DEF SecureStays
<1>3. CASE asset[a].live /\ asset[a].track = t
  <2>1. CASE asset'[a].live
    <3>1. asset'[a].track = t \/ (asset'[a].track = None /\ Secure(t, a)')
      BY <1>3, <2>1 DEF Moved
    <3> QED
      BY <1>3, <2>1, <3>1 DEF Anchored
  <2>2. CASE ~asset'[a].live
    <3>1. Secure(t, a)
      BY <1>1, <1>3, <2>2 DEF Moved
    <3> QED
      BY <1>2, <2>2, <3>1 DEF Anchored
  <2> QED
    BY <2>1, <2>2
<1>4. CASE (asset[a].live => asset[a].track = None) /\ Secure(t, a)
  <2>1. asset'[a].live => asset[a].live
    <3> SUFFICES ASSUME asset'[a].live, ~asset[a].live PROVE FALSE
      OBVIOUS
    <3>1. PICK b \in Live : a <= b
      BY <1>4 DEF Secure
    <3>2. b < a /\ b \in Nat
      BY <1>1, <3>1 DEF Moved, Live
    <3> QED
      BY <1>1, <3>1, <3>2
  <2>2. asset'[a].live => asset'[a].track = None
    BY <1>4, <2>1 DEF Moved
  <2> QED
    BY <1>2, <1>4, <2>1, <2>2 DEF Anchored
<1> QED
  BY <1>3, <1>4 DEF Anchored

\* A file stays backed.
LEMMA BackedStays ==
    ASSUME Typed, Moved, SecureStays, Backed,
           \A b \in Assets, t \in Tracks :
              asset'[b].live /\ ~asset[b].live /\ asset'[b].track = t =>
                 \/ ~asset'[b].pending /\ asset'[b].file = None
                 \/ Secure(t, None)
    PROVE  Backed'
<1> SUFFICES ASSUME NEW b \in Assets, NEW t \in Tracks, asset'[b].live,
                    asset'[b].track = t, asset'[b].file # None \/ asset'[b].pending
             PROVE  Secure(t, None)'
  BY DEF Backed, Live, Secure
<1>1. None \in Nat /\ b \in Nat /\ None <= b /\ None \notin Tracks
  BY Constants
<1>3. Secure(t, None) => Secure(t, None)'
  BY <1>1 DEF SecureStays
<1>4. CASE asset'[b].file # None /\ ~asset'[b].pending
  BY <1>1, <1>4 DEF Secure, Live
<1>5. CASE asset'[b].pending
  <2>1. CASE asset[b].live
    <3>1. asset[b].track = t /\ asset[b].pending /\ b \in Live
      BY <1>1, <1>5, <2>1 DEF Moved, Live
    <3> QED
      BY <1>3, <3>1 DEF Backed
  <2>2. CASE ~asset[b].live
    BY <1>3, <1>5, <2>2
  <2> QED
    BY <2>1, <2>2
<1> QED
  BY <1>4, <1>5

\* A task that holds a row is about a track.
LEMMA HandleFacts ==
    ASSUME Typed, NEW q \in Procs
    PROVE  /\ proc[q] \in Task /\ Shape(proc[q])
           /\ proc[q].aid # None \/ proc[q].pc \in {"import", "swap", "cleanup"} =>
                 /\ proc[q].aid \in Assets /\ proc[q].track \in Tracks
                 /\ proc[q].pc \in Holding
           /\ proc[q].pc \in {"import", "swap"} => proc[q].new \in Assets
           /\ Handles(proc[q]) # {} => proc[q].track \in Tracks
<1> DEFINE p == proc[q]
<1>1. p \in Task /\ Shape(p)
  BY DEF Typed, TypeOK
<1>2. p.pc \in {"import", "swap", "cleanup"} => p.aid # None
  BY <1>1 DEF Shape, Holding, Searching, Opened, Replacing
<1>3. p.aid # None => p.pc \in Holding
  BY <1>1 DEF Shape, IdleTask, Task, Holding, Searching, Opened, Replacing
<1>4. p.aid # None => p.aid \in Assets /\ p.track \in Tracks
  BY <1>1, <1>3 DEF Shape, Task
<1>5. p.pc \in {"import", "swap"} => p.new \in Assets
  BY <1>1 DEF Shape, Task
<1>6. Handles(p) # {} => p.aid # None
  BY <1>2, Constants DEF Handles
<1> QED
  BY <1>1, <1>2, <1>3, <1>4, <1>5, <1>6

\* A task that does not move.
LEMMA PassiveTask ==
    ASSUME Typed, Moved, SecureStays, NEW q \in Procs, Anchors(proc[q]),
           proc'[q] = proc[q],
           proc[q].pc \in {"import", "swap"} /\ asset[proc[q].new].live =>
              \/ /\ asset'[proc[q].new].live
                 /\ asset'[proc[q].new].pending = asset[proc[q].new].pending
              \/ ~asset'[proc[q].new].live /\ Secure(proc[q].track, proc[q].new),
           \A a \in Handles(proc[q]) : asset[a].live /\ asset[a].track = proc[q].track
              /\ asset'[a].live
              => asset'[a].track = proc[q].track \/ Secure(proc[q].track, a)'
    PROVE  Anchors(proc[q])'
<1> DEFINE p == proc[q]
<1>1. /\ p \in Task /\ Shape(p)
      /\ p.aid # None \/ p.pc \in {"import", "swap", "cleanup"} =>
            p.aid \in Assets /\ p.track \in Tracks
      /\ p.pc \in {"import", "swap"} => p.new \in Assets
      /\ Handles(p) # {} => p.track \in Tracks
      /\ Assets \subseteq Nat /\ None \notin Assets
  BY HandleFacts, Constants
<1>2. PICK r \in Task : r = p
  BY <1>1
<1>3. Anchors(r) /\ proc'[q] = r
  BY <1>2
<1>4. ASSUME NEW a \in Handles(r)
      PROVE  Anchored(r.track, a)' /\ (asset'[a].live => asset[a].live)
  <2>1. a \in Assets /\ r.track \in Tracks /\ Anchored(r.track, a)
    BY <1>1, <1>2, <1>3, <1>4 DEF Handles, Anchors
  <2>2. asset[a].live /\ asset[a].pending => Secure(r.track, a) \/ asset'[a].live
    <3>1. CASE a = r.aid
      BY <1>1, <1>3, <2>1, <3>1 DEF Anchors
    <3>2. CASE a # r.aid
      BY <1>2, <1>4, <3>2 DEF Handles
    <3> QED
      BY <3>1, <3>2
  <2>3. asset[a].live /\ asset[a].track = r.track /\ asset'[a].live
           => asset'[a].track = r.track \/ Secure(r.track, a)'
    BY <1>2, <1>4
  <2> DEFINE t == r.track
  <2>4. /\ t \in Tracks /\ Anchored(t, a)
        /\ asset[a].live /\ asset[a].pending => Secure(t, a) \/ asset'[a].live
        /\ asset[a].live /\ asset[a].track = t /\ asset'[a].live
              => asset'[a].track = t \/ Secure(t, a)'
    BY <2>1, <2>2, <2>3
  <2> HIDE DEF t
  <2>5. Anchored(t, a)' /\ (asset'[a].live => asset[a].live)
    BY <2>1, <2>4, HandleStays
  <2> QED
    BY <2>5 DEF t
<1>5. \A a \in Handles(r) : Anchored(r.track, a)'
  BY <1>4
<1>6. r.aid # None =>
         /\ asset'[r.aid].live /\ asset'[r.aid].pending => Secure(r.track, r.aid)'
         /\ r.was.file # None => Secure(r.track, r.aid)'
  <2> SUFFICES ASSUME r.aid # None
               PROVE  /\ asset'[r.aid].live /\ asset'[r.aid].pending => Secure(r.track, r.aid)'
                      /\ r.was.file # None => Secure(r.track, r.aid)'
    OBVIOUS
  <2>1. r.aid \in Assets /\ r.track \in Tracks /\ r.aid \in Nat /\ r.aid \in Handles(r)
    BY <1>1, <1>2 DEF Handles
  <2>2. Secure(r.track, r.aid) => Secure(r.track, r.aid)'
    BY <2>1 DEF SecureStays
  <2>3. asset'[r.aid].live /\ asset'[r.aid].pending => asset[r.aid].live /\ asset[r.aid].pending
    BY <1>4, <2>1 DEF Moved
  <2> QED
    BY <1>3, <2>2, <2>3 DEF Anchors
<1>7. r.pc = "cleanup" => (asset'[r.aid].live => asset'[r.aid].track = None)
  <2> SUFFICES ASSUME r.pc = "cleanup", asset'[r.aid].live PROVE asset'[r.aid].track = None
    OBVIOUS
  <2>1. r.aid \in Handles(r) /\ r.aid \in Assets
    BY <1>1, <1>2 DEF Handles
  <2>2. asset[r.aid].live /\ asset[r.aid].track = None
    BY <1>3, <1>4, <2>1 DEF Anchors
  <2> QED
    BY <2>1, <2>2 DEF Moved
<1>8. r.pc \in {"import", "swap"} =>
         /\ r.aid < r.new
         /\ asset'[r.new].live => asset'[r.new].pending
         /\ r.pc = "swap" => (asset'[r.new].live => asset'[r.new].file # None)
  <2> SUFFICES ASSUME r.pc \in {"import", "swap"}
               PROVE  /\ r.aid < r.new
                      /\ asset'[r.new].live => asset'[r.new].pending
                      /\ r.pc = "swap" => (asset'[r.new].live => asset'[r.new].file # None)
    OBVIOUS
  <2>1. r.new \in Handles(r) /\ r.new \in Assets
    BY <1>1, <1>2 DEF Handles
  <2>2. asset'[r.new].live => asset[r.new].live
    BY <1>4, <2>1
  <2> QED
    BY <1>2, <1>3, <2>1, <2>2 DEF Anchors, Moved
<1>9. Anchors(r)'
  BY <1>5, <1>6, <1>7, <1>8 DEF Anchors, Handles
<1> QED
  BY <1>3, <1>9 DEF Anchors, Anchored, Handles

\* One task moves, and the others are still grounded.
LEMMA GroundedStep ==
    ASSUME Typed, Grounded, NEW q \in Procs, NEW r \in Task, Turns(q, r),
           Moved, SecureStays, Backed', Anchors(r)',
           \A p \in Procs \ {q} : Apart(r, proc[p]),
           \A p \in Procs \ {q} :
              proc[p].pc \in {"import", "swap"} /\ asset[proc[p].new].live =>
                 \/ /\ asset'[proc[p].new].live
                    /\ asset'[proc[p].new].pending = asset[proc[p].new].pending
                 \/ ~asset'[proc[p].new].live /\ Secure(proc[p].track, proc[p].new),
           \A p \in Procs \ {q} : \A a \in Handles(proc[p]) :
              asset[a].live /\ asset[a].track = proc[p].track /\ asset'[a].live
              => asset'[a].track = proc[p].track \/ Secure(proc[p].track, a)'
    PROVE  StaysGrounded
<1>1. proc \in [Procs -> Task]
  BY DEF Typed, TypeOK
<1>2. proc'[q] = r /\ \A p \in Procs \ {q} : proc'[p] = proc[p]
  BY <1>1 DEF Turns
<1>3. ASSUME NEW p \in Procs PROVE Anchors(proc[p])'
  <2>1. CASE p = q
    BY <1>2, <2>1 DEF Anchors, Anchored, Handles, Secure, Live
  <2>2. CASE p # q
    <3>1. Anchors(proc[p]) /\ proc'[p] = proc[p]
      BY <1>2, <2>2 DEF Grounded
    <3> QED
      BY <2>2, <3>1, PassiveTask
  <2> QED
    BY <2>1, <2>2
<1>4. ASSUME NEW p1 \in Procs, NEW p2 \in Procs, p1 # p2
      PROVE  Apart(proc[p1], proc[p2])'
  <2>1. CASE p1 # q /\ p2 # q
    BY <1>2, <1>4, <2>1 DEF Grounded, Apart, Handles
  <2>2. CASE p1 = q
    <3>1. Apart(r, proc[p2])
      BY <1>4, <2>2
    <3> QED
      BY <1>2, <1>4, <2>2, <3>1 DEF Apart, Handles
  <2>3. CASE p2 = q
    <3>1. Apart(r, proc[p1])
      BY <1>4, <2>3
    <3> QED
      BY <1>2, <1>4, <2>3, <3>1 DEF Apart, Handles
  <2> QED
    BY <2>1, <2>2, <2>3
<1> QED
  BY <1>3, <1>4 DEF Grounded, StaysGrounded

\* No row comes, goes, or leaves its track.
RowsKept ==
    /\ asset' \in [Assets -> Row]
    /\ \A b \in Assets :
          /\ asset'[b].live = asset[b].live /\ asset'[b].track = asset[b].track
          /\ asset'[b].pending = asset[b].pending
          /\ asset[b].file # None => asset'[b].file # None

LEMMA RowsKeptFacts ==
    ASSUME Typed, Backed, RowsKept
    PROVE  Moved /\ SecureStays /\ Backed'
<1>1. Moved
  BY DEF RowsKept, Moved
<1>2. SecureStays
  BY DEF RowsKept, SecureStays, Secure, Live
<1>3. \A b \in Assets : asset'[b].live => asset[b].live
  BY DEF RowsKept
<1> QED
  BY <1>1, <1>2, <1>3, BackedStays

LEMMA AnchorsKept ==
    ASSUME Typed, RowsKept, NEW r \in Task, Anchors(r),
           r.aid # None => r.track \in Tracks,
           r.pc \in {"import", "swap"} => r.track \in Tracks /\ r.new \in Assets,
           r.pc = "cleanup" => r.aid # None
    PROVE  Anchors(r)'
<1>1. r.aid # None => r.aid \in Assets
  BY DEF Task
<1>2. SecureStays
  BY DEF RowsKept, SecureStays, Secure, Live
<1>3. \A a \in Handles(r) : Anchored(r.track, a)'
  <2> SUFFICES ASSUME NEW a \in Handles(r) PROVE Anchored(r.track, a)'
    BY DEF Handles
  <2>1. a \in Assets /\ a \in Nat /\ r.track \in Tracks
    BY Constants DEF Handles
  <2>2. Anchored(r.track, a) /\ (Secure(r.track, a) => Secure(r.track, a)')
    BY <1>2, <2>1 DEF Anchors, SecureStays
  <2> QED
    BY <2>1, <2>2 DEF Anchored, RowsKept
<1>4. r.aid # None => (Secure(r.track, r.aid) => Secure(r.track, r.aid)')
  BY <1>1, <1>2, Constants DEF SecureStays
<1>5. /\ r.aid # None => /\ asset'[r.aid].live = asset[r.aid].live
                         /\ asset'[r.aid].pending = asset[r.aid].pending
                         /\ asset'[r.aid].track = asset[r.aid].track
      /\ r.pc \in {"import", "swap"} =>
            /\ asset'[r.new].live = asset[r.new].live
            /\ asset'[r.new].pending = asset[r.new].pending
            /\ asset[r.new].file # None => asset'[r.new].file # None
  BY <1>1 DEF RowsKept
<1> QED
  BY <1>3, <1>4, <1>5 DEF Anchors, Handles

LEMMA KeptGrounded ==
    ASSUME Typed, Grounded, NEW q \in Procs, NEW r \in Task, Turns(q, r),
           RowsKept, Anchors(r)', \A p \in Procs \ {q} : Apart(r, proc[p])
    PROVE  StaysGrounded
<1>1. Moved /\ SecureStays /\ Backed'
  BY RowsKeptFacts DEF Grounded
<1>2. \A p \in Procs : proc[p].pc \in {"import", "swap"} => proc[p].new \in Assets
  BY HandleFacts
<1>3. \A p \in Procs \ {q} :
         proc[p].pc \in {"import", "swap"} /\ asset[proc[p].new].live =>
            /\ asset'[proc[p].new].live
            /\ asset'[proc[p].new].pending = asset[proc[p].new].pending
  BY <1>2 DEF RowsKept
<1>4. \A p \in Procs \ {q} : \A a \in Handles(proc[p]) :
         asset[a].live /\ asset[a].track = proc[p].track /\ asset'[a].live
         => asset'[a].track = proc[p].track \/ Secure(proc[p].track, a)'
  BY DEF RowsKept, Handles
<1> QED
  BY <1>1, <1>3, <1>4, GroundedStep

\* A task that gives up what it held.
LEMMA LetsGo ==
    ASSUME Typed, Grounded, NEW q \in Procs, NEW r \in Task, Turns(q, r),
           r.pc \notin {"import", "swap", "cleanup"}, r.aid = None, RowsKept
    PROVE  StaysGrounded
<1>1. Handles(r) = {}
  BY Constants DEF Handles
<1>2. Anchors(r)'
  BY <1>1 DEF Anchors, Handles
<1>3. \A p \in Procs \ {q} : Apart(r, proc[p])
  BY <1>1 DEF Apart
<1> QED
  BY <1>2, <1>3, KeptGrounded

\* A task that goes on with the row it held.
LEMMA HoldsOn ==
    ASSUME Typed, Grounded, NEW q \in Procs, NEW r \in Task, Turns(q, r), Shape(r),
           r.pc \notin {"import", "swap", "cleanup"},
           r.aid = proc[q].aid, r.track = proc[q].track, r.was.file = proc[q].was.file,
           RowsKept
    PROVE  StaysGrounded
<1> DEFINE p == proc[q]
<1>1. /\ Anchors(p) /\ \A s \in Procs \ {q} : Apart(p, proc[s])
  BY DEF Grounded
<1>2. Handles(r) \subseteq Handles(p)
  BY DEF Handles
<1>3. Anchors(r)
  BY <1>1, <1>2 DEF Anchors
<1>4. \A s \in Procs \ {q} : Apart(r, proc[s])
  BY <1>1, <1>2 DEF Apart
<1>5. r.aid # None => r.track \in Tracks
  BY HandleFacts
<1>6. Anchors(r)'
  BY <1>3, <1>5, AnchorsKept
<1> QED
  BY <1>4, <1>6, KeptGrounded

\* A task that takes the track's first row in hand.
LEMMA TakesUp ==
    ASSUME Typed, Grounded, NEW q \in Procs, NEW r \in Task, Turns(q, r),
           r.pc \notin {"import", "swap", "cleanup"}, r.track \in Tracks,
           r.aid \in AssetOf(r.track),
           r.was.file = asset[r.aid].file \/ (r.aid = proc[q].aid /\ r.was.file = proc[q].was.file),
           RowsKept
    PROVE  StaysGrounded
<1> DEFINE a == r.aid
           t == r.track
<1>0. /\ a \in Assets /\ a # None /\ a \in Nat /\ asset[a].live /\ asset[a].track = t
      /\ \A b \in Live : asset[b].track = t => a <= b
      /\ None \notin Tracks
  BY Constants DEF AssetOf, RowsOf, Live
<1>1. Handles(r) = {a}
  BY <1>0 DEF Handles
<1>2. Secure(t, None) => Secure(t, a)
  BY <1>0 DEF Secure
<1>3. asset[a].file # None \/ asset[a].pending => Secure(t, a)
  BY <1>0, <1>2 DEF Grounded, Backed, Live
<1>4. a = proc[q].aid /\ proc[q].was.file # None => Secure(t, a)
  <2> SUFFICES ASSUME a = proc[q].aid, proc[q].was.file # None PROVE Secure(t, a)
    OBVIOUS
  <2>1. Anchors(proc[q]) /\ proc[q].aid # None
    BY <1>0 DEF Grounded
  <2>2. a \in Handles(proc[q])
    BY <1>0 DEF Handles
  <2>3. Anchored(proc[q].track, a) /\ Secure(proc[q].track, a)
    BY <2>1, <2>2 DEF Anchors
  <2>4. proc[q].track = t
    BY <1>0, <2>3 DEF Anchored
  <2> QED
    BY <2>3, <2>4
<1>5. Anchors(r)
  BY <1>0, <1>1, <1>3, <1>4 DEF Anchors, Anchored
<1>6. ASSUME NEW p \in Procs \ {q} PROVE Apart(r, proc[p])
  <2>1. a \in Handles(proc[p]) => Anchored(proc[p].track, a)
    BY DEF Grounded, Anchors
  <2>2. a \in Handles(proc[p]) => proc[p].track = t
    BY <1>0, <2>1 DEF Anchored
  <2> QED
    BY <1>1, <2>2 DEF Apart
<1>7. Anchors(r)'
  BY <1>5, AnchorsKept
<1> QED
  BY <1>6, <1>7, KeptGrounded

LEMMA UpdatedKeeps ==
    ASSUME Typed, NEW q \in Procs, NEW now, NEW b \in Assets, Updated(q, now, b),
           asset' \in [Assets -> Row]
    PROVE  RowsKept
BY DEF Updated, RowsKept

\* A new row is above every row a task holds.
LEMMA FreshRow ==
    ASSUME Typed, Grounded, NEW b \in Assets, b \notin Live, \A u \in Live : u < b,
           \A a \in Assets \ {b} : asset'[a] = asset[a], asset' \in [Assets -> Row],
           asset'[b].live,
           \/ ~asset'[b].pending /\ asset'[b].file = None
           \/ \A t \in Tracks : asset'[b].track = t => Secure(t, None)
    PROVE  /\ Moved /\ SecureStays /\ Backed'
           /\ \A p \in Procs : b \notin Handles(proc[p])
<1>1. Moved
  BY DEF Moved, Live
<1>2. SecureStays
  BY DEF SecureStays, Secure, Live
<1>3. Backed'
  <2>1. \A x \in Assets, t \in Tracks :
           asset'[x].live /\ ~asset[x].live /\ asset'[x].track = t =>
              \/ ~asset'[x].pending /\ asset'[x].file = None
              \/ Secure(t, None)
    OBVIOUS
  <2> QED
    BY <1>1, <1>2, <2>1, BackedStays DEF Grounded
<1>4. ASSUME NEW p \in Procs, b \in Handles(proc[p]) PROVE FALSE
  <2>1. Anchored(proc[p].track, b)
    BY <1>4 DEF Grounded, Anchors
  <2>2. PICK u \in Live : b <= u
    BY <2>1 DEF Anchored, Secure, Live
  <2>3. u < b /\ u \in Nat /\ b \in Nat
    BY <2>2, Constants DEF Live
  <2> QED
    BY <2>2, <2>3
<1> QED
  BY <1>1, <1>2, <1>3, <1>4

LEMMA FreshGrounded ==
    ASSUME Typed, Grounded, NEW b \in Assets, b \notin Live, \A u \in Live : u < b,
           \A a \in Assets \ {b} : asset'[a] = asset[a], asset' \in [Assets -> Row],
           asset'[b].live,
           \/ ~asset'[b].pending /\ asset'[b].file = None
           \/ \A t \in Tracks : asset'[b].track = t => Secure(t, None),
           NEW q \in Procs, NEW r \in Task, Turns(q, r), Anchors(r)',
           \A p \in Procs \ {q} : Apart(r, proc[p])
    PROVE  StaysGrounded
<1>1. /\ Moved /\ SecureStays /\ Backed'
      /\ \A p \in Procs : b \notin Handles(proc[p])
  BY FreshRow
<1>2. \A p \in Procs : proc[p].pc \in {"import", "swap"} =>
         proc[p].new \in Assets /\ proc[p].new # b
  BY <1>1, HandleFacts DEF Handles
<1>3. \A p \in Procs \ {q} :
         proc[p].pc \in {"import", "swap"} /\ asset[proc[p].new].live =>
            /\ asset'[proc[p].new].live
            /\ asset'[proc[p].new].pending = asset[proc[p].new].pending
  BY <1>2
<1>4. \A p \in Procs \ {q} : \A a \in Handles(proc[p]) :
         asset[a].live /\ asset[a].track = proc[p].track /\ asset'[a].live
         => asset'[a].track = proc[p].track \/ Secure(proc[p].track, a)'
  BY <1>1 DEF Handles
<1> QED
  BY <1>1, <1>3, <1>4, GroundedStep

\* A session that stores its row, and the task holds it, or lets it go.
LEMMA StoreGrounded ==
    ASSUME Typed, Grounded, NEW q \in Procs, proc[q].pc \in Holding, NEW now \in Row,
           Agree(proc[q], now), NEW b \in Assets,
           Updated(q, now, b) \/ Inserted(q, now, b), asset' \in [Assets -> Row],
           NEW r \in Task, Turns(q, r), Shape(r),
           \/ r.pc \in {"idle", "next"} /\ r.aid = None
           \/ /\ r.pc \notin {"import", "swap", "cleanup"} /\ r.aid = b
              /\ r.track = proc[q].track /\ r.was = now
    PROVE  StaysGrounded
<1> DEFINE p == proc[q]
<1>1. p \in Task /\ Shape(p) /\ p.track # None /\ p.track \in Tracks
  BY DEF Typed, TypeOK, Shape, Task
<1>2. CASE Updated(q, now, b)
  <2>1. RowsKept /\ b = p.aid
    BY <1>2, UpdatedKeeps DEF Updated
  <2>2. CASE r.pc \in {"idle", "next"} /\ r.aid = None
    BY <2>1, <2>2, LetsGo
  <2>3. CASE /\ r.pc \notin {"import", "swap", "cleanup"} /\ r.aid = b
             /\ r.track = p.track /\ r.was = now
    <3>1. r.was.file = p.was.file
      BY <2>3 DEF Agree
    <3> QED
      BY <2>1, <2>3, <3>1, HoldsOn
  <2> QED
    BY <2>2, <2>3
<1>3. CASE Inserted(q, now, b)
  <2>1. /\ b \notin Live /\ \A u \in Live : u < b
        /\ \A a \in Assets \ {b} : asset'[a] = asset[a]
        /\ asset'[b] = now /\ p.aid = None
    BY <1>3 DEF Inserted
  <2>2. p.was = NoRow
    BY <1>1, <2>1 DEF Shape
  <2>3. now.live /\ now.track = p.track /\ ~now.pending /\ now.file = None
    BY <2>2 DEF Agree, NoRow
  <2>4. CASE r.pc \in {"idle", "next"} /\ r.aid = None
    <3>1. Handles(r) = {} /\ Handles(r)' = {}
      BY <2>4, Constants DEF Handles
    <3>2. Anchors(r)'
      BY <2>4, <3>1 DEF Anchors, Handles
    <3>3. \A s \in Procs \ {q} : Apart(r, proc[s])
      BY <2>4, <3>1 DEF Apart
    <3> QED
      BY <2>1, <2>3, <3>2, <3>3, FreshGrounded
  <2>5. CASE /\ r.pc \notin {"import", "swap", "cleanup"} /\ r.aid = b
             /\ r.track = p.track /\ r.was = now
    <3>1. Handles(r) = {b}
      BY <2>5 DEF Handles
    <3>2. Anchors(r)'
      BY <2>1, <2>3, <2>5, <3>1 DEF Anchors, Handles, Anchored
    <3>3. \A s \in Procs : b \notin Handles(proc[s])
      BY <2>1, <2>3, FreshRow
    <3>4. \A s \in Procs \ {q} : Apart(r, proc[s])
      BY <2>5, <3>1, <3>3 DEF Apart
    <3> QED
      BY <2>1, <2>3, <3>2, <3>4, FreshGrounded
  <2> QED
    BY <2>4, <2>5
<1> QED
  BY SMTT(60), <1>2, <1>3

LEMMA Unmoved ==
    ASSUME Typed, asset' = asset
    PROVE  RowsKept
BY DEF Typed, TypeOK, RowsKept

\* Requests and ticks that begin.
LEMMA AskedGrounded ==
    ASSUME Typed, Grounded, NEW q \in Procs, Asked(q)
    PROVE  StaysGrounded
<1>1. ASSUME NEW r \in Task, Looked(q, r), asset' = asset PROVE StaysGrounded
  <2>1. RowsKept /\ Turns(q, r) /\ r.pc = "open"
    BY <1>1, Unmoved DEF Looked
  <2>2. CASE r.aid = None
    BY <2>1, <2>2, LetsGo
  <2>3. CASE r.aid \in AssetOf(r.track) /\ r.was = asset[r.aid]
    BY <1>1, <2>1, <2>3, TakesUp DEF Looked
  <2> QED
    BY <1>1, <2>2, <2>3 DEF Looked
<1>2. ASSUME NEW t \in Tracks, NEW op \in {"run", "again"}, Begin(q, t, op) PROVE StaysGrounded
  BY <1>1, <1>2, BeginTask DEF Begin, db
<1>3. CASE BulkList(q)
  <2>1. asset' = asset
    BY <1>3 DEF BulkList, db
  <2> QED
    BY <1>3, <2>1, Unmoved, BulkListTask, LetsGo
<1>4. CASE MonitorTick(q)
  <2>1. asset' = asset
    BY <1>4 DEF MonitorTick, db
  <2> QED
    BY <1>4, <2>1, Unmoved, MonitorTickTask, LetsGo
<1>5. ASSUME NEW r \in Task, Turns(q, r), Shape(r), r.pc \in {"select", "create"},
             r.aid \in AssetOf(r.track), r.was = asset[r.aid], asset' = asset
      PROVE  StaysGrounded
  <2>1. r.track \in Tracks
    BY <1>5 DEF Shape, Task, Holding, Replacing
  <2> QED
    BY <1>5, <2>1, Unmoved, TakesUp
<1>6. ASSUME NEW c \in Candidates, SelectBegin(q, c) PROVE StaysGrounded
  BY <1>5, <1>6, SelectBeginTask DEF SelectBegin, db
<1>7. ASSUME NEW c \in Candidates, ReplaceBegin(q, c) PROVE StaysGrounded
  BY <1>5, <1>7, ReplaceBeginTask DEF ReplaceBegin, db
<1> QED
  BY <1>2, <1>3, <1>4, <1>6, <1>7 DEF Asked

\* The commits of a search.
LEMMA DiscoverGrounded ==
    ASSUME Typed, Grounded, NEW q \in Procs, Discover(q) \/ DiscoverFails(q)
    PROVE  StaysGrounded
<1> DEFINE p == proc[q]
<1>1. p \in Task /\ Shape(p) /\ p.pc = "discover" /\ p.pc \in Holding
  BY DEF Typed, TypeOK, Discover, DiscoverFails, At, Holding, Searching, Opened
<1>2. CASE DiscoverFails(q)
  <2>1. PICK r \in Task : /\ Turns(q, r) /\ Shape(r) /\ r.pc \in {"idle", "next"}
                          /\ r.gone = {} /\ r.aid = None
    BY <1>2, DiscoverFailsTask
  <2>2. At(q, "discover") /\ CommitQuota(q)
    BY <1>2 DEF DiscoverFails
  <2>3. /\ asset' \in [Assets -> Row] /\ p.now \in Row /\ Agree(p, p.now)
        /\ \E b \in Assets : Updated(q, p.now, b) \/ Inserted(q, p.now, b)
    BY <2>2, QuotaTyped
  <2> QED
    BY <1>1, <2>1, <2>3, StoreGrounded
<1>3. CASE Discover(q)
  <2>1. PICK r \in Task :
           /\ Turns(q, r) /\ Shape(r) /\ r.pc = "wipe"
           /\ r.op = p.op /\ r.track = p.track /\ r.now = p.now
           /\ ApiKey => /\ r.was = p.now /\ r.gone = {}
                        /\ Updated(q, r.now, r.aid) \/ Inserted(q, r.now, r.aid)
           /\ ~ApiKey => /\ r.was = p.was /\ r.gone = p.gone
                         /\ r.aid = p.aid /\ UNCHANGED <<db, lock, crossed>>
    BY <1>3, DiscoverTask
  <2>2. CASE ApiKey
    <3>1. At(q, "discover") /\ CommitQuota(q)
      BY <1>3, <2>2 DEF Discover
    <3>2. asset' \in [Assets -> Row] /\ p.now \in Row /\ Agree(p, p.now)
      BY SMTT(60), <3>1, QuotaTyped
    <3>3. PICK b \in Assets : b = r.aid /\ (Updated(q, p.now, b) \/ Inserted(q, p.now, b))
      BY <2>1, <2>2 DEF Updated, Inserted
    <3> QED
      BY SMTT(60), <1>1, <2>1, <2>2, <3>2, <3>3, StoreGrounded
  <2>3. CASE ~ApiKey
    <3>1. asset' = asset
      BY <2>1, <2>3 DEF db
    <3> QED
      BY <2>1, <2>3, <3>1, Unmoved, HoldsOn
  <2> QED
    BY <2>2, <2>3
<1> QED
  BY <1>2, <1>3

LEMMA VerdictGrounded ==
    ASSUME Typed, Grounded, NEW q \in Procs, NothingFound(q) \/ Found(q)
    PROVE  StaysGrounded
<1> DEFINE p == proc[q]
<1>1. p \in Task /\ Shape(p) /\ p.pc = "score" /\ p.pc \in Holding
  BY DEF Typed, TypeOK, NothingFound, Found, At, Holding, Searching, Opened
<1>2. /\ Ended(q) \in Task /\ Shape(Ended(q)) /\ Ended(q).pc \in {"idle", "next"}
      /\ Ended(q).aid = None
  BY EndedTask
<1>3. CASE NothingFound(q)
  <2>1. CASE End(q) /\ UNCHANGED <<db, worker, history, asked>>
    <3>1. asset' = asset
      BY <2>1 DEF db
    <3>2. PICK r \in Task : Turns(q, r) /\ r.pc \in {"idle", "next"} /\ r.aid = None
      BY <2>1, EndTask DEF Turns
    <3> QED
      BY <3>1, <3>2, Unmoved, LetsGo
  <2>2. ASSUME NEW now \in Row, NEW b \in Assets, Verdict(p, now), Ends(q),
               Updated(q, now, b) \/ Inserted(q, now, b)
        PROVE  StaysGrounded
    <3>1. asset' \in [Assets -> Row]
      BY <1>3, NothingFoundTask DEF Typed, TypeOK
    <3>2. Turns(q, Ended(q)) /\ Agree(p, now)
      BY <2>2 DEF Ends, Turns, Verdict
    <3> QED
      BY <1>1, <1>2, <2>2, <3>1, <3>2, StoreGrounded
  <2> QED
    BY <1>3, <2>1, <2>2, NothingFoundTask
<1>4. CASE Found(q)
  <2>1. asset' \in [Assets -> Row]
    BY <1>4, FoundTask DEF Typed, TypeOK
  <2>2. PICK now \in Row, b \in Assets, videos \in SUBSET Videos :
           \E after \in WithCandidates(q, videos), r \in Task : FoundAs(q, now, b, after, r)
    BY <1>4, FoundTask
  <2>3. PICK after \in WithCandidates(q, videos), r \in Task : FoundAs(q, now, b, after, r)
    BY <2>2
  <2>4. /\ Agree(p, now) /\ Turns(q, r) /\ Shape(r)
        /\ Updated(q, now, b) \/ Inserted(q, now, b)
        /\ \/ r.pc \in {"idle", "next"} /\ r.aid = None
           \/ r.pc = "compare" /\ r.track = p.track /\ r.aid = p.aid /\ r.was = now
    BY <2>3 DEF FoundAs, Verdict
  <2>5. r.pc = "compare" => r.aid # None
    BY <2>4 DEF Shape, Holding, Searching, Opened
  <2>6. r.pc = "compare" /\ r.aid = p.aid => r.aid = b
    BY <2>4, <2>5 DEF Updated, Inserted
  <2> QED
    BY <1>1, <2>1, <2>4, <2>6, StoreGrounded
<1> QED
  BY <1>3, <1>4

LEMMA SearchGrounded ==
    ASSUME Typed, Grounded, NEW q \in Procs, SearchStep(q)
    PROVE  StaysGrounded
<1> DEFINE p == proc[q]
<1>1. ASSUME NEW r \in Task, Looked(q, r), asset' = asset PROVE StaysGrounded
  <2>1. RowsKept /\ Turns(q, r) /\ r.pc = "open"
    BY <1>1, Unmoved DEF Looked
  <2>2. CASE r.aid = None
    BY <2>1, <2>2, LetsGo
  <2>3. CASE r.aid \in AssetOf(r.track) /\ r.was = asset[r.aid]
    BY <1>1, <2>1, <2>3, TakesUp DEF Looked
  <2> QED
    BY <1>1, <2>2, <2>3 DEF Looked
<1>2. CASE OpenRefused(q)
  <2>1. asset' = asset
    BY <1>2 DEF OpenRefused, db
  <2>2. PICK r \in Task : Turns(q, r) /\ r.pc \in {"idle", "next"} /\ r.aid = None
    BY <1>2, EndTask DEF OpenRefused, Turns
  <2> QED
    BY <2>1, <2>2, Unmoved, LetsGo
<1>3. CASE Open(q)
  <2>1. asset' = asset
    BY <1>3 DEF Open, db
  <2> QED
    BY <1>3, <2>1, Unmoved, OpenTask, HoldsOn
<1>4. CASE Wipe(q)
  <2>1. asset' = asset
    BY <1>4 DEF Wipe, db
  <2> QED
    BY <1>4, <2>1, Unmoved, WipeTask, HoldsOn
<1>5. CASE BulkNext(q)
  <2>1. asset' = asset
    BY <1>5 DEF BulkNext, db
  <2> QED
    BY <1>1, <1>5, <2>1, BulkNextTask
<1>6. CASE MonitorNext(q)
  <2>1. asset' = asset
    BY <1>6 DEF MonitorNext, db
  <2>2. ASSUME NEW r \in Task, Turns(q, r), r.pc \in {"idle", "next"}, r.aid = None
        PROVE  StaysGrounded
    BY <2>1, <2>2, Unmoved, LetsGo
  <2> QED
    BY <1>1, <1>6, <2>1, <2>2, MonitorNextTask
<1>7. CASE Compare(q)
  <2>1. asset' = asset
    BY <1>7 DEF Compare, db
  <2>2. PICK r \in Task :
           /\ Turns(q, r) /\ Shape(r) /\ r.gone = {}
           /\ \/ r.pc \in {"idle", "next"} /\ r.aid = None
              \/ /\ r.pc = "create" /\ r.track = p.track
                 /\ r.aid \in AssetOf(r.track) /\ r.was = Seen(q, r.aid)
                 /\ r.now = r.was
    BY <1>7, CompareTask
  <2>3. CASE r.pc \in {"idle", "next"} /\ r.aid = None
    BY <2>1, <2>2, <2>3, Unmoved, LetsGo
  <2>4. CASE /\ r.pc = "create" /\ r.track = p.track
             /\ r.aid \in AssetOf(r.track) /\ r.was = Seen(q, r.aid)
    <3>1. r.track \in Tracks
      BY <2>2, <2>4 DEF Shape, Task, Holding, Replacing
    <3>2. p.now = p.was
      BY <1>7 DEF Compare, At, Typed, Shape, Holding, Opened
    <3>3. r.was.file = asset[r.aid].file \/ (r.aid = p.aid /\ r.was.file = p.was.file)
      BY <2>4, <3>2 DEF Seen
    <3> QED
      BY <2>1, <2>2, <2>4, <3>1, <3>3, Unmoved, TakesUp
  <2> QED
    BY <2>2, <2>3, <2>4
<1> QED
  BY <1>2, <1>3, <1>4, <1>5, <1>6, <1>7, DiscoverGrounded, VerdictGrounded DEF SearchStep

\* Nothing moves but the rows' contents.
LEMMA ContentsGrounded ==
    ASSUME Typed, Grounded, RowsKept, proc' = proc
    PROVE  StaysGrounded
<1>1. SecureStays /\ Backed'
  BY RowsKeptFacts DEF Grounded
<1>2. ASSUME NEW q \in Procs PROVE Anchors(proc[q])'
  <2>1. PICK r \in Task : r = proc[q]
    BY HandleFacts
  <2>2. /\ r.aid # None => r.track \in Tracks
        /\ r.pc \in {"import", "swap"} => r.track \in Tracks /\ r.new \in Assets
    BY <2>1, HandleFacts
  <2>3. r.pc = "cleanup" => r.aid # None
    BY <2>1, HandleFacts, Constants
  <2>4. Anchors(r)
    BY <2>1 DEF Grounded
  <2>5. Anchors(r)'
    BY <2>2, <2>3, <2>4, AnchorsKept
  <2> QED
    BY <2>1, <2>5 DEF Anchors, Anchored, Handles, Secure, Live
<1>3. \A p, q \in Procs : p # q => Apart(proc[p], proc[q])'
  BY DEF Grounded, Apart, Handles
<1> QED
  BY <1>1, <1>2, <1>3 DEF Grounded, StaysGrounded

LEMMA WorkerGrounded ==
    ASSUME Typed, WorkersHold, Grounded, NEW w \in Workers,
           Works(w) \/ \E a \in Assets : Claim(w, a)
    PROVE  StaysGrounded
<1>0. asset \in [Assets -> Row]
  BY DEF Typed, TypeOK
<1>1. CASE Load(w)
  <2>1. asset' = asset /\ proc' = proc
    BY <1>1 DEF Load, db
  <2> QED
    BY <2>1, Unmoved, ContentsGrounded
<1>2. ASSUME NEW state, NEW video, Concluded(w, state, video), asset' \in [Assets -> Row]
      PROVE  StaysGrounded
  <2>1. RowsKept
    <3> DEFINE a == worker[w].aid
    <3>1. a \in Assets /\ asset[a] \in Row /\ asset'[a] \in Row
      BY SMTT(60), <1>0, <1>2 DEF Concluded
    <3>2. /\ asset'[a].live = asset[a].live /\ asset'[a].track = asset[a].track
          /\ asset'[a].pending = asset[a].pending
          /\ asset[a].file # None => asset'[a].file # None
      BY SMTT(60), <1>2, <3>1 DEF Concluded, Row
    <3>3. \A b \in Assets \ {a} : asset'[b] = asset[b]
      BY SMTT(60), <1>2 DEF Concluded
    <3> QED
      BY SMTT(60), <1>2, <3>1, <3>2, <3>3 DEF RowsKept
  <2>2. proc' = proc
    BY <1>2 DEF Concluded
  <2> QED
    BY <2>1, <2>2, ContentsGrounded
<1>3. CASE Import(w) \/ Fail(w)
  <2>1. asset' \in [Assets -> Row]
    BY <1>3, AttemptEnds DEF Typed, TypeOK
  <2> QED
    BY <1>2, <1>3, <2>1, AttemptEnds
<1>4. ASSUME NEW a \in Assets, Claim(w, a) PROVE StaysGrounded
  <2>1. asset' = [asset EXCEPT ![a] = [asset[a] EXCEPT !.state = "DOWNLOADING"]]
        /\ asset' \in [Assets -> Row] /\ proc' = proc
    BY <1>4, ClaimRow DEF Typed, TypeOK, Claim
  <2>2. /\ asset'[a] = [asset[a] EXCEPT !.state = "DOWNLOADING"]
        /\ \A b \in Assets \ {a} : asset'[b] = asset[b]
        /\ asset[a] \in Row
    BY <1>0, <2>1
  <2>3. /\ asset'[a].live = asset[a].live /\ asset'[a].track = asset[a].track
        /\ asset'[a].pending = asset[a].pending /\ asset'[a].file = asset[a].file
    BY <2>2 DEF Row
  <2>4. RowsKept
    BY <2>1, <2>2, <2>3 DEF RowsKept
  <2> QED
    BY <2>1, <2>4, ContentsGrounded
<1> QED
  BY <1>1, <1>3, <1>4 DEF Works

LEMMA RestartGrounded ==
    ASSUME Typed, WorkersHold, Grounded, Restart
    PROVE  StaysGrounded
<1>1. /\ proc' = [q \in Procs |-> IdleTask] /\ asset' \in [Assets -> Row]
      /\ asset \in [Assets -> Row]
      /\ \A a \in Assets :
            /\ asset[a].pending => asset'[a] = NoRow
            /\ ~asset[a].pending =>
                  /\ asset'[a].live = asset[a].live /\ asset'[a].track = asset[a].track
                  /\ asset'[a].file = asset[a].file /\ asset'[a].pending = FALSE
  BY RestartRows DEF Typed, TypeOK
<1>2. ~NoRow.live
  BY DEF NoRow
<1>3. \A a \in Assets : asset'[a].live => ~asset[a].pending
  BY <1>1, <1>2
<1>4. Moved
  BY <1>1, <1>2, <1>3 DEF Moved
<1>5. SecureStays
  BY <1>1 DEF SecureStays, Secure, Live
<1>6. Backed'
  <2>1. \A a \in Assets : asset'[a].live => asset[a].live
    BY <1>1, <1>3
  <2> QED
    BY <1>4, <1>5, <2>1, BackedStays DEF Grounded
<1>7. ASSUME NEW q \in Procs
      PROVE  proc'[q].pc = "idle" /\ proc'[q].aid = None
  BY <1>1 DEF IdleTask
<1>8. \A q \in Procs : Anchors(proc[q])'
  BY <1>7, Constants DEF Anchors, Handles
<1>9. \A p, q \in Procs : p # q => Apart(proc[p], proc[q])'
  BY <1>7, Constants DEF Apart, Handles
<1> QED
  BY <1>5, <1>6, <1>8, <1>9 DEF Grounded, StaysGrounded

\* The new row of a replacement.
LEMMA FetchedGrounded ==
    ASSUME Typed, Grounded, NEW q \in Procs, Fetched(q)
    PROVE  StaysGrounded
<1> DEFINE p == proc[q]
<1>1. PICK r \in Task, b \in Assets : FetchedRow(q, r, b)
  BY FetchedTask
<1>2. /\ p \in Task /\ Shape(p) /\ p.pc = "fetch" /\ p.pc \in Replacing
      /\ asset \in [Assets -> Row]
  BY DEF Typed, TypeOK, Fetched, At, Replacing
<1>3. /\ p.aid # None /\ p.aid \in Assets /\ p.track \in Tracks /\ p.was.file # None
      /\ Assets \subseteq Nat
  BY <1>2, Constants DEF Shape, Holding, Searching, Opened, Replacing, Task
<1>4. /\ b \notin Live /\ \A u \in Live : u < b
      /\ asset' = [asset EXCEPT ![b] = Replacement(q)]
      /\ Turns(q, r) /\ r.pc = "import" /\ r.track = p.track /\ r.aid = p.aid
      /\ r.was = p.was /\ r.new = b
  BY <1>1 DEF FetchedRow, Carries
<1>5. Replacement(q) \in Row /\ Replacement(q).live /\ Replacement(q).track = p.track
      /\ Replacement(q).pending
  BY <1>2, ReplacementRow
<1>6. /\ asset'[b] = Replacement(q) /\ \A a \in Assets \ {b} : asset'[a] = asset[a]
      /\ asset' \in [Assets -> Row]
  BY <1>2, <1>4, <1>5
<1>7. PICK t \in Tracks, a \in Assets : t = p.track /\ a = p.aid
  BY <1>3
<1>8. Secure(t, a) /\ Anchored(t, a)
  BY <1>3, <1>7 DEF Grounded, Anchors, Handles
<1>9. Secure(t, None) /\ a < b /\ a \in Nat
  <2>1. PICK u \in Live : /\ a <= u /\ asset[u].track = t
                          /\ ~asset[u].pending /\ asset[u].file # None
    BY <1>8 DEF Secure
  <2>2. u < b
    BY <1>4, <2>1
  <2>3. u \in Nat /\ b \in Nat /\ a \in Nat
    BY <1>3, <2>1 DEF Live
  <2>4. None <= u
    BY <2>3 DEF None
  <2> QED
    BY <2>1, <2>2, <2>3, <2>4 DEF Secure
<1>10. /\ Moved /\ SecureStays
       /\ \A s \in Procs : b \notin Handles(proc[s])
  BY <1>4, <1>5, <1>6, <1>7, <1>9, FreshRow
<1>11. /\ r.pc = "import" /\ r.track = t /\ r.aid = a /\ r.new = b
       /\ Handles(r) = {a, b} /\ asset'[a] = asset[a]
       /\ asset'[b].live /\ asset'[b].track = t /\ asset'[b].pending
  BY <1>4, <1>5, <1>6, <1>7, <1>9 DEF Handles
<1>12. Secure(t, a)'
  BY <1>8, <1>9, <1>10 DEF SecureStays
<1>13. Anchored(t, a)' /\ Anchored(t, b)'
  BY <1>8, <1>11, <1>12 DEF Anchored
<1>14. Anchors(r)'
  BY <1>9, <1>11, <1>12, <1>13 DEF Anchors, Handles
<1>15. ASSUME NEW s \in Procs \ {q} PROVE Apart(r, proc[s])
  <2>1. b \notin Handles(proc[s]) /\ proc[s].pc \in {"import", "swap"} => proc[s].new # b
    BY <1>10, HandleFacts DEF Handles
  <2>2. a \in Handles(proc[s]) => proc[s].track = t
    BY <1>7, <1>3 DEF Grounded, Apart, Handles
  <2> QED
    BY <1>10, <1>11, <2>1, <2>2 DEF Apart
<1> QED
  BY <1>4, <1>5, <1>6, <1>7, <1>9, <1>14, <1>15, FreshGrounded

LEMMA ImportGrounded ==
    ASSUME Typed, Grounded, NEW q \in Procs, ImportNew(q)
    PROVE  StaysGrounded
<1>1. /\ asset \in [Assets -> Row] /\ proc[q].pc = "import" /\ proc[q] \in Task
      /\ Shape(proc[q])
  BY SMTT(60) DEF Typed, TypeOK, ImportNew, At
<1>2. PICK r \in Task : Carries(q, r, "swap") /\ r.new = proc[q].new
  BY ZenonT(60), ImportNewTask
<1>3. PICK p \in Task, n \in Assets : p = proc[q] /\ n = p.new
  BY ZenonT(60), <1>1, ImportNewTask
<1>4. /\ asset' = [asset EXCEPT ![n] = [asset[n] EXCEPT !.state = "AVAILABLE",
                                                        !.file = p.video]]
      /\ asset' \in [Assets -> Row] /\ p.video # None /\ p.video \in Videos
  <2>1. asset' \in [Assets -> Row]
    BY ImportNewTask DEF Typed, TypeOK
  <2>2. p.video # None /\ p.video \in Videos
    BY <1>1, <1>3 DEF Shape, Replacing, Task
  <2> QED
    BY ZenonT(60), <1>3, <2>1, <2>2, ImportNewTask
<1>5. /\ asset'[n].live = asset[n].live /\ asset'[n].track = asset[n].track
      /\ asset'[n].pending = asset[n].pending /\ asset'[n].file # None
      /\ \A b \in Assets \ {n} : asset'[b] = asset[b]
  <2>1. /\ asset'[n] = [asset[n] EXCEPT !.state = "AVAILABLE", !.file = p.video]
        /\ asset[n] \in Row /\ \A b \in Assets \ {n} : asset'[b] = asset[b]
    BY <1>1, <1>4
  <2> QED
    BY <1>4, <2>1 DEF Row
<1>6. RowsKept
  BY <1>4, <1>5 DEF RowsKept
<1>7. /\ Turns(q, r) /\ r.pc = "swap" /\ p.pc = "import" /\ r.track = p.track
      /\ r.aid = p.aid /\ r.was = p.was /\ r.new = n /\ p.new = n
  BY <1>1, <1>2, <1>3 DEF Carries
<1>8. Anchors(p) /\ p.track \in Tracks
  BY <1>1, <1>3, HandleFacts DEF Grounded
<1>9. Anchors(p)'
  BY <1>6, <1>7, <1>8, AnchorsKept
<1>10. Handles(r) = Handles(p)
  BY <1>7 DEF Handles
<1>11. Anchors(r)'
  BY <1>5, <1>7, <1>9, <1>10 DEF Anchors
<1>12. ASSUME NEW s \in Procs \ {q} PROVE Apart(r, proc[s])
  <2>1. Apart(p, proc[s])
    BY <1>3 DEF Grounded
  <2> QED
    BY <2>1, <1>7, <1>10 DEF Apart
<1> QED
  BY <1>6, <1>7, <1>11, <1>12, KeptGrounded

\* A row of nobody's track goes, or the row of a replacement that failed.
LEMMA DropGrounded ==
    ASSUME Typed, Grounded, NEW q \in Procs, NEW n \in Assets,
           asset' = [asset EXCEPT ![n] = NoRow], asset' \in [Assets -> Row],
           asset[n].live => asset[n].pending \/ asset[n].track = None,
           \A s \in Procs \ {q} : proc[s].pc \in {"import", "swap"} /\ proc[s].new = n
              /\ asset[n].live => Secure(proc[s].track, n),
           NEW r \in Task, Turns(q, r), r.pc \in {"idle", "next"}, r.aid = None
    PROVE  StaysGrounded
<1>1. /\ asset'[n] = NoRow /\ \A b \in Assets \ {n} : asset'[b] = asset[b]
      /\ asset \in [Assets -> Row] /\ ~NoRow.live
  BY DEF Typed, TypeOK, NoRow
<1>2. Moved
  BY <1>1 DEF Moved
<1>3. SecureStays
  <2> SUFFICES ASSUME NEW t \in Tracks, NEW a \in Nat, Secure(t, a) PROVE Secure(t, a)'
    BY DEF SecureStays
  <2>1. PICK b \in Live : /\ a <= b /\ asset[b].track = t
                          /\ ~asset[b].pending /\ asset[b].file # None
    BY DEF Secure
  <2>2. b # n
    BY <2>1, Constants DEF Live
  <2>3. asset'[b] = asset[b] /\ b \in Assets /\ asset[b].live
    BY <1>1, <2>1, <2>2 DEF Live
  <2> QED
    BY <2>1, <2>3 DEF Secure, Live
<1>4. Backed'
  <2>1. \A b \in Assets : asset'[b].live => asset[b].live
    BY <1>1
  <2> QED
    BY <1>2, <1>3, <2>1, BackedStays DEF Grounded
<1>5. Handles(r) = {}
  BY Constants DEF Handles
<1>6. Anchors(r)'
  BY <1>5 DEF Anchors, Handles
<1>7. \A s \in Procs \ {q} : Apart(r, proc[s])
  BY <1>5 DEF Apart
<1>8. ASSUME NEW s \in Procs \ {q}, proc[s].pc \in {"import", "swap"},
             asset[proc[s].new].live
      PROVE  \/ /\ asset'[proc[s].new].live
                /\ asset'[proc[s].new].pending = asset[proc[s].new].pending
             \/ ~asset'[proc[s].new].live /\ Secure(proc[s].track, proc[s].new)
  <2>1. proc[s].new \in Assets
    BY <1>8, HandleFacts
  <2>2. CASE proc[s].new = n
    <3>1. Secure(proc[s].track, n)
      BY <1>8, <2>2
    <3> QED
      BY <1>1, <2>2, <3>1
  <2>3. CASE proc[s].new # n
    BY <1>1, <1>8, <2>1, <2>3
  <2> QED
    BY <2>2, <2>3
<1>9. \A s \in Procs \ {q} : \A a \in Handles(proc[s]) :
         asset[a].live /\ asset[a].track = proc[s].track /\ asset'[a].live
         => asset'[a].track = proc[s].track \/ Secure(proc[s].track, a)'
  BY <1>1 DEF Handles
<1> QED
  BY <1>2, <1>3, <1>4, <1>6, <1>7, <1>8, <1>9, GroundedStep

LEMMA DroppedGrounded ==
    ASSUME Typed, Grounded, NEW q \in Procs, ReplaceFails(q) \/ Cleanup(q)
    PROVE  StaysGrounded
<1> DEFINE p == proc[q]
<1>1. /\ Ended(q) \in Task /\ Ended(q).pc \in {"idle", "next"} /\ Ended(q).aid = None
  BY EndedTask
<1>2. Anchors(p)
  BY DEF Grounded
<1>3. CASE ReplaceFails(q)
  <2>1. /\ Turns(q, Ended(q)) /\ asset' \in [Assets -> Row]
        /\ \/ asset' = asset
           \/ p.pc = "import" /\ p.new \in Assets /\ asset' = [asset EXCEPT ![p.new] = NoRow]
    BY <1>3, ReplaceFailsTask DEF Typed, TypeOK
  <2>2. CASE asset' = asset
    BY <1>1, <2>1, <2>2, Unmoved, LetsGo
  <2>3. CASE p.pc = "import" /\ p.new \in Assets /\ asset' = [asset EXCEPT ![p.new] = NoRow]
    <3>1. PICK n \in Assets : n = p.new
      BY <2>3
    <3>2. asset[n].live => asset[n].pending
      BY <1>2, <2>3, <3>1 DEF Anchors
    <3>3. \A s \in Procs \ {q} : proc[s].pc \in {"import", "swap"} => proc[s].new # n
      BY <2>3, <3>1 DEF Grounded, Apart
    <3>4. asset' = [asset EXCEPT ![n] = NoRow]
      BY <2>3, <3>1
    <3> QED
      BY <1>1, <2>1, <3>2, <3>3, <3>4, DropGrounded
  <2> QED
    BY <2>1, <2>2, <2>3
<1>4. CASE Cleanup(q)
  <2>1. /\ Turns(q, Ended(q)) /\ asset' \in [Assets -> Row] /\ p.aid \in Assets
        /\ asset' = [asset EXCEPT ![p.aid] = NoRow] /\ p.pc = "cleanup"
    BY <1>4, CleanupTask DEF Typed, TypeOK, Cleanup, At
  <2>2. PICK n \in Assets : n = p.aid
    BY <2>1
  <2>3. asset[n].live => asset[n].track = None
    BY <1>2, <2>1, <2>2 DEF Anchors
  <2>4. ASSUME NEW s \in Procs \ {q}, proc[s].pc \in {"import", "swap"}, proc[s].new = n,
               asset[n].live
        PROVE  Secure(proc[s].track, n)
    <3>1. n \in Handles(proc[s]) /\ proc[s].track \in Tracks
      BY <2>4, HandleFacts DEF Handles
    <3>2. Anchored(proc[s].track, n)
      BY <3>1 DEF Grounded, Anchors
    <3> QED
      BY <2>3, <2>4, <3>1, <3>2, Constants DEF Anchored
  <2>5. asset' = [asset EXCEPT ![n] = NoRow]
    BY <2>1, <2>2
  <2> QED
    BY <1>1, <2>1, <2>3, <2>4, <2>5, DropGrounded
<1> QED
  BY <1>3, <1>4

\* The old row leaves the track, and the new one stands for it.
LEMMA SwapGrounded ==
    ASSUME Typed, Grounded, NEW q \in Procs, Swap(q)
    PROVE  StaysGrounded
<1>1. /\ asset \in [Assets -> Row] /\ proc[q].pc = "swap" /\ proc[q] \in Task
      /\ Shape(proc[q]) /\ asset' \in [Assets -> Row]
      /\ proc[q].aid \in Live /\ proc[q].new \in Assets /\ proc[q].track \in Tracks
  BY SwapTask, HandleFacts DEF Typed, TypeOK, Swap, At
<1>2. PICK r \in Task : Carries(q, r, "cleanup")
  BY SwapTask
<1>3. PICK p \in Task, n \in Assets, a \in Assets, t \in Tracks :
         p = proc[q] /\ n = p.new /\ a = p.aid /\ t = p.track
  BY <1>1 DEF Live
<1>4. a < n /\ a \in Nat /\ n \in Nat /\ a # n /\ None \notin Tracks
  BY <1>1, <1>3, Constants DEF Grounded, Anchors
<1>5. /\ asset'[a] = [asset[a] EXCEPT !.track = None]
      /\ asset'[n] = [asset[n] EXCEPT !.pending = FALSE]
      /\ \A b \in Assets \ {a, n} : asset'[b] = asset[b]
      /\ asset[a] \in Row /\ asset[n] \in Row
  BY <1>1, <1>3, <1>4, SwapTask
<1>6. /\ asset'[a].live = asset[a].live /\ asset'[a].track = None
      /\ asset'[a].pending = asset[a].pending /\ asset'[a].file = asset[a].file
      /\ asset'[n].live = asset[n].live /\ asset'[n].track = asset[n].track
      /\ asset'[n].pending = FALSE /\ asset'[n].file = asset[n].file
  BY <1>5 DEF Row
<1>7. Moved
  BY ZenonT(60), <1>1, <1>5, <1>6 DEF Moved
<1>8. \/ asset[n].live /\ asset[n].track = t /\ asset[n].file # None
      \/ Secure(t, n)
  <2>1. Anchors(p) /\ n \in Handles(p)
    BY <1>1, <1>3 DEF Grounded, Handles
  <2> QED
    BY <1>1, <1>3, <2>1 DEF Anchors, Anchored
<1>9. Secure(t, a)'
  <2>1. CASE asset[n].live /\ asset[n].track = t /\ asset[n].file # None
    <3>1. asset'[n].live /\ asset'[n].track = t /\ ~asset'[n].pending /\ asset'[n].file # None
      BY <1>6, <2>1
    <3>2. a <= n
      BY <1>4
    <3> QED
      BY <3>1, <3>2 DEF Secure, Live
  <2>2. CASE Secure(t, n)
    <3>1. PICK b \in Live : /\ n <= b /\ asset[b].track = t
                            /\ ~asset[b].pending /\ asset[b].file # None
      BY <2>2 DEF Secure
    <3>2. b \in Assets /\ b \in Nat /\ asset[b].live
      BY <3>1, Constants DEF Live
    <3>3. a <= b /\ b # a
      BY <1>4, <3>1, <3>2
    <3>4. /\ asset'[b].live /\ asset'[b].track = t /\ ~asset'[b].pending
          /\ asset'[b].file # None
      BY ZenonT(60), <1>5, <1>6, <3>1, <3>2, <3>3
    <3> QED
      BY <3>2, <3>3, <3>4 DEF Secure, Live
  <2> QED
    BY <1>8, <2>1, <2>2
<1>10. asset[a].track \in Tracks => asset[a].track = t
  <2>1. Anchored(t, a)
    BY <1>3 DEF Grounded, Anchors, Handles
  <2> QED
    BY <1>1, <1>3, <1>4, <2>1 DEF Anchored, Live
<1>11. SecureStays
  <2> SUFFICES ASSUME NEW u \in Tracks, NEW x \in Nat, Secure(u, x) PROVE Secure(u, x)'
    BY DEF SecureStays
  <2>1. PICK b \in Live : /\ x <= b /\ asset[b].track = u
                          /\ ~asset[b].pending /\ asset[b].file # None
    BY DEF Secure
  <2>2. b \in Assets /\ asset[b].live /\ b \in Nat
    BY <2>1, Constants DEF Live
  <2>3. CASE b # a
    <3>1. /\ asset'[b].live /\ asset'[b].track = u /\ ~asset'[b].pending
          /\ asset'[b].file # None
      BY ZenonT(60), <1>5, <1>6, <2>1, <2>2, <2>3
    <3> QED
      BY <2>1, <2>2, <3>1 DEF Secure, Live
  <2>4. CASE b = a
    <3>1. u = t /\ x <= a
      BY <1>10, <2>1, <2>4
    <3>2. PICK c \in Assets : /\ asset'[c].live /\ a <= c /\ asset'[c].track = t
                              /\ ~asset'[c].pending /\ asset'[c].file # None
      BY <1>9 DEF Secure, Live
    <3>3. x <= c
      BY <1>4, <3>1, <3>2, Constants
    <3> QED
      BY <3>1, <3>2, <3>3 DEF Secure, Live
  <2> QED
    BY <2>3, <2>4
<1>12. Backed'
  <2>1. \A b \in Assets : asset'[b].live => asset[b].live
    BY <1>5, <1>6
  <2> QED
    BY <1>7, <1>11, <2>1, BackedStays DEF Grounded
<1>13. /\ Turns(q, r) /\ r.pc = "cleanup" /\ r.track = t /\ r.aid = a /\ Handles(r) = {a}
       /\ a # None
  BY <1>2, <1>3, Constants DEF Carries, Handles
<1>14. Anchors(r)'
  BY <1>6, <1>9, <1>13 DEF Anchors, Anchored, Handles
<1>15. ASSUME NEW s \in Procs \ {q} PROVE Apart(r, proc[s])
  <2>1. a \in Handles(proc[s]) => proc[s].track = t
    BY <1>3 DEF Grounded, Apart, Handles
  <2> QED
    BY <1>13, <2>1 DEF Apart
<1>16. ASSUME NEW s \in Procs \ {q}, proc[s].pc \in {"import", "swap"},
              asset[proc[s].new].live
       PROVE  /\ asset'[proc[s].new].live
              /\ asset'[proc[s].new].pending = asset[proc[s].new].pending
  <2>1. proc[s].new \in Assets
    BY <1>16, HandleFacts
  <2>2. proc[s].new # n
    BY <1>1, <1>3, <1>16 DEF Grounded, Apart
  <2> QED
    BY <1>5, <1>6, <1>16, <2>1, <2>2
<1>17. ASSUME NEW s \in Procs \ {q}, NEW x \in Handles(proc[s]),
              asset[x].live, asset[x].track = proc[s].track, asset'[x].live
       PROVE  asset'[x].track = proc[s].track \/ Secure(proc[s].track, x)'
  <2>1. CASE x = a
    <3>1. proc[s].track = t
      BY <1>3, <1>17, <2>1 DEF Grounded, Apart, Handles
    <3>2. proc'[s] = proc[s]
      BY <1>13 DEF Turns, Typed, TypeOK
    <3> QED
      BY <1>9, <2>1, <3>1, <3>2 DEF Secure, Live
  <2>2. CASE x # a
    BY ZenonT(60), <1>5, <1>6, <1>17, <2>2 DEF Handles
  <2> QED
    BY <2>1, <2>2
<1> QED
  BY SMTT(60), <1>7, <1>11, <1>12, <1>13, <1>14, <1>15, <1>16, <1>17, GroundedStep

LEMMA ChoiceGrounded ==
    ASSUME Typed, Grounded, NEW q \in Procs, ChoiceStep(q) \/ Breaks(q)
    PROVE  StaysGrounded
<1> DEFINE p == proc[q]
<1>1. CASE SelectRefused(q)
  <2>1. asset' = asset
    BY <1>1 DEF SelectRefused, db
  <2>2. PICK r \in Task : Turns(q, r) /\ r.pc \in {"idle", "next"} /\ r.aid = None
    BY <1>1, EndTask DEF SelectRefused, Turns
  <2> QED
    BY <2>1, <2>2, Unmoved, LetsGo
<1>2. CASE SelectCommit(q)
  <2>1. PICK now \in Row, b \in Assets :
           Agree(p, now) /\ Updated(q, now, b)
    BY <1>2, SelectCommitTask
  <2>2. /\ Ended(q) \in Task /\ Ended(q).pc \in {"idle", "next"} /\ Ended(q).aid = None
        /\ Turns(q, Ended(q))
    BY <1>2, EndedTask, SelectCommitTask DEF Ends, Turns
  <2>3. asset' \in [Assets -> Row]
    BY <1>2, SelectCommitTask DEF Typed, TypeOK
  <2> QED
    BY <2>1, <2>2, <2>3, UpdatedKeeps, LetsGo
<1>3. CASE Create(q)
  <2>1. asset' = asset
    BY <1>3 DEF Create, db
  <2>2. PICK r \in Task : Carries(q, r, "fetch")
    BY <1>3, CreateTask
  <2> QED
    BY <2>1, <2>2, Unmoved, HoldsOn DEF Carries
<1>4. CASE Breaks(q)
  <2>1. asset' = asset
    BY <1>4 DEF Breaks, db
  <2> QED
    BY <1>4, <2>1, Unmoved, BreaksTask, LetsGo
<1> QED
  BY <1>1, <1>2, <1>3, <1>4, FetchedGrounded, ImportGrounded, DroppedGrounded, SwapGrounded
     DEF ChoiceStep

LEMMA NextGrounded ==
    ASSUME Base, Grounded, [Next]_vars
    PROVE  StaysGrounded
<1> USE DEF Base
<1>1. ASSUME NEW q \in Procs, Asked(q) \/ SearchStep(q) \/ ChoiceStep(q) \/ Breaks(q)
      PROVE  StaysGrounded
  BY <1>1, AskedGrounded, SearchGrounded, ChoiceGrounded
<1>2. ASSUME NEW w \in Workers, Works(w) \/ \E a \in Assets : Claim(w, a)
      PROVE  StaysGrounded
  BY <1>2, WorkerGrounded
<1>3. CASE Restart
  BY <1>3, RestartGrounded
<1>4. CASE UNCHANGED vars
  <2>1. asset' = asset /\ proc' = proc
    BY <1>4 DEF vars, db
  <2> QED
    BY <2>1, Unmoved, ContentsGrounded
<1> QED
  BY <1>1, <1>2, <1>3, <1>4 DEF Next

LEMMA InitGrounded == Init => Grounded
<1> SUFFICES ASSUME Init PROVE Grounded
  OBVIOUS
<1>1. \A a \in Assets : asset[a] = NoRow /\ ~asset[a].live
  BY DEF Init, NoRow
<1>2. \A q \in Procs : proc[q].pc = "idle" /\ proc[q].aid = None
  BY DEF Init, IdleTask
<1>3. Backed
  BY <1>1 DEF Backed, Live
<1>4. \A q \in Procs : Anchors(proc[q]) /\ Handles(proc[q]) = {}
  BY <1>2, Constants DEF Anchors, Handles
<1>5. \A p, q \in Procs : Apart(proc[p], proc[q])
  BY <1>2, <1>4 DEF Apart
<1> QED
  BY <1>3, <1>4, <1>5 DEF Grounded

LEMMA GroundedHolds == Spec => [](Base /\ Grounded)
<1>1. Init => Base /\ Grounded
  BY InitBase, InitGrounded
<1>2. Base /\ Grounded /\ [Next]_vars => Base' /\ Grounded'
  BY NextBase, NextGrounded DEF StaysGrounded
<1> QED
  BY <1>1, <1>2, PTL DEF Spec

\* A track that has a file keeps one, whatever searches, selections, downloads,
\* replacements and the monitor do at once, however they fail, and when the
\* process stops: the file behind it is dropped only by the step that puts
\* another row of the track in its place (replace_track_media's last commits).
THEOREM TracksStayServed == Spec => StaysServed
<1>1. ASSUME Base, Grounded, [Next]_vars, NEW t \in Tracks, HasFile(t)
      PROVE  HasFile(t)'
  <2>1. Secure(t, None)
    BY <1>1 DEF HasFile, Grounded, Backed, Live
  <2>2. None \in Nat
    BY Constants
  <2>3. Secure(t, None)'
    BY <1>1, <2>1, <2>2, NextGrounded DEF StaysGrounded, SecureStays
  <2> QED
    BY <2>3 DEF Secure, HasFile, Live
<1> DEFINE Keeps == \A t \in Tracks : HasFile(t) => HasFile(t)'
<1>2. Base /\ Grounded /\ [Next]_vars => [Keeps]_vars
  BY <1>1
<1>3. Spec => [][Keeps]_vars
  BY <1>2, GroundedHolds, PTL DEF Spec
<1> QED
  BY <1>3 DEF StaysServed

-----------------------------------------------------------------------------
(* A row that is SEARCHING is being searched *)

\* From its first commit to its last, the search has the state as it wrote it:
\* what it writes at the end is then a change, and overwrites it.
Attends(p, a) ==
    /\ p.aid = a /\ p.pc \in {"wipe", "score"}
    /\ p.was.state = "SEARCHING" /\ p.now.file = None

IsSearching(a) == asset[a].live /\ asset[a].state = "SEARCHING"

Attended ==
    \A a \in Assets \ stranded : IsSearching(a) => \E q \in Procs : Attends(proc[q], a)

LEMMA AttendedStep ==
    ASSUME Typed, Attended, NEW q \in Procs, NEW r \in Task, Turns(q, r),
           stranded \subseteq stranded',
           \A a \in Assets : IsSearching(a)' =>
              \/ a \in stranded'
              \/ Attends(r, a)
              \/ IsSearching(a) /\ ~Attends(proc[q], a)
    PROVE  Attended'
<1>1. proc'[q] = r /\ \A p \in Procs \ {q} : proc'[p] = proc[p]
  BY DEF Typed, TypeOK, Turns
<1> SUFFICES ASSUME NEW a \in Assets, a \notin stranded', IsSearching(a)'
             PROVE  \E p \in Procs : Attends(proc'[p], a)
  BY DEF Attended, Attends
<1>2. CASE Attends(r, a)
  BY <1>1, <1>2
<1>3. CASE IsSearching(a) /\ ~Attends(proc[q], a)
  <2>1. PICK p \in Procs : Attends(proc[p], a)
    BY <1>3 DEF Attended
  <2>2. p # q
    BY <1>3, <2>1
  <2> QED
    BY <1>1, <2>1, <2>2
<1> QED
  BY <1>2, <1>3

\* A task that is not attending a row, and lets none become SEARCHING.
LEMMA Bystander ==
    ASSUME Typed, Attended, NEW q \in Procs, NEW r \in Task, Turns(q, r),
           proc[q].pc \notin {"wipe", "score"} \/ proc[q].now.file # None,
           UNCHANGED stranded, \A a \in Assets : IsSearching(a)' => IsSearching(a)
    PROVE  Attended'
BY AttendedStep DEF Attends

\* The row a session stores.
LEMMA StoredState ==
    ASSUME Typed, NEW q \in Procs, NEW now \in Row, NEW b \in Assets,
           Updated(q, now, b) \/ Inserted(q, now, b),
           now.state # "SEARCHING" \/
              (now.state = proc[q].was.state /\ proc[q].now.state = proc[q].was.state
               /\ proc[q].aid # None)
    PROVE  /\ \A a \in Assets : IsSearching(a)' => IsSearching(a)
           /\ now.state # "SEARCHING" /\ Attends(proc[q], b) => ~IsSearching(b)'
<1>0. asset \in [Assets -> Row]
  BY DEF Typed, TypeOK
<1>1. \A a \in Assets \ {b} : asset'[a] = asset[a]
  BY DEF Updated, Inserted
<1>2. IsSearching(b)' => IsSearching(b)
  <2>1. CASE Updated(q, now, b)
    BY <2>1, <1>0 DEF Updated, IsSearching
  <2>2. CASE Inserted(q, now, b)
    BY <2>2 DEF Inserted, IsSearching
  <2> QED
    BY <2>1, <2>2
<1>3. now.state # "SEARCHING" /\ Attends(proc[q], b) => ~IsSearching(b)'
  BY DEF Updated, Inserted, Attends, IsSearching
<1> QED
  BY <1>1, <1>2, <1>3 DEF IsSearching

LEMMA QuietBystander ==
    ASSUME Typed, Attended, NEW q \in Procs, NEW r \in Task, Turns(q, r),
           proc[q].pc \notin {"wipe", "score"}, UNCHANGED <<asset, stranded>>
    PROVE  Attended'
<1>1. \A a \in Assets : IsSearching(a)' => IsSearching(a)
  BY DEF IsSearching
<1> QED
  BY <1>1, Bystander

LEMMA AskedAttended ==
    ASSUME Typed, Attended, NEW q \in Procs, Asked(q)
    PROVE  Attended'
<1>1. ASSUME NEW t \in Tracks, NEW op \in {"run", "again"}, Begin(q, t, op) PROVE Attended'
  <2>1. proc[q].pc \notin {"wipe", "score"} /\ UNCHANGED <<asset, stranded>>
    BY <1>1 DEF Begin, At, db, history
  <2> QED
    BY <1>1, <2>1, BeginTask, QuietBystander DEF Looked
<1>2. CASE BulkList(q)
  <2>1. proc[q].pc \notin {"wipe", "score"} /\ UNCHANGED <<asset, stranded>>
    BY <1>2 DEF BulkList, At, db, history
  <2> QED
    BY <1>2, <2>1, BulkListTask, QuietBystander
<1>3. CASE MonitorTick(q)
  <2>1. proc[q].pc \notin {"wipe", "score"} /\ UNCHANGED <<asset, stranded>>
    BY <1>3 DEF MonitorTick, At, db, history
  <2> QED
    BY <1>3, <2>1, MonitorTickTask, QuietBystander
<1>4. ASSUME NEW c \in Candidates, SelectBegin(q, c) PROVE Attended'
  <2>1. proc[q].pc \notin {"wipe", "score"} /\ UNCHANGED <<asset, stranded>>
    BY <1>4 DEF SelectBegin, At, db, history
  <2> QED
    BY <1>4, <2>1, SelectBeginTask, QuietBystander
<1>5. ASSUME NEW c \in Candidates, ReplaceBegin(q, c) PROVE Attended'
  <2>1. proc[q].pc \notin {"wipe", "score"} /\ UNCHANGED <<asset, stranded>>
    BY <1>5 DEF ReplaceBegin, At, db, history
  <2> QED
    BY <1>5, <2>1, ReplaceBeginTask, QuietBystander
<1> QED
  BY <1>1, <1>2, <1>3, <1>4, <1>5 DEF Asked

LEMMA DiscoverAttended ==
    ASSUME Typed, Attended, NEW q \in Procs, Discover(q) \/ DiscoverFails(q)
    PROVE  Attended'
<1> DEFINE p == proc[q]
<1>1. /\ p \in Task /\ Shape(p) /\ p.pc = "discover" /\ p.now \in Row /\ OpenedAs(p)
      /\ p.aid = None => p.was = NoRow
  BY ZenonT(60) DEF Typed, TypeOK, At, Discover, DiscoverFails, Shape, Opened, Task,
                    Holding, Searching
<1>2. p.now.file # None => p.now.state = p.was.state /\ p.aid # None
  BY <1>1 DEF OpenedAs, Agree, NoRow
<1>3. p.now.file = None => p.now.state = "SEARCHING"
  BY <1>1 DEF OpenedAs, Agree
<1>4. ASSUME NEW b \in Assets, Updated(q, p.now, b) \/ Inserted(q, p.now, b)
      PROVE  /\ p.now.file # None => \A a \in Assets : IsSearching(a)' => IsSearching(a)
             /\ \A a \in Assets \ {b} : IsSearching(a)' => IsSearching(a)
  <2>1. \A a \in Assets \ {b} : IsSearching(a)' => IsSearching(a)
    BY <1>4 DEF Updated, Inserted, IsSearching
  <2>2. p.now.file # None => \A a \in Assets : IsSearching(a)' => IsSearching(a)
    BY <1>1, <1>2, <1>4, StoredState
  <2> QED
    BY <2>1, <2>2
<1>5. CASE DiscoverFails(q)
  <2>1. PICK r \in Task : Turns(q, r)
    BY <1>5, DiscoverFailsTask
  <2>2. PICK b \in Assets : /\ Updated(q, p.now, b) \/ Inserted(q, p.now, b)
                            /\ StoredId(q) = {b}
    BY <1>5, QuotaTyped DEF DiscoverFails
  <2>3. stranded' = IF p.now.file = None THEN stranded \cup {b} ELSE stranded
    BY <1>5, <2>2 DEF DiscoverFails
  <2>4. ~\E a : Attends(p, a)
    BY <1>1 DEF Attends
  <2>5. \A a \in Assets : IsSearching(a)' => a \in stranded' \/ IsSearching(a)
    BY <1>4, <2>2, <2>3
  <2>6. stranded \subseteq stranded'
    BY <2>3
  <2> QED
    BY <2>1, <2>4, <2>5, <2>6, AttendedStep
<1>6. CASE Discover(q)
  <2>1. PICK r \in Task :
           /\ Turns(q, r) /\ r.pc = "wipe" /\ r.now = p.now
           /\ ApiKey => /\ r.was = p.now
                        /\ Updated(q, r.now, r.aid) \/ Inserted(q, r.now, r.aid)
           /\ ~ApiKey => UNCHANGED <<db, lock, crossed>>
    BY SMTT(60), <1>6, DiscoverTask
  <2>2. stranded' = stranded
    BY <1>6 DEF Discover
  <2>3. CASE ~ApiKey
    <3>1. asset' = asset
      BY <2>1, <2>3 DEF db
    <3> QED
      BY <1>1, <2>1, <2>2, <3>1, QuietBystander
  <2>4. CASE ApiKey
    <3>1. PICK b \in Assets : b = r.aid /\ (Updated(q, p.now, b) \/ Inserted(q, p.now, b))
      BY <2>1, <2>4 DEF Updated, Inserted
    <3>2. p.now.file = None => Attends(r, b)
      BY <1>3, <2>1, <2>4, <3>1 DEF Attends
    <3>3. ~\E a : Attends(p, a)
      BY <1>1 DEF Attends
    <3>4. \A a \in Assets : IsSearching(a)' => Attends(r, a) \/ IsSearching(a)
      BY SMTT(60), <1>4, <3>1, <3>2
    <3> QED
      BY SMTT(60), <2>1, <2>2, <3>3, <3>4, AttendedStep
  <2> QED
    BY <2>3, <2>4
<1> QED
  BY SMTT(60), <1>5, <1>6

LEMMA VerdictAttended ==
    ASSUME Typed, Attended, NEW q \in Procs, NothingFound(q) \/ Found(q)
    PROVE  Attended'
<1> DEFINE p == proc[q]
<1>1. /\ p \in Task /\ Shape(p) /\ p.pc = "score" /\ OpenedAs(p)
      /\ p.aid = None => p.was = NoRow
  BY ZenonT(60) DEF Typed, TypeOK, At, NothingFound, Found, Shape, Opened, Task, Holding, Searching
<1>2. p.now.file # None => p.now.state = p.was.state /\ p.aid # None
  BY <1>1 DEF OpenedAs, Agree, NoRow
<1>3. ASSUME NEW now \in Row, NEW b \in Assets, Verdict(p, now),
             Updated(q, now, b) \/ Inserted(q, now, b), stranded' = stranded,
             NEW r \in Task, Turns(q, r)
      PROVE  Attended'
  <2>1. now.state # "SEARCHING" \/
           (now.state = p.was.state /\ p.now.state = p.was.state /\ p.aid # None)
    BY <1>2, <1>3 DEF Verdict
  <2>2. /\ \A a \in Assets : IsSearching(a)' => IsSearching(a)
        /\ now.state # "SEARCHING" /\ Attends(p, b) => ~IsSearching(b)'
    BY <1>3, <2>1, StoredState
  <2>3. ASSUME NEW a \in Assets, Attends(p, a) PROVE ~IsSearching(a)'
    <3>1. now.state # "SEARCHING"
      BY <1>3, <2>3 DEF Verdict, Attends
    <3>2. a = b
      BY <1>3, <2>3, Constants DEF Updated, Inserted, Attends
    <3> QED
      BY <2>2, <2>3, <3>1, <3>2
  <2> QED
    BY <1>3, <2>2, <2>3, AttendedStep
<1>4. CASE NothingFound(q)
  <2>1. CASE p.now.file # None /\ End(q) /\ UNCHANGED <<db, worker, history, asked>>
    <3>1. UNCHANGED stranded /\ \A a \in Assets : IsSearching(a)' => IsSearching(a)
      BY <2>1 DEF db, history, IsSearching
    <3>2. PICK r \in Task : Turns(q, r)
      BY <2>1, EndTask DEF Turns
    <3> QED
      BY <2>1, <3>1, <3>2, Bystander
  <2>2. ASSUME NEW now \in Row, NEW b \in Assets, Verdict(p, now), Ends(q),
               \E after \in WithCandidates(q, {}) : Settle(q, now, after),
               Updated(q, now, b) \/ Inserted(q, now, b)
        PROVE  Attended'
    <3>1. Ended(q) \in Task /\ Turns(q, Ended(q)) /\ stranded' = stranded
      BY <2>2, EndedTask DEF Ends, Turns, Settle
    <3> QED
      BY <1>3, <2>2, <3>1
  <2> QED
    BY <1>4, <2>1, <2>2, NothingFoundTask
<1>5. CASE Found(q)
  <2>1. PICK now \in Row, b \in Assets, videos \in SUBSET Videos :
           \E after \in WithCandidates(q, videos), r \in Task : FoundAs(q, now, b, after, r)
    BY <1>5, FoundTask
  <2>2. PICK after \in WithCandidates(q, videos), r \in Task : FoundAs(q, now, b, after, r)
    BY <2>1
  <2>3. /\ Verdict(p, now) /\ Turns(q, r) /\ stranded' = stranded
        /\ Updated(q, now, b) \/ Inserted(q, now, b)
    BY <2>2 DEF FoundAs, Settle
  <2> QED
    BY <1>3, <2>3
<1> QED
  BY <1>4, <1>5

LEMMA SearchAttended ==
    ASSUME Typed, Attended, NEW q \in Procs, SearchStep(q)
    PROVE  Attended'
<1>1. CASE OpenRefused(q)
  <2>1. proc[q].pc \notin {"wipe", "score"} /\ UNCHANGED <<asset, stranded>>
    BY <1>1 DEF OpenRefused, At, db, history
  <2> QED
    BY <1>1, <2>1, EndTask, QuietBystander DEF OpenRefused, Turns
<1>2. CASE Open(q)
  <2>1. proc[q].pc \notin {"wipe", "score"} /\ UNCHANGED <<asset, stranded>>
    BY <1>2 DEF Open, At, db, history
  <2> QED
    BY <1>2, <2>1, OpenTask, QuietBystander
<1>3. CASE Wipe(q)
  <2>1. UNCHANGED <<asset, stranded>>
    BY <1>3 DEF Wipe, db, history
  <2>2. PICK r \in Task :
           /\ Turns(q, r) /\ r.pc = "score" /\ r.aid = proc[q].aid
           /\ r.was = proc[q].was /\ r.now = proc[q].now
    BY <1>3, WipeTask
  <2>3. \A a \in Assets : IsSearching(a)' => IsSearching(a)
    BY <2>1 DEF IsSearching
  <2>4. \A a \in Assets : Attends(proc[q], a) => Attends(r, a)
    BY <2>2 DEF Attends
  <2> QED
    BY <2>1, <2>2, <2>3, <2>4, AttendedStep
<1>4. CASE BulkNext(q)
  <2>1. proc[q].pc \notin {"wipe", "score"} /\ UNCHANGED <<asset, stranded>>
    BY <1>4 DEF BulkNext, At, db, history
  <2> QED
    BY <1>4, <2>1, BulkNextTask, QuietBystander DEF Looked
<1>5. CASE MonitorNext(q)
  <2>1. proc[q].pc \notin {"wipe", "score"} /\ UNCHANGED <<asset, stranded>>
    BY <1>5 DEF MonitorNext, At, db, history
  <2>2. \E r \in Task : Turns(q, r)
    BY <1>5, MonitorNextTask DEF Looked
  <2> QED
    BY <2>1, <2>2, QuietBystander
<1>6. CASE Compare(q)
  <2>1. proc[q].pc \notin {"wipe", "score"} /\ UNCHANGED <<asset, stranded>>
    BY <1>6 DEF Compare, At, db, history
  <2>2. \E r \in Task : Turns(q, r)
    BY <1>6, CompareTask
  <2> QED
    BY <2>1, <2>2, QuietBystander
<1> QED
  BY <1>1, <1>2, <1>3, <1>4, <1>5, <1>6, DiscoverAttended, VerdictAttended DEF SearchStep

LEMMA ChoiceAttended ==
    ASSUME Typed, Grounded, Attended, NEW q \in Procs, ChoiceStep(q)
    PROVE  Attended'
<1> DEFINE p == proc[q]
<1>0. p \in Task /\ asset \in [Assets -> Row]
  BY DEF Typed, TypeOK
<1>1. CASE SelectRefused(q)
  <2>1. p.pc \notin {"wipe", "score"} /\ UNCHANGED <<asset, stranded>>
    BY <1>1 DEF SelectRefused, At, db, history
  <2> QED
    BY <1>1, <2>1, EndTask, QuietBystander DEF SelectRefused, Turns
<1>2. CASE SelectCommit(q)
  <2>1. PICK now \in Row, b \in Assets :
           now.state = "CANDIDATE_SELECTED" /\ Settle(q, now, cands) /\ Updated(q, now, b)
    BY <1>2, SelectCommitTask
  <2>2. \A a \in Assets : IsSearching(a)' => IsSearching(a)
    BY <2>1, StoredState
  <2>3. /\ Ended(q) \in Task /\ Turns(q, Ended(q)) /\ stranded' = stranded
        /\ p.pc \notin {"wipe", "score"}
    BY <1>2, <2>1, EndedTask, SelectCommitTask DEF Ends, Turns, Settle, SelectCommit, At
  <2> QED
    BY <2>2, <2>3, Bystander
<1>3. CASE Create(q)
  <2>1. p.pc \notin {"wipe", "score"} /\ UNCHANGED <<asset, stranded>>
    BY <1>3 DEF Create, At, db, history
  <2> QED
    BY <1>3, <2>1, CreateTask, QuietBystander DEF Carries
<1>4. CASE Fetched(q)
  <2>1. PICK r \in Task, b \in Assets : FetchedRow(q, r, b)
    BY <1>4, FetchedTask
  <2>2. /\ Turns(q, r) /\ asset' = [asset EXCEPT ![b] = Replacement(q)]
        /\ p.pc = "fetch" /\ stranded' = stranded
    BY <1>4, <2>1 DEF FetchedRow, Carries, Fetched, At, history
  <2>3. Replacement(q).state = "DOWNLOADING"
    BY <2>2, ReplacementRow DEF Replacing
  <2>4. \A a \in Assets : IsSearching(a)' => IsSearching(a)
    BY <1>0, <2>2, <2>3 DEF IsSearching
  <2> QED
    BY <2>2, <2>4, Bystander
<1>5. CASE ImportNew(q)
  <2>1. PICK r \in Task : Carries(q, r, "swap")
    BY <1>5, ImportNewTask
  <2>2. /\ p.new \in Assets /\ p.pc = "import" /\ stranded' = stranded
        /\ asset' = [asset EXCEPT ![p.new] =
                        [asset[p.new] EXCEPT !.state = "AVAILABLE", !.file = p.video]]
    BY <1>5, ImportNewTask DEF ImportNew, At, history
  <2>3. asset'[p.new].state = "AVAILABLE" /\ \A b \in Assets \ {p.new} : asset'[b] = asset[b]
    <3>1. asset[p.new] \in Row
      BY <1>0, <2>2
    <3>2. asset'[p.new] = [asset[p.new] EXCEPT !.state = "AVAILABLE", !.file = p.video]
          /\ \A b \in Assets \ {p.new} : asset'[b] = asset[b]
      BY <1>0, <2>2
    <3> QED
      BY <3>1, <3>2 DEF Row
  <2>4. \A a \in Assets : IsSearching(a)' => IsSearching(a)
    BY <2>2, <2>3 DEF IsSearching
  <2> QED
    BY <2>1, <2>2, <2>4, Bystander DEF Carries
<1>6. CASE ReplaceFails(q) \/ Cleanup(q)
  <2>1. /\ Ended(q) \in Task /\ Turns(q, Ended(q))
        /\ asset' = asset \/ \E n \in Assets : asset' = [asset EXCEPT ![n] = NoRow]
    BY <1>6, EndedTask, ReplaceFailsTask, CleanupTask
  <2>2. p.pc \notin {"wipe", "score"} /\ stranded' = stranded
    BY <1>6 DEF ReplaceFails, Cleanup, At, history
  <2>3. ~NoRow.live
    BY DEF NoRow
  <2>4. \A a \in Assets : IsSearching(a)' => IsSearching(a)
    BY <1>0, <2>1, <2>3 DEF IsSearching
  <2> QED
    BY <2>1, <2>2, <2>4, Bystander
<1>7. CASE Swap(q)
  <2>1. PICK r \in Task : Carries(q, r, "cleanup")
    BY <1>7, SwapTask
  <2>2. p.pc = "swap" /\ stranded' = stranded /\ p.aid \in Assets /\ p.new \in Assets
    BY <1>7, SwapTask DEF Swap, At, history, Live
  <2>3. p.aid # p.new
    <3>1. Anchors(p)
      BY DEF Grounded
    <3>2. p.aid < p.new
      BY <2>2, <3>1 DEF Anchors
    <3>3. p.aid \in Nat /\ p.new \in Nat
      BY <2>2, Constants
    <3> QED
      BY <3>2, <3>3
  <2>4. /\ asset'[p.aid] = [asset[p.aid] EXCEPT !.track = None]
        /\ asset'[p.new] = [asset[p.new] EXCEPT !.pending = FALSE]
        /\ \A b \in Assets \ {p.aid, p.new} : asset'[b] = asset[b]
        /\ asset[p.aid] \in Row /\ asset[p.new] \in Row
    BY <1>0, <1>7, <2>2, <2>3, SwapTask
  <2>5. /\ asset'[p.aid].live = asset[p.aid].live /\ asset'[p.aid].state = asset[p.aid].state
        /\ asset'[p.new].live = asset[p.new].live /\ asset'[p.new].state = asset[p.new].state
    BY <2>4 DEF Row
  <2>6. \A a \in Assets : IsSearching(a)' => IsSearching(a)
    BY ZenonT(60), <2>4, <2>5 DEF IsSearching
  <2> QED
    BY <2>1, <2>2, <2>6, Bystander DEF Carries
<1> QED
  BY <1>1, <1>2, <1>3, <1>4, <1>5, <1>6, <1>7 DEF ChoiceStep

LEMMA BreaksAttended ==
    ASSUME Typed, Attended, NEW q \in Procs, Breaks(q)
    PROVE  Attended'
<1>1. PICK r \in Task : Turns(q, r)
  BY BreaksTask
<1>2. /\ asset' = asset
      /\ stranded' = stranded \cup {a \in Live : a = proc[q].aid /\ asset[a].state = "SEARCHING"}
  BY DEF Breaks, db
<1>3. \A a \in Assets : IsSearching(a)' => IsSearching(a)
  BY <1>2 DEF IsSearching
<1>4. \A a \in Assets : IsSearching(a) /\ Attends(proc[q], a) => a \in stranded'
  BY <1>2 DEF IsSearching, Attends, Live
<1> QED
  BY <1>1, <1>2, <1>3, <1>4, AttendedStep

\* A worker's step leaves the tasks as they are.
LEMMA WorkerAttended ==
    ASSUME Typed, WorkersHold, Attended, NEW w \in Workers,
           Works(w) \/ \E a \in Assets : Claim(w, a)
    PROVE  Attended'
<1>0. asset \in [Assets -> Row]
  BY DEF Typed, TypeOK
<1>1. ASSUME proc' = proc, stranded' = stranded,
             \A a \in Assets : IsSearching(a)' => IsSearching(a)
      PROVE  Attended'
  BY <1>1 DEF Attended
<1>2. CASE Load(w)
  BY <1>1, <1>2 DEF Load, db, history, IsSearching
<1>3. ASSUME NEW state, NEW video, Concluded(w, state, video), state # "SEARCHING"
      PROVE  Attended'
  <2>1. proc' = proc /\ stranded' = stranded
    BY <1>3 DEF Concluded
  <2>2. \A a \in Assets : IsSearching(a)' => IsSearching(a)
    BY <1>3 DEF Concluded, IsSearching
  <2> QED
    BY <1>1, <2>1, <2>2
<1>4. CASE Import(w) \/ Fail(w)
  BY <1>3, <1>4, AttemptEnds DEF Served
<1>5. ASSUME NEW a \in Assets, Claim(w, a) PROVE Attended'
  <2>1. /\ asset' = [asset EXCEPT ![a] = [asset[a] EXCEPT !.state = "DOWNLOADING"]]
        /\ proc' = proc /\ stranded' = stranded
    BY <1>5 DEF Claim, history
  <2>2. asset'[a].state = "DOWNLOADING" /\ \A b \in Assets \ {a} : asset'[b] = asset[b]
    <3>1. asset[a] \in Row
      BY <1>0
    <3>2. asset'[a] = [asset[a] EXCEPT !.state = "DOWNLOADING"]
          /\ \A b \in Assets \ {a} : asset'[b] = asset[b]
      BY <1>0, <2>1
    <3> QED
      BY <3>1, <3>2 DEF Row
  <2>3. \A b \in Assets : IsSearching(b)' => IsSearching(b)
    BY <2>2 DEF IsSearching
  <2> QED
    BY <1>1, <2>1, <2>3
<1> QED
  BY <1>2, <1>4, <1>5 DEF Works

LEMMA RestartAttended ==
    ASSUME Typed, WorkersHold, Attended, Restart
    PROVE  Attended'
<1>1. /\ stranded' = stranded \cup {a \in Live : asset[a].state = "SEARCHING"}
      /\ \A a \in Assets :
            /\ asset[a].pending => asset'[a] = NoRow
            /\ ~asset[a].pending =>
                  /\ asset'[a].live = asset[a].live
                  /\ asset'[a].state = IF asset[a].state = "DOWNLOADING" THEN "QUEUED"
                                       ELSE asset[a].state
  BY RestartRows
<1>2. ~NoRow.live
  BY DEF NoRow
<1>3. \A a \in Assets : IsSearching(a)' => IsSearching(a)
  BY <1>1, <1>2 DEF IsSearching
<1>4. \A a \in Assets : IsSearching(a) => a \in stranded'
  BY <1>1 DEF IsSearching, Live
<1> QED
  BY <1>3, <1>4 DEF Attended

\* SEARCHING means that a search is under way (or that one has died on the row,
\* which stranded records): the search that wrote the state is still to write
\* its verdict, and only its verdict, a failure of its session or the end of the
\* process takes it away.
THEOREM SearchingRowsAreSearched == Spec => []SearchingIsSearched
<1>1. Init => Base /\ Grounded /\ Attended
  <2> SUFFICES ASSUME Init PROVE Attended
    BY InitBase, InitGrounded
  <2>1. \A a \in Assets : ~asset[a].live
    BY DEF Init, NoRow
  <2> QED
    BY <2>1 DEF Attended, IsSearching
<1>2. Base /\ Grounded /\ Attended /\ [Next]_vars => Base' /\ Grounded' /\ Attended'
  <2> SUFFICES ASSUME Base, Grounded, Attended, [Next]_vars PROVE Attended'
    BY NextBase, NextGrounded DEF StaysGrounded
  <2>0. Typed /\ WorkersHold
    BY DEF Base
  <2>1. CASE UNCHANGED vars
    BY <2>1 DEF vars, db, history, Attended, IsSearching
  <2> QED
    BY <2>0, <2>1, AskedAttended, SearchAttended, ChoiceAttended, BreaksAttended,
       WorkerAttended, RestartAttended DEF Next
<1>3. Base /\ Attended => SearchingIsSearched
  BY DEF Base, Attended, IsSearching, Attends, SearchingIsSearched, Live
<1> QED
  BY <1>1, <1>2, <1>3, PTL DEF Spec
=============================================================================
