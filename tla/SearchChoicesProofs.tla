------------------------ MODULE SearchChoicesProofs ------------------------
(***************************************************************************)
(* What becomes of a choice, for any number of tracks, rows, candidates,   *)
(* tasks and workers: the row names the candidate that was chosen, the     *)
(* file is the video it names, no search touches a row that has a file,    *)
(* and a human's choice is exchanged only by a human or by a monitor that  *)
(* has read it as one, except where crossed records that a session has     *)
(* written over what it had not read.                                      *)
(***************************************************************************)
EXTENDS SearchSelectionProofs

Clear == Tracks \ crossed

\* Some row stands for a track, with an id of at least a.
Held(a) == \E t \in Tracks : Secure(t, a)

Names(a) ==
    /\ asset[a].cand \in Candidates
    /\ cands[asset[a].cand] = [track |-> asset[a].track, video |-> asset[a].source]

\* A row as the code means it: its file is what it names, a replacement's row is
\* being downloaded or has its file, one without a file is the track's only one
\* but for replacements, and what is to be downloaded is named.
Fits(a) ==
    /\ asset[a].file # None => asset[a].state \in Served /\ asset[a].file = asset[a].source
    /\ asset[a].pending => asset[a].state \in {"DOWNLOADING", "AVAILABLE"}
    /\ ~asset[a].pending /\ asset[a].file = None =>
          \A b \in Live : asset[b].track = asset[a].track => b = a
    /\ ~asset[a].pending /\ asset[a].state \in Claimable \cup {"DOWNLOADING"} => Names(a)

RowsProper == \A a \in Live : asset[a].track \in Clear => Fits(a)

\* A queue worker could claim a replacement's row, but only on a crossed track,
\* and another row is served then.
PendingHeld == \A a \in Live : asset[a].pending /\ asset[a].state \in Claimable => Held(a)

Working(w, a) == worker[w].pc # "idle" /\ worker[w].aid = a

\* An attempt's row is DOWNLOADING as the worker read it, and nobody else's.
Attempted(w, a) ==
    /\ asset[a].state = "DOWNLOADING" /\ ~asset[a].pending
    /\ worker[w].pc = "fetch" => worker[w].seen = asset[a] /\ worker[w].video = asset[a].source
    /\ \A v \in Workers \ {w} : ~Working(v, a)

Attempts ==
    \A w \in Workers, a \in Assets : Working(w, a) =>
       /\ (asset[a].live /\ ~asset[a].pending) \/ Held(a)
       /\ asset[a].live /\ asset[a].track \in Clear => Attempted(w, a)

\* The new row of a replacement is as its task has left it.
Brings(p) ==
    p.pc \in {"import", "swap"} /\ asset[p.new].live /\ asset[p.new].track \in Clear =>
       /\ asset[p.new].source = p.video
       /\ asset[p.new].state = IF p.pc = "import" THEN "DOWNLOADING" ELSE "AVAILABLE"

\* Deletions that are pending, and a new row, are behind the write lock.  What
\* they delete nobody downloads from: the track has a file, or the search that
\* deletes them is about to say what becomes of the row.
Deletes(q) ==
    /\ proc[q].gone # {} \/ proc[q].pc = "fetch" => lock = q
    /\ proc[q].pc \notin Searching \cup {"next"} => proc[q].gone = {}
    /\ \A c \in proc[q].gone : \/ Secure(cands[c].track, None)
                               \/ proc[q].pc = "score" /\ cands[c].track = proc[q].track

Tasks == \A q \in Procs : Brings(proc[q]) /\ Deletes(q)

Chosen == RowsProper /\ PendingHeld /\ Attempts /\ Tasks

-----------------------------------------------------------------------------
(* What a step may do to a row of a track that is not crossed *)

FileStays(a) ==
    asset[a].file # None =>
       /\ asset'[a].state = asset[a].state
       /\ asset'[a].file = asset[a].file
       /\ asset'[a].cand = asset[a].cand

Respected ==
    \A a \in Live : asset'[a].live /\ asset[a].track \in Tracks \ crossed'
                       => FileStays(a)

Careful == Chosen' /\ Respected

-----------------------------------------------------------------------------
(* What the steps below share *)

LEMMA HeldStays ==
    ASSUME SecureStays, NEW a \in Assets, Held(a)
    PROVE  Held(a)'
<1>1. PICK t \in Tracks : Secure(t, a)
  BY DEF Held
<1>2. a \in Nat
  BY Constants
<1>3. Secure(t, a)'
  BY <1>1, <1>2 DEF SecureStays
<1> QED
  BY <1>3 DEF Held

\* A row without a file is its track's only one, so no file stands for it.
LEMMA LonelyRow ==
    ASSUME RowsProper, NEW a \in Live, asset[a].track \in Clear,
           ~asset[a].pending, asset[a].file = None, NEW x
    PROVE  ~Secure(asset[a].track, x)
<1>1. \A b \in Live : asset[b].track = asset[a].track => b = a
  BY DEF RowsProper, Fits
<1> QED
  BY <1>1 DEF Secure

\* What is to be downloaded has no file.
LEMMA Downloadable ==
    ASSUME RowsProper, NEW a \in Live, asset[a].track \in Clear,
           asset[a].state \in Claimable \cup {"DOWNLOADING"}
    PROVE  /\ asset[a].file = None
           /\ ~asset[a].pending => Names(a)
BY DEF RowsProper, Fits, Claimable, Served

\* While one task may write, no other has deletions pending or a row to insert.
LEMMA OthersAreOut ==
    ASSUME Typed, Tasks, NEW q \in Procs, CanWrite(q), NEW s \in Procs \ {q}
    PROVE  proc[s].gone = {} /\ proc[s].pc # "fetch"
BY Constants DEF Tasks, Deletes, CanWrite

\* The attempts under way, when their rows stay, or are crossed.
LEMMA AttemptsStay ==
    ASSUME Typed, Attempts, SecureStays, worker' = worker, crossed \subseteq crossed',
           \A w \in Workers, a \in Assets : Working(w, a) =>
              /\ asset[a].live /\ ~asset[a].pending =>
                    (asset'[a].live /\ ~asset'[a].pending) \/ Held(a)'
              /\ asset'[a].live /\ asset'[a].track \in Clear' =>
                    asset'[a] = asset[a]
    PROVE  Attempts'
<1> SUFFICES ASSUME NEW w \in Workers, NEW a \in Assets, Working(w, a)'
             PROVE  /\ (asset'[a].live /\ ~asset'[a].pending) \/ Held(a)'
                    /\ asset'[a].live /\ asset'[a].track \in Clear' => Attempted(w, a)'
  BY DEF Attempts
<1>1. Working(w, a) /\ \A v \in Workers : ~Working(v, a) => ~Working(v, a)'
  BY DEF Working
<1>2. (asset[a].live /\ ~asset[a].pending) \/ Held(a)
  BY <1>1 DEF Attempts
<1>3. (asset'[a].live /\ ~asset'[a].pending) \/ Held(a)'
  BY <1>1, <1>2, HeldStays
<1>4. ASSUME asset'[a].live, asset'[a].track \in Clear' PROVE Attempted(w, a)'
  <2>1. asset'[a] = asset[a]
    BY <1>1, <1>4
  <2>2. asset[a].live /\ asset[a].track \in Clear
    BY <1>4, <2>1 DEF Clear
  <2>3. Attempted(w, a)
    BY <1>1, <2>2 DEF Attempts
  <2> QED
    BY <1>1, <2>1, <2>3 DEF Attempted
<1> QED
  BY <1>3, <1>4

\* A task that moves without writing.
LEMMA QuietChosen ==
    ASSUME Typed, Chosen, NEW q \in Procs, NEW r \in Task, Turns(q, r),
           UNCHANGED <<asset, cands, crossed, worker>>,
           \/ lock' = lock
           \/ lock' = q /\ CanWrite(q)
           \/ lock = q /\ lock' = None,
           r.pc \notin {"import", "swap"},
           r.gone # {} \/ r.pc = "fetch" => lock' = q,
           r.pc \notin Searching \cup {"next"} => r.gone = {},
           \A c \in r.gone : \/ Secure(cands[c].track, None)
                             \/ r.pc = "score" /\ cands[c].track = r.track
    PROVE  Careful
<1>0. proc'[q] = r /\ \A s \in Procs \ {q} : proc'[s] = proc[s]
  BY DEF Typed, TypeOK, Turns
<1>1. Live' = Live /\ Clear' = Clear
  BY DEF Live, Clear
<1>2. \A t, a : Secure(t, a)' <=> Secure(t, a)
  BY <1>1 DEF Secure
<1>3. RowsProper' /\ PendingHeld'
  BY <1>1, <1>2 DEF Chosen, RowsProper, Fits, Names, PendingHeld, Held
<1>4. Attempts'
  <2>1. SecureStays
    BY <1>2 DEF SecureStays
  <2> QED
    BY <2>1, AttemptsStay DEF Chosen
<1>5. ASSUME NEW s \in Procs PROVE Brings(proc[s])' /\ Deletes(s)'
  <2>1. CASE s = q
    <3>1. Brings(proc[q])'
      BY <1>0, <1>1 DEF Brings
    <3>2. Deletes(q)'
      BY <1>0, <1>2 DEF Deletes
    <3> QED
      BY <2>1, <3>1, <3>2
  <2>2. CASE s # q
    <3>1. proc'[s] = proc[s] /\ Brings(proc[s]) /\ Deletes(s)
      BY <1>0, <2>2 DEF Chosen, Tasks
    <3>2. Brings(proc[s])'
      BY <1>1, <3>1 DEF Brings
    <3>3. lock = s => lock' = s
      BY <2>2, Constants DEF CanWrite
    <3>4. Deletes(s)'
      BY <1>2, <3>1, <3>3 DEF Deletes
    <3> QED
      BY <3>2, <3>4
  <2> QED
    BY <2>1, <2>2
<1>6. Chosen'
  BY <1>3, <1>4, <1>5 DEF Chosen, Tasks
<1>7. Respected
  BY DEF Respected, FileStays
<1> QED
  BY <1>6, <1>7 DEF Careful

\* A task that writes.
LEMMA WriterChosen ==
    ASSUME Typed, Chosen, SecureStays, NEW q \in Procs, NEW r \in Task, Turns(q, r),
           CanWrite(q), lock' \in {lock, None}, crossed \subseteq crossed',
           r.gone = {}, r.pc # "fetch",
           Brings(r)', \A s \in Procs \ {q} : Brings(proc[s])',
           RowsProper', PendingHeld', Attempts'
    PROVE  Chosen'
<1>0. proc'[q] = r /\ \A s \in Procs \ {q} : proc'[s] = proc[s]
  BY DEF Typed, TypeOK, Turns
<1>1. Clear' \subseteq Clear
  BY DEF Clear
<1>2. ASSUME NEW s \in Procs PROVE Brings(proc[s])' /\ Deletes(s)'
  <2>1. CASE s = q
    <3>1. Brings(proc[q])'
      BY <1>0, <1>1 DEF Brings
    <3>2. Deletes(q)'
      BY <1>0 DEF Deletes
    <3> QED
      BY <2>1, <3>1, <3>2
  <2>2. CASE s # q
    <3>1. proc'[s] = proc[s] /\ proc[s].gone = {} /\ proc[s].pc # "fetch"
      BY <1>0, <2>2, OthersAreOut DEF Chosen
    <3>2. Deletes(s)'
      BY <3>1 DEF Deletes
    <3> QED
      BY <2>2, <3>2
  <2> QED
    BY <2>1, <2>2
<1> QED
  BY <1>2 DEF Chosen, Tasks

-----------------------------------------------------------------------------
(* A session that stores its row *)

\* What a session may make of its row: it leaves one with a file as it is, and
\* names the candidate of one that is to be downloaded.
Rightful(p, now) ==
    /\ p.was.file # None =>
          now.state = p.was.state /\ now.source = p.was.source /\ now.cand = p.was.cand
    /\ p.was.file = None =>
          /\ now.state # "DOWNLOADING"
          /\ now.state \in Claimable /\ p.track \in Clear' =>
                /\ now.cand \in Candidates
                /\ cands'[now.cand] = [track |-> p.track, video |-> now.source]
          /\ p.pc = "score" => Changed(p, now)

\* It stores the row, in a step that commits what it has deleted.
Stores(q, now, b, r) ==
    /\ Turns(q, r) /\ r.gone = {} /\ r.pc \notin {"import", "swap", "fetch", proc[q].pc}
    /\ proc[q].pc \in Searching \cup {"select"} /\ CanWrite(q) /\ lock' = None
    /\ worker' = worker
    /\ Agree(proc[q], now) /\ Rightful(proc[q], now) /\ Note(q, now)
    /\ Updated(q, now, b) \/ Inserted(q, now, b)
    /\ \A c \in Candidates : c \notin proc[q].gone /\ cands[c] # NoCandidate
          => cands'[c] = cands[c]

\* The task ends, or goes on with the row it has stored.
GoesOn(q, now, b, r) ==
    /\ Lessens(q, r)
    /\ \/ r.pc \in {"idle", "next"}
       \/ /\ r.pc \in {"wipe", "compare"} /\ proc[q].pc \in Opened
          /\ r.op = proc[q].op /\ r.track = proc[q].track /\ r.aid = b /\ r.was = now

\* A search leaves no human's choice, a selection makes one of a row without a file.
Wills(p, now) ==
    \/ p.pc \in Opened /\ ~now.manual
    \/ p.pc = "select" /\ now.manual /\ p.was.file = None

\* On a track that is not crossed, the row stored is as it was or was as it had
\* been read, and nobody's download; or it is the track's first.
LEMMA StoredAsRead ==
    ASSUME Typed, Grounded, NEW q \in Procs, NEW now \in Row, NEW b \in Assets, NEW r \in Task,
           Stores(q, now, b, r), asset'[b].live, asset'[b].track \in Clear'
    PROVE  /\ asset'[b].track = proc[q].track
           /\ \/ ~Changed(proc[q], now) /\ asset'[b] = asset[b]
              \/ /\ Updated(q, now, b) /\ Changed(proc[q], now) /\ asset[b] = proc[q].was
                 /\ asset'[b] = now /\ b \in Live /\ asset[b].state # "DOWNLOADING"
              \/ /\ Inserted(q, now, b) /\ asset'[b] = now /\ RowsOf(proc[q].track) = {}
                 /\ proc[q].was = NoRow
<1> DEFINE p == proc[q]
<1>1. /\ p \in Task /\ Shape(p) /\ p.pc \in Holding /\ Anchors(p) /\ now.track = p.track
      /\ crossed \in SUBSET Tracks
  BY DEF Typed, TypeOK, Stores, Holding, Searching, Grounded, Agree
<1>2. asset'[b].track \in Tracks /\ asset'[b].track \notin crossed'
  BY DEF Clear
<1>3. None \notin Tracks
  BY Constants
<1>4. CASE Updated(q, now, b)
  <2>1. /\ b = p.aid /\ b \in Handles(p) /\ asset[b].live /\ asset'[b].track = asset[b].track
        /\ p.aid # None
    BY <1>4, Constants DEF Updated, Handles
  <2>2. asset[b].track = p.track
    BY <1>1, <1>2, <1>3, <2>1 DEF Anchors, Anchored
  <2>3. CASE ~Changed(p, now)
    BY <1>4, <2>1, <2>2, <2>3 DEF Updated
  <2>4. CASE Changed(p, now)
    <3>1. ~Crosses(q, now)
      BY <1>2, <2>1, <2>2 DEF Stores, Note
    <3>2. asset[b] = p.was /\ asset[b].state # "DOWNLOADING"
      BY <2>1, <2>4, <3>1 DEF Crosses
    <3> QED
      BY <1>4, <2>1, <2>2, <2>4, <3>2 DEF Updated
  <2> QED
    BY <2>3, <2>4
<1>5. CASE Inserted(q, now, b)
  <2>1. p.aid = None /\ asset'[b] = now
    BY <1>5 DEF Inserted
  <2>2. ~Crosses(q, now)
    BY <1>1, <1>2, <2>1 DEF Stores, Note
  <2>3. RowsOf(p.track) = {}
    BY <2>1, <2>2 DEF Crosses
  <2>4. p.was = NoRow
    BY <1>1, <2>1 DEF Shape
  <2> QED
    BY <1>1, <1>5, <2>1, <2>3, <2>4
<1> QED
  BY <1>4, <1>5 DEF Stores

\* A candidate that a row is downloaded from is not deleted.
LEMMA NamesStay ==
    ASSUME Typed, Grounded, Chosen, NEW q \in Procs, NEW now \in Row, NEW b \in Assets,
           NEW r \in Task, Stores(q, now, b, r), NEW a \in Live,
           asset'[a] = asset[a], asset[a].track \in Clear',
           ~asset[a].pending, asset[a].state \in Claimable \cup {"DOWNLOADING"}
    PROVE  Names(a)'
<1> DEFINE p == proc[q]
           c == asset[a].cand
<1>0. p \in Task /\ Shape(p) /\ Anchors(p) /\ p.pc \in Holding /\ asset[a].track \in Tracks
  BY DEF Typed, TypeOK, Stores, Holding, Searching, Grounded, Clear
<1>1. crossed \subseteq crossed' /\ asset[a].track \in Clear
  BY DEF Stores, Note, Clear
<1>2. asset[a].file = None /\ Names(a)
  BY <1>1, Downloadable DEF Chosen
<1>3. c \in Candidates /\ cands[c] = [track |-> asset[a].track, video |-> asset[a].source]
  BY <1>2 DEF Names
<1>4. cands[c] # NoCandidate
  BY <1>0, <1>3, Constants DEF NoCandidate
<1>5. \A x : ~Secure(asset[a].track, x)
  BY <1>1, <1>2, LonelyRow DEF Chosen
<1>6. CASE c \notin p.gone
  <2>1. cands'[c] = cands[c]
    BY <1>3, <1>4, <1>6 DEF Stores
  <2> QED
    BY <1>3, <2>1 DEF Names
<1>7. CASE c \in p.gone
  <2>1. p.pc = "score" /\ p.track = asset[a].track
    BY <1>3, <1>5, <1>7 DEF Chosen, Tasks, Deletes
  <2>2. p.was.file = None
    BY <1>0, <1>5, <2>1 DEF Anchors, Shape, NoRow
  <2>3. Changed(p, now)
    BY <2>1, <2>2 DEF Stores, Rightful
  <2>4. ~Crosses(q, now)
    BY <2>1, <1>0 DEF Stores, Note, Clear
  <2>5. CASE Inserted(q, now, b)
    <3>1. RowsOf(p.track) = {}
      BY <2>4, <2>5 DEF Inserted, Crosses
    <3> QED
      BY <2>1, <3>1 DEF RowsOf
  <2>6. CASE Updated(q, now, b)
    <3>1. b = p.aid /\ b \in Handles(p) /\ p.aid # None
      BY <2>6, Constants DEF Updated, Handles
    <3>2. asset[b] = p.was /\ asset[b].state # "DOWNLOADING" /\ asset'[b] = now /\ b \in Live
      BY <2>3, <2>4, <2>6, <3>1 DEF Crosses, Updated
    <3>3. asset[b].track = asset[a].track
      BY <1>0, <2>1, <3>1, <3>2 DEF Shape
    <3>4. b = a
      BY <1>1, <1>2, <3>2, <3>3 DEF Chosen, RowsProper, Fits
    <3>5. now = asset[a] /\ now.state \in Claimable
      BY <3>2, <3>4
    <3>6. now.cand \in Candidates /\ cands'[now.cand] = [track |-> p.track, video |-> now.source]
      BY <2>1, <2>2, <3>5 DEF Stores, Rightful
    <3> QED
      BY <2>1, <3>5, <3>6 DEF Names
  <2> QED
    BY <2>5, <2>6 DEF Stores
<1> QED
  BY <1>6, <1>7

\* The rows afterwards.
LEMMA StoresProper ==
    ASSUME Typed, Grounded, Chosen, Typed', NEW q \in Procs, NEW now \in Row, NEW b \in Assets,
           NEW r \in Task, Stores(q, now, b, r)
    PROVE  RowsProper'
<1> DEFINE p == proc[q]
<1>0. p \in Task /\ Shape(p) /\ Agree(p, now) /\ Rightful(p, now)
  BY DEF Typed, TypeOK, Stores
<1>1. crossed \subseteq crossed'
  BY DEF Stores, Note
<1> SUFFICES ASSUME NEW a \in Assets, asset'[a].live, asset'[a].track \in Clear'
             PROVE  Fits(a)'
  BY DEF RowsProper, Live
<1>2. \A d \in Assets \ {b} : asset'[d] = asset[d]
  BY DEF Stores, Updated, Inserted
<1>3. ASSUME asset'[a] = asset[a] PROVE Fits(a)'
  <2>1. a \in Live /\ asset[a].track \in Clear /\ asset[a].track \in Clear'
    BY <1>1, <1>3 DEF Live, Clear
  <2>2. Fits(a)
    BY <2>1 DEF Chosen, RowsProper
  <2>3. ASSUME ~asset[a].pending, asset[a].file = None,
               NEW d \in Assets, asset'[d].live, asset'[d].track = asset[a].track
        PROVE  d = a
    <3>1. CASE d # b
      BY <1>2, <2>1, <2>2, <2>3, <3>1 DEF Fits, Live
    <3>2. CASE d = b
      <4>1. asset'[b].track \in Clear'
        BY <2>1, <2>3, <3>2
      <4>2. asset'[b].track = p.track /\ (b \in Live \/ RowsOf(p.track) = {})
            /\ (b \in Live => asset[b].track = asset'[b].track)
        <5>1. CASE Updated(q, now, b)
          BY <2>3, <3>2, <4>1, <5>1, StoredAsRead DEF Updated, Live
        <5>2. CASE Inserted(q, now, b)
          BY <2>3, <3>2, <4>1, <5>2, StoredAsRead DEF Inserted, Live
        <5> QED
          BY <5>1, <5>2 DEF Stores
      <4>3. CASE b \in Live
        BY <2>2, <2>3, <3>2, <4>2, <4>3 DEF Fits
      <4>4. CASE RowsOf(p.track) = {}
        BY <2>1, <2>3, <3>2, <4>2, <4>4 DEF RowsOf
      <4> QED
        BY <4>2, <4>3, <4>4
    <3> QED
      BY <3>1, <3>2
  <2>4. ~asset[a].pending /\ asset[a].state \in Claimable \cup {"DOWNLOADING"} => Names(a)'
    BY <1>3, <2>1, NamesStay
  <2> QED
    BY <1>3, <2>2, <2>3, <2>4 DEF Fits, Live
<1>4. CASE a # b
  BY <1>2, <1>3, <1>4
<1>5. CASE /\ a = b /\ Updated(q, now, b) /\ Changed(p, now) /\ asset[b] = p.was
           /\ asset'[b] = now /\ b \in Live /\ asset[b].state # "DOWNLOADING"
  <2>1. asset[a].track = asset'[a].track /\ asset[a].track \in Clear
        /\ now.track = asset[a].track /\ now.track = p.track
    BY <1>0, <1>1, <1>5 DEF Updated, Clear, Agree
  <2>2. Fits(a)
    BY <1>5, <2>1 DEF Chosen, RowsProper
  <2>3. now.file = asset[a].file /\ now.pending = asset[a].pending
    BY <1>0, <1>5 DEF Agree
  <2>4. now.file # None => now.state \in Served /\ now.file = now.source
    BY <1>0, <1>5, <2>2, <2>3 DEF Fits, Rightful
  <2>5. now.pending => now.state \in {"DOWNLOADING", "AVAILABLE"}
    <3>1. now.pending => asset[a].state = "AVAILABLE"
      BY <1>5, <2>2, <2>3 DEF Fits
    <3>2. asset[a].state = "AVAILABLE" => asset[a].file # None
      BY <1>5 DEF Typed, ServedHasFile, Served
    <3> QED
      BY <1>0, <1>5, <3>1, <3>2 DEF Rightful
  <2>6. ~now.pending /\ now.file = None =>
           \A d \in Assets : asset'[d].live /\ asset'[d].track = now.track => d = a
    <3>1. ASSUME NEW d \in Assets, d # a, asset'[d].live, asset'[d].track = now.track
          PROVE  d \in Live /\ asset[d].track = asset[a].track
      BY <1>2, <1>5, <2>1, <3>1 DEF Live
    <3> QED
      BY <2>2, <2>3, <3>1 DEF Fits
  <2>7. now.state \in Claimable \cup {"DOWNLOADING"} => now.file = None
    BY <2>4 DEF Claimable, Served
  <2>8. now.state \in Claimable \cup {"DOWNLOADING"} =>
           now.cand \in Candidates /\ cands'[now.cand] = [track |-> now.track, video |-> now.source]
    BY <1>0, <1>5, <2>1, <2>3, <2>7 DEF Rightful
  <2> QED
    BY <1>5, <2>4, <2>5, <2>6, <2>8 DEF Fits, Names, Live
<1>6. CASE /\ a = b /\ Inserted(q, now, b) /\ asset'[b] = now /\ RowsOf(p.track) = {}
           /\ p.was = NoRow
  <2>1. p.was.file = None /\ now.file = None /\ ~now.pending /\ now.track = p.track
    BY <1>0, <1>6 DEF Agree, NoRow
  <2>2. ASSUME NEW d \in Assets, asset'[d].live, asset'[d].track = now.track
        PROVE  d = a
    BY <1>2, <1>6, <2>1, <2>2 DEF RowsOf, Live
  <2>3. now.state \in Claimable \cup {"DOWNLOADING"} =>
           now.cand \in Candidates /\ cands'[now.cand] = [track |-> now.track, video |-> now.source]
    BY <1>0, <1>6, <2>1 DEF Rightful
  <2> QED
    BY <1>6, <2>1, <2>2, <2>3 DEF Fits, Names, Live
<1> QED
  BY <1>3, <1>4, <1>5, <1>6, StoredAsRead

LEMMA StoreCareful ==
    ASSUME Typed, Grounded, Chosen, Typed', StaysGrounded, NEW q \in Procs, NEW now \in Row,
           NEW b \in Assets, NEW r \in Task, Stores(q, now, b, r)
    PROVE  Careful
<1> DEFINE p == proc[q]
<1>0. /\ p \in Task /\ Shape(p) /\ Agree(p, now) /\ Rightful(p, now) /\ Anchors(p)
      /\ Turns(q, r) /\ r.pc \notin {"import", "swap", "fetch", p.pc}
  BY DEF Typed, TypeOK, Stores, Grounded
<1>1. crossed \subseteq crossed' /\ SecureStays /\ worker' = worker
  BY DEF Stores, Note, StaysGrounded
<1>2. \A d \in Assets \ {b} : asset'[d] = asset[d]
  BY DEF Stores, Updated, Inserted
<1>3. RowsProper'
  BY StoresProper
<1>4. Updated(q, now, b) =>
         /\ b = p.aid /\ b \in Handles(p) /\ asset'[b].live = asset[b].live
         /\ asset'[b].pending = asset[b].pending /\ asset'[b].track = asset[b].track
  BY Constants DEF Updated, Handles
<1>5. Inserted(q, now, b) => b \notin Live /\ ~asset'[b].pending /\ \A u \in Live : u < b
  BY <1>0 DEF Inserted, Agree, Shape, NoRow, Stores, Holding, Searching
<1>6. Inserted(q, now, b) => ~Held(b)
  BY <1>5, Constants DEF Held, Secure, Live
<1>7. PendingHeld'
  <2> SUFFICES ASSUME NEW a \in Assets, asset'[a].live, asset'[a].pending,
                      asset'[a].state \in Claimable
               PROVE  Held(a)'
    BY DEF PendingHeld, Live
  <2>1. CASE a # b
    BY <1>1, <1>2, <2>1, HeldStays DEF Chosen, PendingHeld, Live
  <2>2. CASE a = b
    <3>1. Updated(q, now, b)
      BY <1>5, <2>2 DEF Stores
    <3>2. Secure(p.track, b) /\ p.track \in Tracks
      BY <1>0, <1>4, <2>2, <3>1, HandleFacts, Constants DEF Anchors
    <3>3. Held(b)
      BY <3>2 DEF Held
    <3> QED
      BY <1>1, <2>2, <3>3, HeldStays
  <2> QED
    BY <2>1, <2>2
<1>8. Attempts'
  <2>1. ASSUME NEW w \in Workers, NEW a \in Assets, Working(w, a)
        PROVE  /\ asset[a].live /\ ~asset[a].pending =>
                     (asset'[a].live /\ ~asset'[a].pending) \/ Held(a)'
               /\ asset'[a].live /\ asset'[a].track \in Clear' => asset'[a] = asset[a]
    <3>1. CASE a # b
      BY <1>2, <3>1
    <3>2. CASE a = b
      <4>1. (asset[b].live /\ ~asset[b].pending) \/ Held(b)
        BY <2>1, <3>2 DEF Chosen, Attempts
      <4>2. Updated(q, now, b)
        BY <1>5, <1>6, <4>1 DEF Stores, Live
      <4>3. ASSUME asset'[b].live, asset'[b].track \in Clear' PROVE asset'[b] = asset[b]
        <5>1. asset[b].live /\ asset[b].track \in Clear
          BY <1>1, <1>4, <4>2, <4>3 DEF Clear
        <5>2. asset[b].state = "DOWNLOADING"
          BY <2>1, <3>2, <5>1 DEF Chosen, Attempts, Attempted
        <5>3. ~Inserted(q, now, b)
          BY <1>5, <5>1 DEF Live
        <5> QED
          BY <4>3, <5>2, <5>3, StoredAsRead
      <4> QED
        BY <1>4, <3>2, <4>2, <4>3
    <3> QED
      BY <3>1, <3>2
  <2> QED
    BY <1>1, <2>1, AttemptsStay DEF Chosen
<1>9. ASSUME NEW s \in Procs \ {q} PROVE Brings(proc[s])'
  <2>0. proc'[s] = proc[s]
    BY <1>0 DEF Typed, TypeOK, Turns
  <2> DEFINE n == proc[s].new
  <2> SUFFICES ASSUME proc[s].pc \in {"import", "swap"}, asset'[n].live,
                      asset'[n].track \in Clear'
               PROVE  /\ asset'[n].source = proc[s].video
                      /\ asset'[n].state = IF proc[s].pc = "import" THEN "DOWNLOADING"
                                                                   ELSE "AVAILABLE"
    BY <2>0 DEF Brings
  <2>1. n \in Assets /\ Anchors(proc[s]) /\ n \in Handles(proc[s])
        /\ Anchored(proc[s].track, n) /\ proc[s].track \in Tracks
    BY HandleFacts DEF Grounded, Anchors, Handles
  <2>2. CASE asset'[n] = asset[n]
    BY <1>1, <2>2 DEF Chosen, Tasks, Brings, Clear
  <2>3. CASE Updated(q, now, b) /\ n = b /\ Changed(p, now) /\ asset[b] = p.was
             /\ asset'[b] = now /\ asset[b].state # "DOWNLOADING"
    <3>1. asset[n].live /\ asset[n].track \in Clear
      BY <1>1, <1>4, <2>3 DEF Clear
    <3>2. asset[n].source = proc[s].video /\ asset[n].state = "AVAILABLE" /\ proc[s].pc # "import"
      BY <2>3, <3>1 DEF Chosen, Tasks, Brings
    <3>3. asset[n].file # None
      BY <2>1, <3>1, <3>2 DEF Typed, ServedHasFile, Live, Served
    <3> QED
      BY <1>0, <2>3, <3>2, <3>3 DEF Rightful
  <2>4. CASE Inserted(q, now, b) /\ n = b
    <3>1. Held(b)
      BY <1>5, <2>1, <2>4 DEF Anchored, Held, Live
    <3> QED
      BY <1>6, <2>4, <3>1
  <2> QED
    BY <1>2, <2>1, <2>2, <2>3, <2>4, StoredAsRead
<1>10. Respected
  <2> SUFFICES ASSUME NEW a \in Live, asset'[a].live, asset[a].track \in Tracks \ crossed'
               PROVE  FileStays(a)
    BY DEF Respected
  <2>1. CASE asset'[a] = asset[a]
    BY <2>1 DEF FileStays
  <2>2. CASE a = b /\ asset'[a] # asset[a]
    <3>1. Updated(q, now, b) /\ asset'[b].track \in Clear'
      BY <1>4, <1>5, <2>2 DEF Stores, Clear
    <3>2. /\ Changed(p, now) /\ asset[b] = p.was /\ asset'[b] = now
          /\ asset[b].state # "DOWNLOADING" /\ p.track = asset[b].track
      BY <1>4, <1>5, <2>2, <3>1, StoredAsRead
    <3>3. FileStays(b)
      BY <1>0, <3>2 DEF FileStays, Rightful, Agree
    <3> QED
      BY <2>2, <3>3
  <2> QED
    BY <1>2, <2>1, <2>2 DEF Live
<1>11. Chosen'
  <2>1. Brings(r)' /\ r.gone = {} /\ r.pc # "fetch" /\ CanWrite(q) /\ lock' = None
    BY <1>0 DEF Brings, Stores
  <2> QED
    BY <1>0, <1>1, <1>3, <1>7, <1>8, <1>9, <2>1, WriterChosen
<1> QED
  BY <1>10, <1>11 DEF Careful

-----------------------------------------------------------------------------
(* The steps of a search *)

\* What stands for the track stands for its pending deletions.
LEMMA FileSecures ==
    ASSUME Typed, Grounded, NEW q \in Procs, proc[q].pc \in Holding, proc[q].was.file # None
    PROVE  Secure(proc[q].track, None)
<1>1. Shape(proc[q]) /\ Anchors(proc[q])
  BY DEF Typed, Grounded
<1>2. proc[q].aid # None
  BY <1>1 DEF Shape, NoRow
<1>3. Secure(proc[q].track, proc[q].aid)
  BY <1>1, <1>2 DEF Anchors
<1>4. PICK b \in Live : /\ asset[b].track = proc[q].track
                        /\ ~asset[b].pending /\ asset[b].file # None
  BY <1>3 DEF Secure
<1>5. b \in Nat
  BY Constants DEF Live
<1>6. None <= b
  BY <1>5 DEF None
<1> QED
  BY <1>4, <1>6 DEF Secure

\* A task that ends without a commit.
LEMMA EndCareful ==
    ASSUME Typed, Grounded, Chosen, NEW q \in Procs, End(q), asset' = asset, cands' = cands,
           crossed' = crossed, worker' = worker, proc[q].pc \in Holding,
           proc[q].pc # "score" \/ proc[q].was.file # None
    PROVE  Careful
<1>1. PICK r \in Task :
         /\ Turns(q, r) /\ r.pc \in {"idle", "next"}
         /\ r.gone # {} => r.gone = proc[q].gone /\ r.pc = "next"
         /\ lock' = IF lock = q /\ r.gone = {} THEN None ELSE lock
  BY EndTask DEF Turns
<1>2. Deletes(q)
  BY DEF Chosen, Tasks
<1>3. \A c \in proc[q].gone : Secure(cands[c].track, None)
  BY <1>2, FileSecures DEF Deletes
<1>4. r.gone # {} => lock' = q
  BY <1>1, <1>2 DEF Deletes
<1>5. r.pc \notin {"import", "swap", "fetch"} \cup Searching
  BY <1>1 DEF Searching, Opened
<1>6. \A c \in r.gone : Secure(cands[c].track, None)
  BY <1>1, <1>3
<1>7. lock' = lock \/ (lock = q /\ lock' = None)
  BY <1>1
<1>8. r.pc \notin Searching \cup {"next"} => r.gone = {}
  BY <1>1
<1> QED
  BY <1>1, <1>4, <1>5, <1>6, <1>7, <1>8, QuietChosen

\* A search that begins.
LEMMA LookCareful ==
    ASSUME Typed, Chosen, NEW q \in Procs, NEW r \in Task, Looked(q, r),
           proc[q].pc \in {"idle", "next"},
           UNCHANGED <<asset, cands, crossed, worker, lock>>
    PROVE  Careful
<1>1. Turns(q, r) /\ r.pc = "open" /\ r.gone = proc[q].gone
  BY DEF Looked
<1>2. Deletes(q)
  BY DEF Chosen, Tasks
<1>3. /\ r.gone # {} => lock' = q
      /\ \A c \in r.gone : Secure(cands[c].track, None)
      /\ r.pc \notin {"import", "swap", "fetch"} /\ r.pc \in Searching
  BY <1>1, <1>2 DEF Deletes, Searching
<1> QED
  BY <1>1, <1>3, QuietChosen

\* A task that has nothing pending and is at no search.
LEMMA PlainCareful ==
    ASSUME Typed, Chosen, NEW q \in Procs, NEW r \in Task, Turns(q, r), r.gone = {},
           r.pc \notin Searching \cup {"import", "swap"},
           UNCHANGED <<asset, cands, crossed, worker>>,
           \/ lock' = lock /\ r.pc # "fetch"
           \/ lock' = q /\ CanWrite(q)
           \/ lock = q /\ lock' = None /\ r.pc # "fetch"
    PROVE  Careful
BY QuietChosen

LEMMA AskedCareful ==
    ASSUME Typed, Chosen, NEW q \in Procs, Asked(q)
    PROVE  Careful
<1>1. CASE \E t \in Tracks, op \in {"run", "again"} : Begin(q, t, op)
  <2>1. PICK t \in Tracks, op \in {"run", "again"} : Begin(q, t, op)
    BY <1>1
  <2>2. PICK r \in Task : Looked(q, r) /\ r.op = op
    BY <2>1, BeginTask
  <2>3. proc[q].pc = "idle" /\ UNCHANGED <<asset, cands, crossed, worker, lock>>
    BY <2>1, <2>2 DEF Begin, At, db, history
  <2> QED
    BY <2>2, <2>3, LookCareful
<1>2. CASE BulkList(q)
  <2>1. PICK r \in Task : Turns(q, r) /\ r.pc = "next" /\ r.gone = {}
    BY <1>2, BulkListTask
  <2>2. UNCHANGED <<asset, cands, crossed, worker, lock>>
    BY <1>2 DEF BulkList, db, history
  <2> QED
    BY <2>1, <2>2, PlainCareful DEF Searching, Opened
<1>3. CASE MonitorTick(q)
  <2>1. PICK r \in Task : Turns(q, r) /\ r.pc = "next" /\ r.gone = {}
    BY <1>3, MonitorTickTask
  <2>2. UNCHANGED <<asset, cands, crossed, worker, lock>>
    BY <1>3 DEF MonitorTick, db, history
  <2> QED
    BY <2>1, <2>2, PlainCareful DEF Searching, Opened
<1>4. CASE \E c \in Candidates : SelectBegin(q, c) \/ ReplaceBegin(q, c)
  <2>1. PICK c \in Candidates : SelectBegin(q, c) \/ ReplaceBegin(q, c)
    BY <1>4
  <2>2. PICK r \in Task : Turns(q, r) /\ r.pc \in {"select", "create"} /\ r.gone = {}
    BY <2>1, SelectBeginTask, ReplaceBeginTask
  <2>3. UNCHANGED <<asset, cands, crossed, worker, lock>>
    BY <2>1 DEF SelectBegin, ReplaceBegin, db, history
  <2> QED
    BY <2>2, <2>3, PlainCareful DEF Searching, Opened
<1> QED
  BY <1>1, <1>2, <1>3, <1>4 DEF Asked

\* The commits of a search.
LEMMA DiscoverStores ==
    ASSUME Typed, NEW q \in Procs, (Discover(q) /\ ApiKey) \/ DiscoverFails(q)
    PROVE  \E now \in Row, b \in Assets, r \in Task :
              Stores(q, now, b, r) /\ GoesOn(q, now, b, r) /\ Wills(proc[q], now)
<1> DEFINE p == proc[q]
<1>1. /\ p \in Task /\ Shape(p) /\ p.pc = "discover" /\ OpenedAs(p) /\ CommitQuota(q)
      /\ p.pc \in Opened /\ p.pc \in Searching /\ worker' = worker
  BY DEF Typed, TypeOK, At, Discover, DiscoverFails, Shape, Opened, Searching
<1>2. /\ p.now \in Row /\ Agree(p, p.now) /\ Kept(q, cands')
      /\ \E b \in Assets : Updated(q, p.now, b) \/ Inserted(q, p.now, b)
  BY <1>1, QuotaTyped DEF At
<1>3. Rightful(p, p.now) /\ Wills(p, p.now)
  BY <1>1 DEF OpenedAs, Rightful, Claimable, Wills
<1>4. \A c \in Candidates : c \notin p.gone => cands'[c] = cands[c]
  BY <1>2, KeptCandidates
<1>5. Note(q, p.now) /\ CanWrite(q) /\ lock' = None
  BY <1>1 DEF CommitQuota
<1>6. CASE Discover(q) /\ ApiKey
  <2>1. PICK r \in Task :
           /\ Turns(q, r) /\ r.pc = "wipe" /\ r.op = p.op /\ r.track = p.track
           /\ r.todo = p.todo /\ r.now = p.now /\ r.was = p.now /\ r.gone = {}
           /\ Updated(q, r.now, r.aid) \/ Inserted(q, r.now, r.aid)
    BY <1>6, DiscoverTask
  <2>2. r.aid \in Assets /\ (Updated(q, p.now, r.aid) \/ Inserted(q, p.now, r.aid))
    BY <2>1 DEF Updated, Inserted
  <2>3. Stores(q, p.now, r.aid, r)
    BY <1>1, <1>2, <1>3, <1>4, <1>5, <2>1, <2>2 DEF Stores
  <2>4. GoesOn(q, p.now, r.aid, r)
    BY <1>1, <2>1 DEF GoesOn, Lessens
  <2> QED
    BY <1>2, <1>3, <2>2, <2>3, <2>4
<1>7. CASE DiscoverFails(q)
  <2>1. PICK r \in Task : Turns(q, r) /\ r.pc \in {"idle", "next"} /\ r.gone = {} /\ Lessens(q, r)
    BY <1>7, DiscoverFailsTask
  <2>2. PICK b \in Assets : Updated(q, p.now, b) \/ Inserted(q, p.now, b)
    BY <1>2
  <2>3. Stores(q, p.now, b, r)
    BY <1>1, <1>2, <1>3, <1>4, <1>5, <2>1, <2>2 DEF Stores
  <2>4. GoesOn(q, p.now, b, r)
    BY <2>1 DEF GoesOn
  <2> QED
    BY <1>2, <1>3, <2>3, <2>4
<1> QED
  BY <1>6, <1>7

LEMMA DiscoverCareful ==
    ASSUME Typed, Grounded, Chosen, Typed', StaysGrounded, NEW q \in Procs,
           Discover(q) \/ DiscoverFails(q)
    PROVE  Careful
<1> DEFINE p == proc[q]
<1>1. CASE (Discover(q) /\ ApiKey) \/ DiscoverFails(q)
  BY <1>1, DiscoverStores, StoreCareful
<1>2. CASE Discover(q) /\ ~ApiKey
  <2>1. PICK r \in Task :
           /\ Turns(q, r) /\ r.pc = "wipe" /\ r.op = p.op /\ r.track = p.track
           /\ r.was = p.was /\ r.gone = p.gone /\ UNCHANGED <<db, lock, crossed>>
    BY <1>2, DiscoverTask
  <2>2. /\ r.pc \notin {"import", "swap", "fetch"} /\ r.pc \in Searching
        /\ p.pc = "discover" /\ Deletes(q) /\ worker' = worker
    BY <1>2, <2>1 DEF Searching, Opened, Discover, At, Chosen, Tasks
  <2>3. /\ r.gone # {} => lock' = q
        /\ \A c \in r.gone : Secure(cands[c].track, None)
        /\ UNCHANGED <<asset, cands, crossed, worker>> /\ lock' = lock
    BY <2>1, <2>2 DEF Deletes, db
  <2> QED
    BY <2>1, <2>2, <2>3, QuietChosen
<1> QED
  BY <1>1, <1>2

\* Its verdict.
LEMMA VerdictStores ==
    ASSUME Typed, NEW q \in Procs, NothingFound(q) \/ Found(q)
    PROVE  \/ End(q) /\ UNCHANGED <<db, worker, history>> /\ proc[q].was.file # None
           \/ \E now \in Row, b \in Assets, r \in Task :
                 Stores(q, now, b, r) /\ GoesOn(q, now, b, r) /\ Wills(proc[q], now)
<1> DEFINE p == proc[q]
<1>1. /\ p \in Task /\ Shape(p) /\ p.pc = "score" /\ OpenedAs(p)
      /\ p.pc \in Searching /\ p.pc \in Holding /\ p.pc \in Opened
  BY DEF Typed, TypeOK, At, NothingFound, Found, Shape, Opened, Searching, Holding
<1>2. ASSUME NEW now \in Row, NEW b \in Assets, Verdict(p, now), NEW videos \in SUBSET Videos,
             NEW after \in WithCandidates(q, videos), Settle(q, now, after),
             Updated(q, now, b) \/ Inserted(q, now, b),
             now.state \in Claimable /\ now.file = None =>
                now.cand \in Candidates
                /\ after[now.cand] = [track |-> p.track, video |-> now.source],
             NEW r \in Task, Turns(q, r), r.gone = {}, r.pc \in {"idle", "next", "compare"}
      PROVE  Stores(q, now, b, r) /\ Wills(p, now)
  <2>1. p.now.file = p.was.file /\ now.file = p.was.file /\ Agree(p, now)
    BY <1>1, <1>2 DEF Verdict, OpenedAs, Agree
  <2>2. /\ CanWrite(q) /\ lock' = None /\ worker' = worker /\ cands' = after /\ Note(q, now)
    BY <1>2 DEF Settle
  <2>3. ASSUME p.was.file # None
        PROVE  now.state = p.was.state /\ now.source = p.was.source /\ now.cand = p.was.cand
    BY <1>1, <1>2, <2>1, <2>3 DEF Verdict, OpenedAs
  <2>4. ASSUME p.was.file = None
        PROVE  now.state # "DOWNLOADING" /\ Changed(p, now)
    <3>1. p.now.state = "SEARCHING"
      BY <1>1, <2>4 DEF OpenedAs
    <3>2. now.state \in {"MISSING", "CANDIDATE_SELECTED", "MANUAL_REVIEW_REQUIRED"}
      BY <1>2, <2>1, <2>4 DEF Verdict
    <3> QED
      BY <3>1, <3>2 DEF Changed
  <2>5. Rightful(p, now)
    BY <1>2, <2>1, <2>2, <2>3, <2>4 DEF Rightful
  <2>6. \A c \in Candidates : c \notin p.gone /\ cands[c] # NoCandidate => cands'[c] = cands[c]
    BY <1>1, <1>2, <2>2, NewCandidates
  <2>7. r.pc \notin {"import", "swap", "fetch", p.pc}
    BY <1>1, <1>2
  <2>8. Stores(q, now, b, r)
    BY <1>1, <1>2, <2>1, <2>2, <2>5, <2>6, <2>7 DEF Stores
  <2>9. Wills(p, now)
    BY <1>1, <1>2 DEF Wills, Verdict, OpenedAs
  <2> QED
    BY <2>8, <2>9
<1>3. CASE NothingFound(q)
  <2>1. CASE p.now.file # None /\ End(q) /\ UNCHANGED <<db, worker, history, asked>>
    BY <1>1, <2>1 DEF OpenedAs, Agree
  <2>2. ASSUME NEW now \in Row, NEW b \in Assets, Verdict(p, now), now.state = "MISSING",
               \E after \in WithCandidates(q, {}) : Settle(q, now, after),
               Updated(q, now, b) \/ Inserted(q, now, b), Ends(q)
        PROVE  \E r \in Task : Stores(q, now, b, r) /\ GoesOn(q, now, b, r) /\ Wills(p, now)
    <3>1. PICK after \in WithCandidates(q, {}) : Settle(q, now, after)
      BY <2>2
    <3>2. /\ Turns(q, Ended(q)) /\ Ended(q) \in Task /\ Ended(q).gone = {}
          /\ Ended(q).pc \in {"idle", "next"} /\ Lessens(q, Ended(q))
      BY <2>2, EndedTask DEF Ends, Turns
    <3>3. now.state \notin Claimable /\ {} \in SUBSET Videos
      BY <2>2 DEF Claimable
    <3>4. Stores(q, now, b, Ended(q)) /\ Wills(p, now)
      BY <1>2, <2>2, <3>1, <3>2, <3>3
    <3> QED
      BY <3>2, <3>4 DEF GoesOn
  <2> QED
    BY <1>3, <2>1, <2>2, NothingFoundTask
<1>4. CASE Found(q)
  <2>1. PICK now \in Row, b \in Assets, videos \in SUBSET Videos :
           \E after \in WithCandidates(q, videos), r \in Task : FoundAs(q, now, b, after, r)
    BY <1>4, FoundTask
  <2>2. PICK after \in WithCandidates(q, videos), r \in Task : FoundAs(q, now, b, after, r)
    BY <2>1
  <2>3. r.pc \in {"idle", "next", "compare"}
    BY <2>2 DEF FoundAs
  <2>4. Stores(q, now, b, r) /\ Wills(p, now)
    BY <1>2, <2>2, <2>3 DEF FoundAs
  <2>5. r.pc = "compare" => /\ r.op = p.op /\ r.track = p.track /\ r.was = now
                            /\ r.aid = p.aid /\ p.aid # None
    BY <1>1, <2>2 DEF FoundAs, Shape
  <2>6. p.aid # None => b = p.aid
    BY <2>2 DEF FoundAs, Updated, Inserted
  <2>7. GoesOn(q, now, b, r)
    BY <1>1, <2>2, <2>3, <2>5, <2>6 DEF GoesOn, FoundAs
  <2> QED
    BY <2>4, <2>7
<1> QED
  BY <1>3, <1>4

LEMMA VerdictCareful ==
    ASSUME Typed, Grounded, Chosen, Typed', StaysGrounded, NEW q \in Procs,
           NothingFound(q) \/ Found(q)
    PROVE  Careful
<1>1. CASE End(q) /\ UNCHANGED <<db, worker, history>> /\ proc[q].was.file # None
  <2>1. UNCHANGED <<asset, cands, crossed, worker>> /\ proc[q].pc \in Holding
    BY <1>1 DEF db, history, NothingFound, Found, At, Holding, Searching, Opened
  <2> QED
    BY <1>1, <2>1, EndCareful
<1>2. CASE \E now \in Row, b \in Assets, r \in Task : Stores(q, now, b, r)
  BY <1>2, StoreCareful
<1> QED
  BY <1>1, <1>2, VerdictStores

\* The monitor goes on to the next row on its list.
LEMMA MonitorCareful ==
    ASSUME Typed, Chosen, NEW q \in Procs, MonitorNext(q)
    PROVE  Careful
<1>0. proc[q].pc = "next" /\ UNCHANGED <<asset, cands, crossed, worker, lock>> /\ Deletes(q)
  BY DEF MonitorNext, At, db, history, Chosen, Tasks
<1>1. ASSUME NEW r \in Task, Turns(q, r), r.pc \in {"idle", "next"},
             r.gone = {} \/ r.gone = proc[q].gone
      PROVE  Careful
  <2>1. CASE r.pc = "next"
    <3>1. /\ r.gone # {} => lock' = q
          /\ \A c \in r.gone : Secure(cands[c].track, None)
      BY <1>0, <1>1 DEF Deletes
    <3> QED
      BY <1>0, <1>1, <2>1, <3>1, QuietChosen
  <2>2. CASE r.pc = "idle"
    <3>1. Typed' /\ proc'[q] = r
      BY <1>1, MonitorNextTask DEF Typed, TypeOK, Turns
    <3>2. r = IdleTask
      BY <2>2, <3>1 DEF Typed, Shape
    <3>3. r.gone = {} /\ r.pc \notin Searching \cup {"import", "swap", "fetch"}
      BY <2>2, <3>2 DEF IdleTask, Searching, Opened
    <3> QED
      BY <1>0, <1>1, <3>3, PlainCareful
  <2> QED
    BY <1>1, <2>1, <2>2
<1>2. CASE \E r \in Task : /\ Turns(q, r) /\ Shape(r) /\ r.pc \in {"idle", "next"}
                           /\ r.aid = None /\ (r.gone = {} \/ r.gone = proc[q].gone)
  BY <1>1, <1>2
<1>3. CASE \E r \in Task : Looked(q, r)
  BY <1>0, <1>3, LookCareful
<1> QED
  BY <1>2, <1>3, MonitorNextTask

LEMMA SearchCareful ==
    ASSUME Typed, Grounded, Chosen, Typed', StaysGrounded, NEW q \in Procs, SearchStep(q)
    PROVE  Careful
<1> DEFINE p == proc[q]
<1>0. Deletes(q) /\ p \in Task /\ Shape(p)
  BY DEF Chosen, Tasks, Typed, TypeOK
<1>1. CASE OpenRefused(q)
  <2>1. /\ End(q) /\ UNCHANGED <<asset, cands, crossed, worker>>
        /\ p.pc \in Holding /\ p.pc # "score"
    BY <1>1 DEF OpenRefused, At, db, history, Holding, Searching
  <2> QED
    BY <2>1, EndCareful
<1>2. CASE Open(q)
  <2>1. PICK r \in Task :
           /\ Turns(q, r) /\ r.pc = "discover" /\ r.op = p.op /\ r.track = p.track
           /\ r.was = p.was /\ r.gone = p.gone
           /\ lock' = lock \/ (lock' = q /\ CanWrite(q))
    BY <1>2, OpenTask
  <2>2. p.pc = "open" /\ UNCHANGED <<asset, cands, crossed, worker>>
    BY <1>2 DEF Open, At, db, history
  <2>3. /\ r.pc \notin {"import", "swap", "fetch"} /\ r.pc \in Searching
        /\ r.gone # {} => lock' = q
        /\ \A c \in r.gone : Secure(cands[c].track, None)
    BY <1>0, <2>1, <2>2 DEF Deletes, Searching, Opened
  <2> QED
    BY <2>1, <2>2, <2>3, QuietChosen
<1>3. CASE Wipe(q)
  <2>1. PICK r \in Task :
           /\ Turns(q, r) /\ r.pc = "score" /\ r.op = p.op /\ r.track = p.track
           /\ r.was = p.was /\ r.gone = p.gone \cup CandidatesOf(p.track)
           /\ lock' = lock \/ (lock' = q /\ CanWrite(q))
           /\ CandidatesOf(p.track) # {} => lock' = q
    BY <1>3, WipeTask
  <2>2. p.pc = "wipe" /\ UNCHANGED <<asset, cands, crossed, worker>>
    BY <1>3 DEF Wipe, At, db, history
  <2>3. /\ r.pc \notin {"import", "swap", "fetch"} /\ r.pc \in Searching
        /\ r.gone # {} => lock' = q
    BY <1>0, <2>1, <2>2 DEF Deletes, Searching, Opened
  <2>4. \A c \in r.gone : \/ Secure(cands[c].track, None)
                          \/ r.pc = "score" /\ cands[c].track = r.track
    BY <1>0, <2>1, <2>2 DEF Deletes, CandidatesOf
  <2> QED
    BY <2>1, <2>2, <2>3, <2>4, QuietChosen
<1>4. CASE BulkNext(q)
  <2>1. PICK r \in Task : Looked(q, r) /\ r.op = "bulk"
    BY <1>4, BulkNextTask
  <2>2. p.pc = "next" /\ UNCHANGED <<asset, cands, crossed, worker, lock>>
    BY <1>4, <2>1 DEF BulkNext, At, db, history
  <2> QED
    BY <2>1, <2>2, LookCareful
<1>5. CASE Compare(q)
  <2>1. PICK r \in Task : Turns(q, r) /\ r.gone = {} /\ r.pc \in {"idle", "next", "create"}
    BY <1>5, CompareTask
  <2>2. UNCHANGED <<asset, cands, crossed, worker, lock>>
    BY <1>5 DEF Compare, db, history
  <2> QED
    BY <2>1, <2>2, PlainCareful DEF Searching, Opened
<1> QED
  BY <1>1, <1>2, <1>3, <1>4, <1>5, DiscoverCareful, VerdictCareful, MonitorCareful
     DEF SearchStep

-----------------------------------------------------------------------------
(* Selections and replacements *)

LEMMA SelectStores ==
    ASSUME Typed, NEW q \in Procs, SelectCommit(q)
    PROVE  \E now \in Row, b \in Assets, r \in Task :
              Stores(q, now, b, r) /\ GoesOn(q, now, b, r) /\ Wills(proc[q], now)
<1> DEFINE p == proc[q]
<1>1. /\ p \in Task /\ Shape(p) /\ p.pc = "select" /\ p.op = "select" /\ p.cand \in Candidates
      /\ p.track \in Tracks
  BY DEF Typed, TypeOK, At, SelectCommit, Shape, Task, Holding
<1>2. PICK now \in Row, b \in Assets :
         /\ Agree(p, now) /\ now.state = "CANDIDATE_SELECTED" /\ now.cand = p.cand
         /\ now.source = p.video /\ now.manual
         /\ Settle(q, now, cands) /\ Updated(q, now, b)
  BY SelectCommitTask
<1>3. p.was.file = None
  BY SelectCommitTask
<1>4. /\ Turns(q, Ended(q)) /\ Ended(q) \in Task /\ Ended(q).gone = {}
      /\ Ended(q).pc \in {"idle", "next"} /\ Lessens(q, Ended(q))
  BY EndedTask, SelectCommitTask DEF Ends, Turns
<1>5. CanWrite(q) /\ lock' = None /\ worker' = worker /\ cands' = cands /\ Note(q, now)
  BY <1>2 DEF Settle
<1>6. ASSUME p.track \in Clear'
      PROVE  cands[p.cand] = [track |-> p.track, video |-> p.video]
  <2>1. ~Crosses(q, now)
    BY <1>1, <1>5, <1>6 DEF Note, Clear
  <2> QED
    BY <1>1, <2>1 DEF Crosses
<1>7. Rightful(p, now)
  BY <1>1, <1>2, <1>3, <1>5, <1>6 DEF Rightful
<1>8. Ended(q).pc \notin {"import", "swap", "fetch", p.pc}
  BY <1>1, <1>4 DEF Searching, Opened
<1>9. Stores(q, now, b, Ended(q))
  BY <1>1, <1>2, <1>4, <1>5, <1>7, <1>8 DEF Stores
<1>10. GoesOn(q, now, b, Ended(q)) /\ Wills(p, now)
  BY <1>1, <1>2, <1>3, <1>4 DEF GoesOn, Wills
<1> QED
  BY <1>4, <1>9, <1>10

LEMMA SelectCareful ==
    ASSUME Typed, Grounded, Chosen, Typed', StaysGrounded, NEW q \in Procs, SelectCommit(q)
    PROVE  Careful
BY SelectStores, StoreCareful

\* A replacement's download: its row is inserted above all others.
LEMMA FetchedCareful ==
    ASSUME Typed, Grounded, Chosen, StaysGrounded, NEW q \in Procs, Fetched(q)
    PROVE  Careful
<1> DEFINE p == proc[q]
<1>0. p \in Task /\ Shape(p) /\ p.pc = "fetch" /\ p.pc \in Holding /\ p.was.file # None
      /\ p.track \in Tracks
  BY DEF Typed, TypeOK, At, Fetched, Shape, Replacing, Holding, Task
<1>1. PICK r \in Task, n \in Assets : FetchedRow(q, r, n)
  BY FetchedTask
<1>2. /\ asset' = [asset EXCEPT ![n] = Replacement(q)] /\ Carries(q, r, "import") /\ r.new = n
      /\ n \notin Live /\ \A u \in Live : u < n
  BY <1>1 DEF FetchedRow
<1>3. /\ Turns(q, r) /\ r.pc = "import" /\ r.video = p.video /\ r.gone = p.gone
      /\ r.track = p.track
  BY <1>2 DEF Carries
<1>4. /\ Replacement(q).live /\ Replacement(q).track = p.track /\ Replacement(q).pending
      /\ Replacement(q).state = "DOWNLOADING" /\ Replacement(q).file = None
      /\ Replacement(q).source = p.video
  BY <1>0, ReplacementRow DEF Replacing
<1>5. asset'[n] = Replacement(q) /\ \A a \in Assets \ {n} : asset'[a] = asset[a]
  BY <1>2 DEF Typed, TypeOK
<1>6. lock = q /\ p.gone = {}
  BY <1>0 DEF Chosen, Tasks, Deletes, Searching, Opened
<1>7. lock' = None /\ UNCHANGED <<cands, worker, crossed>> /\ SecureStays
  BY DEF Fetched, history, StaysGrounded
<1>8. Clear' = Clear /\ CanWrite(q)
  BY <1>6, <1>7 DEF Clear, CanWrite
<1>9. Secure(p.track, None)
  BY <1>0, FileSecures
<1>10. ~Held(n)
  BY <1>2, Constants DEF Held, Secure, Live
<1>11. RowsProper'
  <2> SUFFICES ASSUME NEW a \in Assets, asset'[a].live, asset'[a].track \in Clear
               PROVE  Fits(a)'
    BY <1>8 DEF RowsProper, Live
  <2>1. CASE a = n
    BY <1>4, <1>5, <2>1 DEF Fits
  <2>2. CASE a # n
    <3>1. asset'[a] = asset[a] /\ a \in Live /\ Fits(a)
      BY <1>5, <2>2 DEF Chosen, RowsProper, Live
    <3>2. ASSUME ~asset[a].pending, asset[a].file = None,
                 NEW d \in Assets, asset'[d].live, asset'[d].track = asset[a].track
          PROVE  d = a
      <4>1. CASE d = n
        <5>1. ~Secure(asset[a].track, None)
          BY <3>1, <3>2, LonelyRow DEF Chosen
        <5> QED
          BY <1>4, <1>5, <1>9, <3>2, <4>1, <5>1
      <4>2. CASE d # n
        BY <1>5, <3>1, <3>2, <4>2 DEF Fits, Live
      <4> QED
        BY <4>1, <4>2
    <3> QED
      BY <1>7, <3>1, <3>2 DEF Fits, Names, Live
  <2> QED
    BY <2>1, <2>2
<1>12. PendingHeld'
  <2> SUFFICES ASSUME NEW a \in Assets, asset'[a].live, asset'[a].pending,
                      asset'[a].state \in Claimable
               PROVE  Held(a)'
    BY DEF PendingHeld, Live
  <2>1. a # n
    BY <1>4, <1>5 DEF Claimable
  <2>2. Held(a)
    BY <1>5, <2>1 DEF Chosen, PendingHeld, Live
  <2> QED
    BY <1>7, <2>2, HeldStays
<1>13. Attempts'
  <2>1. ASSUME NEW w \in Workers, NEW a \in Assets, Working(w, a) PROVE asset'[a] = asset[a]
    <3>1. a # n
      BY <1>2, <1>10, <2>1 DEF Chosen, Attempts, Live
    <3> QED
      BY <1>5, <3>1
  <2>2. crossed \subseteq crossed'
    BY <1>7
  <2> QED
    BY <1>7, <2>1, <2>2, AttemptsStay DEF Chosen
<1>14. ASSUME NEW s \in Procs \ {q} PROVE Brings(proc[s])'
  <2>1. proc'[s] = proc[s] /\ Brings(proc[s])
    BY <1>3 DEF Chosen, Tasks, Typed, TypeOK, Turns
  <2>2. ASSUME proc[s].pc \in {"import", "swap"}
        PROVE  asset'[proc[s].new] = asset[proc[s].new]
    <3>1. proc[s].new \in Assets /\ proc[s].new \in Handles(proc[s]) /\ proc[s].track \in Tracks
      BY <2>2, HandleFacts DEF Handles
    <3>2. Anchored(proc[s].track, proc[s].new)
      BY <3>1 DEF Grounded, Anchors
    <3>3. proc[s].new # n
      BY <1>2, <1>10, <3>1, <3>2 DEF Anchored, Held, Live
    <3> QED
      BY <1>5, <3>1, <3>3
  <2> QED
    BY <1>8, <2>1, <2>2 DEF Brings
<1>15. Brings(r)' /\ r.gone = {} /\ r.pc # "fetch"
  BY <1>2, <1>3, <1>4, <1>5, <1>6 DEF Brings
<1>16. Chosen'
  BY <1>3, <1>7, <1>8, <1>11, <1>12, <1>13, <1>14, <1>15, WriterChosen
<1>17. Respected
  BY <1>2, <1>5 DEF Respected, FileStays, Live
<1> QED
  BY <1>16, <1>17 DEF Careful

\* Its file arrives.
LEMMA ImportCareful ==
    ASSUME Typed, Grounded, Chosen, StaysGrounded, NEW q \in Procs, ImportNew(q)
    PROVE  Careful
<1> DEFINE p == proc[q]
           n == p.new
<1>0. p \in Task /\ Shape(p) /\ p.pc = "import" /\ Anchors(p) /\ Brings(p) /\ p.video # None
      /\ n \in Assets /\ p.gone = {}
  BY ImportNewTask DEF Typed, TypeOK, At, ImportNew, Shape, Replacing, Grounded, Chosen, Tasks,
                       Deletes, Searching, Opened
<1>1. PICK r \in Task : Carries(q, r, "swap") /\ r.new = n
  BY ImportNewTask
<1>2. /\ Turns(q, r) /\ r.pc = "swap" /\ r.video = p.video /\ r.gone = {}
  BY <1>0, <1>1 DEF Carries
<1>3. asset' = [asset EXCEPT ![n] = [asset[n] EXCEPT !.state = "AVAILABLE", !.file = p.video]]
  BY ImportNewTask
<1>4. asset[n] \in Row /\ \A a \in Assets \ {n} : asset'[a] = asset[a]
  BY <1>0, <1>3 DEF Typed, TypeOK
<1>5. /\ asset'[n].state = "AVAILABLE" /\ asset'[n].file = p.video
      /\ asset'[n].live = asset[n].live /\ asset'[n].track = asset[n].track
      /\ asset'[n].pending = asset[n].pending /\ asset'[n].source = asset[n].source
      /\ asset'[n].cand = asset[n].cand
  BY <1>0, <1>3, <1>4 DEF Typed, TypeOK, Row
<1>6. lock' = lock /\ CanWrite(q) /\ UNCHANGED <<cands, worker, crossed>> /\ SecureStays
  BY DEF ImportNew, history, StaysGrounded
<1>7. Clear' = Clear
  BY <1>6 DEF Clear
<1>8. asset[n].live => asset[n].pending
  BY <1>0 DEF Anchors
<1>9. asset[n].live /\ asset[n].track \in Clear =>
         asset[n].source = p.video /\ asset[n].state = "DOWNLOADING"
  BY <1>0 DEF Brings
<1>10. RowsProper'
  <2> SUFFICES ASSUME NEW a \in Assets, asset'[a].live, asset'[a].track \in Clear
               PROVE  Fits(a)'
    BY <1>7 DEF RowsProper, Live
  <2>0. Live' = Live /\ \A d \in Assets : asset'[d].track = asset[d].track
    BY <1>4, <1>5 DEF Live
  <2>1. CASE a = n
    BY <1>0, <1>5, <1>8, <1>9, <2>1 DEF Fits, Served
  <2>2. CASE a # n
    <3>1. asset'[a] = asset[a] /\ a \in Live /\ Fits(a)
      BY <1>4, <2>2 DEF Chosen, RowsProper, Live
    <3> QED
      BY <1>6, <2>0, <3>1 DEF Fits, Names, Live
  <2> QED
    BY <2>1, <2>2
<1>11. PendingHeld'
  <2> SUFFICES ASSUME NEW a \in Assets, asset'[a].live, asset'[a].pending,
                      asset'[a].state \in Claimable
               PROVE  Held(a)'
    BY DEF PendingHeld, Live
  <2>1. a # n
    BY <1>5 DEF Claimable
  <2>2. Held(a)
    BY <1>4, <2>1 DEF Chosen, PendingHeld, Live
  <2> QED
    BY <1>6, <2>2, HeldStays
<1>12. Attempts'
  <2>1. ASSUME NEW w \in Workers, NEW a \in Assets, Working(w, a)
        PROVE  /\ asset[a].live /\ ~asset[a].pending => asset'[a].live /\ ~asset'[a].pending
               /\ asset'[a].live /\ asset'[a].track \in Clear' => asset'[a] = asset[a]
    <3>1. CASE a # n
      BY <1>4, <3>1
    <3>2. CASE a = n
      BY <1>5, <1>7, <1>8, <2>1, <3>2 DEF Chosen, Attempts, Attempted
    <3> QED
      BY <3>1, <3>2
  <2>2. crossed \subseteq crossed'
    BY <1>6
  <2> QED
    BY <1>6, <2>1, <2>2, AttemptsStay DEF Chosen
<1>13. ASSUME NEW s \in Procs \ {q} PROVE Brings(proc[s])'
  <2>1. proc'[s] = proc[s] /\ Brings(proc[s])
    BY <1>2 DEF Chosen, Tasks, Typed, TypeOK, Turns
  <2>2. ASSUME proc[s].pc \in {"import", "swap"}
        PROVE  asset'[proc[s].new] = asset[proc[s].new]
    <3>1. proc[s].new \in Assets /\ proc[s].new # n
      BY <1>0, <2>2, HandleFacts DEF Grounded, Apart
    <3> QED
      BY <1>4, <3>1
  <2> QED
    BY <1>7, <2>1, <2>2 DEF Brings
<1>14. Brings(r)' /\ r.pc # "fetch"
  BY <1>1, <1>2, <1>5, <1>7, <1>9 DEF Brings
<1>15. Chosen'
  BY <1>2, <1>6, <1>10, <1>11, <1>12, <1>13, <1>14, WriterChosen
<1>16. ASSUME NEW a \in Live, asset[a].track \in Tracks \ crossed'
       PROVE  FileStays(a)
  <2>1. CASE a # n
    BY <1>4, <2>1 DEF FileStays, Live
  <2>2. CASE a = n
    <3>1. asset[a].state = "DOWNLOADING" /\ asset[a].track \in Clear
      BY <1>6, <1>9, <1>16, <2>2 DEF Clear, Live
    <3>2. asset[a].file = None
      BY <3>1, Downloadable DEF Chosen
    <3> QED
      BY <1>5, <2>2, <3>2 DEF FileStays
  <2> QED
    BY <2>1, <2>2
<1> QED
  BY <1>15, <1>16 DEF Careful, Respected

\* A row goes, for which another one stands.
LEMMA DropCareful ==
    ASSUME Typed, Grounded, Chosen, StaysGrounded, NEW q \in Procs, CanWrite(q),
           lock' \in {lock, None}, UNCHANGED <<cands, worker, crossed>>,
           NEW r \in Task, Turns(q, r), r.pc \in {"idle", "next"}, r.gone = {},
           NEW n \in Assets, asset' = [asset EXCEPT ![n] = NoRow],
           asset[n].live /\ ~asset[n].pending => Held(n)
    PROVE  Careful
<1>1. asset'[n] = NoRow /\ ~asset'[n].live /\ \A a \in Assets \ {n} : asset'[a] = asset[a]
  BY DEF Typed, TypeOK, NoRow
<1>2. Clear' = Clear /\ SecureStays /\ Live' \subseteq Live
      /\ \A a \in Assets : asset'[a].live => a # n
  BY <1>1 DEF Clear, StaysGrounded, Live
<1>3. RowsProper'
  <2> SUFFICES ASSUME NEW a \in Assets, asset'[a].live, asset'[a].track \in Clear
               PROVE  Fits(a)'
    BY <1>2 DEF RowsProper, Live
  <2>1. asset'[a] = asset[a] /\ a \in Live /\ Fits(a)
    BY <1>1, <1>2 DEF Chosen, RowsProper, Live
  <2>2. \A d \in Live' : d \in Live /\ asset'[d] = asset[d]
    BY <1>1, <1>2 DEF Live
  <2> QED
    BY <2>1, <2>2 DEF Fits, Names
<1>4. PendingHeld'
  <2> SUFFICES ASSUME NEW a \in Assets, asset'[a].live, asset'[a].pending,
                      asset'[a].state \in Claimable
               PROVE  Held(a)'
    BY DEF PendingHeld, Live
  <2>1. Held(a)
    BY <1>1, <1>2 DEF Chosen, PendingHeld, Live
  <2> QED
    BY <1>2, <2>1, HeldStays
<1>5. Attempts'
  <2>1. ASSUME NEW w \in Workers, NEW a \in Assets, Working(w, a)
        PROVE  /\ asset[a].live /\ ~asset[a].pending =>
                     (asset'[a].live /\ ~asset'[a].pending) \/ Held(a)'
               /\ asset'[a].live /\ asset'[a].track \in Clear' => asset'[a] = asset[a]
    <3>1. CASE a # n
      BY <1>1, <3>1
    <3>2. CASE a = n
      BY <1>1, <1>2, <3>2, HeldStays
    <3> QED
      BY <3>1, <3>2
  <2>2. crossed \subseteq crossed'
    OBVIOUS
  <2> QED
    BY <1>2, <2>1, <2>2, AttemptsStay DEF Chosen
<1>6. ASSUME NEW s \in Procs \ {q} PROVE Brings(proc[s])'
  <2>1. proc'[s] = proc[s] /\ Brings(proc[s])
    BY DEF Chosen, Tasks, Typed, TypeOK, Turns
  <2>2. proc[s].pc \in {"import", "swap"} => proc[s].new \in Assets
    BY HandleFacts
  <2> QED
    BY <1>1, <1>2, <2>1, <2>2 DEF Brings
<1>7. Brings(r)' /\ r.pc # "fetch"
  BY DEF Brings
<1>8. Chosen'
  <2>1. crossed \subseteq crossed'
    OBVIOUS
  <2> QED
    BY <1>2, <1>3, <1>4, <1>5, <1>6, <1>7, <2>1, WriterChosen
<1>9. Respected
  BY <1>1, <1>2 DEF Respected, FileStays, Live
<1> QED
  BY <1>8, <1>9 DEF Careful

LEMMA FailsCareful ==
    ASSUME Typed, Grounded, Chosen, StaysGrounded, NEW q \in Procs,
           ReplaceFails(q) \/ Cleanup(q)
    PROVE  Careful
<1> DEFINE p == proc[q]
<1>1. /\ CanWrite(q) /\ lock' \in {lock, None} /\ UNCHANGED <<cands, worker, crossed>>
      /\ p.pc \in {"fetch", "import", "cleanup"} /\ Turns(q, Ended(q))
      /\ p \in Task /\ Shape(p) /\ Anchors(p)
  BY ReplaceFailsTask, CleanupTask
     DEF ReplaceFails, Cleanup, At, history, Typed, TypeOK, Grounded
<1>2. Ended(q) \in Task /\ Ended(q).pc \in {"idle", "next"} /\ Ended(q).gone = {}
  BY EndedTask
<1>3. CASE ReplaceFails(q) /\ asset' = asset
  <2>1. lock' = lock \/ (lock = q /\ lock' = None)
    BY <1>3 DEF ReplaceFails
  <2>2. Ended(q).pc \notin Searching \cup {"import", "swap", "fetch"}
    BY <1>2 DEF Searching, Opened
  <2> QED
    BY <1>1, <1>2, <1>3, <2>1, <2>2, PlainCareful
<1>4. CASE ReplaceFails(q) /\ p.pc = "import" /\ p.new \in Assets
           /\ asset' = [asset EXCEPT ![p.new] = NoRow]
  <2>1. asset[p.new].live => asset[p.new].pending
    BY <1>1, <1>4 DEF Anchors
  <2> QED
    BY <1>1, <1>2, <1>4, <2>1, DropCareful
<1>5. CASE Cleanup(q)
  <2>1. p.aid \in Assets /\ asset' = [asset EXCEPT ![p.aid] = NoRow]
    BY <1>5, CleanupTask
  <2>2. p.pc = "cleanup" /\ p.was.file # None /\ p.aid # None /\ p.track \in Tracks
    BY <1>1, <1>5, <2>1, HandleFacts, Constants DEF Cleanup, At, Shape, Replacing
  <2>3. Secure(p.track, p.aid)
    BY <1>1, <2>2 DEF Anchors
  <2>4. Held(p.aid)
    BY <2>2, <2>3 DEF Held
  <2> QED
    BY <1>1, <1>2, <2>1, <2>4, DropCareful
<1> QED
  BY <1>3, <1>4, <1>5, ReplaceFailsTask

\* The new row takes the old one's place.
LEMMA SwapCareful ==
    ASSUME Typed, Grounded, Chosen, StaysGrounded, NEW q \in Procs, Swap(q)
    PROVE  Careful
<1> DEFINE p == proc[q]
           a0 == p.aid
           n == p.new
<1>0. p \in Task /\ Shape(p) /\ p.pc = "swap" /\ Anchors(p) /\ Brings(p)
      /\ p.gone = {} /\ a0 \in Assets /\ n \in Assets /\ a0 \in Live
  BY SwapTask DEF Typed, TypeOK, At, Swap, Grounded, Chosen, Tasks, Deletes, Searching, Opened,
                  Live
<1>1. PICK r \in Task : Carries(q, r, "cleanup")
  BY SwapTask
<1>2. Turns(q, r) /\ r.pc = "cleanup" /\ r.gone = {}
  BY <1>0, <1>1 DEF Carries
<1>3. a0 # n
  <2>1. a0 \in Nat /\ n \in Nat
    BY <1>0, Constants
  <2>2. a0 < n
    BY <1>0 DEF Anchors
  <2> QED
    BY <2>1, <2>2
<1>4. /\ \A b \in Assets \ {a0, n} : asset'[b] = asset[b]
      /\ asset'[a0] = [asset[a0] EXCEPT !.track = None]
      /\ asset'[n] = [asset[n] EXCEPT !.pending = FALSE]
  BY <1>3, SwapTask
<1>5. asset[a0] \in Row /\ asset[n] \in Row
  BY <1>0 DEF Typed, TypeOK
<1>6. /\ asset'[a0].track = None /\ asset'[a0].live = asset[a0].live
      /\ asset'[a0].pending = asset[a0].pending /\ asset'[a0].state = asset[a0].state
      /\ asset'[a0].file = asset[a0].file /\ asset'[a0].cand = asset[a0].cand
      /\ asset'[a0].source = asset[a0].source
  BY <1>4, <1>5 DEF Row
<1>7. /\ asset'[n].track = asset[n].track /\ asset'[n].live = asset[n].live
      /\ ~asset'[n].pending /\ asset'[n].state = asset[n].state
      /\ asset'[n].file = asset[n].file /\ asset'[n].cand = asset[n].cand
      /\ asset'[n].source = asset[n].source
  BY <1>4, <1>5 DEF Row
<1>8. lock' = lock /\ CanWrite(q) /\ UNCHANGED <<cands, worker, crossed>> /\ SecureStays
  BY DEF Swap, history, StaysGrounded
<1>9. Clear' = Clear /\ None \notin Clear
  BY <1>8, Constants DEF Clear
<1>10. asset[n].live => asset[n].pending /\ asset[n].file # None
  BY <1>0 DEF Anchors
<1>11. Live' = Live
  BY <1>4, <1>6, <1>7 DEF Live
<1>12. \A b \in Assets : asset'[b].track \in Clear =>
          b # a0 /\ asset'[b].track = asset[b].track
  BY <1>4, <1>6, <1>7, <1>9
<1>13. RowsProper'
  <2> SUFFICES ASSUME NEW a \in Assets, asset'[a].live, asset'[a].track \in Clear
               PROVE  Fits(a)'
    BY <1>9 DEF RowsProper, Live
  <2>1. a # a0 /\ a \in Live /\ asset'[a].track = asset[a].track /\ Fits(a)
    BY <1>11, <1>12 DEF Chosen, RowsProper, Live
  <2>2. CASE a = n
    <3>1. asset[n].file # None /\ asset[n].state \in Served /\ asset[n].file = asset[n].source
      BY <1>10, <2>1, <2>2 DEF Fits, Live
    <3>2. asset[n].state \notin Claimable \cup {"DOWNLOADING"}
      BY <3>1 DEF Served, Claimable
    <3> QED
      BY <1>7, <2>2, <3>1, <3>2 DEF Fits
  <2>3. CASE a # n
    <3>1. asset'[a] = asset[a]
      BY <1>4, <2>1, <2>3
    <3>2. \A d \in Live' : asset'[d].track = asset[a].track => d \in Live /\ asset[d].track = asset[a].track
      BY <1>11, <1>12, <3>1 DEF Live
    <3> QED
      BY <1>8, <2>1, <3>1, <3>2 DEF Fits, Names
  <2> QED
    BY <2>2, <2>3
<1>14. PendingHeld'
  <2> SUFFICES ASSUME NEW a \in Assets, asset'[a].live, asset'[a].pending,
                      asset'[a].state \in Claimable
               PROVE  Held(a)'
    BY DEF PendingHeld, Live
  <2>1. asset[a].live /\ asset[a].pending /\ asset[a].state \in Claimable
    BY <1>4, <1>6, <1>7
  <2>2. Held(a)
    BY <2>1 DEF Chosen, PendingHeld, Live
  <2> QED
    BY <1>8, <2>2, HeldStays
<1>15. Attempts'
  <2>1. ASSUME NEW w \in Workers, NEW a \in Assets, Working(w, a)
        PROVE  /\ asset[a].live /\ ~asset[a].pending => asset'[a].live /\ ~asset'[a].pending
               /\ asset'[a].live /\ asset'[a].track \in Clear' => asset'[a] = asset[a]
    <3>1. asset[a].live /\ ~asset[a].pending => asset'[a].live /\ ~asset'[a].pending
      BY <1>4, <1>6, <1>7
    <3>2. ASSUME asset'[a].live, asset'[a].track \in Clear PROVE asset'[a] = asset[a]
      <4>1. a # a0 /\ asset[a].live /\ asset[a].track \in Clear
        BY <1>11, <1>12, <3>2 DEF Live
      <4>2. ~asset[a].pending
        BY <2>1, <4>1 DEF Chosen, Attempts, Attempted
      <4> QED
        BY <1>4, <1>10, <4>1, <4>2
    <3> QED
      BY <1>9, <3>1, <3>2
  <2>2. crossed \subseteq crossed'
    BY <1>8
  <2> QED
    BY <1>8, <2>1, <2>2, AttemptsStay DEF Chosen
<1>16. ASSUME NEW s \in Procs \ {q} PROVE Brings(proc[s])'
  <2>1. proc'[s] = proc[s] /\ Brings(proc[s])
    BY <1>2 DEF Chosen, Tasks, Typed, TypeOK, Turns
  <2>2. ASSUME proc[s].pc \in {"import", "swap"}, asset'[proc[s].new].track \in Clear
        PROVE  asset'[proc[s].new] = asset[proc[s].new]
    <3>1. proc[s].new \in Assets /\ proc[s].new # n
      BY <1>0, <2>2, HandleFacts DEF Grounded, Apart
    <3>2. proc[s].new # a0
      BY <1>12, <2>2, <3>1
    <3> QED
      BY <1>4, <3>1, <3>2
  <2> QED
    BY <1>9, <2>1, <2>2 DEF Brings
<1>17. Brings(r)' /\ r.pc # "fetch"
  BY <1>2 DEF Brings
<1>18. Chosen'
  BY <1>2, <1>8, <1>13, <1>14, <1>15, <1>16, <1>17, WriterChosen
<1>19. Respected
  BY <1>4, <1>6, <1>7 DEF Respected, FileStays, Live
<1> QED
  BY <1>18, <1>19 DEF Careful

LEMMA ChoiceCareful ==
    ASSUME Typed, Grounded, Chosen, Typed', StaysGrounded, NEW q \in Procs,
           ChoiceStep(q) \/ Breaks(q)
    PROVE  Careful
<1> DEFINE p == proc[q]
<1>1. CASE SelectRefused(q)
  <2>1. /\ End(q) /\ UNCHANGED <<asset, cands, crossed, worker>>
        /\ p.pc \in Holding /\ p.pc # "score"
    BY <1>1 DEF SelectRefused, At, db, history, Holding
  <2> QED
    BY <2>1, EndCareful
<1>2. CASE Create(q)
  <2>1. PICK r \in Task : Carries(q, r, "fetch")
    BY <1>2, CreateTask
  <2>2. /\ p.pc = "create" /\ lock' = q /\ CanWrite(q)
        /\ UNCHANGED <<asset, cands, crossed, worker>>
    BY <1>2 DEF Create, At, db, history
  <2>3. p.gone = {}
    BY <2>2 DEF Chosen, Tasks, Deletes, Searching, Opened
  <2>4. Turns(q, r) /\ r.gone = {} /\ r.pc \notin Searching \cup {"import", "swap"}
    BY <2>1, <2>3 DEF Carries, Searching, Opened
  <2> QED
    BY <2>2, <2>4, PlainCareful
<1>3. CASE Breaks(q)
  <2>1. PICK r \in Task : Turns(q, r) /\ r.pc \in {"idle", "next"} /\ r.gone = {}
    BY <1>3, BreaksTask
  <2>2. /\ UNCHANGED <<asset, cands, crossed, worker>>
        /\ lock' = lock \/ (lock = q /\ lock' = None)
    BY <1>3 DEF Breaks, db
  <2>3. r.pc \notin Searching \cup {"import", "swap", "fetch"}
    BY <2>1 DEF Searching, Opened
  <2> QED
    BY <2>1, <2>2, <2>3, PlainCareful
<1> QED
  BY <1>1, <1>2, <1>3, SelectCareful, FetchedCareful, ImportCareful, FailsCareful, SwapCareful
     DEF ChoiceStep

-----------------------------------------------------------------------------
(* The download queue, and a stop of the process *)

\* A worker's step leaves the tasks alone; a commit needs the write lock free.
LEMMA WorkerChosen ==
    ASSUME Typed, Chosen, SecureStays, proc' = proc, cands' = cands, lock' = lock,
           crossed \subseteq crossed', lock = None \/ UNCHANGED <<asset, crossed>>,
           \A q \in Procs : Brings(proc[q])', RowsProper', PendingHeld', Attempts'
    PROVE  Chosen'
<1> SUFFICES ASSUME NEW q \in Procs PROVE Deletes(q)'
  BY DEF Chosen, Tasks
<1>1. Deletes(q)
  BY DEF Chosen, Tasks
<1>2. Deletes(q)'
  <2>1. CASE lock = None
    <3>1. proc[q].gone = {} /\ proc[q].pc # "fetch"
      BY <1>1, <2>1, Constants DEF Deletes
    <3> QED
      BY <3>1 DEF Deletes
  <2>2. CASE UNCHANGED <<asset, crossed>>
    BY <1>1, <2>2 DEF Deletes, Secure, Live
  <2> QED
    BY <2>1, <2>2
<1> QED
  BY <1>2

LEMMA ClaimCareful ==
    ASSUME Typed, WorkersHold, Grounded, Chosen, StaysGrounded,
           NEW w \in Workers, NEW a \in Assets, Claim(w, a)
    PROVE  Careful
<1>1. /\ a \in Live /\ asset[a].state \in Claimable /\ lock = None
      /\ asset' = [asset EXCEPT ![a] = [asset[a] EXCEPT !.state = "DOWNLOADING"]]
      /\ worker'[w].pc = "load" /\ worker'[w].aid = a /\ worker[w].pc = "idle"
      /\ \A v \in Workers \ {w} : worker'[v] = worker[v]
  BY ClaimRow
<1>2. asset[a] \in Row /\ \A b \in Assets \ {a} : asset'[b] = asset[b]
  BY <1>1 DEF Typed, TypeOK
<1>3. /\ asset'[a].state = "DOWNLOADING" /\ asset'[a].live = asset[a].live
      /\ asset'[a].track = asset[a].track /\ asset'[a].pending = asset[a].pending
      /\ asset'[a].file = asset[a].file /\ asset'[a].cand = asset[a].cand
      /\ asset'[a].source = asset[a].source
  BY <1>1, <1>2 DEF Typed, TypeOK, Row
<1>4. UNCHANGED <<cands, crossed, proc, lock>> /\ SecureStays
  BY DEF Claim, history, StaysGrounded
<1>5. Clear' = Clear /\ Live' = Live /\ \A b \in Assets : asset'[b].track = asset[b].track
  BY <1>2, <1>3, <1>4 DEF Clear, Live
<1>6. ASSUME asset[a].track \in Clear
      PROVE  /\ asset[a].file = None /\ ~asset[a].pending /\ Names(a) /\ Fits(a)
             /\ \A v \in Workers : ~Working(v, a)
             /\ asset[a].state \notin {"DOWNLOADING", "AVAILABLE"}
  <2>1. Fits(a) /\ asset[a].state \notin {"DOWNLOADING", "AVAILABLE"}
    BY <1>1, <1>6 DEF Chosen, RowsProper, Claimable
  <2>2. asset[a].file = None /\ ~asset[a].pending /\ Names(a)
    BY <1>1, <1>6, <2>1, Downloadable DEF Chosen, Fits
  <2>3. \A v \in Workers : ~Working(v, a)
    BY <1>1, <1>6, <2>1 DEF Chosen, Attempts, Attempted, Live
  <2> QED
    BY <2>1, <2>2, <2>3
<1>7. RowsProper'
  <2> SUFFICES ASSUME NEW b \in Live, asset[b].track \in Clear
               PROVE  Fits(b)'
    BY <1>5 DEF RowsProper, Live
  <2>1. CASE b = a
    BY <1>3, <1>4, <1>5, <1>6, <2>1 DEF Fits, Names, Live
  <2>2. CASE b # a
    <3>1. asset'[b] = asset[b] /\ Fits(b)
      BY <1>2, <2>2 DEF Chosen, RowsProper, Live
    <3> QED
      BY <1>4, <1>5, <3>1 DEF Fits, Names, Live
  <2> QED
    BY <2>1, <2>2
<1>8. PendingHeld'
  <2> SUFFICES ASSUME NEW b \in Assets, asset'[b].live, asset'[b].pending,
                      asset'[b].state \in Claimable
               PROVE  Held(b)'
    BY DEF PendingHeld, Live
  <2>1. b # a
    BY <1>3 DEF Claimable
  <2>2. Held(b)
    BY <1>2, <2>1 DEF Chosen, PendingHeld, Live
  <2> QED
    BY <1>4, <2>2, HeldStays
<1>9. Attempts'
  <2> SUFFICES ASSUME NEW v \in Workers, NEW b \in Assets, Working(v, b)'
               PROVE  /\ (asset'[b].live /\ ~asset'[b].pending) \/ Held(b)'
                      /\ asset'[b].live /\ asset'[b].track \in Clear => Attempted(v, b)'
    BY <1>5 DEF Attempts
  <2>1. CASE b = a
    <3>1. (asset'[a].live /\ ~asset'[a].pending) \/ Held(a)'
      <4>1. asset[a].pending \in BOOLEAN
        BY <1>2 DEF Row
      <4>2. asset[a].pending => Held(a)
        BY <1>1 DEF Chosen, PendingHeld
      <4> QED
        BY <1>1, <1>3, <1>4, <4>1, <4>2, HeldStays DEF Live
    <3>2. ASSUME asset[a].track \in Clear PROVE Attempted(v, a)'
      <4>1. \A x \in Workers : ~Working(x, a)
        BY <1>6, <3>2
      <4>2. v = w /\ worker'[v].pc = "load" /\ \A x \in Workers \ {w} : ~Working(x, a)'
        BY <1>1, <2>1, <4>1 DEF Working
      <4> QED
        BY <1>3, <1>6, <3>2, <4>2 DEF Attempted
    <3> QED
      BY <1>5, <2>1, <3>1, <3>2
  <2>2. CASE b # a
    <3>1. v # w /\ Working(v, b) /\ asset'[b] = asset[b]
      BY <1>1, <1>2, <2>2 DEF Working
    <3>2. (asset'[b].live /\ ~asset'[b].pending) \/ Held(b)'
      BY <1>4, <3>1, HeldStays DEF Chosen, Attempts
    <3>3. ASSUME asset[b].live, asset[b].track \in Clear PROVE Attempted(v, b)'
      <4>1. Attempted(v, b)
        BY <3>1, <3>3 DEF Chosen, Attempts
      <4>2. \A x \in Workers : ~Working(x, b) => ~Working(x, b)'
        BY <1>1, <2>2 DEF Working
      <4>3. worker'[v] = worker[v]
        BY <1>1, <3>1
      <4> QED
        BY <3>1, <4>1, <4>2, <4>3 DEF Attempted
    <3> QED
      BY <3>1, <3>2, <3>3
  <2> QED
    BY <2>1, <2>2
<1>10. ASSUME NEW q \in Procs PROVE Brings(proc[q])'
  <2>1. Brings(proc[q]) /\ (proc[q].pc \in {"import", "swap"} => proc[q].new \in Assets)
    BY HandleFacts DEF Chosen, Tasks
  <2>2. ASSUME proc[q].pc \in {"import", "swap"}, proc[q].new = a, asset[a].track \in Clear
        PROVE  FALSE
    BY <1>1, <1>6, <2>1, <2>2 DEF Brings, Live
  <2> QED
    BY <1>2, <1>4, <1>5, <2>1, <2>2 DEF Brings
<1>11. Chosen'
  <2>1. crossed \subseteq crossed'
    BY <1>4
  <2> QED
    BY <1>1, <1>4, <1>7, <1>8, <1>9, <1>10, <2>1, WorkerChosen
<1>12. ASSUME NEW b \in Live, asset[b].track \in Tracks \ crossed'
       PROVE  FileStays(b)
  <2>1. b = a => asset[a].file = None
    BY <1>4, <1>6, <1>12 DEF Clear
  <2> QED
    BY <1>2, <1>3, <2>1 DEF FileStays, Live
<1> QED
  BY <1>11, <1>12 DEF Careful, Respected

LEMMA LoadCareful ==
    ASSUME Typed, WorkersHold, Grounded, Chosen, StaysGrounded,
           NEW w \in Workers, Load(w)
    PROVE  Careful
<1> DEFINE a == worker[w].aid
<1>1. /\ a \in Assets
      /\ asset[a].live =>
            /\ worker'[w].pc = "fetch" /\ worker'[w].aid = a
            /\ worker'[w].seen = asset[a]
            /\ asset[a].cand # None => worker'[w].video = cands[asset[a].cand].video
      /\ ~asset[a].live => worker'[w] = IdleWorker
      /\ \A v \in Workers \ {w} : worker'[v] = worker[v]
  BY LoadRow
<1>2. worker[w].pc = "load" /\ UNCHANGED <<asset, cands, crossed, proc, lock>> /\ SecureStays
  BY DEF Load, db, history, StaysGrounded
<1>3. Clear' = Clear /\ Live' = Live
  BY <1>2 DEF Clear, Live
<1>4. RowsProper' /\ PendingHeld' /\ \A q \in Procs : Brings(proc[q])'
  BY <1>2, <1>3 DEF Chosen, RowsProper, Fits, Names, PendingHeld, Held, Secure, Tasks, Brings
<1>5. Attempts'
  <2> SUFFICES ASSUME NEW v \in Workers, NEW b \in Assets, Working(v, b)'
               PROVE  /\ (asset[b].live /\ ~asset[b].pending) \/ Held(b)'
                      /\ asset[b].live /\ asset[b].track \in Clear => Attempted(v, b)'
    BY <1>2, <1>3 DEF Attempts
  <2>1. \A x \in Workers, d \in Assets : Working(x, d)' => Working(x, d)
    BY <1>1, <1>2 DEF Working, IdleWorker
  <2>2. (asset[b].live /\ ~asset[b].pending) \/ Held(b)'
    BY <1>2, <2>1, HeldStays DEF Chosen, Attempts
  <2>3. ASSUME asset[b].live, asset[b].track \in Clear PROVE Attempted(v, b)'
    <3>1. Attempted(v, b)
      BY <2>1, <2>3 DEF Chosen, Attempts
    <3>2. \A x \in Workers \ {v} : ~Working(x, b)'
      BY <2>1, <3>1 DEF Attempted
    <3>3. worker'[v].pc = "fetch" => worker'[v].seen = asset[b] /\ worker'[v].video = asset[b].source
      <4>1. CASE v = w
        <5>1. b = a
          BY <2>1, <4>1 DEF Working
        <5>2. Names(b)
          BY <2>3, <3>1, Downloadable DEF Attempted, Chosen, Live
        <5>3. asset[b].cand # None /\ cands[asset[b].cand].video = asset[b].source
          BY <5>2, Constants DEF Names
        <5> QED
          BY <1>1, <2>3, <4>1, <5>1, <5>3
      <4>2. CASE v # w
        BY <1>1, <3>1, <4>2 DEF Attempted
      <4> QED
        BY <4>1, <4>2
    <3> QED
      BY <1>2, <3>1, <3>2, <3>3 DEF Attempted
  <2> QED
    BY <2>2, <2>3
<1>6. Chosen'
  <2>1. crossed \subseteq crossed'
    BY <1>2
  <2> QED
    BY <1>2, <1>4, <1>5, <2>1, WorkerChosen
<1>7. Respected
  BY <1>2 DEF Respected, FileStays
<1> QED
  BY <1>6, <1>7 DEF Careful

\* An attempt ends: on a track that is not crossed its row is as the worker has
\* read it.
LEMMA EndsCareful ==
    ASSUME Typed, WorkersHold, Grounded, Chosen, StaysGrounded, NEW w \in Workers,
           NEW state \in Served \cup {"DOWNLOAD_FAILED", "QUEUED"}, NEW video,
           \/ state \in Served /\ video \in Videos /\ video = worker[w].video
           \/ state \notin Served /\ video = None,
           Concluded(w, state, video)
    PROVE  Careful
<1> DEFINE a == worker[w].aid
<1>1. /\ a \in Assets /\ lock = None /\ UNCHANGED <<cands, lock, proc>>
      /\ worker[w].pc = "fetch" /\ worker'[w] = IdleWorker
      /\ \A v \in Workers \ {w} : worker'[v] = worker[v]
      /\ \A b \in Assets \ {a} : asset'[b] = asset[b]
      /\ ~asset[a].live => asset'[a] = asset[a] /\ crossed' = crossed
  BY DEF Concluded
<1>2. ASSUME asset[a].live
      PROVE  /\ asset'[a].live /\ asset'[a].track = asset[a].track
             /\ asset'[a].state = state /\ asset'[a].pending = asset[a].pending
             /\ asset'[a].file = IF video = None THEN asset[a].file ELSE video
             /\ asset'[a].cand = asset[a].cand /\ asset'[a].source = asset[a].source
             /\ crossed' = IF asset[a] # worker[w].seen /\ asset[a].track # None
                           THEN crossed \cup {asset[a].track} ELSE crossed
  BY <1>2 DEF Concluded
<1>3. crossed \subseteq crossed' /\ SecureStays /\ Live' = Live
      /\ \A b \in Assets : asset'[b].track = asset[b].track /\ asset'[b].pending = asset[b].pending
  BY <1>1, <1>2 DEF StaysGrounded, Live
<1>4. ASSUME asset[a].live, asset[a].track \in Clear
      PROVE  /\ asset[a].file = None /\ ~asset[a].pending /\ Names(a) /\ Fits(a)
             /\ worker[w].seen = asset[a] /\ worker[w].video = asset[a].source
             /\ \A v \in Workers \ {w} : ~Working(v, a)
  <2>1. Attempted(w, a)
    BY <1>1, <1>4 DEF Chosen, Attempts, Working
  <2>2. Fits(a)
    BY <1>1, <1>4 DEF Chosen, RowsProper, Live
  <2>3. asset[a].file = None /\ Names(a)
    BY <1>1, <1>4, <2>1, Downloadable DEF Attempted, Chosen, Live
  <2> QED
    BY <1>1, <2>1, <2>2, <2>3 DEF Attempted
<1>5. RowsProper'
  <2> SUFFICES ASSUME NEW b \in Live, asset[b].track \in Clear
               PROVE  Fits(b)'
    BY <1>3 DEF RowsProper, Live, Clear
  <2>1. CASE b = a
    <3>1. /\ asset[b].live /\ asset[b].file = None /\ ~asset[b].pending /\ Names(b) /\ Fits(b)
          /\ worker[w].video = asset[b].source
      BY <1>4, <2>1 DEF Live
    <3>2. /\ asset'[b].track = asset[b].track /\ asset'[b].state = state /\ ~asset'[b].pending
          /\ asset'[b].file = IF video = None THEN asset[b].file ELSE video
          /\ asset'[b].cand = asset[b].cand /\ asset'[b].source = asset[b].source
      BY <1>2, <2>1, <3>1
    <3>3. Names(b)'
      BY <1>1, <3>1, <3>2 DEF Names
    <3>4. CASE state \in Served
      <4>1. video = asset[b].source /\ video # None
        BY <3>1, <3>4, Constants
      <4> QED
        BY <3>2, <3>3, <3>4, <4>1 DEF Fits
    <3>5. CASE state \notin Served
      <4>1. asset'[b].file = None
        BY <3>1, <3>2, <3>5
      <4>2. \A d \in Live' : asset'[d].track = asset'[b].track => d = b
        BY <1>3, <3>1 DEF Fits, Live
      <4> QED
        BY <3>2, <3>3, <4>1, <4>2 DEF Fits
    <3> QED
      BY <3>4, <3>5
  <2>2. CASE b # a
    <3>1. asset'[b] = asset[b] /\ Fits(b)
      BY <1>1, <2>2 DEF Chosen, RowsProper, Live
    <3> QED
      BY <1>1, <1>3, <3>1 DEF Fits, Names, Live
  <2> QED
    BY <2>1, <2>2
<1>6. PendingHeld'
  <2> SUFFICES ASSUME NEW b \in Assets, asset'[b].live, asset'[b].pending,
                      asset'[b].state \in Claimable
               PROVE  Held(b)'
    BY DEF PendingHeld, Live
  <2>1. Held(b)
    <3>1. CASE b = a
      BY <1>1, <1>3, <3>1 DEF Chosen, Attempts, Working
    <3>2. CASE b # a
      BY <1>1, <3>2 DEF Chosen, PendingHeld, Live
    <3> QED
      BY <3>1, <3>2
  <2> QED
    BY <1>3, <2>1, HeldStays
<1>7. Attempts'
  <2> SUFFICES ASSUME NEW v \in Workers, NEW b \in Assets, Working(v, b)'
               PROVE  /\ (asset'[b].live /\ ~asset'[b].pending) \/ Held(b)'
                      /\ asset'[b].live /\ asset'[b].track \in Clear' => Attempted(v, b)'
    BY DEF Attempts
  <2>1. v # w /\ Working(v, b) /\ worker'[v] = worker[v]
        /\ \A x \in Workers : Working(x, b)' => Working(x, b)
    BY <1>1 DEF Working, IdleWorker
  <2>2. (asset'[b].live /\ ~asset'[b].pending) \/ Held(b)'
    BY <1>3, <2>1, HeldStays DEF Chosen, Attempts, Live
  <2>3. ASSUME asset'[b].live, asset'[b].track \in Clear' PROVE Attempted(v, b)'
    <3>1. asset[b].live /\ asset[b].track \in Clear
      BY <1>3, <2>3 DEF Clear, Live
    <3>2. b # a
      BY <1>4, <2>1, <3>1
    <3>3. Attempted(v, b) /\ asset'[b] = asset[b]
      BY <1>1, <2>1, <3>1, <3>2 DEF Chosen, Attempts
    <3> QED
      BY <2>1, <3>3 DEF Attempted
  <2> QED
    BY <2>2, <2>3
<1>8. ASSUME NEW q \in Procs PROVE Brings(proc[q])'
  <2> DEFINE n == proc[q].new
  <2> SUFFICES ASSUME proc[q].pc \in {"import", "swap"}, asset'[n].live,
                      asset'[n].track \in Clear'
               PROVE  /\ asset'[n].source = proc[q].video
                      /\ asset'[n].state = IF proc[q].pc = "import" THEN "DOWNLOADING"
                                                                   ELSE "AVAILABLE"
    BY <1>1 DEF Brings
  <2>1. n \in Assets /\ Anchors(proc[q]) /\ Brings(proc[q])
    BY HandleFacts DEF Grounded, Chosen, Tasks
  <2>2. asset[n].live /\ asset[n].track \in Clear
    BY <1>3, <2>1 DEF Clear, Live
  <2>3. n # a
    BY <1>4, <2>1, <2>2 DEF Anchors
  <2> QED
    BY <1>1, <2>1, <2>2, <2>3 DEF Brings
<1>9. Chosen'
  BY <1>1, <1>3, <1>5, <1>6, <1>7, <1>8, WorkerChosen
<1>10. ASSUME NEW b \in Live, asset[b].track \in Tracks \ crossed'
       PROVE  FileStays(b)
  <2>1. CASE b = a
    <3>1. asset[a].live /\ asset[a].track \in Clear
      BY <1>3, <1>10, <2>1 DEF Clear, Live
    <3> QED
      BY <1>2, <1>4, <2>1, <3>1 DEF FileStays
  <2>2. CASE b # a
    BY <1>1, <2>2 DEF FileStays, Live
  <2> QED
    BY <2>1, <2>2
<1> QED
  BY <1>9, <1>10 DEF Careful, Respected

LEMMA WorkerCareful ==
    ASSUME Typed, WorkersHold, Grounded, Chosen, StaysGrounded, NEW w \in Workers,
           Works(w) \/ \E a \in Assets : Claim(w, a)
    PROVE  Careful
<1>1. ASSUME Import(w) \/ Fail(w) PROVE Careful
  <2>1. CASE \E state \in Served : worker[w].video \in Videos
                                   /\ Concluded(w, state, worker[w].video)
    BY <2>1, EndsCareful
  <2>2. CASE \E state \in {"DOWNLOAD_FAILED", "QUEUED"} : Concluded(w, state, None)
    BY <2>2, EndsCareful DEF Served
  <2> QED
    BY <1>1, <2>1, <2>2, AttemptEnds
<1> QED
  BY <1>1, ClaimCareful, LoadCareful DEF Works

LEMMA RestartCareful ==
    ASSUME Typed, WorkersHold, Grounded, Chosen, StaysGrounded, Restart
    PROVE  Careful
<1>1. /\ proc' = [q \in Procs |-> IdleTask] /\ cands' = cands /\ crossed' = crossed
      /\ worker' = [w \in Workers |-> IdleWorker]
  BY RestartRows
<1>2. ASSUME NEW a \in Assets, asset'[a].live
      PROVE  /\ a \in Live /\ ~asset[a].pending /\ ~asset'[a].pending
             /\ asset'[a].track = asset[a].track /\ asset'[a].file = asset[a].file
             /\ asset'[a].cand = asset[a].cand /\ asset'[a].source = asset[a].source
             /\ asset'[a].state = IF asset[a].state = "DOWNLOADING" THEN "QUEUED"
                                  ELSE asset[a].state
  <2>1. asset[a].pending \in BOOLEAN
    BY DEF Typed, TypeOK, Row
  <2>2. asset[a].pending => asset'[a] = NoRow
    BY RestartRows
  <2>3. ~asset[a].pending
    BY <1>2, <2>2 DEF NoRow
  <2> QED
    BY <1>2, <2>3, RestartRows DEF Live
<1>3. Clear' = Clear
  BY <1>1 DEF Clear
<1>4. RowsProper'
  <2> SUFFICES ASSUME NEW a \in Assets, asset'[a].live, asset'[a].track \in Clear
               PROVE  Fits(a)'
    BY <1>3 DEF RowsProper, Live
  <2>1. a \in Live /\ Fits(a) /\ ~asset[a].pending /\ asset[a].track \in Clear
    BY <1>2 DEF Chosen, RowsProper
  <2>2. asset[a].file # None => asset'[a].state = asset[a].state
    BY <1>2, <2>1, Downloadable DEF Chosen
  <2>3. asset[a].file = None => \A d \in Live' : asset'[d].track = asset'[a].track => d = a
    BY <1>2, <2>1 DEF Fits, Live
  <2>4. asset'[a].state \in Claimable \cup {"DOWNLOADING"} => Names(a)'
    BY <1>1, <1>2, <2>1 DEF Fits, Names, Claimable
  <2> QED
    BY <1>2, <2>1, <2>2, <2>3, <2>4 DEF Fits
<1>5. PendingHeld'
  BY <1>2 DEF PendingHeld, Live
<1>6. Attempts'
  BY <1>1 DEF Attempts, Working, IdleWorker
<1>7. Tasks'
  BY <1>1 DEF Tasks, Brings, Deletes, IdleTask
<1>8. ASSUME NEW a \in Live, asset'[a].live, asset[a].track \in Tracks \ crossed'
      PROVE  FileStays(a)
  <2>1. asset[a].track \in Clear
    BY <1>1, <1>8 DEF Clear
  <2>2. asset[a].file # None => asset[a].state # "DOWNLOADING"
    BY <2>1, Downloadable DEF Chosen
  <2> QED
    BY <1>2, <1>8, <2>2 DEF FileStays, Live
<1> QED
  BY <1>4, <1>5, <1>6, <1>7, <1>8 DEF Careful, Respected, Chosen

-----------------------------------------------------------------------------
(* The theorems *)

LEMMA NextCareful ==
    ASSUME Base, Grounded, Chosen, [Next]_vars
    PROVE  Careful
<1>1. StaysGrounded /\ Base' /\ Typed /\ WorkersHold /\ Typed'
  BY NextGrounded, NextBase DEF Base
<1>2. ASSUME NEW q \in Procs, Asked(q) \/ SearchStep(q) \/ ChoiceStep(q) \/ Breaks(q)
      PROVE  Careful
  BY <1>1, <1>2, AskedCareful, SearchCareful, ChoiceCareful
<1>3. ASSUME NEW w \in Workers, Works(w) \/ \E a \in Assets : Claim(w, a) PROVE Careful
  BY <1>1, <1>3, WorkerCareful
<1>4. ASSUME Restart PROVE Careful
  BY <1>1, <1>4, RestartCareful
<1>5. ASSUME UNCHANGED vars PROVE Careful
  <2>1. UNCHANGED <<asset, cands, lock, proc, worker, crossed>>
    BY <1>5 DEF vars, db, history
  <2>2. Chosen'
    BY <2>1 DEF Chosen, RowsProper, Fits, Names, PendingHeld, Held, Secure, Live, Clear, Attempts,
                Attempted, Working, Tasks, Brings, Deletes
  <2>3. Respected
    BY <2>1 DEF Respected, FileStays
  <2> QED
    BY <2>2, <2>3 DEF Careful
<1> QED
  BY <1>2, <1>3, <1>4, <1>5 DEF Next

LEMMA InitChosen == Init => Chosen
<1> SUFFICES ASSUME Init PROVE Chosen
  OBVIOUS
<1>1. \A a \in Assets : ~asset[a].live
  BY DEF Init, NoRow
<1>2. RowsProper /\ PendingHeld
  BY <1>1 DEF RowsProper, PendingHeld, Live
<1>3. Attempts
  BY DEF Init, Attempts, Working, IdleWorker
<1>4. Tasks
  BY DEF Init, Tasks, Brings, Deletes, IdleTask
<1> QED
  BY <1>2, <1>3, <1>4 DEF Chosen

LEMMA ChosenHolds == Spec => [](Base /\ Grounded /\ Chosen)
<1>1. Init => Base /\ Grounded /\ Chosen
  BY InitBase, InitGrounded, InitChosen
<1>2. Base /\ Grounded /\ Chosen /\ [Next]_vars => (Base /\ Grounded /\ Chosen)'
  BY NextBase, NextGrounded, NextCareful DEF StaysGrounded, Careful
<1> QED
  BY <1>1, <1>2, PTL DEF Spec

\* What is to be downloaded names a stored candidate and that candidate's video,
\* and a file shows the video source_reference names, though searches delete the
\* track's candidates and their ids are given again, and whatever fails.
THEOREM ChoicesAreTraceable == Spec => []ChoiceIsTraceable
<1>1. ASSUME Base, Chosen PROVE ChoiceIsTraceable
  <2>1. ASSUME NEW a \in Live, asset[a].state \in Claimable \cup {"DOWNLOADING"},
               ~asset[a].pending, asset[a].track \in Tracks \ crossed
        PROVE  /\ asset[a].cand # None
               /\ cands[asset[a].cand] = [track |-> asset[a].track, video |-> asset[a].source]
    <3>1. Names(a)
      BY <1>1, <2>1 DEF Chosen, RowsProper, Fits, Clear
    <3> QED
      BY <3>1, Constants DEF Names
  <2>2. ASSUME NEW a \in Live, asset[a].file # None, asset[a].track \in Tracks \ crossed
        PROVE  asset[a].file = asset[a].source
    BY <1>1, <2>2 DEF Chosen, RowsProper, Fits, Clear
  <2> QED
    BY <2>1, <2>2 DEF ChoiceIsTraceable, ChoiceNamesItsVideo, FileIsItsSource
<1> QED
  BY <1>1, ChosenHolds, PTL

\* A row that has a file keeps its state, its file and its candidate for as long
\* as it is there, whatever searches, selections, downloads and replacements do
\* at once.
THEOREM ServedRowsAreUntouched == Spec => ServedIsUntouched
<1>1. ASSUME Base, Grounded, Chosen, [Next]_vars
      PROVE  [\A a \in Live : asset[a].file # None /\ asset'[a].live
                               /\ asset[a].track \in Tracks \ crossed'
                 => /\ asset'[a].state = asset[a].state
                    /\ asset'[a].file = asset[a].file
                    /\ asset'[a].cand = asset[a].cand]_vars
  BY <1>1, NextCareful DEF Careful, Respected, FileStays
<1> QED
  BY <1>1, ChosenHolds, PTL DEF Spec, ServedIsUntouched

-----------------------------------------------------------------------------
(* What keeps the monitor off a human's choice                             *)
(*                                                                         *)
(* The formula looks at a step, and whether a step may exchange a row      *)
(* depends on what its task read long before: the monitor's task carries   *)
(* the list of its tick, the row its search read and the row it is about   *)
(* to retire, while humans replace and select.                             *)

\* The row of its track that a search or a replacement reads.
Lowest(a) == \A b \in Live : asset[b].track = asset[a].track => a <= b

\* Another row of a track is a replacement's.
Seconds ==
    \A a \in Live : asset[a].track \in Clear /\ ~Lowest(a)
       => asset[a].manual /\ asset[a].state # "INCOMPLETE"

\* The row of a replacement could be listed only after another row is served.
Doubtful(a) ==
    asset[a].live /\ asset[a].pending /\ (~asset[a].manual \/ asset[a].state = "INCOMPLETE")

Doubts == \A a \in Assets : Doubtful(a) => Held(a)

\* What the monitor has on its list, it may still search for, ...
Listed(a) ==
    asset[a].live /\ asset[a].track \in Clear =>
       /\ asset[a].file # None /\ Lowest(a)
       /\ asset[a].manual => asset[a].state = "INCOMPLETE"

Lists(p) == p.op = "monitor" => \A a \in p.todo : Held(a) /\ Listed(a)

\* ... a search has read its track's first row, ...
Finds(p) ==
    p.pc \in Searching /\ p.aid # None /\ asset[p.aid].live /\ asset[p.aid].track \in Clear
       => Lowest(p.aid)

\* ... the monitor's one with a file, and a human's choice only as a visualizer, ...
Watches(p) ==
    p.op = "monitor" /\ p.pc \in Searching \cup {"compare"} /\ p.track \in Clear
       => p.was.file # None /\ (p.was.manual => p.was.state = "INCOMPLETE")

\* ... and what is a human's choice by now was one when it was read.
Knows(p) ==
    p.op = "monitor" /\ p.pc \in Searching \cup Replacing \cup {"compare"}
       /\ p.aid # None /\ asset[p.aid].live /\ asset[p.aid].track \in Clear
       /\ asset[p.aid].manual
       => p.was.manual

\* A human asks for a replacement, or the monitor does.
Asks(p) == p.pc \in Replacing => p.op \in {"replace", "monitor"}

Heeds(p) == Finds(p) /\ Watches(p) /\ Knows(p) /\ Asks(p)

Minded == Seconds /\ Doubts /\ \A q \in Procs : Lists(proc[q]) /\ Heeds(proc[q])

\* What no step does to the rows: a new one comes last, on a track that is not
\* crossed it is the first or a replacement's, and no row with a file, and none
\* of a replacement, becomes a human's choice there.
Arrives(a) == asset'[a].live /\ a \notin Live

Gentle ==
    /\ crossed \subseteq crossed'
    /\ \A a \in Assets : Arrives(a) =>
          /\ \A u \in Live : u < a
          /\ \A b \in Assets : Arrives(b) => b = a
          /\ asset'[a].track \in Clear' =>
                \/ RowsOf(asset'[a].track) = {}
                \/ asset'[a].manual /\ asset'[a].state = "DOWNLOADING"
    /\ \A a \in Live : asset'[a].live /\ asset'[a].track \in Clear' =>
          /\ asset'[a].track = asset[a].track
          /\ asset'[a].manual => asset[a].manual \/ (asset[a].file = None /\ ~asset[a].pending)
          /\ asset[a].pending /\ ~asset'[a].pending => asset[a].file # None
          /\ asset[a].manual /\ ~asset'[a].manual => Lowest(a)
    /\ \A a \in Assets : Doubtful(a)' => Doubtful(a) \/ Held(a)

\* What ChoiceIsKept asks of a step.
Spared ==
    \A a \in Live : Preferred(a) /\ asset[a].track \in Tracks \ crossed' /\ Undone(a)
       => \E q \in Procs : /\ proc[q].aid = a /\ proc'[q] # proc[q]
                            /\ \/ proc[q].op \in {"select", "again", "replace"}
                               \/ MayMonitor(q, a)

Mindful == Minded' /\ Spared

LEMMA LowestStays ==
    ASSUME Gentle, NEW a \in Live, asset'[a].live, asset'[a].track \in Clear', Lowest(a)
    PROVE  Lowest(a)'
<1> SUFFICES ASSUME NEW b \in Assets, asset'[b].live, asset'[b].track = asset'[a].track
             PROVE  a <= b
  BY DEF Lowest, Live
<1>1. a \in Nat /\ b \in Nat
  BY Constants DEF Live
<1>2. CASE b \in Live
  BY <1>2 DEF Gentle, Lowest
<1>3. CASE b \notin Live
  BY <1>1, <1>3 DEF Gentle, Arrives
<1> QED
  BY <1>2, <1>3

\* A row that stands, as a step leaves it.
LEMMA StandsOn ==
    ASSUME Typed, Gentle, NEW a \in Live, asset'[a].live, asset'[a].track \in Clear'
    PROVE  asset[a].track = asset'[a].track /\ asset[a].track \in Clear
           /\ asset[a].track \in Tracks \ crossed'
BY DEF Gentle, Clear

LEMMA SecondsStay ==
    ASSUME Typed, Typed', Careful, Chosen, Gentle, Seconds
    PROVE  Seconds'
<1> SUFFICES ASSUME NEW a \in Assets, asset'[a].live, asset'[a].track \in Clear', ~Lowest(a)'
             PROVE  asset'[a].manual /\ asset'[a].state # "INCOMPLETE"
  BY DEF Seconds, Live
<1>1. PICK b \in Assets : asset'[b].live /\ asset'[b].track = asset'[a].track /\ ~(a <= b)
  BY DEF Lowest, Live
<1>2. a \in Nat /\ b \in Nat /\ a # b
  BY <1>1, Constants
<1>3. b \in Live
  <2> SUFFICES ASSUME b \notin Live PROVE FALSE
    OBVIOUS
  <2>1. Arrives(b) /\ \A u \in Live : u < b
    BY <1>1 DEF Arrives, Gentle
  <2>2. a \in Live
    BY <1>2, <2>1 DEF Gentle, Arrives
  <2> QED
    BY <1>1, <1>2, <2>1, <2>2
<1>4. asset[b].track = asset'[a].track
  BY <1>1, <1>3, StandsOn
<1>5. CASE a \notin Live
  <2>1. Arrives(a) /\ RowsOf(asset'[a].track) # {}
    BY <1>3, <1>4, <1>5 DEF Arrives, RowsOf
  <2> QED
    BY <2>1 DEF Gentle
<1>6. CASE a \in Live
  <2>1. asset[a].track = asset'[a].track /\ asset[a].track \in Clear
        /\ asset[a].track \in Tracks \ crossed'
    BY <1>6, StandsOn
  <2>2. ~Lowest(a)
    BY <1>1, <1>3, <1>4, <2>1 DEF Lowest
  <2>3. asset[a].manual /\ asset[a].state # "INCOMPLETE"
    BY <1>6, <2>1, <2>2 DEF Seconds
  <2>4. asset'[a].manual
    BY <1>6, <2>2, <2>3 DEF Gentle
  <2>5. asset[a].pending \in BOOLEAN /\ asset'[a].pending \in BOOLEAN
    BY DEF Typed, TypeOK, Row
  <2>6. asset[a].file # None \/ asset[a].pending
    BY <1>2, <1>3, <1>4, <1>6, <2>1, <2>5 DEF Chosen, RowsProper, Fits
  <2>7. CASE asset[a].file # None
    BY <1>6, <2>1, <2>3, <2>4, <2>7 DEF Careful, Respected, FileStays
  <2>8. CASE asset[a].file = None
    <3>1. asset'[a].pending
      BY <1>6, <2>5, <2>6, <2>8 DEF Gentle
    <3>2. Fits(a)'
      BY <1>6 DEF Careful, Chosen, RowsProper, Live
    <3> QED
      BY <2>4, <3>1, <3>2 DEF Fits
  <2> QED
    BY <2>7, <2>8
<1> QED
  BY <1>5, <1>6

\* A row on the monitor's list is not exchanged behind its back.
LEMMA ListedStays ==
    ASSUME Typed, Careful, SecureStays, Gentle, NEW a \in Assets, Held(a), Listed(a)
    PROVE  Held(a)' /\ Listed(a)'
<1>1. Held(a)'
  BY HeldStays
<1>2. ASSUME asset'[a].live, asset'[a].track \in Clear'
      PROVE  /\ asset'[a].file # None /\ Lowest(a)'
             /\ asset'[a].manual => asset'[a].state = "INCOMPLETE"
  <2>1. a \in Live
    <3> SUFFICES ASSUME a \notin Live PROVE FALSE
      OBVIOUS
    <3>1. \A u \in Live : u < a
      BY <1>2 DEF Gentle, Arrives
    <3>2. PICK u \in Live : a <= u
      BY DEF Held, Secure
    <3>3. a \in Nat /\ u \in Nat
      BY Constants DEF Live
    <3> QED
      BY <3>1, <3>2, <3>3
  <2>2. asset[a].track \in Clear /\ asset[a].track \in Tracks \ crossed'
    BY <1>2, <2>1, StandsOn
  <2>3. asset[a].file # None /\ Lowest(a) /\ (asset[a].manual => asset[a].state = "INCOMPLETE")
    BY <2>1, <2>2 DEF Listed, Live
  <2>4. asset'[a].state = asset[a].state /\ asset'[a].file = asset[a].file
    BY <1>2, <2>1, <2>2, <2>3 DEF Careful, Respected, FileStays
  <2>5. asset'[a].manual => asset[a].manual
    BY <1>2, <2>1, <2>3 DEF Gentle
  <2> QED
    BY <1>2, <2>1, <2>3, <2>4, <2>5, LowestStays
<1> QED
  BY <1>1, <1>2 DEF Listed

\* A row that a task holds, when a step has left it on a track that is not crossed.
LEMMA HeldRow ==
    ASSUME Typed, Grounded, Gentle, NEW q \in Procs, proc[q].aid # None,
           asset'[proc[q].aid].live, asset'[proc[q].aid].track \in Clear'
    PROVE  /\ proc[q].aid \in Live /\ asset[proc[q].aid].track = proc[q].track
           /\ asset[proc[q].aid].track = asset'[proc[q].aid].track
           /\ proc[q].track \in Clear /\ proc[q].track \in Tracks \ crossed'
<1> DEFINE a == proc[q].aid
<1>1. a \in Assets /\ a \in Handles(proc[q]) /\ proc[q].track \in Tracks
  BY HandleFacts DEF Handles
<1>2. Anchored(proc[q].track, a)
  BY <1>1 DEF Grounded, Anchors
<1>3. a \in Live
  <2> SUFFICES ASSUME a \notin Live PROVE FALSE
    OBVIOUS
  <2>1. \A u \in Live : u < a
    BY <1>1 DEF Gentle, Arrives
  <2>2. PICK u \in Live : a <= u
    BY <1>1, <1>2 DEF Anchored, Secure, Live
  <2>3. a \in Nat /\ u \in Nat
    BY <1>1, Constants DEF Live
  <2> QED
    BY <2>1, <2>2, <2>3
<1>4. asset[a].track = asset'[a].track /\ asset[a].track \in Clear
      /\ asset[a].track \in Tracks \ crossed'
  BY <1>3, StandsOn
<1>5. asset[a].track = proc[q].track
  BY <1>2, <1>3, <1>4, Constants DEF Anchored, Live, Clear
<1> QED
  BY <1>3, <1>4, <1>5

\* A task that stays, or goes on with the row it has read.
LEMMA HeedsStay ==
    ASSUME Typed, Grounded, Chosen, Minded, Careful, Gentle, NEW q \in Procs, NEW r \in Task,
           r.op = proc[q].op, r.track = proc[q].track, r.aid = proc[q].aid, r.was = proc[q].was,
           \/ r.pc = proc[q].pc
           \/ r.pc \in Searching /\ proc[q].pc \in Searching
           \/ r.pc \in Replacing /\ proc[q].pc \in Replacing
    PROVE  Heeds(r)'
<1> DEFINE p == proc[q]
           a == r.aid
<1>0. Heeds(p) /\ p \in Task /\ Shape(p) /\ Anchors(p)
  BY DEF Minded, Typed, TypeOK, Grounded
<1>1. /\ r.pc \in Searching <=> p.pc \in Searching
      /\ r.pc \in Replacing <=> p.pc \in Replacing
      /\ r.pc = "compare" <=> p.pc = "compare"
  BY DEF Searching, Opened, Replacing
<1>2. Finds(r)'
  <2> SUFFICES ASSUME p.pc \in Searching, a # None, asset'[a].live, asset'[a].track \in Clear'
               PROVE  Lowest(a)'
    BY <1>1 DEF Finds
  <2>1. a \in Live /\ asset[a].track \in Clear
    BY HeldRow
  <2>2. Lowest(a)
    BY <1>0, <2>1 DEF Heeds, Finds, Live
  <2> QED
    BY <2>1, <2>2, LowestStays
<1>3. Watches(r)'
  BY <1>0, <1>1 DEF Heeds, Watches, Clear, Gentle
<1>4. ASSUME p.op = "monitor", p.pc \in Searching \cup Replacing \cup {"compare"}, a # None,
             asset'[a].live, asset'[a].track \in Clear', asset'[a].manual
      PROVE  p.was.manual
  <2>1. /\ a \in Live /\ asset[a].track = p.track /\ p.track \in Clear
        /\ asset[a].pending \in BOOLEAN
    BY <1>4, HeldRow DEF Typed, TypeOK, Row, Live
  <2>2. p.was.file # None
    BY <1>0, <1>4, <2>1 DEF Heeds, Watches, Shape, Holding, Replacing
  <2>3. Secure(p.track, a)
    BY <1>0, <1>4, <2>2 DEF Anchors
  <2>4. asset[a].file # None \/ asset[a].pending
    BY <2>1, <2>3, LonelyRow DEF Chosen
  <2>5. asset[a].manual
    BY <1>4, <2>1, <2>4 DEF Gentle
  <2> QED
    BY <1>0, <1>4, <2>1, <2>5 DEF Heeds, Knows, Live
<1>5. Knows(r)'
  BY <1>1, <1>4 DEF Knows
<1>6. Asks(r)'
  BY <1>0, <1>1 DEF Heeds, Asks
<1> QED
  BY <1>2, <1>3, <1>5, <1>6 DEF Heeds

\* The tasks that have not moved, and what a step must show of those that have.
LEMMA MindedStep ==
    ASSUME Typed, Typed', Grounded, Chosen, Minded, Careful, SecureStays, Gentle,
           proc' \in [Procs -> Task],
           \A s \in Procs : proc'[s] = proc[s] \/ (Lists(proc[s])' /\ Heeds(proc[s])')
    PROVE  Minded'
<1>1. ASSUME NEW s \in Procs, proc'[s] = proc[s] PROVE Lists(proc[s])' /\ Heeds(proc[s])'
  <2>1. proc[s] \in Task /\ Shape(proc[s]) /\ Lists(proc[s])
    BY DEF Minded, Typed, TypeOK
  <2>2. Heeds(proc[s])'
    <3>1. ASSUME NEW x \in Task, x = proc[s] PROVE Heeds(x)'
      BY <3>1, HeedsStay
    <3> QED
      BY <1>1, <2>1, <3>1 DEF Heeds, Finds, Watches, Knows, Asks
  <2>3. Lists(proc[s])'
    BY <1>1, <2>1, ListedStays DEF Lists, Shape
  <2> QED
    BY <2>2, <2>3
<1>2. Seconds'
  BY SecondsStay DEF Minded
<1>3. Doubts'
  BY HeldStays DEF Minded, Doubts, Gentle
<1> QED
  BY <1>1, <1>2, <1>3 DEF Minded

LEMMA MindedTurn ==
    ASSUME Typed, Typed', Grounded, Chosen, Minded, Careful, SecureStays, Gentle,
           NEW q \in Procs, NEW r \in Task, Turns(q, r), Heeds(r)', Lists(r)'
    PROVE  Minded'
<1>1. proc'[q] = r /\ \A s \in Procs \ {q} : proc'[s] = proc[s]
  BY DEF Typed, TypeOK, Turns
<1>2. Lists(proc[q])' /\ Heeds(proc[q])'
  BY <1>1 DEF Lists, Heeds, Finds, Watches, Knows, Asks
<1> QED
  BY <1>1, <1>2, MindedStep DEF Typed, TypeOK

\* A task that is at no search and no replacement has nothing to heed.
LEMMA NothingToHeed ==
    ASSUME NEW r, r.pc \in {"idle", "next", "select"}
    PROVE  Heeds(r) /\ Heeds(r)'
BY DEF Heeds, Finds, Watches, Knows, Asks, Searching, Opened, Replacing

\* What the monitor has left to do.
LEMMA ListsOn ==
    ASSUME Typed, Minded, Careful, SecureStays, Gentle, NEW q \in Procs, NEW r \in Task,
           Lessens(q, r)
    PROVE  Lists(r)'
<1> SUFFICES ASSUME r.op = "monitor", NEW a \in r.todo PROVE (Held(a) /\ Listed(a))'
  BY DEF Lists
<1>1. a \in proc[q].todo /\ a \in Assets /\ Lists(proc[q])
  BY DEF Minded, Typed, Shape, Lessens
<1>2. Held(a) /\ Listed(a)
  BY <1>1 DEF Lists, Lessens
<1> QED
  BY <1>1, <1>2, ListedStays

\* A step that leaves the rows alone.
LEMMA UnmovedRows ==
    ASSUME Typed, UNCHANGED <<asset, crossed>>
    PROVE  Gentle /\ Spared
<1>1. Live' = Live /\ Clear' = Clear
  BY DEF Live, Clear
<1>2. Gentle
  BY <1>1 DEF Gentle, Arrives, Live, Doubtful
<1>3. Spared
  BY DEF Spared, Preferred, Undone
<1> QED
  BY <1>2, <1>3

LEMMA UnmovedMindful ==
    ASSUME Typed, Typed', Grounded, Chosen, Minded, Careful, SecureStays,
           UNCHANGED <<asset, crossed>>, NEW q \in Procs, NEW r \in Task, Turns(q, r),
           \/ Heeds(r)
           \/ /\ r.track = proc[q].track /\ r.aid = proc[q].aid
              /\ r.was = proc[q].was /\ r.op = proc[q].op
              /\ \/ r.pc \in Searching /\ proc[q].pc \in Searching
                 \/ r.pc \in Replacing /\ proc[q].pc \in Replacing,
           Lists(r) \/ Lessens(q, r)
    PROVE  Mindful
<1>1. Gentle /\ Spared
  BY UnmovedRows
<1>2. Live' = Live /\ Clear' = Clear
  BY DEF Live, Clear
<1>3. Heeds(r) => Heeds(r)'
  BY <1>2 DEF Heeds, Finds, Watches, Knows, Asks, Lowest
<1>4. Heeds(r)'
  BY <1>1, <1>3, HeedsStay
<1>5. Lists(r) => Lists(r)'
  BY <1>2 DEF Lists, Listed, Held, Secure, Lowest
<1>6. Lists(r)'
  BY <1>1, <1>5, ListsOn
<1> QED
  BY <1>1, <1>4, <1>6, MindedTurn DEF Mindful

-----------------------------------------------------------------------------
(* Its steps: the list, the searches, the commits *)

\* A task that ends, or goes on to the next of its list.
LEMMA EndsMindful ==
    ASSUME Typed, Typed', Grounded, Chosen, Minded, Careful, SecureStays,
           UNCHANGED <<asset, crossed>>, NEW q \in Procs, NEW r \in Task, Turns(q, r),
           r.pc \in {"idle", "next"}, Lessens(q, r)
    PROVE  Mindful
BY NothingToHeed, UnmovedMindful

\* What a search reads, and what a replacement reads, is the track's first row.
LEMMA AssetIsLowest ==
    ASSUME NEW t, NEW a \in AssetOf(t)
    PROVE  a \in Live /\ asset[a].track = t /\ Lowest(a)
BY DEF AssetOf, RowsOf, Lowest

LEMMA LookMindful ==
    ASSUME Typed, Typed', Grounded, Chosen, Minded, Careful, SecureStays,
           UNCHANGED <<asset, crossed>>, NEW q \in Procs, NEW r \in Task, Looked(q, r),
           Lessens(q, r),
           r.op = "monitor" => \E a \in Live : a \in proc[q].todo /\ asset[a].track = r.track
    PROVE  Mindful
<1>1. /\ Turns(q, r) /\ r.pc = "open"
      /\ r.aid = None \/ (r.aid \in AssetOf(r.track) /\ r.was = asset[r.aid])
  BY DEF Looked
<1>2. Finds(r)
  BY <1>1, AssetIsLowest DEF Finds
<1>3. Knows(r) /\ Asks(r)
  BY <1>1 DEF Knows, Asks, Replacing
<1>4. ASSUME r.op = "monitor", r.track \in Clear
      PROVE  r.was.file # None /\ (r.was.manual => r.was.state = "INCOMPLETE")
  <2>1. PICK a \in Live : a \in proc[q].todo /\ asset[a].track = r.track
    BY <1>4
  <2>2. Listed(a)
    BY <1>4, <2>1 DEF Minded, Lists, Lessens
  <2>3. asset[a].file # None /\ Lowest(a) /\ (asset[a].manual => asset[a].state = "INCOMPLETE")
    BY <1>4, <2>1, <2>2 DEF Listed, Live
  <2>4. r.aid \in AssetOf(r.track) /\ r.was = asset[r.aid]
    BY <2>1 DEF Looked, RowsOf
  <2>5. r.aid \in Live /\ asset[r.aid].track = r.track /\ Lowest(r.aid)
    BY <2>4, AssetIsLowest
  <2>6. a = r.aid
    <3>1. a \in Nat /\ r.aid \in Nat
      BY <2>1, <2>5, Constants DEF Live
    <3>2. a <= r.aid /\ r.aid <= a
      BY <2>1, <2>3, <2>5 DEF Lowest
    <3> QED
      BY <3>1, <3>2
  <2> QED
    BY <2>3, <2>4, <2>6
<1>5. Watches(r)
  BY <1>4 DEF Watches
<1> QED
  BY <1>1, <1>2, <1>3, <1>5, UnmovedMindful DEF Heeds

\* The tick's list.
LEMMA TickLists ==
    ASSUME Typed, Grounded, Chosen, Minded, NEW a \in Monitored
    PROVE  Held(a) /\ Listed(a)
<1>0. /\ a \in Live /\ asset[a].track # None
      /\ asset[a].state = "INCOMPLETE" \/ (asset[a].state = "AVAILABLE" /\ ~asset[a].manual)
  BY DEF Monitored
<1>a. asset[a] \in Row /\ a \in Assets
  BY <1>0 DEF Live, Typed, TypeOK
<1>b. asset[a].manual => asset[a].state = "INCOMPLETE"
  BY <1>0, <1>a DEF Row
<1>c. asset[a].state \in Served
  BY <1>0 DEF Served
<1>d. a \in Nat
  BY <1>a, Constants
<1>1. asset[a].track \in Tracks /\ asset[a].state \in Served /\ a \in Nat /\ a \in Live
  BY <1>0, <1>a, <1>c, <1>d DEF Row
<1>2. asset[a].file # None
  BY <1>1 DEF Typed, ServedHasFile
<1>3. Listed(a)
  BY <1>1, <1>2, <1>b DEF Listed, Minded, Seconds
<1>4. CASE asset[a].pending
  BY <1>0, <1>3, <1>4 DEF Minded, Doubts, Doubtful, Live
<1>5. CASE ~asset[a].pending
  <2>1. Secure(asset[a].track, a)
    BY <1>1, <1>2, <1>5 DEF Secure
  <2> QED
    BY <1>1, <1>3, <2>1 DEF Held
<1> QED
  BY <1>3, <1>4, <1>5

LEMMA AskedMindful ==
    ASSUME Typed, Typed', Grounded, Chosen, Minded, Careful, SecureStays,
           NEW q \in Procs, Asked(q)
    PROVE  Mindful
<1>0. UNCHANGED <<asset, crossed>>
  BY DEF Asked, Begin, BulkList, MonitorTick, SelectBegin, ReplaceBegin, db, history
<1>1. CASE \E t \in Tracks, op \in {"run", "again"} : Begin(q, t, op)
  <2>1. PICK r \in Task : Looked(q, r) /\ r.op # "monitor"
    BY <1>1, BeginTask
  <2> QED
    BY <1>0, <2>1, LookMindful DEF Lessens
<1>2. CASE BulkList(q) \/ \E c \in Candidates : SelectBegin(q, c)
  <2>1. PICK r \in Task : Turns(q, r) /\ r.pc \in {"next", "select"} /\ r.op # "monitor"
    BY <1>2, BulkListTask, SelectBeginTask
  <2> QED
    BY <1>0, <2>1, NothingToHeed, UnmovedMindful DEF Lessens
<1>3. CASE MonitorTick(q)
  <2>1. PICK r \in Task : Turns(q, r) /\ r.pc = "next" /\ r.todo = Monitored
    BY <1>3, MonitorTickTask
  <2>2. Lists(r)
    BY <2>1, TickLists DEF Lists
  <2> QED
    BY <1>0, <2>1, <2>2, NothingToHeed, UnmovedMindful
<1>4. CASE \E c \in Candidates : ReplaceBegin(q, c)
  <2>1. PICK r \in Task : Turns(q, r) /\ r.pc = "create" /\ r.op = "replace"
    BY <1>4, ReplaceBeginTask
  <2>2. Heeds(r)
    BY <2>1 DEF Heeds, Finds, Watches, Knows, Asks, Searching, Opened
  <2> QED
    BY <1>0, <2>1, <2>2, UnmovedMindful DEF Lessens
<1> QED
  BY <1>1, <1>2, <1>3, <1>4 DEF Asked

\* The steps of a search that write nothing.
LEMMA QuietMindful ==
    ASSUME Typed, Typed', Grounded, Chosen, Minded, Careful, SecureStays, NEW q \in Procs,
           \/ OpenRefused(q) \/ Open(q) \/ Wipe(q) \/ SelectRefused(q) \/ Create(q) \/ Breaks(q)
           \/ Discover(q) /\ ~ApiKey
           \/ End(q) /\ UNCHANGED <<asset, crossed>>
    PROVE  Mindful
<1>1. CASE End(q) /\ UNCHANGED <<asset, crossed>>
  <2>1. PICK r \in Task : Turns(q, r) /\ r.pc \in {"idle", "next"} /\ Lessens(q, r)
    BY <1>1, EndTask DEF Turns
  <2> QED
    BY <1>1, <2>1, EndsMindful
<1>2. CASE OpenRefused(q) \/ SelectRefused(q)
  BY <1>1, <1>2 DEF OpenRefused, SelectRefused, db, history
<1>3. CASE Breaks(q)
  <2>1. PICK r \in Task : Turns(q, r) /\ r.pc \in {"idle", "next"} /\ Lessens(q, r)
    BY <1>3, BreaksTask
  <2>2. UNCHANGED <<asset, crossed>>
    BY <1>3 DEF Breaks, db
  <2> QED
    BY <2>1, <2>2, EndsMindful
<1>4. CASE Open(q) \/ Wipe(q) \/ (Discover(q) /\ ~ApiKey)
  <2>1. PICK r \in Task :
           /\ Turns(q, r) /\ r.pc \in Searching /\ proc[q].pc \in Searching
           /\ r.track = proc[q].track /\ r.aid = proc[q].aid
           /\ r.was = proc[q].was /\ r.op = proc[q].op /\ r.todo = proc[q].todo
    BY <1>4, OpenTask, WipeTask, DiscoverTask DEF Open, Wipe, Discover, At, Searching, Opened
  <2>2. UNCHANGED <<asset, crossed>>
    BY <1>4, DiscoverTask DEF Open, Wipe, db, history
  <2> QED
    BY <2>1, <2>2, UnmovedMindful DEF Lessens
<1>5. CASE Create(q)
  <2>1. PICK r \in Task : Carries(q, r, "fetch")
    BY <1>5, CreateTask
  <2>2. UNCHANGED <<asset, crossed>> /\ proc[q].pc \in Replacing
    BY <1>5 DEF Create, At, db, history, Replacing
  <2>3. r.pc \in Replacing
    BY <2>1 DEF Carries, Replacing
  <2> QED
    BY <2>1, <2>2, <2>3, UnmovedMindful DEF Carries, Lessens
<1> QED
  BY <1>1, <1>2, <1>3, <1>4, <1>5

\* The next of a list, and the monitor's comparison.
LEMMA NextMindful ==
    ASSUME Typed, Typed', Grounded, Chosen, Minded, Careful, SecureStays, NEW q \in Procs,
           BulkNext(q) \/ MonitorNext(q) \/ Compare(q)
    PROVE  Mindful
<1>0. UNCHANGED <<asset, crossed>>
  BY DEF BulkNext, MonitorNext, Compare, db, history
<1>1. CASE BulkNext(q)
  <2>1. PICK r \in Task : Looked(q, r) /\ r.op = "bulk"
    BY <1>1, BulkNextTask
  <2> QED
    BY <1>0, <2>1, LookMindful DEF Lessens
<1>2. ASSUME NEW r \in Task, Turns(q, r), r.pc \in {"idle", "next"}, Lessens(q, r)
      PROVE  Mindful
  BY <1>0, <1>2, EndsMindful
<1>3. ASSUME NEW r \in Task, NEW a \in Live, Looked(q, r), Lessens(q, r),
             a \in proc[q].todo, asset[a].track = r.track
      PROVE  Mindful
  BY <1>0, <1>3, LookMindful
<1>4. CASE MonitorNext(q)
  BY <1>2, <1>3, <1>4, MonitorNextTask
<1>5. CASE Compare(q)
  <2>1. PICK r \in Task :
           /\ Turns(q, r) /\ Lessens(q, r)
           /\ \/ r.pc \in {"idle", "next"}
              \/ /\ r.pc = "create" /\ r.op = "monitor" /\ r.track = proc[q].track
                 /\ r.aid \in AssetOf(r.track) /\ r.was = Seen(q, r.aid)
    BY <1>5, CompareTask
  <2>2. /\ proc[q].pc = "compare" /\ proc[q].op = "monitor" /\ proc[q].now = proc[q].was
        /\ Knows(proc[q])
    BY <1>5 DEF Compare, At, Typed, Shape, Minded, Heeds, Holding, Searching, Opened
  <2>3. CASE r.pc = "create"
    <3>1. r.was = IF r.aid = proc[q].aid THEN proc[q].was ELSE asset[r.aid]
      BY <2>1, <2>2, <2>3 DEF Seen
    <3>2. Knows(r)
      BY <2>2, <2>3, <3>1 DEF Knows
    <3>3. Heeds(r)
      BY <2>1, <2>3, <3>2 DEF Heeds, Finds, Watches, Asks, Searching, Opened
    <3> QED
      BY <1>0, <2>1, <3>3, UnmovedMindful
  <2> QED
    BY <1>2, <2>1, <2>3
<1> QED
  BY <1>1, <1>4, <1>5

\* A session that stores its row.
LEMMA StoreGentle ==
    ASSUME Typed, Grounded, Chosen, Minded, NEW q \in Procs, NEW now \in Row, NEW b \in Assets,
           NEW r \in Task, Stores(q, now, b, r), Wills(proc[q], now)
    PROVE  Gentle /\ Spared
<1> DEFINE p == proc[q]
<1>1. /\ p \in Task /\ Shape(p) /\ Anchors(p) /\ Heeds(p) /\ p.track \in Tracks
      /\ Updated(q, now, b) \/ Inserted(q, now, b)
      /\ Agree(p, now) /\ proc'[q] = r /\ r.pc # p.pc
  <2>1. p.pc \in Searching \cup {"select"} /\ p.pc \in Holding
    BY DEF Stores, Holding, Searching
  <2> QED
    BY <2>1 DEF Typed, TypeOK, Task, Shape, Grounded, Minded, Stores, Searching, Turns
<1>2. crossed \subseteq crossed' /\ Clear' \subseteq Clear
  BY DEF Stores, Note, Clear
<1>3. \A a \in Assets \ {b} : asset'[a] = asset[a]
  BY <1>1 DEF Updated, Inserted
<1>4. b \in Live => /\ p.aid = b /\ asset'[b].live /\ asset'[b].track = asset[b].track
                    /\ asset'[b].pending = asset[b].pending
  BY <1>1 DEF Updated, Inserted, Live
<1>5. ASSUME b \in Live, asset'[b].track \in Clear'
      PROVE  /\ asset[b].track = p.track /\ p.track \in Clear
             /\ \/ asset'[b] = asset[b]
                \/ asset[b] = p.was /\ asset'[b] = now /\ asset[b].state # "DOWNLOADING"
  <2>1. ~Inserted(q, now, b)
    BY <1>5 DEF Inserted
  <2> QED
    BY <1>2, <1>4, <1>5, <2>1, StoredAsRead
<1>6. ASSUME NEW a \in Assets, Arrives(a)
      PROVE  /\ a = b /\ \A u \in Live : u < a
             /\ asset'[a].track \in Clear' => RowsOf(asset'[a].track) = {}
  <2>1. a = b
    BY <1>3, <1>6 DEF Arrives, Live
  <2>2. Inserted(q, now, b) /\ ~Updated(q, now, b)
    BY <1>1, <1>6, <2>1 DEF Updated, Arrives, Live
  <2>3. asset'[b].live /\ asset[b].live # TRUE
    BY <1>6, <2>1 DEF Arrives, Live
  <2>4. ASSUME asset'[b].track \in Clear' PROVE RowsOf(asset'[b].track) = {}
    <3>1. /\ asset'[b].track = p.track
          /\ \/ asset'[b] = asset[b]
             \/ Updated(q, now, b)
             \/ RowsOf(p.track) = {}
      BY <2>3, <2>4, StoredAsRead
    <3> QED
      BY <2>2, <2>3, <3>1
  <2> QED
    BY <2>1, <2>2, <2>4 DEF Inserted
<1>7. ASSUME b \in Live, asset'[b].track \in Clear', asset'[b].manual, ~asset[b].manual
      PROVE  asset[b].file = None /\ ~asset[b].pending
  <2>1. asset[b] = p.was /\ asset'[b] = now /\ asset[b].state # "DOWNLOADING"
        /\ asset[b].track \in Clear
    BY <1>5, <1>7
  <2>2. asset[b].file = None
    BY <1>7, <2>1 DEF Wills
  <2>3. asset[b].state \notin Served
    BY <1>7, <2>2 DEF Typed, ServedHasFile
  <2>4. Fits(b)
    BY <1>7, <2>1 DEF Chosen, RowsProper
  <2> QED
    BY <2>1, <2>2, <2>3, <2>4 DEF Fits, Served
<1>8. ASSUME b \in Live, asset'[b].track \in Clear', asset[b].manual, ~asset'[b].manual
      PROVE  Lowest(b)
  <2>1. asset'[b] = now /\ asset[b].track \in Clear
    BY <1>5, <1>8
  <2>2. p.pc \in Searching
    BY <1>8, <2>1 DEF Wills, Searching
  <2>3. b # None
    BY Constants
  <2> QED
    BY <1>1, <1>4, <1>8, <2>1, <2>2, <2>3 DEF Heeds, Finds, Live
<1>9. ASSUME NEW a \in Assets, Doubtful(a)' PROVE Doubtful(a) \/ Held(a)
  <2>1. CASE a # b
    BY <1>3, <1>9, <2>1 DEF Doubtful
  <2>2. CASE a = b
    <3>1. CASE b \in Live
      <4>1. asset[b].live /\ asset[b].pending /\ p.aid = b /\ b # None
        BY <1>4, <1>9, <2>2, <3>1, Constants DEF Doubtful, Live
      <4>2. Secure(p.track, b)
        BY <1>1, <4>1 DEF Anchors
      <4> QED
        BY <1>1, <2>2, <4>2 DEF Held
    <3>2. CASE b \notin Live
      <4>1. asset'[b].live /\ asset'[b].pending
        BY <1>9, <2>2 DEF Doubtful
      <4>2. Inserted(q, now, b)
        BY <1>1, <3>2, <4>1 DEF Updated, Live
      <4>3. now.pending = p.was.pending /\ p.was = NoRow
        <5>1. p.pc \in Holding
          BY DEF Stores, Holding, Searching
        <5> QED
          BY <1>1, <4>2, <5>1 DEF Inserted, Agree, Shape
      <4>4. ~NoRow.pending
        BY DEF NoRow
      <4> QED
        BY <4>1, <4>2, <4>3, <4>4 DEF Inserted
    <3> QED
      BY <3>1, <3>2
  <2> QED
    BY <2>1, <2>2
<1>10. Gentle
  <2>1. ASSUME NEW a \in Live, asset'[a].live, asset'[a].track \in Clear'
        PROVE  /\ asset'[a].track = asset[a].track
               /\ asset'[a].manual => asset[a].manual \/ (asset[a].file = None /\ ~asset[a].pending)
               /\ asset[a].pending /\ ~asset'[a].pending => asset[a].file # None
               /\ asset[a].manual /\ ~asset'[a].manual => Lowest(a)
    BY <1>3, <1>4, <1>7, <1>8, <2>1 DEF Live
  <2> QED
    BY <1>2, <1>6, <1>9, <2>1 DEF Gentle
<1>11. Spared
  <2> SUFFICES ASSUME NEW a \in Live, Preferred(a), asset[a].track \in Tracks \ crossed', Undone(a)
               PROVE  /\ p.aid = a /\ proc'[q] # p
                      /\ p.op \in {"select", "again", "replace"} \/ MayMonitor(q, a)
    BY DEF Spared
  <2>1. asset'[a] # asset[a] /\ asset[a].manual /\ asset[a].live
    BY DEF Preferred, Undone
  <2>2. a = b
    BY <1>3, <2>1 DEF Live
  <2>3. asset'[b].track \in Clear' /\ p.aid = a
    BY <1>4, <2>2 DEF Clear
  <2>4. p.was = asset[a] /\ p.track \in Clear
    BY <1>5, <2>1, <2>2, <2>3
  <2>5. proc'[q] # p
    BY <1>1
  <2>6. CASE p.pc = "select"
    BY <1>1, <2>3, <2>5, <2>6 DEF Shape
  <2>7. CASE p.pc \in Opened
    <3>1. p.op \in {"again", "monitor"}
      BY <1>1, <2>1, <2>4, <2>7 DEF Shape, OpenedAs
    <3>2. p.op = "monitor" => asset[a].state = "INCOMPLETE"
      BY <1>1, <2>1, <2>4, <2>7 DEF Heeds, Watches, Searching
    <3> QED
      BY <2>3, <2>5, <3>1, <3>2 DEF MayMonitor
  <2> QED
    BY <2>6, <2>7 DEF Wills
<1> QED
  BY <1>10, <1>11

\* The task goes on with the row it has stored.
LEMMA StoreHeeds ==
    ASSUME Typed, Grounded, Chosen, Minded, Gentle, NEW q \in Procs, NEW now \in Row,
           NEW b \in Assets, NEW r \in Task, Stores(q, now, b, r), Wills(proc[q], now),
           r.pc \in {"wipe", "compare"}, proc[q].pc \in Opened,
           r.op = proc[q].op, r.track = proc[q].track, r.aid = b, r.was = now
    PROVE  Heeds(r)'
<1> DEFINE p == proc[q]
<1>1. /\ p \in Task /\ Shape(p) /\ Heeds(p)
      /\ Updated(q, now, b) \/ Inserted(q, now, b)
      /\ Agree(p, now) /\ p.pc \in Searching /\ b # None
  BY Constants DEF Typed, TypeOK, Minded, Stores, Searching
<1>2. ~now.manual
  BY DEF Wills, Opened
<1>3. Clear' \subseteq Clear
  BY DEF Gentle, Clear
<1>4. ASSUME asset'[b].live, asset'[b].track \in Clear'
      PROVE  Lowest(b)' /\ (r.op = "monitor" => ~asset'[b].manual)
  <2>0. /\ asset'[b].track = p.track
        /\ \/ ~Changed(p, now) /\ asset'[b] = asset[b]
           \/ b \in Live /\ asset'[b] = now
           \/ Inserted(q, now, b) /\ asset'[b] = now /\ RowsOf(p.track) = {}
    BY <1>4, StoredAsRead
  <2>1. CASE b \in Live
    <3>1. p.aid = b /\ asset[b].track = asset'[b].track /\ asset[b].live /\ asset[b].track \in Clear
      BY <1>1, <1>3, <1>4, <2>1 DEF Updated, Inserted, Live
    <3>2. Lowest(b)
      BY <1>1, <3>1 DEF Heeds, Finds
    <3>3. Lowest(b)'
      BY <1>4, <2>1, <3>2, LowestStays
    <3>4. ASSUME r.op = "monitor", ~Changed(p, now), asset'[b] = asset[b], asset[b].manual
          PROVE  FALSE
      <4>1. ~p.was.manual
        BY <1>2, <3>4 DEF Changed
      <4> QED
        BY <1>1, <3>1, <3>4, <4>1 DEF Heeds, Knows
    <3> QED
      BY <1>2, <2>0, <3>3, <3>4, <2>1
  <2>2. CASE b \notin Live
    <3>1. Inserted(q, now, b) /\ asset'[b] = now /\ RowsOf(p.track) = {}
      BY <1>4, <2>0, <2>2 DEF Live
    <3>2. \A c \in Assets : asset'[c].live /\ asset'[c].track = p.track => c = b
      BY <3>1 DEF Inserted, RowsOf, Live
    <3>3. Lowest(b)'
      BY <2>0, <3>2, Constants DEF Lowest, Live
    <3> QED
      BY <1>2, <3>1, <3>3
  <2> QED
    BY <2>1, <2>2
<1>5. Finds(r)' /\ Knows(r)'
  BY <1>4 DEF Finds, Knows
<1>6. Watches(r)'
  <2>1. p.op = "monitor" /\ p.track \in Clear => p.was.file # None
    BY <1>1 DEF Heeds, Watches
  <2> QED
    BY <1>1, <1>2, <1>3, <2>1 DEF Watches, Agree
<1>7. Asks(r)'
  BY DEF Asks, Replacing
<1> QED
  BY <1>5, <1>6, <1>7 DEF Heeds

LEMMA StoreMindful ==
    ASSUME Typed, Typed', Grounded, Chosen, Minded, Careful, SecureStays, NEW q \in Procs,
           NEW now \in Row, NEW b \in Assets, NEW r \in Task, Stores(q, now, b, r),
           GoesOn(q, now, b, r), Wills(proc[q], now)
    PROVE  Mindful
<1>1. Gentle /\ Spared
  BY StoreGentle
<1>2. Lists(r)'
  BY <1>1, ListsOn DEF GoesOn
<1>3. Heeds(r)'
  <2>1. CASE r.pc \in {"idle", "next"}
    BY <2>1, NothingToHeed
  <2>2. CASE r.pc \notin {"idle", "next"}
    BY <1>1, <2>2, StoreHeeds DEF GoesOn
  <2> QED
    BY <2>1, <2>2
<1>4. Minded'
  BY <1>1, <1>2, <1>3, MindedTurn DEF Stores
<1> QED
  BY <1>1, <1>4 DEF Mindful

\* The steps that commit a search or a selection.
LEMMA CommitMindful ==
    ASSUME Typed, Typed', Grounded, Chosen, Minded, Careful, SecureStays, NEW q \in Procs,
           \/ Discover(q) \/ DiscoverFails(q) \/ NothingFound(q) \/ Found(q) \/ SelectCommit(q)
    PROVE  Mindful
<1>1. ASSUME \E now \in Row, b \in Assets, r \in Task :
                Stores(q, now, b, r) /\ GoesOn(q, now, b, r) /\ Wills(proc[q], now)
      PROVE  Mindful
  BY <1>1, StoreMindful
<1>2. CASE Discover(q) /\ ~ApiKey
  BY <1>2, QuietMindful
<1>3. CASE (Discover(q) /\ ApiKey) \/ DiscoverFails(q)
  BY <1>1, <1>3, DiscoverStores
<1>4. CASE NothingFound(q) \/ Found(q)
  <2>1. CASE End(q) /\ UNCHANGED <<db, worker, history>>
    BY <2>1, QuietMindful DEF db, history
  <2> QED
    BY <1>1, <1>4, <2>1, VerdictStores
<1>5. CASE SelectCommit(q)
  BY <1>1, <1>5, SelectStores
<1> QED
  BY <1>2, <1>3, <1>4, <1>5

-----------------------------------------------------------------------------
(* Its steps: replacements, the download queue, a stop of the process *)

\* Rows that stay, leave their track or go.
LEMMA KeepsGentle ==
    ASSUME Typed, crossed \subseteq crossed',
           \A a \in Assets : asset'[a].live =>
              /\ a \in Live /\ asset'[a].manual = asset[a].manual
              /\ asset'[a].track \in {asset[a].track, None}
              /\ asset[a].pending /\ ~asset'[a].pending => asset[a].file # None,
           \A a \in Assets : Doubtful(a)' => Doubtful(a) \/ Held(a)
    PROVE  Gentle
<1>1. None \notin Clear'
  BY Constants DEF Clear
<1>2. \A a \in Assets : ~Arrives(a)
  BY DEF Arrives
<1>3. ASSUME NEW a \in Live, asset'[a].live, asset'[a].track \in Clear'
      PROVE  /\ asset'[a].track = asset[a].track
             /\ asset'[a].manual => asset[a].manual \/ (asset[a].file = None /\ ~asset[a].pending)
             /\ asset[a].pending /\ ~asset'[a].pending => asset[a].file # None
             /\ asset[a].manual /\ ~asset'[a].manual => Lowest(a)
  BY <1>1, <1>3 DEF Live
<1> QED
  BY <1>2, <1>3 DEF Gentle

\* Choices that stay as they are.
LEMMA KeepsSpared ==
    ASSUME \A a \in Live : Preferred(a) /\ asset[a].track \in Tracks \ crossed' =>
              /\ asset'[a].live /\ asset'[a].manual = asset[a].manual
              /\ asset'[a].track = asset[a].track /\ asset'[a].source = asset[a].source
    PROVE  Spared
BY DEF Spared, Undone, Preferred

\* A replacement that goes on.
LEMMA CarriesMindful ==
    ASSUME Typed, Typed', Grounded, Chosen, Minded, Careful, SecureStays, Gentle, Spared,
           NEW q \in Procs, NEW r \in Task, NEW pc \in Replacing, Carries(q, r, pc),
           proc[q].pc \in Replacing
    PROVE  Mindful
<1>1. /\ Turns(q, r) /\ r.op = proc[q].op /\ r.track = proc[q].track /\ r.aid = proc[q].aid
      /\ r.was = proc[q].was /\ r.pc \in Replacing /\ Lessens(q, r)
  BY DEF Carries, Lessens
<1>2. Heeds(r)'
  BY <1>1, HeedsStay
<1>3. Lists(r)'
  BY <1>1, ListsOn
<1> QED
  BY <1>1, <1>2, <1>3, MindedTurn DEF Mindful

LEMMA FetchedMindful ==
    ASSUME Typed, Typed', Grounded, Chosen, Minded, Careful, SecureStays,
           NEW q \in Procs, Fetched(q)
    PROVE  Mindful
<1>1. PICK r \in Task, n \in Assets : FetchedRow(q, r, n)
  BY FetchedTask
<1>2. /\ Carries(q, r, "import") /\ n \notin Live /\ \A u \in Live : u < n
      /\ asset'[n] = Replacement(q) /\ \A a \in Assets \ {n} : asset'[a] = asset[a]
  BY <1>1 DEF FetchedRow, Typed, TypeOK
<1>3. proc[q].pc \in Replacing /\ "import" \in Replacing /\ crossed' = crossed
  BY DEF Fetched, At, Replacing, history
<1>4. /\ asset'[n].manual /\ asset'[n].state = "DOWNLOADING"
  BY <1>2, <1>3, ReplacementRow
<1>5. \A a \in Assets : Arrives(a) => a = n
  BY <1>2 DEF Arrives, Live
<1>6. ASSUME NEW a \in Assets, Doubtful(a)' PROVE Doubtful(a)
  <2>1. a # n
    BY <1>4, <1>6 DEF Doubtful
  <2> QED
    BY <1>2, <1>6, <2>1 DEF Doubtful
<1>7. \A a \in Live : asset'[a] = asset[a]
  BY <1>2 DEF Live
<1>8. Gentle
  BY <1>2, <1>3, <1>4, <1>5, <1>6, <1>7 DEF Gentle
<1>9. Spared
  BY <1>7, KeepsSpared DEF Live
<1> QED
  BY <1>2, <1>3, <1>8, <1>9, CarriesMindful

LEMMA ImportMindful ==
    ASSUME Typed, Typed', Grounded, Chosen, Minded, Careful, SecureStays,
           NEW q \in Procs, ImportNew(q)
    PROVE  Mindful
<1> DEFINE n == proc[q].new
<1>1. PICK r \in Task : Carries(q, r, "swap")
  BY ImportNewTask
<1>2. /\ n \in Assets /\ asset[n] \in Row
      /\ asset' = [asset EXCEPT ![n] = [asset[n] EXCEPT !.state = "AVAILABLE",
                                                        !.file = proc[q].video]]
  BY ImportNewTask DEF Typed, TypeOK
<1>3. /\ asset'[n].live = asset[n].live /\ asset'[n].manual = asset[n].manual
      /\ asset'[n].track = asset[n].track /\ asset'[n].source = asset[n].source
      /\ asset'[n].pending = asset[n].pending /\ asset'[n].state = "AVAILABLE"
      /\ \A a \in Assets \ {n} : asset'[a] = asset[a]
  BY <1>2 DEF Typed, TypeOK, Row
<1>4. proc[q].pc \in Replacing /\ "swap" \in Replacing /\ crossed' = crossed
  BY DEF ImportNew, At, Replacing, history
<1>5. \A a \in Assets : /\ asset'[a].live = asset[a].live /\ asset'[a].manual = asset[a].manual
                        /\ asset'[a].track = asset[a].track /\ asset'[a].source = asset[a].source
                        /\ asset'[a].pending = asset[a].pending
                        /\ asset'[a].state = "INCOMPLETE" => asset[a].state = "INCOMPLETE"
  BY <1>3
<1>6. Gentle
  BY <1>4, <1>5, KeepsGentle DEF Doubtful, Live
<1>7. Spared
  BY <1>5, KeepsSpared DEF Live
<1> QED
  BY <1>1, <1>4, <1>6, <1>7, CarriesMindful

\* A row that is dropped is a replacement's that has not been finished, or one that
\* has left its track.
LEMMA DropMindful ==
    ASSUME Typed, Typed', Grounded, Chosen, Minded, Careful, SecureStays,
           NEW q \in Procs, Turns(q, Ended(q)), crossed' = crossed,
           NEW n \in Assets, asset' = [asset EXCEPT ![n] = NoRow],
           asset[n].live => asset[n].pending \/ asset[n].track = None
    PROVE  Mindful
<1>1. asset'[n] = NoRow /\ \A a \in Assets \ {n} : asset'[a] = asset[a]
  BY DEF Typed, TypeOK
<1>2. ~NoRow.live
  BY DEF NoRow
<1>3. \A a \in Assets : asset'[a].live => asset'[a] = asset[a]
  BY <1>1, <1>2
<1>4. Gentle
  BY <1>3, KeepsGentle DEF Doubtful, Live
<1>5. \A a \in Live : a # n \/ ~Preferred(a) \/ asset[a].track \notin Tracks
  BY Constants DEF Preferred, Live
<1>6. Spared
  BY <1>1, <1>5, KeepsSpared DEF Live
<1>7. Ended(q) \in Task /\ Ended(q).pc \in {"idle", "next"} /\ Lessens(q, Ended(q))
  BY EndedTask
<1>8. PICK r \in Task : r = Ended(q)
  BY <1>7
<1>9. Turns(q, r) /\ r.pc \in {"idle", "next"} /\ Lessens(q, r)
  BY <1>7, <1>8
<1>10. Heeds(r)' /\ Lists(r)'
  BY <1>4, <1>9, NothingToHeed, ListsOn
<1> QED
  BY <1>4, <1>6, <1>9, <1>10, MindedTurn DEF Mindful

LEMMA DroppedMindful ==
    ASSUME Typed, Typed', Grounded, Chosen, Minded, Careful, SecureStays,
           NEW q \in Procs, ReplaceFails(q) \/ Cleanup(q)
    PROVE  Mindful
<1>1. Anchors(proc[q]) /\ crossed' = crossed
  BY DEF Grounded, ReplaceFails, Cleanup, history
<1>2. CASE ReplaceFails(q)
  <2>1. /\ Turns(q, Ended(q))
        /\ \/ asset' = asset
           \/ /\ proc[q].pc = "import" /\ proc[q].new \in Assets
              /\ asset' = [asset EXCEPT ![proc[q].new] = NoRow]
    BY <1>2, ReplaceFailsTask
  <2>2. CASE asset' = asset
    <3>1. Ended(q) \in Task /\ Ended(q).pc \in {"idle", "next"} /\ Lessens(q, Ended(q))
      BY EndedTask
    <3>2. PICK r \in Task : r = Ended(q)
      BY <3>1
    <3>3. Turns(q, r) /\ r.pc \in {"idle", "next"} /\ Lessens(q, r)
      BY <2>1, <3>1, <3>2
    <3> QED
      BY <1>1, <2>2, <3>3, EndsMindful
  <2>3. CASE /\ proc[q].pc = "import" /\ proc[q].new \in Assets
             /\ asset' = [asset EXCEPT ![proc[q].new] = NoRow]
    <3>1. asset[proc[q].new].live => asset[proc[q].new].pending
      BY <1>1, <2>3 DEF Anchors
    <3> QED
      BY <1>1, <2>1, <2>3, <3>1, DropMindful
  <2> QED
    BY <2>1, <2>2, <2>3
<1>3. CASE Cleanup(q)
  <2>1. /\ Turns(q, Ended(q)) /\ proc[q].aid \in Assets
        /\ asset' = [asset EXCEPT ![proc[q].aid] = NoRow]
    BY <1>3, CleanupTask
  <2>2. asset[proc[q].aid].live => asset[proc[q].aid].track = None
    BY <1>1, <1>3 DEF Anchors, Cleanup, At
  <2> QED
    BY <1>1, <2>1, <2>2, DropMindful
<1> QED
  BY <1>2, <1>3

\* The row that is retired is a human's choice only if a human has asked for the
\* replacement, or the monitor has read it as one.
LEMMA SwapMindful ==
    ASSUME Typed, Typed', Grounded, Chosen, Minded, Careful, SecureStays,
           NEW q \in Procs, Swap(q)
    PROVE  Mindful
<1> DEFINE p == proc[q]
           n == p.new
           a == p.aid
<1>1. /\ p \in Task /\ Anchors(p) /\ Heeds(p) /\ p.pc = "swap" /\ p.pc \in Replacing
      /\ "cleanup" \in Replacing /\ crossed' = crossed
  BY DEF Typed, TypeOK, Grounded, Minded, Swap, At, Replacing, history
<1>2. PICK r \in Task : Carries(q, r, "cleanup")
  BY SwapTask
<1>3. a \in Live /\ a \in Assets /\ n \in Assets /\ a # n /\ a # None
  <2>1. a \in Assets /\ n \in Assets /\ a < n
    BY <1>1, HandleFacts DEF Anchors
  <2>2. a \in Nat /\ n \in Nat /\ a # None
    BY <2>1, Constants
  <2>3. a \in Live
    BY SwapTask
  <2> QED
    BY <2>1, <2>2, <2>3
<1>4. /\ \A b \in Assets \ {a, n} : asset'[b] = asset[b]
      /\ asset'[a] = [asset[a] EXCEPT !.track = None]
      /\ asset'[n] = [asset[n] EXCEPT !.pending = FALSE]
      /\ asset[a] \in Row /\ asset[n] \in Row
  BY <1>3, SwapTask DEF Typed, TypeOK
<1>5. /\ asset'[a].live = asset[a].live /\ asset'[a].manual = asset[a].manual
      /\ asset'[a].track = None /\ asset'[a].state = asset[a].state
      /\ asset'[a].pending = asset[a].pending
  BY <1>4 DEF Row
<1>6. /\ asset'[n].live = asset[n].live /\ asset'[n].manual = asset[n].manual
      /\ asset'[n].track = asset[n].track /\ asset'[n].source = asset[n].source
      /\ asset'[n].pending = FALSE
      /\ asset[n].live => asset[n].file # None
  <2>1. asset[n].live => asset[n].file # None
    BY <1>1 DEF Anchors
  <2> QED
    BY <1>4, <2>1 DEF Row
<1>7. Gentle
  <2>1. ASSUME NEW b \in Assets, asset'[b].live
        PROVE  /\ b \in Live /\ asset'[b].manual = asset[b].manual
               /\ asset'[b].track \in {asset[b].track, None}
               /\ asset[b].pending /\ ~asset'[b].pending => asset[b].file # None
    BY <1>4, <1>5, <1>6, <2>1 DEF Live
  <2>2. ASSUME NEW b \in Assets, Doubtful(b)' PROVE Doubtful(b)
    BY <1>4, <1>5, <1>6, <2>2 DEF Doubtful
  <2> QED
    BY <1>1, <2>1, <2>2, KeepsGentle
<1>8. Spared
  <2> SUFFICES ASSUME NEW b \in Live, Preferred(b), asset[b].track \in Tracks \ crossed', Undone(b)
               PROVE  /\ p.aid = b /\ proc'[q] # p
                      /\ p.op \in {"select", "again", "replace"} \/ MayMonitor(q, b)
    BY DEF Spared
  <2>1. b = a
    BY <1>4, <1>6 DEF Undone, Preferred, Live
  <2>2. proc'[q] # p
    BY <1>1, <1>2 DEF Carries, Turns, Typed, TypeOK
  <2>3. p.op = "monitor" => p.was.manual
    BY <1>1, <1>3, <2>1 DEF Heeds, Knows, Preferred, Clear
  <2>4. p.op \in {"replace", "monitor"}
    BY <1>1 DEF Heeds, Asks
  <2> QED
    BY <1>1, <2>1, <2>2, <2>3, <2>4 DEF MayMonitor, At
<1> QED
  BY <1>1, <1>2, <1>7, <1>8, CarriesMindful

\* Steps of the queue move no task.
LEMMA TasksStay ==
    ASSUME Typed, Typed', Grounded, Chosen, Minded, Careful, SecureStays, Gentle, Spared,
           proc' = proc
    PROVE  Mindful
BY MindedStep DEF Typed, TypeOK, Mindful

LEMMA WorkerMindful ==
    ASSUME Typed, Typed', WorkersHold, Grounded, Chosen, Minded, Careful, SecureStays,
           NEW w \in Workers, Works(w) \/ \E a \in Assets : Claim(w, a)
    PROVE  Mindful
<1>1. ASSUME \A a \in Assets : /\ asset'[a].live => asset[a].live
                               /\ asset'[a].manual = asset[a].manual
                               /\ asset'[a].track = asset[a].track
                               /\ asset'[a].source = asset[a].source
                               /\ asset'[a].pending = asset[a].pending,
             \A a \in Live : asset'[a].live,
             \A a \in Assets : Doubtful(a)' => Doubtful(a) \/ Held(a),
             crossed \subseteq crossed', proc' = proc
      PROVE  Mindful
  <2>1. Gentle
    BY <1>1, KeepsGentle DEF Live
  <2>2. Spared
    BY <1>1, KeepsSpared DEF Live
  <2> QED
    BY <1>1, <2>1, <2>2, TasksStay
<1>2. ASSUME NEW a \in Assets, Claim(w, a) PROVE Mindful
  <2>1. /\ asset' = [asset EXCEPT ![a] = [asset[a] EXCEPT !.state = "DOWNLOADING"]]
        /\ asset[a] \in Row /\ proc' = proc /\ crossed' = crossed
    BY <1>2, ClaimRow DEF Typed, TypeOK, Claim, history
  <2>2. /\ \A b \in Assets \ {a} : asset'[b] = asset[b]
        /\ asset'[a].live = asset[a].live /\ asset'[a].manual = asset[a].manual
        /\ asset'[a].track = asset[a].track /\ asset'[a].source = asset[a].source
        /\ asset'[a].pending = asset[a].pending /\ asset'[a].state = "DOWNLOADING"
    BY <2>1 DEF Typed, TypeOK, Row
  <2>3. \A b \in Assets : Doubtful(b)' => Doubtful(b)
    BY <2>2 DEF Doubtful
  <2> QED
    BY <1>1, <2>1, <2>2, <2>3 DEF Live
<1>3. CASE Load(w)
  <2>1. UNCHANGED <<asset, crossed, proc>>
    BY <1>3 DEF Load, db, history
  <2> QED
    BY <2>1, UnmovedRows, TasksStay
<1>4. ASSUME NEW state, NEW video, Concluded(w, state, video) PROVE Mindful
  <2> DEFINE a == worker[w].aid
  <2>1. /\ a \in Assets /\ worker[w].pc = "fetch" /\ proc' = proc /\ crossed \subseteq crossed'
        /\ \A b \in Assets \ {a} : asset'[b] = asset[b]
        /\ ~asset[a].live => asset'[a] = asset[a]
        /\ asset[a] \in Row
    BY <1>4 DEF Concluded, Typed, TypeOK
  <2>2. asset[a].live =>
           /\ asset'[a].live /\ asset'[a].manual = asset[a].manual
           /\ asset'[a].track = asset[a].track /\ asset'[a].source = asset[a].source
           /\ asset'[a].pending = asset[a].pending
    BY <1>4, <2>1 DEF Concluded, Row
  <2>3. ASSUME NEW b \in Assets, Doubtful(b)' PROVE Doubtful(b) \/ Held(b)
    <3>1. CASE b = a /\ asset[a].live
      <4>1. (asset[a].live /\ ~asset[a].pending) \/ Held(a)
        BY <2>1 DEF Chosen, Attempts, Working
      <4> QED
        BY <2>2, <2>3, <3>1, <4>1 DEF Doubtful
    <3>2. CASE b # a \/ ~asset[a].live
      BY <2>1, <2>3, <3>2 DEF Doubtful
    <3> QED
      BY <3>1, <3>2
  <2> QED
    BY <1>1, <2>1, <2>2, <2>3 DEF Live
<1>5. CASE Import(w) \/ Fail(w)
  <2>1. \E state, video : Concluded(w, state, video)
    BY <1>5, AttemptEnds
  <2> QED
    BY <1>4, <2>1
<1> QED
  BY <1>2, <1>3, <1>5 DEF Works

LEMMA RestartMindful ==
    ASSUME Typed, Typed', WorkersHold, Grounded, Chosen, Minded, Careful, SecureStays, Restart
    PROVE  Mindful
<1>1. proc' = [q \in Procs |-> IdleTask] /\ crossed' = crossed
  BY RestartRows
<1>2. ASSUME NEW a \in Assets
      PROVE  /\ asset[a].pending => ~asset'[a].live
             /\ ~asset[a].pending =>
                   /\ asset'[a].live = asset[a].live /\ asset'[a].manual = asset[a].manual
                   /\ asset'[a].track = asset[a].track /\ asset'[a].source = asset[a].source
                   /\ ~asset'[a].pending
  <2>1. asset[a] \in Row /\ ~NoRow.live
    BY DEF Typed, TypeOK, NoRow
  <2>2. CASE asset[a].pending
    BY <2>1, <2>2, RestartRows
  <2>3. CASE ~asset[a].pending
    <3>1. /\ asset'[a] = IF asset[a].state = "DOWNLOADING"
                         THEN [asset[a] EXCEPT !.state = "QUEUED"] ELSE asset[a]
          /\ asset'[a].live = asset[a].live /\ asset'[a].track = asset[a].track
          /\ asset'[a].source = asset[a].source /\ asset'[a].pending = FALSE
      BY <2>3, RestartRows
    <3>2. asset'[a].manual = asset[a].manual
      BY <2>1, <3>1 DEF Row
    <3> QED
      BY <2>3, <3>1, <3>2
  <2> QED
    BY <2>2, <2>3
<1>3. Gentle
  <2>1. \A a \in Assets : ~Doubtful(a)'
    BY <1>2 DEF Doubtful
  <2>2. \A a \in Assets : asset'[a].live => ~asset[a].pending
    BY <1>2
  <2> QED
    BY <1>1, <1>2, <2>1, <2>2, KeepsGentle DEF Live
<1>4. Spared
  BY <1>2, KeepsSpared DEF Preferred, Live
<1>5. ASSUME NEW q \in Procs PROVE Lists(proc[q])' /\ Heeds(proc[q])'
  <2>1. proc'[q].pc = "idle" /\ proc'[q].op = "none"
    BY <1>1 DEF IdleTask
  <2> QED
    BY <2>1 DEF Lists, Heeds, Finds, Watches, Knows, Asks, Searching, Opened, Replacing
<1>6. Minded'
  BY <1>3, <1>5, MindedStep DEF Typed, TypeOK
<1> QED
  BY <1>4, <1>6 DEF Mindful

LEMMA NextMinded ==
    ASSUME Base, Grounded, Chosen, Minded, [Next]_vars
    PROVE  Minded' /\ (Mindful \/ UNCHANGED vars)
<1>1. /\ Typed /\ WorkersHold /\ Typed' /\ SecureStays /\ Careful
  BY NextBase, NextGrounded, NextCareful DEF Base, StaysGrounded
<1>2. ASSUME NEW q \in Procs, Asked(q) PROVE Mindful
  BY <1>1, <1>2, AskedMindful
<1>3. ASSUME NEW q \in Procs, SearchStep(q) PROVE Mindful
  BY <1>1, <1>3, QuietMindful, CommitMindful, NextMindful DEF SearchStep
<1>4. ASSUME NEW q \in Procs, ChoiceStep(q) PROVE Mindful
  BY <1>1, <1>4, QuietMindful, CommitMindful, FetchedMindful, ImportMindful, DroppedMindful,
     SwapMindful DEF ChoiceStep
<1>5. ASSUME NEW q \in Procs, Breaks(q) PROVE Mindful
  BY <1>1, <1>5, QuietMindful
<1>6. ASSUME NEW w \in Workers, Works(w) \/ \E a \in Assets : Claim(w, a) PROVE Mindful
  BY <1>1, <1>6, WorkerMindful
<1>7. ASSUME Restart PROVE Mindful
  BY <1>1, <1>7, RestartMindful
<1>8. CASE UNCHANGED vars
  <2>1. UNCHANGED <<asset, proc, crossed>>
    BY <1>8 DEF vars, db, history
  <2>2. Minded'
    BY <2>1 DEF Minded, Seconds, Doubts, Doubtful, Lists, Listed, Held, Secure, Heeds, Finds,
                Watches, Knows, Asks, Lowest, Live, Clear
  <2> QED
    BY <1>8, <2>2
<1> QED
  BY <1>2, <1>3, <1>4, <1>5, <1>6, <1>7, <1>8 DEF Next, Mindful

LEMMA InitMinded == Init => Minded
<1> SUFFICES ASSUME Init PROVE Minded
  OBVIOUS
<1>1. \A a \in Assets : ~asset[a].live
  BY DEF Init, NoRow
<1>2. Seconds /\ Doubts
  BY <1>1 DEF Seconds, Doubts, Doubtful, Live
<1>3. \A q \in Procs : proc[q].pc = "idle" /\ proc[q].op = "none"
  BY DEF Init, IdleTask
<1>4. \A q \in Procs : Lists(proc[q]) /\ Heeds(proc[q])
  BY <1>3, NothingToHeed DEF Lists
<1> QED
  BY <1>2, <1>4 DEF Minded

LEMMA MindedHolds == Spec => [](Base /\ Grounded /\ Chosen /\ Minded)
<1>1. Init => Base /\ Grounded /\ Chosen /\ Minded
  BY InitBase, InitGrounded, InitChosen, InitMinded
<1>2. Base /\ Grounded /\ Chosen /\ Minded /\ [Next]_vars
         => (Base /\ Grounded /\ Chosen /\ Minded)'
  BY NextBase, NextGrounded, NextCareful, NextMinded DEF StaysGrounded, Careful
<1> QED
  BY <1>1, <1>2, PTL DEF Spec

\* A row that a selection or a finished replacement has left as a human's choice
\* stays its track's, of its video and a human's choice: only a human's selection,
\* replacement or search-again exchanges it, or the monitor's search where it is
\* only a visualizer, or the monitor's replacement where that had read it as a
\* human's choice already.  A replacement a human finishes while the monitor's
\* search for the track is under way is none of these.
THEOREM ChoicesAreKept == Spec => ChoiceIsKept
<1>1. ASSUME Base, Grounded, Chosen, Minded, [Next]_vars
      PROVE  [\A a \in Live : Preferred(a) /\ asset[a].track \in Tracks \ crossed' /\ Undone(a)
                 => \E q \in Procs : /\ proc[q].aid = a /\ proc'[q] # proc[q]
                                      /\ \/ proc[q].op \in {"select", "again", "replace"}
                                         \/ MayMonitor(q, a)]_vars
  BY <1>1, NextMinded DEF Mindful, Spared
<1> QED
  BY <1>1, MindedHolds, PTL DEF Spec, ChoiceIsKept
=============================================================================
