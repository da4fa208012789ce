----------------------- MODULE SpotifyConnectionProofs -----------------------
(***************************************************************************)
(* Theorems of SpotifyConnection, for any playlists, requests, callbacks,  *)
(* tokens and bounds.  The inductive invariant adds to the properties what *)
(* they rest on: a session's record by the point it waits at (Shape), the  *)
(* absence of a row whose insertion is not committed (NewIsAbsent), how    *)
(* authorization states are used up (Flows) and how refresh tokens are     *)
(* (Tokens).                                                               *)
(***************************************************************************)
EXTENDS SpotifyConnection, TLAPS

\* Idle sessions have forgotten everything; the others know their playlist.
Shape ==
    \A t \in Tasks :
        /\ task[t].pc = "idle" => task[t] = Idle
        /\ task[t].pc # "idle" => task[t].p \in Playlists
        /\ task[t].pc = "insert" => ~task[t].new
        /\ task[t].pc = "refresh" => /\ task[t].then \in {"meta", "tracks"}
                                     /\ task[t].grant \in Grants

\* A row that is inserted and not committed cannot be seen.
NewIsAbsent == \A t \in Tasks : task[t].new => rows[task[t].p] = "absent"

\* A pending state was issued, and neither it nor an unissued one exchanged.
Flows ==
    /\ pending \subseteq issued
    /\ \A s \in States : s \notin issued \/ s \in pending => exchanges[s] = 0
    /\ StateIsUsedOnce

\* Tokens come from Spotify once and are never honoured again once refused; a
\* request that knows the flag as set leaves it set while its token is stored.
Tokens ==
    /\ valid \subseteq granted /\ refused \subseteq granted
    /\ valid \cap refused = {}
    /\ settings.token # None => settings.token \in granted
    /\ \A t \in Tasks : task[t].pc = "refresh" =>
          /\ task[t].grant \in granted
          /\ task[t].seen /\ task[t].grant = settings.token => settings.reauth
    /\ ReauthNamesTheToken

Inv == TypeOK /\ Shape /\ NewIsAbsent /\ Flows /\ Tokens

-----------------------------------------------------------------------------

\* AskUser: the session waits for the refresh, with the token and the flag of
\* the row as it is, or has ended.
LEMMA AskUserRecord ==
    ASSUME TypeOK, NEW r \in TaskRecords, NEW next \in {"meta", "tracks"}
    PROVE  LET a == AskUser(r, next) IN
           /\ a \in TaskRecords
           /\ \/ a = Idle
              \/ /\ a.pc = "refresh" /\ a.then = next
                 /\ a.p = r.p /\ a.new = r.new
                 /\ a.grant = settings.token /\ a.grant \in Grants
                 /\ a.seen = settings.reauth
  BY ZenonT(60), ConnectionAssumption DEF AskUser, TypeOK, TaskRecords, Waiting, Idle, HasAccount

\* Start: the session waits for the refresh, or for the playlist's metadata.
LEMMA StartRecord ==
    ASSUME TypeOK, NEW p \in Playlists, NEW force \in BOOLEAN, NEW new \in BOOLEAN
    PROVE  LET a == Start(p, force, new) IN
           /\ a \in TaskRecords
           /\ \/ a = Idle
              \/ /\ a.pc \in {"meta", "refresh"} /\ a.p = p /\ a.new = new
                 /\ a.pc = "refresh" => /\ a.then = "tracks"
                                        /\ a.grant = settings.token /\ a.grant \in Grants
                                        /\ a.seen = settings.reauth
<1> DEFINE r == [Idle EXCEPT !.p = p, !.force = force, !.new = new]
<1>1. r \in TaskRecords /\ r.p = p /\ r.new = new
  BY DEF TaskRecords, Idle
<1>3. CASE p = Liked
  <2>1. Start(p, force, new) = AskUser(r, "tracks")
    BY <1>3 DEF Start
  <2>2. "tracks" \in {"meta", "tracks"}
    OBVIOUS
  <2> HIDE DEF r
  <2> QED BY <2>1, <2>2, <1>1, AskUserRecord
<1>4. CASE p # Liked
  <2>1. Start(p, force, new) = [r EXCEPT !.pc = "meta"]
    BY <1>4 DEF Start
  <2>2. \A q \in TaskRecords : LET a == [q EXCEPT !.pc = "meta"] IN
            a \in TaskRecords /\ a.pc = "meta" /\ a.p = q.p /\ a.new = q.new
    BY DEF TaskRecords, Waiting
  <2> QED BY <2>1, <2>2, <1>1
<1> QED BY <1>3, <1>4

\* Proceed: a session that goes on without inserting a row or reaching its
\* first flush, or that ends, leaves the lock with the session that has flushed.
LEMMA ProceedKeeps ==
    ASSUME TypeOK, Shape, NewIsAbsent, NEW t \in Tasks, NEW r \in TaskRecords,
           \/ r = Idle
           \/ /\ r.pc \notin {"idle", "insert", "write"} /\ r.p \in Playlists
              /\ r.new = task[t].new,
           r.pc = "refresh" => r.then \in {"meta", "tracks"} /\ r.grant \in Grants,
           r # Idle => task[t].pc # "write",
           Proceed(t, r)
    PROVE  /\ task' \in [Tasks -> TaskRecords]
           /\ lock' \in Tasks \cup {None}
           /\ \A u \in Tasks : lock' = u <=> task'[u].new \/ task'[u].pc = "write"
           /\ Shape'
           /\ task'[t] = r /\ \A u \in Tasks : u # t => task'[u] = task[u]
<1>1. /\ task' \in [Tasks -> TaskRecords]
      /\ task'[t] = r /\ \A u \in Tasks : u # t => task'[u] = task[u]
  BY DEF Proceed, TypeOK
<1>2. None \notin Tasks
  BY ConnectionAssumption
<1>3. Idle.pc = "idle" /\ Idle.new = FALSE
  BY DEF Idle
<1>4. lock' = IF r = Idle /\ lock = t THEN None ELSE lock
  BY DEF Proceed
<1>5. \A u \in Tasks : lock = u <=> task[u].new \/ task[u].pc = "write"
  BY DEF TypeOK
<1>6. \A u \in Tasks : lock' = u <=> task'[u].new \/ task'[u].pc = "write"
  BY <1>1, <1>2, <1>3, <1>4, <1>5
<1>7. lock' \in Tasks \cup {None}
  BY <1>4 DEF TypeOK
<1>8. Shape'
  BY <1>1, <1>3 DEF Shape
<1> QED BY <1>1, <1>6, <1>7, <1>8

\* A step that does no more than let a session go on, with the flag and the
\* token of the settings row as they are, keeps the invariant.
LEMMA ProceedInv ==
    ASSUME Inv, NEW t \in Tasks, NEW r \in TaskRecords,
           \/ r = Idle
           \/ /\ r.pc \notin {"idle", "insert", "write"} /\ r.p \in Playlists
              /\ r.new = task[t].new /\ (r.new => r.p = task[t].p)
              /\ task[t].pc # "write",
           r.pc = "refresh" => /\ r.then \in {"meta", "tracks"}
                               /\ r.grant = settings.token /\ r.grant \in Grants
                               /\ r.seen = settings.reauth,
           Proceed(t, r),
           UNCHANGED <<account, rows, synced, ledger>>,
           due' \subseteq Playlists, tick' \subseteq Playlists,
           asked' \in 0 .. MaxAsked, faults' \in 0 .. MaxFaults
    PROVE  Inv'
<1> USE DEF account, ledger
<1>0. None \notin Grants /\ Idle.pc = "idle" /\ Idle.new = FALSE
  BY ConnectionAssumption DEF Idle
<1>1. /\ task' \in [Tasks -> TaskRecords]
      /\ lock' \in Tasks \cup {None}
      /\ \A u \in Tasks : lock' = u <=> task'[u].new \/ task'[u].pc = "write"
      /\ Shape'
      /\ task'[t] = r /\ \A u \in Tasks : u # t => task'[u] = task[u]
  <2>1. /\ TypeOK /\ Shape /\ NewIsAbsent
        /\ \/ r = Idle
           \/ /\ r.pc \notin {"idle", "insert", "write"} /\ r.p \in Playlists
              /\ r.new = task[t].new
        /\ r.pc = "refresh" => r.then \in {"meta", "tracks"} /\ r.grant \in Grants
        /\ r # Idle => task[t].pc # "write"
    BY DEF Inv
  <2> QED BY <2>1, ProceedKeeps
<1>2. TypeOK'
  BY <1>1 DEF Inv, TypeOK
<1>3. NewIsAbsent'
  BY <1>0, <1>1 DEF Inv, NewIsAbsent
<1>4. Flows'
  BY DEF Inv, Flows, StateIsUsedOnce
<1>5. Tokens'
  <2>1. ReauthNamesTheToken'
    BY DEF Inv, Tokens, ReauthNamesTheToken
  <2>2. \A u \in Tasks : task'[u].pc = "refresh" =>
           /\ task'[u].grant \in granted
           /\ task'[u].seen /\ task'[u].grant = settings.token => settings.reauth
    BY <1>0, <1>1 DEF Inv, Tokens
  <2> QED BY <2>1, <2>2 DEF Inv, Tokens
<1> QED BY <1>1, <1>2, <1>3, <1>4, <1>5 DEF Inv

\* An ending session does no more than that.
LEMMA EndInv ==
    ASSUME Inv, NEW t \in Tasks, End(t),
           UNCHANGED <<account, rows, synced, ledger>>,
           due' \subseteq Playlists, tick' \subseteq Playlists,
           asked' \in 0 .. MaxAsked, faults' \in 0 .. MaxFaults
    PROVE  Inv'
<1>1. Idle \in TaskRecords /\ Idle.pc # "refresh"
  BY DEF Idle, TaskRecords
<1>2. Proceed(t, Idle)
  BY DEF End
<1> QED BY <1>1, <1>2, ProceedInv

\* A session that begins a sync does no more than that.
LEMMA StartInv ==
    ASSUME Inv, NEW t \in Tasks, NEW p \in Playlists, NEW force \in BOOLEAN,
           task[t] = Idle, Proceed(t, Start(p, force, FALSE)),
           UNCHANGED <<account, lists, ledger, faults>>,
           tick' \subseteq Playlists, asked' \in 0 .. MaxAsked
    PROVE  Inv'
<1> DEFINE r == Start(p, force, FALSE)
<1>1. TypeOK
  BY DEF Inv
<1>2. /\ r \in TaskRecords
      /\ \/ r = Idle
         \/ /\ r.pc \in {"meta", "refresh"} /\ r.p = p /\ r.new = FALSE
            /\ r.pc = "refresh" => /\ r.then = "tracks"
                                   /\ r.grant = settings.token /\ r.grant \in Grants
                                   /\ r.seen = settings.reauth
  <2>1. \A new \in BOOLEAN :
          LET a == Start(p, force, new) IN
           /\ a \in TaskRecords
           /\ \/ a = Idle
              \/ /\ a.pc \in {"meta", "refresh"} /\ a.p = p /\ a.new = new
                 /\ a.pc = "refresh" => /\ a.then = "tracks"
                                        /\ a.grant = settings.token /\ a.grant \in Grants
                                        /\ a.seen = settings.reauth
    BY <1>1, StartRecord
  <2> QED BY <2>1, FALSE \in BOOLEAN
<1>3. task[t].pc = "idle" /\ task[t].new = FALSE
  BY DEF Idle
<1>4. Idle.pc = "idle"
  BY DEF Idle
<1>5. due' \subseteq Playlists /\ faults' \in 0 .. MaxFaults
  BY <1>1 DEF TypeOK, lists
<1>6. UNCHANGED <<account, rows, synced, ledger>>
  BY DEF lists
<1>7. Proceed(t, r)
  OBVIOUS
<1> HIDE DEF r
<1> QED BY <1>2, <1>3, <1>4, <1>5, <1>6, <1>7, ProceedInv

\* A session that turns to the user's token does no more than that.
LEMMA AskUserInv ==
    ASSUME Inv, NEW t \in Tasks, task[t].pc \in {"meta", "tracks"},
           Proceed(t, AskUser(task[t], task[t].pc)),
           UNCHANGED <<account, lists, tick, ledger, asked, faults>>
    PROVE  Inv'
<1> DEFINE r == AskUser(task[t], task[t].pc)
<1>1. TypeOK /\ task[t] \in TaskRecords /\ task[t].p \in Playlists
  BY DEF Inv, TypeOK, Shape
<1>2. /\ r \in TaskRecords
      /\ \/ r = Idle
         \/ /\ r.pc = "refresh" /\ r.then = task[t].pc
            /\ r.p = task[t].p /\ r.new = task[t].new
            /\ r.grant = settings.token /\ r.grant \in Grants
            /\ r.seen = settings.reauth
  BY <1>1, AskUserRecord
<1>3. Idle.pc = "idle"
  BY DEF Idle
<1>4. /\ due' \subseteq Playlists /\ faults' \in 0 .. MaxFaults
      /\ tick' \subseteq Playlists /\ asked' \in 0 .. MaxAsked
  BY <1>1 DEF TypeOK, lists
<1>5. UNCHANGED <<account, rows, synced, ledger>>
  BY DEF lists
<1>6. Proceed(t, r)
  OBVIOUS
<1> HIDE DEF r
<1> QED BY <1>1, <1>2, <1>3, <1>4, <1>5, <1>6, ProceedInv

-----------------------------------------------------------------------------

\* Nobody else has inserted a row while a session may write.
LEMMA WriterIsAlone ==
    ASSUME Inv, NEW t \in Tasks, CanWrite(t), NEW u \in Tasks, u # t
    PROVE  ~task[u].new /\ task[u].pc # "write"
  BY ConnectionAssumption DEF Inv, TypeOK, CanWrite

LEMMA ConnectInv ==
    ASSUME Inv, NEW t \in Requests, NEW p \in Playlists, Connect(t, p)
    PROVE  Inv'
<1> USE DEF account, lists, ledger
<1> DEFINE r == [Idle EXCEPT !.pc = "insert", !.p = p]
<1>0. t \in Tasks
  BY DEF Tasks
<1>1. /\ r \in TaskRecords
      /\ r.pc = "insert" /\ r.p = p /\ ~r.new
      /\ Idle.pc = "idle" /\ ~Idle.new
  BY DEF Idle, TaskRecords, Waiting
<1>2. task[t] = Idle /\ task' = [task EXCEPT ![t] = r] /\ lock' = lock
  BY DEF Connect
<1> HIDE DEF r
<1>3. /\ task' \in [Tasks -> TaskRecords] /\ task'[t] = r
      /\ \A u \in Tasks : u # t => task'[u] = task[u]
  BY <1>0, <1>1, <1>2 DEF Inv, TypeOK
<1>4. \A u \in Tasks : lock' = u <=> task'[u].new \/ task'[u].pc = "write"
  BY <1>1, <1>2, <1>3 DEF Inv, TypeOK
<1>5. asked' \in 0 .. MaxAsked
  BY ConnectionAssumption DEF Connect, Budget, Inv, TypeOK
<1>6. TypeOK'
  BY <1>2, <1>3, <1>4, <1>5 DEF Connect, Inv, TypeOK
<1>7. Shape' /\ NewIsAbsent'
  BY <1>1, <1>3 DEF Connect, Inv, Shape, NewIsAbsent
<1>8. Flows'
  BY DEF Connect, Inv, Flows, StateIsUsedOnce
<1>9. Tokens'
  BY <1>1, <1>3 DEF Connect, Inv, Tokens, ReauthNamesTheToken
<1> QED BY <1>6, <1>7, <1>8, <1>9 DEF Inv

LEMMA InsertInv ==
    ASSUME Inv, NEW t \in Tasks, Insert(t)
    PROVE  Inv'
<1> USE DEF account, lists, ledger
<1> DEFINE p == task[t].p
           r == IF rows[p] = "absent" THEN Start(p, TRUE, TRUE) ELSE Idle
<1>1. TypeOK /\ p \in Playlists /\ ~task[t].new /\ CanWrite(t)
  BY DEF Insert, Inv, Shape
<1>2. Idle.pc = "idle" /\ Idle.new = FALSE /\ Idle \in TaskRecords
  BY DEF Idle, TaskRecords
<1>3. \A force, new \in BOOLEAN : 
        LET a == Start(p, force, new) IN
           /\ a \in TaskRecords
           /\ \/ a = Idle
              \/ /\ a.pc \in {"meta", "refresh"} /\ a.p = p /\ a.new = new
                 /\ a.pc = "refresh" => /\ a.then = "tracks"
                                        /\ a.grant = settings.token /\ a.grant \in Grants
                                        /\ a.seen = settings.reauth
  BY <1>1, StartRecord
<1>4. /\ r \in TaskRecords
      /\ \/ r = Idle
         \/ /\ rows[p] = "absent"
            /\ r.pc \in {"meta", "refresh"} /\ r.p = p /\ r.new = TRUE
            /\ r.pc = "refresh" => /\ r.then = "tracks"
                                   /\ r.grant = settings.token /\ r.grant \in Grants
                                   /\ r.seen = settings.reauth
  BY <1>2, <1>3, TRUE \in BOOLEAN
<1>5. /\ task' = [task EXCEPT ![t] = r]
      /\ lock' = IF r = Idle THEN None ELSE t
      /\ UNCHANGED <<account, lists, tick, ledger, asked, faults>>
  BY DEF Insert
<1> HIDE DEF r
<1>6. /\ task' \in [Tasks -> TaskRecords] /\ task'[t] = r
      /\ \A u \in Tasks : u # t => /\ task'[u] = task[u]
                                   /\ ~task[u].new /\ task[u].pc # "write"
  BY <1>1, <1>4, <1>5, WriterIsAlone DEF TypeOK
<1>7. None \notin Tasks
  BY ConnectionAssumption
<1>8. \A u \in Tasks : lock' = u <=> task'[u].new \/ task'[u].pc = "write"
  BY <1>2, <1>4, <1>5, <1>6, <1>7
<1>9. TypeOK'
  BY <1>1, <1>5, <1>6, <1>8 DEF TypeOK
<1>10. Shape'
  BY <1>1, <1>2, <1>4, <1>6 DEF Inv, Shape
<1>11. NewIsAbsent'
  BY <1>2, <1>4, <1>5, <1>6 DEF NewIsAbsent
<1>12. Flows'
  BY <1>5 DEF Inv, Flows, StateIsUsedOnce
<1>13. Tokens'
  <2>1. None \notin Grants
    BY ConnectionAssumption
  <2> QED BY <1>2, <1>4, <1>5, <1>6, <2>1 DEF Inv, Tokens, ReauthNamesTheToken
<1> QED BY <1>9, <1>10, <1>11, <1>12, <1>13 DEF Inv

LEMMA TickNextInv ==
    ASSUME Inv, TickNext
    PROVE  Inv'
<1>1. PICK p \in tick :
         /\ tick' = tick \ {p}
         /\ IF rows[p] = "connected"
            THEN Proceed(Scheduler, Start(p, FALSE, FALSE))
            ELSE UNCHANGED <<task, lock>>
  BY DEF TickNext
<1>2. /\ task[Scheduler] = Idle
      /\ UNCHANGED <<account, lists, ledger, asked, faults>>
  BY DEF TickNext
<1>3. TypeOK /\ p \in Playlists /\ tick' \subseteq Playlists /\ Scheduler \in Tasks
  BY <1>1 DEF Inv, TypeOK, Tasks
<1>4. CASE rows[p] = "connected"
  <2>1. asked' \in 0 .. MaxAsked /\ FALSE \in BOOLEAN
    BY <1>2, <1>3 DEF TypeOK
  <2>2. Proceed(Scheduler, Start(p, FALSE, FALSE))
    BY <1>1, <1>4
  <2> QED BY <1>2, <1>3, <2>1, <2>2, StartInv
<1>5. CASE rows[p] # "connected"
  <2>1. UNCHANGED <<task, lock>>
    BY <1>1, <1>5
  <2>2. TypeOK'
    BY <1>2, <1>3, <2>1 DEF TypeOK, account, lists, ledger
  <2>3. (Shape /\ NewIsAbsent)'
    BY <1>2, <2>1 DEF Inv, Shape, NewIsAbsent, lists
  <2>4. (Flows /\ Tokens)'
    BY <1>2, <2>1 DEF Inv, Flows, StateIsUsedOnce, Tokens, ReauthNamesTheToken,
                      account, ledger
  <2> QED BY <2>2, <2>3, <2>4 DEF Inv
<1> QED BY <1>4, <1>5

\* The refusal: nobody else has a row inserted, and no other request has seen
\* a flag that is set now for the first time.
LEMMA RefusedInv ==
    ASSUME Inv, NEW t \in Tasks, Refused(t)
    PROVE  Inv'
<1> DEFINE g == task[t].grant
<1>1. /\ TypeOK /\ Shape /\ NewIsAbsent /\ Flows /\ Tokens
      /\ task[t].p \in Playlists /\ g \in Grants /\ g \in granted /\ g \notin valid
      /\ CanWrite(t)
  BY DEF Refused, Inv, Shape, Tokens
<1>2. Idle.pc = "idle" /\ Idle.new = FALSE /\ Idle \in TaskRecords /\ None \notin Tasks
  BY ConnectionAssumption DEF Idle, TaskRecords
<1>3. /\ task' = [task EXCEPT ![t] = Idle]
      /\ lock' = IF lock = t THEN None ELSE lock
  BY DEF Refused, End, Proceed
<1>4. /\ task' \in [Tasks -> TaskRecords] /\ task'[t] = Idle
      /\ \A u \in Tasks : u # t => /\ task'[u] = task[u]
                                   /\ ~task[u].new /\ task[u].pc # "write"
  BY <1>1, <1>2, <1>3, WriterIsAlone DEF TypeOK
<1>5. \A u \in Tasks : lock' = u <=> task'[u].new \/ task'[u].pc = "write"
  BY <1>1, <1>2, <1>3, <1>4 DEF TypeOK, CanWrite
<1>6. /\ settings' = [settings EXCEPT !.reauth = settings.reauth \/ ~task[t].seen]
      /\ late' = (late \/ (~task[t].seen /\ settings.token # g))
      /\ refused' = refused \cup {g}
      /\ rows' = IF task[t].new THEN [rows EXCEPT ![task[t].p] = "connected"] ELSE rows
      /\ due' = IF task[t].new THEN due \cup {task[t].p} ELSE due
      /\ UNCHANGED <<synced, pending, flow, valid, issued, granted, exchanges, tick,
                     asked, faults>>
  BY DEF Refused, Committed
<1>7. /\ settings'.token = settings.token
      /\ settings'.reauth = (settings.reauth \/ ~task[t].seen)
      /\ settings' \in [oauth : BOOLEAN, token : Grants \cup {None}, reauth : BOOLEAN]
      /\ task[t].seen \in BOOLEAN
  <2>1. task[t].seen \in BOOLEAN
    BY <1>1 DEF TypeOK, TaskRecords
  <2> QED BY <1>1, <1>6, <2>1 DEF TypeOK
<1>8. TypeOK'
  <2>1. /\ rows' \in [Playlists -> {"absent", "connected", "final"}]
        /\ due' \subseteq Playlists /\ refused' \subseteq Grants
    BY <1>1, <1>6 DEF TypeOK
  <2>2. late' \in BOOLEAN
    BY <1>6
  <2>3. lock' \in Tasks \cup {None}
    BY <1>1, <1>3 DEF TypeOK
  <2> QED BY <1>1, <1>4, <1>5, <1>6, <1>7, <2>1, <2>2, <2>3 DEF TypeOK
<1>9. Shape'
  BY <1>1, <1>2, <1>4 DEF Shape
<1>10. NewIsAbsent'
  BY <1>2, <1>4 DEF NewIsAbsent
<1>11. Flows'
  BY <1>1, <1>6 DEF Flows, StateIsUsedOnce
<1>12. Tokens'
  <2>1. /\ valid' \subseteq granted' /\ refused' \subseteq granted'
        /\ valid' \cap refused' = {}
        /\ settings'.token # None => settings'.token \in granted'
    BY <1>1, <1>6, <1>7 DEF Tokens
  <2>2. \A u \in Tasks : task'[u].pc = "refresh" =>
          /\ task'[u].grant \in granted'
          /\ task'[u].seen /\ task'[u].grant = settings'.token => settings'.reauth
    BY <1>1, <1>2, <1>4, <1>6, <1>7 DEF Tokens
  <2>3. settings'.token \in refused' => settings'.reauth
    <3>1. task[t].pc = "refresh"
      BY DEF Refused
    <3> QED BY <1>1, <1>6, <1>7, <3>1 DEF Tokens, ReauthNamesTheToken
  <2>4. settings'.reauth /\ ~late' => settings'.token # None /\ settings'.token \notin valid'
    <3>1. None \notin Grants
      BY ConnectionAssumption
    <3>2. CASE settings.reauth
      BY <1>1, <1>6, <1>7, <3>2 DEF Tokens, ReauthNamesTheToken
    <3>3. CASE ~settings.reauth
      BY <1>1, <1>6, <1>7, <3>1, <3>3
    <3> QED BY <3>2, <3>3
  <2> QED BY <2>1, <2>2, <2>3, <2>4 DEF Tokens, ReauthNamesTheToken
<1> QED BY <1>8, <1>9, <1>10, <1>11, <1>12 DEF Inv

\* The answers that let a sync go on to its items or end it.
LEMMA AnswersInv ==
    ASSUME Inv, NEW t \in Tasks,
           \/ Unchanged(t) \/ Metadata(t) \/ Denied(t) \/ Refreshed(t)
           \/ Failed(t) \/ LockedOut(t)
    PROVE  Inv'
<1>1. /\ due \subseteq Playlists /\ tick \subseteq Playlists
      /\ asked \in 0 .. MaxAsked /\ faults \in 0 .. MaxFaults
      /\ task[t] \in TaskRecords
  BY DEF Inv, TypeOK
<1>2. CASE Unchanged(t)
  BY <1>1, <1>2, EndInv DEF Unchanged
<1>3. CASE Metadata(t)
  <2> DEFINE r == [task[t] EXCEPT !.pc = "tracks"]
  <2>1. task[t].pc = "meta" /\ task[t].p \in Playlists
    BY <1>3 DEF Metadata, Inv, Shape
  <2>2. /\ r \in TaskRecords /\ r.pc = "tracks"
        /\ r.p = task[t].p /\ r.new = task[t].new
    BY <1>1 DEF TaskRecords, Waiting
  <2>3. Proceed(t, r) /\ UNCHANGED <<account, lists, tick, ledger, asked, faults>>
    BY <1>3 DEF Metadata
  <2>4. /\ due' \subseteq Playlists /\ tick' \subseteq Playlists
        /\ asked' \in 0 .. MaxAsked /\ faults' \in 0 .. MaxFaults
        /\ UNCHANGED <<account, rows, synced, ledger>>
    BY <1>1, <2>3 DEF lists
  <2> HIDE DEF r
  <2> QED BY <2>1, <2>2, <2>3, <2>4, ProceedInv
<1>4. CASE Denied(t)
  BY <1>4, AskUserInv DEF Denied
<1>5. CASE Refreshed(t)
  <2> DEFINE r == [task[t] EXCEPT !.pc = task[t].then, !.user = TRUE,
                                  !.grant = None, !.seen = FALSE, !.then = "idle"]
  <2>1. /\ task[t].pc = "refresh" /\ task[t].p \in Playlists
        /\ task[t].then \in {"meta", "tracks"}
    BY <1>5 DEF Refreshed, Inv, Shape
  <2>2. /\ r \in TaskRecords /\ r.pc = task[t].then
        /\ r.p = task[t].p /\ r.new = task[t].new
    BY <1>1, <2>1 DEF TaskRecords, Waiting
  <2>3. Proceed(t, r) /\ UNCHANGED <<account, lists, tick, ledger, asked, faults>>
    BY <1>5 DEF Refreshed
  <2>4. /\ due' \subseteq Playlists /\ tick' \subseteq Playlists
        /\ asked' \in 0 .. MaxAsked /\ faults' \in 0 .. MaxFaults
        /\ UNCHANGED <<account, rows, synced, ledger>>
    BY <1>1, <2>3 DEF lists
  <2> HIDE DEF r
  <2> QED BY <2>1, <2>2, <2>3, <2>4, ProceedInv
<1>6. CASE Failed(t)
  <2>1. faults' \in 0 .. MaxFaults
    BY <1>1, <1>6, ConnectionAssumption DEF Failed, Fault
  <2> QED BY <1>1, <1>6, <2>1, EndInv DEF Failed, lists
<1>7. CASE LockedOut(t)
  BY <1>1, <1>7, EndInv DEF LockedOut, lists
<1> QED BY <1>2, <1>3, <1>4, <1>5, <1>6, <1>7

\* The first flush of a sync, and its commit.
LEMMA ItemsInv ==
    ASSUME Inv, NEW t \in Tasks, Items(t)
    PROVE  Inv'
<1> USE DEF account, lists, ledger
<1>1. /\ task[t] \in TaskRecords /\ task[t].pc = "tracks" /\ CanWrite(t)
      /\ task[t].p \in Playlists
  BY DEF Items, Inv, TypeOK, Shape
<1>2. [task[t] EXCEPT !.pc = "write"] \in TaskRecords
  BY <1>1 DEF TaskRecords, Waiting
<1>3. /\ task' \in [Tasks -> TaskRecords]
      /\ task'[t].pc = "write" /\ task'[t].p = task[t].p /\ task'[t].new = task[t].new
      /\ \A u \in Tasks : u # t => /\ task'[u] = task[u]
                                   /\ ~task[u].new /\ task[u].pc # "write"
  BY <1>1, <1>2, WriterIsAlone DEF Items, Inv, TypeOK, TaskRecords
<1>4. TypeOK'
  BY <1>3 DEF Items, Inv, TypeOK
<1>5. (Shape /\ NewIsAbsent)'
  BY <1>1, <1>3 DEF Items, Inv, Shape, NewIsAbsent
<1>6. Flows'
  BY DEF Items, Inv, Flows, StateIsUsedOnce
<1>7. Tokens'
  BY <1>1, <1>3 DEF Items, Inv, Tokens, ReauthNamesTheToken
<1> QED BY <1>4, <1>5, <1>6, <1>7 DEF Inv

LEMMA CommitInv ==
    ASSUME Inv, NEW t \in Tasks, Commit(t)
    PROVE  Inv'
<1> USE DEF account, ledger
<1>1. /\ TypeOK /\ task[t].pc = "write" /\ task[t].p \in Playlists /\ CanWrite(t)
  BY DEF Commit, Inv, TypeOK, Shape, CanWrite
<1>2. Idle.pc = "idle" /\ Idle.new = FALSE /\ Idle \in TaskRecords /\ None \notin Tasks
  BY ConnectionAssumption DEF Idle, TaskRecords
<1>3. /\ task' = [task EXCEPT ![t] = Idle]
      /\ lock' = IF lock = t THEN None ELSE lock
  BY DEF Commit, End, Proceed
<1>4. /\ task' \in [Tasks -> TaskRecords] /\ task'[t] = Idle
      /\ \A u \in Tasks : u # t => /\ task'[u] = task[u]
                                   /\ ~task[u].new /\ task[u].pc # "write"
  BY <1>1, <1>2, <1>3, WriterIsAlone DEF TypeOK
<1>5. \A u \in Tasks : lock' = u <=> task'[u].new \/ task'[u].pc = "write"
  BY <1>1, <1>2, <1>3, <1>4 DEF CanWrite
<1>6. /\ rows' \in [Playlists -> {"absent", "connected", "final"}]
      /\ synced' \subseteq Playlists /\ due' \subseteq Playlists
      /\ lock' \in Tasks \cup {None}
  BY <1>1, <1>3 DEF Commit, Committed, TypeOK
<1>7. TypeOK'
  BY <1>1, <1>4, <1>5, <1>6 DEF Commit, TypeOK
<1>8. (Shape /\ NewIsAbsent)'
  BY <1>2, <1>4 DEF Inv, Shape, NewIsAbsent
<1>9. Flows'
  BY DEF Commit, Inv, Flows, StateIsUsedOnce
<1>10. Tokens'
  BY <1>2, <1>4 DEF Commit, Inv, Tokens, ReauthNamesTheToken
<1> QED BY <1>7, <1>8, <1>9, <1>10 DEF Inv

\* What the user and the clock do to the list of playlists.
LEMMA ListsInv ==
    ASSUME Inv, TickStart \/ \E p \in Playlists : Disconnect(p) \/ BecomeDue(p)
    PROVE  Inv'
<1> USE DEF account, lists, ledger
<1>1. CASE TickStart
  <2>1. TypeOK'
    BY <1>1 DEF TickStart, Inv, TypeOK
  <2>2. (Shape /\ NewIsAbsent /\ Flows)'
    BY <1>1 DEF TickStart, Inv, Shape, NewIsAbsent, Flows, StateIsUsedOnce
  <2>3. Tokens'
    BY <1>1 DEF TickStart, Inv, Tokens, ReauthNamesTheToken
  <2> QED BY <2>1, <2>2, <2>3 DEF Inv
<1>2. ASSUME NEW p \in Playlists, Disconnect(p)
      PROVE  Inv'
  <2>1. TypeOK'
    BY <1>2 DEF Disconnect, Inv, TypeOK
  <2>2. NewIsAbsent'
    <3>1. \A u \in Tasks : ~task[u].new
      BY <1>2, ConnectionAssumption DEF Disconnect, Inv, TypeOK
    <3> QED BY <1>2, <3>1 DEF Disconnect, NewIsAbsent
  <2>3. (Shape /\ Flows)'
    BY <1>2 DEF Disconnect, Inv, Shape, Flows, StateIsUsedOnce
  <2>4. Tokens'
    BY <1>2 DEF Disconnect, Inv, Tokens, ReauthNamesTheToken
  <2> QED BY <2>1, <2>2, <2>3, <2>4 DEF Inv
<1>3. ASSUME NEW p \in Playlists, BecomeDue(p)
      PROVE  Inv'
  <2>1. TypeOK'
    BY <1>3 DEF BecomeDue, Inv, TypeOK
  <2>2. (Shape /\ NewIsAbsent /\ Flows)'
    BY <1>3 DEF BecomeDue, Inv, Shape, NewIsAbsent, Flows, StateIsUsedOnce
  <2>3. Tokens'
    BY <1>3 DEF BecomeDue, Inv, Tokens, ReauthNamesTheToken
  <2> QED BY <2>1, <2>2, <2>3 DEF Inv
<1> QED BY <1>1, <1>2, <1>3

\* What the user and Spotify do to the account.
LEMMA AccountInv ==
    ASSUME Inv,
           \/ Enable \/ Disable
           \/ \E s \in States : Authorize(s)
           \/ \E c \in Callbacks : Exchanged(c) \/ NotExchanged(c)
           \/ \E c \in Callbacks, s \in States : Callback(c, s)
           \/ \E g \in Grants : Revoke(g)
    PROVE  Inv'
<1> USE DEF lists
<1>0. None \notin Grants
  BY ConnectionAssumption
<1>1. CASE Enable
  <2>1. /\ settings'.token = settings.token /\ settings'.reauth = settings.reauth
        /\ settings' \in [oauth : BOOLEAN, token : Grants \cup {None}, reauth : BOOLEAN]
    BY <1>1 DEF Enable, Inv, TypeOK
  <2>2. TypeOK'
    BY <1>1, <2>1 DEF Enable, Inv, TypeOK, ledger
  <2>3. (Shape /\ NewIsAbsent /\ Flows)'
    BY <1>1 DEF Enable, Inv, Shape, NewIsAbsent, Flows, StateIsUsedOnce
  <2>4. Tokens'
    BY <1>1, <2>1 DEF Enable, Inv, Tokens, ReauthNamesTheToken, ledger
  <2> QED BY <2>2, <2>3, <2>4 DEF Inv
<1>2. CASE Disable
  <2>1. TypeOK'
    BY <1>2 DEF Disable, Inv, TypeOK
  <2>2. (Shape /\ NewIsAbsent /\ Flows)'
    BY <1>2 DEF Disable, Inv, Shape, NewIsAbsent, Flows, StateIsUsedOnce
  <2>3. Tokens'
    BY <1>0, <1>2 DEF Disable, Inv, Shape, TypeOK, Tokens, ReauthNamesTheToken
  <2> QED BY <2>1, <2>2, <2>3 DEF Inv
<1>3. ASSUME NEW s \in States, Authorize(s)
      PROVE  Inv'
  <2>1. TypeOK'
    BY <1>3 DEF Authorize, Inv, TypeOK, ledger
  <2>2. (Shape /\ NewIsAbsent)'
    BY <1>3 DEF Authorize, Inv, Shape, NewIsAbsent
  <2>3. Flows'
    BY <1>3 DEF Authorize, Inv, Flows, StateIsUsedOnce
  <2>4. Tokens'
    BY <1>3 DEF Authorize, Inv, Tokens, ReauthNamesTheToken, ledger
  <2> QED BY <2>1, <2>2, <2>3, <2>4 DEF Inv
<1>4. ASSUME NEW c \in Callbacks, Exchanged(c)
      PROVE  Inv'
  <2>1. PICK g \in Grants \ granted :
          /\ granted' = granted \cup {g} /\ valid' = valid \cup {g}
          /\ settings' = [settings EXCEPT !.token = g, !.reauth = FALSE]
    BY <1>4 DEF Exchanged
  <2>2. /\ settings'.token = g /\ settings'.reauth = FALSE
        /\ settings' \in [oauth : BOOLEAN, token : Grants \cup {None}, reauth : BOOLEAN]
    BY <2>1 DEF Inv, TypeOK
  <2>3. TypeOK'
    BY ZenonT(60), <1>4, <2>1, <2>2 DEF Exchanged, Inv, TypeOK
  <2>4. (Shape /\ NewIsAbsent /\ Flows)'
    BY <1>4 DEF Exchanged, Inv, Shape, NewIsAbsent, Flows, StateIsUsedOnce
  <2>5. Tokens'
    BY ZenonT(60), <1>4, <2>1, <2>2 DEF Exchanged, Inv, Tokens, ReauthNamesTheToken
  <2> QED BY <2>3, <2>4, <2>5 DEF Inv
<1>5. ASSUME NEW c \in Callbacks, NotExchanged(c)
      PROVE  Inv'
  <2>1. TypeOK'
    BY <1>5 DEF NotExchanged, Inv, TypeOK, ledger
  <2>2. (Shape /\ NewIsAbsent /\ Flows)'
    BY <1>5 DEF NotExchanged, Inv, Shape, NewIsAbsent, Flows, StateIsUsedOnce
  <2>3. Tokens'
    BY <1>5 DEF NotExchanged, Inv, Tokens, ReauthNamesTheToken, ledger
  <2> QED BY <2>1, <2>2, <2>3 DEF Inv
<1>6. ASSUME NEW c \in Callbacks, NEW s \in States, Callback(c, s)
      PROVE  Inv'
  <2>1. /\ exchanges' \in [States -> Nat]
        /\ exchanges[s] = 0 /\ exchanges'[s] = 1
        /\ \A z \in States : z # s => exchanges'[z] = exchanges[z]
    BY <1>6 DEF Callback, Inv, TypeOK, Flows
  <2>2. TypeOK'
    BY <1>6, <2>1 DEF Callback, Inv, TypeOK, ledger
  <2>3. (Shape /\ NewIsAbsent)'
    BY <1>6 DEF Callback, Inv, Shape, NewIsAbsent
  <2>4. Flows'
    BY <1>6, <2>1 DEF Callback, Inv, TypeOK, Flows, StateIsUsedOnce
  <2>5. Tokens'
    BY <1>6 DEF Callback, Inv, Tokens, ReauthNamesTheToken, ledger
  <2> QED BY <2>2, <2>3, <2>4, <2>5 DEF Inv
<1>7. ASSUME NEW g \in Grants, Revoke(g)
      PROVE  Inv'
  <2>1. TypeOK'
    BY <1>7 DEF Revoke, Inv, TypeOK, ledger
  <2>2. (Shape /\ NewIsAbsent /\ Flows)'
    BY <1>7 DEF Revoke, Inv, Shape, NewIsAbsent, Flows, StateIsUsedOnce
  <2>3. Tokens'
    BY <1>7 DEF Revoke, Inv, Tokens, ReauthNamesTheToken, ledger
  <2> QED BY <2>1, <2>2, <2>3 DEF Inv
<1> QED BY <1>1, <1>2, <1>3, <1>4, <1>5, <1>6, <1>7

LEMMA CrashInv ==
    ASSUME Inv, Crash
    PROVE  Inv'
<1> USE DEF lists, ledger
<1>1. Idle.pc = "idle" /\ Idle.new = FALSE /\ Idle \in TaskRecords /\ None \notin Tasks
  BY ConnectionAssumption DEF Idle, TaskRecords
<1>2. \A t \in Tasks : task'[t] = Idle
  BY DEF Crash
<1>3. faults' \in 0 .. MaxFaults
  BY ConnectionAssumption DEF Crash, Fault, Inv, TypeOK
<1>4. /\ task' \in [Tasks -> TaskRecords]
      /\ \A u \in Tasks : lock' = u <=> task'[u].new \/ task'[u].pc = "write"
  BY <1>1, <1>2 DEF Crash
<1>5. TypeOK'
  BY <1>3, <1>4 DEF Crash, Inv, TypeOK
<1>6. (Shape /\ NewIsAbsent)'
  BY <1>1, <1>2 DEF Shape, NewIsAbsent
<1>7. Flows'
  BY DEF Crash, Inv, Flows, StateIsUsedOnce
<1>8. Tokens'
  BY <1>1, <1>2 DEF Crash, Inv, Tokens, ReauthNamesTheToken
<1> QED BY <1>5, <1>6, <1>7, <1>8 DEF Inv

LEMMA InitInv == Init => Inv
<1> SUFFICES ASSUME Init PROVE Inv
  OBVIOUS
<1>1. Idle.pc = "idle" /\ Idle.new = FALSE /\ Idle \in TaskRecords /\ None \notin Tasks
  BY ConnectionAssumption DEF Idle, TaskRecords
<1>2. TypeOK
  <2>1. /\ settings \in [oauth : BOOLEAN, token : Grants \cup {None}, reauth : BOOLEAN]
        /\ late \in BOOLEAN
    BY DEF Init
  <2>2. asked \in 0 .. MaxAsked /\ faults \in 0 .. MaxFaults
    BY ConnectionAssumption DEF Init
  <2>3. /\ task \in [Tasks -> TaskRecords]
        /\ \A t \in Tasks : lock = t <=> task[t].new \/ task[t].pc = "write"
    BY <1>1 DEF Init
  <2> QED BY <2>1, <2>2, <2>3 DEF Init, TypeOK
<1>3. Shape /\ NewIsAbsent
  BY <1>1 DEF Init, Shape, NewIsAbsent
<1>4. Flows
  BY DEF Init, Flows, StateIsUsedOnce
<1>5. Tokens
  BY <1>1 DEF Init, Tokens, ReauthNamesTheToken
<1> QED BY <1>2, <1>3, <1>4, <1>5 DEF Inv

LEMMA StutterInv ==
    ASSUME Inv, UNCHANGED vars
    PROVE  Inv'
<1> USE DEF vars, account, lists, ledger
<1>1. TypeOK'
  BY DEF Inv, TypeOK
<1>2. (Shape /\ NewIsAbsent /\ Flows)'
  BY DEF Inv, Shape, NewIsAbsent, Flows, StateIsUsedOnce
<1>3. Tokens'
  BY DEF Inv, Tokens, ReauthNamesTheToken
<1> QED BY <1>1, <1>2, <1>3 DEF Inv

LEMMA NextInv ==
    ASSUME Inv, [Next]_vars
    PROVE  Inv'
<1>1. ASSUME NEW t \in Requests, NEW p \in Playlists, Connect(t, p)
      PROVE  Inv'
  BY <1>1, ConnectInv
<1>2. ASSUME NEW t \in Requests, NEW p \in Playlists, SyncNow(t, p)
      PROVE  Inv'
  <2>1. /\ t \in Tasks /\ TRUE \in BOOLEAN /\ task[t] = Idle
        /\ Proceed(t, Start(p, TRUE, FALSE))
        /\ UNCHANGED <<account, lists, tick, ledger, faults>>
    BY <1>2 DEF SyncNow, Tasks
  <2>2. asked' \in 0 .. MaxAsked /\ tick' \subseteq Playlists
    BY <1>2, ConnectionAssumption DEF SyncNow, Budget, Inv, TypeOK
  <2> QED BY <2>1, <2>2, StartInv
<1>3. ASSUME NEW t \in Tasks, Answer(t)
      PROVE  Inv'
  BY <1>3, InsertInv, AnswersInv, RefusedInv, ItemsInv, CommitInv DEF Answer
<1>4. ASSUME Tick
      PROVE  Inv'
  BY <1>4, ListsInv, TickNextInv DEF Tick
<1>5. ASSUME NEW p \in Playlists, Disconnect(p) \/ BecomeDue(p)
      PROVE  Inv'
  BY <1>5, ListsInv
<1>6. CASE UNCHANGED vars
  BY <1>6, StutterInv
<1> QED BY <1>1, <1>2, <1>3, <1>4, <1>5, <1>6, AccountInv, CrashInv DEF Next

-----------------------------------------------------------------------------

\* The state is well typed, the write lock belongs to the
\* session that has flushed (db/session.py), the re-authorization flag is about
\* the stored token (settings_service.py), and an authorization state is
\* exchanged at most once (spotify_oauth.py): for any number of playlists,
\* requests, callbacks and tokens.
THEOREM InvariantHolds == Spec => []Inv
<1>1. Inv /\ [Next]_vars => Inv'
  BY NextInv
<1> QED BY InitInv, <1>1, PTL DEF Spec

\* TypeOK, the record of what every variable holds.
THEOREM TypesHold == Spec => []TypeOK
<1>1. Inv => TypeOK
  BY DEF Inv
<1> QED BY InvariantHolds, <1>1, PTL

\* spotify_needs_reauth is about the token that is stored.
THEOREM ReauthFlagHolds == Spec => []ReauthNamesTheToken
<1>1. Inv => ReauthNamesTheToken
  BY DEF Inv, Tokens
<1> QED BY InvariantHolds, <1>1, PTL

\* Each authorization state is exchanged at most once.
THEOREM StateUseHolds == Spec => []StateIsUsedOnce
<1>1. Inv => StateIsUsedOnce
  BY DEF Inv, Flows
<1> QED BY InvariantHolds, <1>1, PTL

-----------------------------------------------------------------------------

\* What one session's step may do to sessions and rows: it begins a sync only
\* of a playlist that is not final, and makes no final playlist anything else.
Begins(p) ==
    \A t \in Tasks :
        task[t].p # p \/ task[t].pc = "insert" =>
            task'[t].p # p \/ task'[t].pc \in {"idle", "insert"}

\* AskUser and Start keep the playlist, or end.
LEMMA RecordsKeepPlaylist ==
    ASSUME Inv
    PROVE  /\ \A r \in TaskRecords, next \in {"meta", "tracks"} :
                 AskUser(r, next) = Idle \/ AskUser(r, next).p = r.p
           /\ \A p \in Playlists, force, new \in BOOLEAN :
                 Start(p, force, new) = Idle \/ Start(p, force, new).p = p
<1>1. TypeOK
  BY DEF Inv
<1>2. \A r \in TaskRecords, next \in {"meta", "tracks"} :
          AskUser(r, next) = Idle \/ AskUser(r, next).p = r.p
  BY <1>1, AskUserRecord
<1>3. \A p \in Playlists, force, new \in BOOLEAN :
          Start(p, force, new) = Idle \/ Start(p, force, new).p = p
  BY <1>1, StartRecord
<1> QED BY <1>2, <1>3

\* A session's step that goes on with its playlist, or ends.
LEMMA OnlyOneMoves ==
    ASSUME Inv, NEW t \in Tasks, NEW r, task' = [task EXCEPT ![t] = r],
           NEW p \in Playlists,
           \/ r = Idle
           \/ r.p # p
           \/ r.pc = "insert"
           \/ r.p = task[t].p /\ task[t].pc # "insert"
    PROVE  Begins(p)
<1>1. /\ task'[t] = r /\ \A u \in Tasks : u # t => task'[u] = task[u]
  BY DEF Inv, TypeOK
<1>2. Idle.pc = "idle"
  BY DEF Idle
<1>3. \A u \in Tasks : task[u].pc = "insert" => task'[u] = task[u] \/ u = t
  BY <1>1
<1> QED BY <1>1, <1>2, <1>3 DEF Begins

LEMMA FinalStep ==
    ASSUME Inv, Next, NEW p \in Playlists, rows[p] = "final"
    PROVE  rows'[p] = "final" /\ Begins(p)
<1> USE DEF lists
<1>0. /\ Idle.pc = "idle"
      /\ \A t \in Tasks : task[t] \in TaskRecords
      /\ rows \in [Playlists -> {"absent", "connected", "final"}]
  BY DEF Inv, TypeOK, Idle
<1>1. UNCHANGED task => Begins(p)
  BY DEF Begins
<1>2. ASSUME NEW t \in Requests, NEW q \in Playlists, Connect(t, q)
      PROVE  rows'[p] = "final" /\ Begins(p)
  <2> DEFINE r == [Idle EXCEPT !.pc = "insert", !.p = q]
  <2>1. t \in Tasks /\ task' = [task EXCEPT ![t] = r] /\ UNCHANGED rows
    BY <1>2 DEF Connect, Tasks
  <2>2. r.pc = "insert"
    BY DEF Idle
  <2> HIDE DEF r
  <2> QED BY <2>1, <2>2, OnlyOneMoves
<1>3. ASSUME NEW t \in Requests, NEW q \in Playlists, SyncNow(t, q)
      PROVE  rows'[p] = "final" /\ Begins(p)
  <2>1. /\ t \in Tasks /\ task' = [task EXCEPT ![t] = Start(q, TRUE, FALSE)]
        /\ UNCHANGED rows /\ q # p
    BY <1>3 DEF SyncNow, Tasks, Proceed
  <2>2. Start(q, TRUE, FALSE) = Idle \/ Start(q, TRUE, FALSE).p = q
    BY RecordsKeepPlaylist, TRUE \in BOOLEAN, FALSE \in BOOLEAN
  <2> QED BY <2>1, <2>2, OnlyOneMoves
<1>4. ASSUME NEW t \in Tasks, Answer(t)
      PROVE  rows'[p] = "final" /\ Begins(p)
  <2>1. CASE Insert(t)
    <3> DEFINE q == task[t].p
               r == IF rows[q] = "absent" THEN Start(q, TRUE, TRUE) ELSE Idle
    <3>1. task' = [task EXCEPT ![t] = r] /\ UNCHANGED rows /\ q \in Playlists
      BY <2>1 DEF Insert, Inv, Shape
    <3>2. Start(q, TRUE, TRUE) = Idle \/ Start(q, TRUE, TRUE).p = q
      BY <3>1, RecordsKeepPlaylist, TRUE \in BOOLEAN
    <3>3. r = Idle \/ r.p # p
      BY <3>2
    <3> HIDE DEF r
    <3> QED BY <3>1, <3>3, OnlyOneMoves
  <2>2. CASE Denied(t)
    <3>1. /\ task' = [task EXCEPT ![t] = AskUser(task[t], task[t].pc)]
          /\ UNCHANGED rows /\ task[t].pc \in {"meta", "tracks"}
      BY <2>2 DEF Denied, Proceed
    <3>2. AskUser(task[t], task[t].pc) = Idle \/ AskUser(task[t], task[t].pc).p = task[t].p
      BY <1>0, <3>1, RecordsKeepPlaylist
    <3> QED BY <3>1, <3>2, OnlyOneMoves
  <2>3. CASE Metadata(t)
    <3> DEFINE r == [task[t] EXCEPT !.pc = "tracks"]
    <3>1. task' = [task EXCEPT ![t] = r] /\ UNCHANGED rows /\ task[t].pc = "meta"
      BY <2>3 DEF Metadata, Proceed
    <3>2. r.p = task[t].p
      BY <1>0 DEF TaskRecords
    <3> HIDE DEF r
    <3> QED BY <3>1, <3>2, OnlyOneMoves
  <2>4. CASE Refreshed(t)
    <3> DEFINE r == [task[t] EXCEPT !.pc = task[t].then, !.user = TRUE,
                                    !.grant = None, !.seen = FALSE, !.then = "idle"]
    <3>1. task' = [task EXCEPT ![t] = r] /\ UNCHANGED rows /\ task[t].pc = "refresh"
      BY <2>4 DEF Refreshed, Proceed
    <3>2. r.p = task[t].p
      BY <1>0 DEF TaskRecords
    <3> HIDE DEF r
    <3> QED BY <3>1, <3>2, OnlyOneMoves
  <2>5. CASE Items(t)
    <3> DEFINE r == [task[t] EXCEPT !.pc = "write"]
    <3>1. task' = [task EXCEPT ![t] = r] /\ UNCHANGED rows /\ task[t].pc = "tracks"
      BY <2>5 DEF Items
    <3>2. r.p = task[t].p
      BY <1>0 DEF TaskRecords
    <3> HIDE DEF r
    <3> QED BY <3>1, <3>2, OnlyOneMoves
  <2>6. CASE Refused(t) \/ Commit(t)
    <3>1. /\ task' = [task EXCEPT ![t] = Idle]
          /\ rows' = IF task[t].new THEN [rows EXCEPT ![task[t].p] = "connected"] ELSE rows
      BY <2>6 DEF Refused, Commit, Committed, End, Proceed
    <3>2. task[t].new => task[t].p # p
      BY DEF Inv, NewIsAbsent
    <3>3. rows'[p] = "final"
      BY <1>0, <3>1, <3>2
    <3> QED BY <3>1, <3>3, OnlyOneMoves
  <2>7. CASE Unchanged(t) \/ Failed(t) \/ LockedOut(t)
    <3>1. task' = [task EXCEPT ![t] = Idle] /\ UNCHANGED rows
      BY <2>7 DEF Unchanged, Failed, LockedOut, End, Proceed
    <3> QED BY <3>1, OnlyOneMoves
  <2> QED BY <1>4, <2>1, <2>2, <2>3, <2>4, <2>5, <2>6, <2>7 DEF Answer
<1>5. CASE TickNext
  <2>1. PICK q \in tick :
          IF rows[q] = "connected"
          THEN Proceed(Scheduler, Start(q, FALSE, FALSE))
          ELSE UNCHANGED <<task, lock>>
    BY <1>5 DEF TickNext
  <2>2. UNCHANGED rows /\ Scheduler \in Tasks /\ q \in Playlists
    BY <1>5 DEF TickNext, Tasks, Inv, TypeOK
  <2>3. CASE rows[q] = "connected"
    <3>1. task' = [task EXCEPT ![Scheduler] = Start(q, FALSE, FALSE)] /\ q # p
      BY <2>1, <2>3 DEF Proceed
    <3>2. Start(q, FALSE, FALSE) = Idle \/ Start(q, FALSE, FALSE).p = q
      BY <2>2, RecordsKeepPlaylist, FALSE \in BOOLEAN
    <3> QED BY <2>2, <3>1, <3>2, OnlyOneMoves
  <2>4. CASE rows[q] # "connected"
    BY <1>1, <2>1, <2>2, <2>4
  <2> QED BY <2>3, <2>4
<1>6. CASE TickStart
  BY <1>1, <1>6 DEF TickStart
<1>7. ASSUME NEW q \in Playlists, Disconnect(q) \/ BecomeDue(q)
      PROVE  rows'[p] = "final" /\ Begins(p)
  BY <1>0, <1>1, <1>7 DEF Disconnect, BecomeDue
<1>8. CASE Enable \/ Disable
  BY <1>1, <1>8 DEF Enable, Disable
<1>9. CASE \/ \E s \in States : Authorize(s)
           \/ \E c \in Callbacks, s \in States : Callback(c, s)
           \/ \E g \in Grants : Revoke(g)
  BY <1>1, <1>9 DEF Authorize, Callback, Revoke
<1>10. CASE \E c \in Callbacks : Exchanged(c) \/ NotExchanged(c)
  BY <1>1, <1>10 DEF Exchanged, NotExchanged
<1>11. CASE Crash
  <2>1. \A t \in Tasks : task'[t].pc = "idle"
    BY <1>0, <1>11 DEF Crash
  <2> QED BY <1>11, <2>1 DEF Crash, Begins
<1> QED BY <1>2, <1>3, <1>4, <1>5, <1>6, <1>7, <1>8, <1>9, <1>10, <1>11 DEF Next, Tick

\* A disconnected playlist stays disconnected and no sync of it starts any
\* more (disconnect_playlist, sync_now, SpotifySyncScheduler._tick), whichever
\* connects and syncs were under way.
THEOREM FinalHolds == Spec => FinalStaysFinal
<1> DEFINE Stays == \A p \in Playlists : rows[p] = "final" =>
                       rows'[p] = "final" /\ Begins(p)
<1>1. Inv /\ [Next]_vars => [Stays]_vars
  BY FinalStep
<1>2. [Stays]_vars => [\A p \in Playlists : rows[p] = "final" =>
          /\ rows'[p] = "final"
          /\ \A t \in Tasks :
                task[t].p # p \/ task[t].pc = "insert" =>
                    task'[t].p # p \/ task'[t].pc \in {"idle", "insert"}]_vars
  BY DEF Begins
<1> HIDE DEF Stays
<1> QED BY InvariantHolds, <1>1, <1>2, PTL DEF Spec, FinalStaysFinal

-----------------------------------------------------------------------------

\* A playlist that Spotify lets the app read never makes a session ask for the
\* user's token, and a row without its first sync is owed it.
Owed ==
    /\ \A t \in Tasks : task[t].pc = "refresh" => task[t].p \notin Open
    /\ FirstSyncIsOwed

\* Only Liked Songs starts with the user's token; AskUser keeps the playlist.
LEMMA OpenStartsWithApp ==
    ASSUME NEW p \in Playlists, NEW force \in BOOLEAN, NEW new \in BOOLEAN,
           Start(p, force, new).pc = "refresh"
    PROVE  Start(p, force, new).p \notin Open
<1> DEFINE r == [Idle EXCEPT !.p = p, !.force = force, !.new = new]
<1>1. Idle.pc # "refresh" /\ r.p = p /\ [r EXCEPT !.pc = "meta"].pc = "meta"
  BY DEF Idle
<1>2. p = Liked
  BY <1>1 DEF Start
<1>3. Start(p, force, new) = AskUser(r, "tracks")
  BY <1>2 DEF Start
<1>4. AskUser(r, "tracks") = Idle \/ AskUser(r, "tracks").p = r.p
  BY DEF AskUser, Idle
<1> HIDE DEF r
<1> QED BY <1>1, <1>2, <1>3, <1>4, ConnectionAssumption

\* A step that changes one session, and nothing of the lists of playlists that
\* matters to a row without its first sync.
LEMMA SessionKeepsOwed ==
    ASSUME Inv, Owed, NEW t \in Tasks, NEW r, task' = [task EXCEPT ![t] = r],
           r.pc = "refresh" => r.p \notin Open,
           UNCHANGED <<rows, synced, refused>>,
           \A p \in Playlists \ synced : p \in due => p \in due'
    PROVE  Owed'
<1>1. \A u \in Tasks : task'[u] = IF u = t THEN r ELSE task[u]
  BY DEF Inv, TypeOK
<1>2. \A u \in Tasks : task'[u].pc = "refresh" => task'[u].p \notin Open
  BY <1>1 DEF Owed
<1>3. FirstSyncIsOwed'
  BY DEF Owed, FirstSyncIsOwed
<1> QED BY <1>2, <1>3 DEF Owed

\* What leaves the sessions alone, and of the lists all but a disconnection and
\* a playlist that becomes due.
LEMMA ListsKeepOwed ==
    ASSUME Inv, Owed, UNCHANGED <<task, synced, refused>>,
           due \subseteq due',
           \A p \in Playlists : \/ rows'[p] = rows[p]
                                \/ rows[p] = "connected" /\ rows'[p] = "final"
    PROVE  Owed'
<1>1. \A u \in Tasks : task'[u].pc = "refresh" => task'[u].p \notin Open
  BY DEF Owed
<1>2. FirstSyncIsOwed'
  BY DEF Owed, FirstSyncIsOwed
<1> QED BY <1>1, <1>2 DEF Owed

LEMMA AnswerKeepsOwed ==
    ASSUME Inv, Owed, NEW t \in Tasks, Answer(t)
    PROVE  Owed'
<1> USE DEF lists, ledger
<1>0. /\ Idle.pc = "idle" /\ Idle.p = None
      /\ task[t] \in TaskRecords
      /\ rows \in [Playlists -> {"absent", "connected", "final"}]
  BY DEF Inv, TypeOK, Idle
<1>1. CASE Insert(t)
  <2> DEFINE q == task[t].p
             r == IF rows[q] = "absent" THEN Start(q, TRUE, TRUE) ELSE Idle
  <2>1. /\ task' = [task EXCEPT ![t] = r] /\ q \in Playlists
        /\ UNCHANGED <<rows, synced, refused, due>>
    BY <1>1 DEF Insert, Inv, Shape
  <2>2. r.pc = "refresh" => r.p \notin Open
    BY <1>0, <2>1, OpenStartsWithApp, TRUE \in BOOLEAN
  <2> HIDE DEF r
  <2> QED BY <2>1, <2>2, SessionKeepsOwed
<1>2. CASE Denied(t)
  <2> DEFINE r == AskUser(task[t], task[t].pc)
  <2>1. /\ task' = [task EXCEPT ![t] = r] /\ task[t].p \notin Open
        /\ UNCHANGED <<rows, synced, refused, due>>
    BY <1>2 DEF Denied, Proceed
  <2>2. TypeOK /\ task[t].pc \in {"meta", "tracks"}
    BY <1>2 DEF Denied, Inv
  <2>3. r = Idle \/ r.p = task[t].p
    BY <1>0, <2>2, AskUserRecord
  <2> HIDE DEF r
  <2> QED BY <1>0, <2>1, <2>3, SessionKeepsOwed
<1>3. CASE Metadata(t) \/ Items(t)
  <2>1. PICK pc \in {"tracks", "write"} : task' = [task EXCEPT ![t].pc = pc]
    BY <1>0, <1>3 DEF Metadata, Items, Proceed
  <2> DEFINE r == [task[t] EXCEPT !.pc = pc]
  <2>2. task' = [task EXCEPT ![t] = r] /\ r.pc # "refresh"
    BY <1>0, <2>1 DEF TaskRecords, Inv, TypeOK
  <2>3. UNCHANGED <<rows, synced, refused, due>>
    BY <1>3 DEF Metadata, Items
  <2> HIDE DEF r
  <2> QED BY <2>2, <2>3, SessionKeepsOwed
<1>4. CASE Refreshed(t)
  <2> DEFINE r == [task[t] EXCEPT !.pc = task[t].then, !.user = TRUE,
                                  !.grant = None, !.seen = FALSE, !.then = "idle"]
  <2>1. /\ task' = [task EXCEPT ![t] = r] /\ task[t].pc = "refresh"
        /\ UNCHANGED <<rows, synced, refused, due>>
    BY <1>4 DEF Refreshed, Proceed
  <2>2. r.pc = task[t].then /\ task[t].then \in {"meta", "tracks"}
    BY <1>0, <2>1 DEF TaskRecords, Inv, Shape
  <2> HIDE DEF r
  <2> QED BY <2>1, <2>2, SessionKeepsOwed
<1>5. CASE Refused(t)
  <2>1. /\ task[t].pc = "refresh" /\ task[t].p \notin Open
        /\ task[t].p \in Playlists
    BY <1>5 DEF Refused, Owed, Inv, Shape
  <2>2. /\ \A u \in Tasks : task'[u] = IF u = t THEN Idle ELSE task[u]
        /\ refused' = refused \cup {task[t].grant} /\ synced' = synced
        /\ rows' = IF task[t].new THEN [rows EXCEPT ![task[t].p] = "connected"] ELSE rows
        /\ due' = IF task[t].new THEN due \cup {task[t].p} ELSE due
    BY <1>5 DEF Refused, Committed, End, Proceed, Inv, TypeOK
  <2>3. \A u \in Tasks : task'[u].pc = "refresh" => task'[u].p \notin Open
    BY <1>0, <2>2 DEF Owed
  <2>4. ASSUME NEW p \in Playlists, rows'[p] # "absent", p \notin synced'
        PROVE  /\ p \notin Open /\ refused' # {}
               /\ rows'[p] = "connected" => p \in due'
    <3>1. refused' # {} /\ due \subseteq due'
      BY <2>2
    <3>2. CASE task[t].new /\ p = task[t].p
      BY <2>1, <2>2, <3>1, <3>2
    <3>3. CASE ~(task[t].new /\ p = task[t].p)
      <4>1. rows'[p] = rows[p]
        BY <1>0, <2>2, <3>3
      <4> QED BY <2>2, <2>4, <3>1, <4>1 DEF Owed, FirstSyncIsOwed
    <3> QED BY <3>2, <3>3
  <2> QED BY <2>3, <2>4 DEF Owed, FirstSyncIsOwed
<1>6. CASE Commit(t)
  <2>1. /\ \A u \in Tasks : task'[u] = IF u = t THEN Idle ELSE task[u]
        /\ refused' = refused /\ synced' = synced \cup {task[t].p}
        /\ rows' = IF task[t].new THEN [rows EXCEPT ![task[t].p] = "connected"] ELSE rows
        /\ due' = due \ {task[t].p}
    BY <1>6 DEF Commit, Committed, End, Proceed, Inv, TypeOK
  <2>2. \A u \in Tasks : task'[u].pc = "refresh" => task'[u].p \notin Open
    BY <1>0, <2>1 DEF Owed
  <2>3. \A p \in Playlists : p \notin synced' =>
           rows'[p] = rows[p] /\ (p \in due => p \in due') /\ p \notin synced
    BY <1>0, <2>1
  <2> QED BY <2>1, <2>2, <2>3 DEF Owed, FirstSyncIsOwed
<1>7. CASE Unchanged(t) \/ Failed(t) \/ LockedOut(t)
  <2>1. task' = [task EXCEPT ![t] = Idle] /\ UNCHANGED <<rows, synced, refused>>
    BY <1>7 DEF Unchanged, Failed, LockedOut, End, Proceed
  <2>2. \A p \in Playlists \ synced : p \in due => p \in due'
    BY <1>7 DEF Unchanged, Failed, LockedOut
  <2> QED BY <1>0, <2>1, <2>2, SessionKeepsOwed
<1> QED BY <1>1, <1>2, <1>3, <1>4, <1>5, <1>6, <1>7 DEF Answer

LEMMA NextKeepsOwed ==
    ASSUME Inv, Owed, [Next]_vars
    PROVE  Owed'
<1> USE DEF lists, ledger, account
<1>0. Idle.pc = "idle"
  BY DEF Idle
<1>1. ASSUME NEW t \in Requests, NEW q \in Playlists, Connect(t, q)
      PROVE  Owed'
  <2> DEFINE r == [Idle EXCEPT !.pc = "insert", !.p = q]
  <2>1. /\ t \in Tasks /\ task' = [task EXCEPT ![t] = r]
        /\ UNCHANGED <<rows, synced, refused, due>>
    BY <1>1 DEF Connect, Tasks
  <2>2. r.pc = "insert"
    BY DEF Idle
  <2> HIDE DEF r
  <2> QED BY <2>1, <2>2, SessionKeepsOwed
<1>2. ASSUME NEW t \in Requests, NEW q \in Playlists, SyncNow(t, q)
      PROVE  Owed'
  <2>1. /\ t \in Tasks /\ task' = [task EXCEPT ![t] = Start(q, TRUE, FALSE)]
        /\ UNCHANGED <<rows, synced, refused, due>>
    BY <1>2 DEF SyncNow, Tasks, Proceed
  <2>2. Start(q, TRUE, FALSE).pc = "refresh" => Start(q, TRUE, FALSE).p \notin Open
    BY OpenStartsWithApp, TRUE \in BOOLEAN, FALSE \in BOOLEAN
  <2> QED BY <2>1, <2>2, SessionKeepsOwed
<1>3. CASE TickNext
  <2>1. PICK q \in tick :
          IF rows[q] = "connected"
          THEN Proceed(Scheduler, Start(q, FALSE, FALSE))
          ELSE UNCHANGED <<task, lock>>
    BY <1>3 DEF TickNext
  <2>2. /\ UNCHANGED <<rows, synced, refused, due>>
        /\ Scheduler \in Tasks /\ q \in Playlists
    BY <1>3 DEF TickNext, Tasks, Inv, TypeOK
  <2>3. CASE rows[q] = "connected"
    <3>1. task' = [task EXCEPT ![Scheduler] = Start(q, FALSE, FALSE)]
      BY <2>1, <2>3 DEF Proceed
    <3>2. Start(q, FALSE, FALSE).pc = "refresh" => Start(q, FALSE, FALSE).p \notin Open
      BY <2>2, OpenStartsWithApp, FALSE \in BOOLEAN
    <3> QED BY <2>2, <3>1, <3>2, SessionKeepsOwed
  <2>4. CASE rows[q] # "connected"
    BY <2>1, <2>2, <2>4, ListsKeepOwed
  <2> QED BY <2>3, <2>4
<1>4. ASSUME NEW q \in Playlists, Disconnect(q) \/ BecomeDue(q)
      PROVE  Owed'
  <2>1. UNCHANGED <<task, synced, refused>> /\ due \subseteq due'
    BY <1>4 DEF Disconnect, BecomeDue
  <2>2. \A p \in Playlists : \/ rows'[p] = rows[p]
                             \/ rows[p] = "connected" /\ rows'[p] = "final"
    BY <1>4 DEF Disconnect, BecomeDue, Inv, TypeOK
  <2> QED BY <2>1, <2>2, ListsKeepOwed
<1>5. CASE Crash
  <2>1. \A t \in Tasks : task'[t].pc = "idle"
    BY <1>0, <1>5 DEF Crash
  <2>2. UNCHANGED <<rows, synced, refused, due>>
    BY <1>5 DEF Crash
  <2> QED BY <2>1, <2>2 DEF Owed, FirstSyncIsOwed
<1>6. CASE \/ TickStart \/ Enable \/ Disable
           \/ \E s \in States : Authorize(s)
           \/ \E c \in Callbacks : Exchanged(c) \/ NotExchanged(c)
           \/ \E c \in Callbacks, s \in States : Callback(c, s)
           \/ \E g \in Grants : Revoke(g)
           \/ UNCHANGED vars
  <2>1. UNCHANGED <<task, rows, synced, refused, due>>
    BY <1>6 DEF TickStart, Enable, Disable, Authorize, Exchanged, NotExchanged,
                Callback, Revoke, vars
  <2> QED BY <2>1, ListsKeepOwed
<1> QED BY <1>1, <1>2, <1>3, <1>4, <1>5, <1>6, AnswerKeepsOwed DEF Next, Tick

\* A connected playlist that was never synced comes from a refused token, and
\* next_sync_at of its row is null: the scheduler will find it (connect_playlist,
\* sync_playlist, SpotifySyncScheduler._tick).
THEOREM FirstSyncHolds == Spec => []FirstSyncIsOwed
<1>1. Init => Owed
  BY DEF Init, Owed, FirstSyncIsOwed, Idle
<1>2. Inv /\ Owed /\ [Next]_vars => Owed'
  BY NextKeepsOwed
<1>3. Owed => FirstSyncIsOwed
  BY DEF Owed
<1> QED BY InvariantHolds, <1>1, <1>2, <1>3, PTL DEF Spec
=============================================================================
