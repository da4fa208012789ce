-------------------------- MODULE SpotifyConnection -------------------------
(***************************************************************************)
(* Which playlists are connected and when they are synced, and the user's  *)
(* Spotify account behind it: connect, sync and disconnect of              *)
(* api/playlists.py, the first half of sync_playlist (which token a        *)
(* request goes out with), SpotifySyncScheduler, the PKCE flow of          *)
(* api/spotify_oauth.py and the columns of the settings row they share.    *)
(*                                                                         *)
(* The requests, the scheduler and the browser's callbacks interleave at   *)
(* every HTTP call.  A session keeps what it loaded (expire_on_commit is   *)
(* False, and _get_user_access_token holds the settings row across its     *)
(* refresh); an UPDATE writes the columns that differ from what was        *)
(* loaded; the write lock of SQLite is held from a session's first flush   *)
(* to its commit or its end, and a writer that finds it taken waits 30 s   *)
(* and then fails (db/session.py).                                         *)
(*                                                                         *)
(* What a sync does to entries, references and external playlists is the   *)
(* subject of MediaReferences and ExternalPlaylists.                       *)
(***************************************************************************)
EXTENDS Naturals, FiniteSets

CONSTANTS
    Playlists,      \* by spotify_id
    Liked,          \* LIKED_SONGS_SPOTIFY_ID, one of them
    Open,           \* those Spotify lets the app's own token read
    Requests,       \* API requests that sync, under way at once
    Scheduler,      \* the task of SpotifySyncScheduler
    Callbacks,      \* requests to /callback, under way at once
    States,         \* values of `state`; a bound on the PKCE flows
    Grants,         \* refresh tokens Spotify can issue; a bound
    None,
    MaxAsked,       \* bound on the requests that sync
    MaxFaults       \* bound on failed answers of Spotify and on crashes

Tasks == Requests \cup {Scheduler}

ASSUME ConnectionAssumption ==
    /\ Liked \in Playlists
    /\ Open \subseteq Playlists \ {Liked}
    /\ Scheduler \notin Requests
    /\ None \notin Playlists \cup Tasks \cup States \cup Grants
    /\ MaxAsked \in Nat /\ MaxFaults \in Nat

VARIABLES
    settings,   \* the spotify_* columns of the committed settings row
    rows,       \* spotify_playlists: "absent", "connected" or "final"
    synced,     \* playlists with last_synced_at set
    due,        \* playlists whose next_sync_at is null or past
    task,       \* what each session that syncs is doing
    tick,       \* playlists left in the scheduler's current tick
    lock,       \* the task holding the write lock, or None
    pending,    \* _pending, the flows in the memory of the process
    flow,       \* what each callback is doing: the state it exchanges, or None
    valid,      \* the refresh tokens Spotify honours
    issued, granted,    \* states and grants already used up
    exchanges,  \* history: how often a state was exchanged
    refused,    \* history: grants whose refusal was recorded
    late,       \* history: a refusal was recorded on a settings row that had
                \* changed since the request went out
    asked, faults

account == <<settings, pending, flow, valid, issued, granted, exchanges>>
lists   == <<rows, synced, due>>
ledger  == <<refused, late>>
vars    == <<account, lists, task, tick, lock, ledger, asked, faults>>

Idle == [pc |-> "idle", p |-> None, force |-> FALSE, new |-> FALSE,
         user |-> FALSE, grant |-> None, seen |-> FALSE, then |-> "idle"]

Waiting == {"insert", "meta", "refresh", "tracks", "write"}

TaskRecords ==
    [pc : Waiting \cup {"idle"}, p : Playlists \cup {None}, force : BOOLEAN,
     new : BOOLEAN, user : BOOLEAN, grant : Grants \cup {None},
     seen : BOOLEAN, then : {"idle", "meta", "tracks"}]

TypeOK ==
    /\ settings \in [oauth : BOOLEAN, token : Grants \cup {None}, reauth : BOOLEAN]
    /\ rows \in [Playlists -> {"absent", "connected", "final"}]
    /\ synced \subseteq Playlists /\ due \subseteq Playlists
    /\ task \in [Tasks -> TaskRecords]
    /\ tick \subseteq Playlists
    /\ lock \in Tasks \cup {None}
    /\ \A t \in Tasks : lock = t <=> task[t].new \/ task[t].pc = "write"
    /\ pending \subseteq States /\ issued \subseteq States
    /\ flow \in [Callbacks -> States \cup {None}]
    /\ valid \subseteq Grants /\ granted \subseteq Grants /\ refused \subseteq Grants
    /\ exchanges \in [States -> Nat]
    /\ late \in BOOLEAN
    /\ asked \in 0 .. MaxAsked /\ faults \in 0 .. MaxFaults

Init ==
    /\ settings = [oauth |-> FALSE, token |-> None, reauth |-> FALSE]
    /\ rows = [p \in Playlists |-> "absent"] /\ synced = {} /\ due = {}
    /\ task = [t \in Tasks |-> Idle] /\ tick = {} /\ lock = None
    /\ pending = {} /\ flow = [c \in Callbacks |-> None]
    /\ valid = {} /\ issued = {} /\ granted = {} /\ refused = {}
    /\ exchanges = [s \in States |-> 0] /\ late = FALSE
    /\ asked = 0 /\ faults = 0

(***************************************************************************)
(* Sessions.                                                               *)
(***************************************************************************)

\* A commit or a flush of t goes through: no other session holds the lock.
CanWrite(t) == lock \in {None, t}

\* MUTANT: the session that fails is not closed.
ProceedOpen(t, r) ==
    /\ task' = [task EXCEPT ![t] = r]
    /\ lock' = lock

\* The session goes on with r; the one that ends gives the lock back.
Proceed(t, r) ==
    /\ task' = [task EXCEPT ![t] = r]
    /\ lock' = IF r = Idle /\ lock = t THEN None ELSE lock

End(t) == Proceed(t, Idle)

Budget == asked < MaxAsked /\ asked' = asked + 1
Fault  == faults < MaxFaults /\ faults' = faults + 1

(***************************************************************************)
(* Tokens (spotify_sync.py, settings_service.py).                          *)
(***************************************************************************)

HasAccount == settings.oauth /\ settings.token # None

\* _get_user_access_token up to its request: the refusal ends the sync; the
\* row is loaded here and is what mark_spotify_needs_reauth will find.
AskUser(r, next) ==
    IF HasAccount
    THEN [r EXCEPT !.pc = "refresh", !.grant = settings.token,
                   !.seen = settings.reauth, !.then = next]
    ELSE Idle

\* sync_playlist up to its first request: Liked Songs needs the user's token,
\* any other playlist is asked for with the app's.
Start(p, force, new) ==
    LET r == [Idle EXCEPT !.p = p, !.force = force, !.new = new]
    IN  IF p = Liked THEN AskUser(r, "tracks") ELSE [r EXCEPT !.pc = "meta"]

(***************************************************************************)
(* Requests.                                                               *)
(***************************************************************************)

\* connect_playlist and connect_liked_songs: the row they look for is missing
\* (the one they find, they return or refuse; nothing changes).
Connect(t, p) ==
    /\ task[t] = Idle /\ Budget
    /\ rows[p] = "absent"
    /\ p = Liked => HasAccount
    /\ task' = [task EXCEPT ![t] = [Idle EXCEPT !.pc = "insert", !.p = p]]
    /\ UNCHANGED <<account, lists, tick, lock, ledger, faults>>

\* MUTANT: spotify_id without its unique constraint.
InsertTwice(t) ==
    LET r == Start(task[t].p, TRUE, TRUE) IN
    /\ task[t].pc = "insert" /\ CanWrite(t)
    /\ task' = [task EXCEPT ![t] = r]
    /\ lock' = IF r = Idle THEN None ELSE t
    /\ UNCHANGED <<account, lists, tick, ledger, asked, faults>>

\* The flush of the new row, which takes the lock for as long as the first
\* sync lasts; an IntegrityError if another request was first.
Insert(t) ==
    LET r == IF rows[task[t].p] = "absent"
             THEN Start(task[t].p, TRUE, TRUE) ELSE Idle
    IN
    /\ task[t].pc = "insert" /\ CanWrite(t)
    /\ task' = [task EXCEPT ![t] = r]
    /\ lock' = IF r = Idle THEN None ELSE t
    /\ UNCHANGED <<account, lists, tick, ledger, asked, faults>>

\* sync_now.
SyncNow(t, p) ==
    /\ task[t] = Idle /\ Budget
    /\ rows[p] = "connected"
    /\ Proceed(t, Start(p, TRUE, FALSE))
    /\ UNCHANGED <<account, lists, tick, ledger, faults>>

\* disconnect_playlist; connected and finalized_at are written together.
Disconnect(p) ==
    /\ rows[p] = "connected" /\ lock = None
    /\ rows' = [rows EXCEPT ![p] = "final"]
    /\ UNCHANGED <<account, synced, due, task, tick, lock, ledger, asked, faults>>

(***************************************************************************)
(* The scheduler.                                                          *)
(***************************************************************************)

TickStart ==
    /\ task[Scheduler] = Idle /\ tick = {}
    /\ tick' = {p \in due : rows[p] = "connected"}
    /\ UNCHANGED <<account, lists, task, lock, ledger, asked, faults>>

\* MUTANT: the tick trusts the list it made.
TickNextUnchecked ==
    /\ task[Scheduler] = Idle
    /\ \E p \in tick :
         /\ tick' = tick \ {p}
         /\ Proceed(Scheduler, Start(p, FALSE, FALSE))
    /\ UNCHANGED <<account, lists, ledger, asked, faults>>

\* Each playlist of the list in a session of its own, which looks again
\* whether it is still connected.
TickNext ==
    /\ task[Scheduler] = Idle
    /\ \E p \in tick :
         /\ tick' = tick \ {p}
         /\ IF rows[p] = "connected"
            THEN Proceed(Scheduler, Start(p, FALSE, FALSE))
            ELSE UNCHANGED <<task, lock>>
    /\ UNCHANGED <<account, lists, ledger, asked, faults>>

\* The interval of a synced playlist goes by.
BecomeDue(p) ==
    /\ p \in synced \ due
    /\ due' = due \cup {p}
    /\ UNCHANGED <<account, rows, synced, task, tick, lock, ledger, asked, faults>>

(***************************************************************************)
(* The answers of Spotify.                                                 *)
(***************************************************************************)

\* What the commit of a sync leaves of the playlist's row: the new one, or
\* name, snapshot and times of an old one, whatever its state is by now.
Committed(t) ==
    rows' = IF task[t].new THEN [rows EXCEPT ![task[t].p] = "connected"] ELSE rows

\* get_playlist with the snapshot_id of the last sync: only _schedule_next_sync.
Unchanged(t) ==
    /\ task[t].pc = "meta" /\ CanWrite(t)
    /\ ~task[t].force /\ task[t].p \in synced
    /\ due' = due \ {task[t].p}
    /\ End(t)
    /\ UNCHANGED <<account, rows, synced, tick, ledger, asked, faults>>

\* get_playlist with anything to fetch.
Metadata(t) ==
    /\ task[t].pc = "meta"
    /\ Proceed(t, [task[t] EXCEPT !.pc = "tracks"])
    /\ UNCHANGED <<account, lists, tick, ledger, asked, faults>>

\* MUTANT: the exception of one playlist leaves the loop of the tick.
DeniedEndsTick(t) ==
    /\ task[t].pc \in {"meta", "tracks"} /\ ~task[t].user
    /\ task[t].p \notin Open
    /\ Proceed(t, AskUser(task[t], task[t].pc))
    /\ tick' = IF t = Scheduler /\ ~HasAccount THEN {} ELSE tick
    /\ UNCHANGED <<account, lists, ledger, asked, faults>>

\* 401 or 403 to the app's token, for the playlist or for its items only.
Denied(t) ==
    /\ task[t].pc \in {"meta", "tracks"} /\ ~task[t].user
    /\ task[t].p \notin Open
    /\ Proceed(t, AskUser(task[t], task[t].pc))
    /\ UNCHANGED <<account, lists, tick, ledger, asked, faults>>

\* refresh_pkce_token succeeds; a rotated refresh_token in the answer is not
\* looked at.
Refreshed(t) ==
    /\ task[t].pc = "refresh" /\ task[t].grant \in valid
    /\ Proceed(t, [task[t] EXCEPT !.pc = task[t].then, !.user = TRUE,
                                  !.grant = None, !.seen = FALSE, !.then = "idle"])
    /\ UNCHANGED <<account, lists, tick, ledger, asked, faults>>

\* MUTANT: the sync's failure is taken for a sync, and the playlist scheduled.
RefusedScheduled(t) ==
    /\ task[t].pc = "refresh" /\ task[t].grant \notin valid /\ CanWrite(t)
    /\ settings' = [settings EXCEPT !.reauth = @ \/ ~task[t].seen]
    /\ late' = (late \/ (~task[t].seen /\ settings.token # task[t].grant))
    /\ refused' = refused \cup {task[t].grant}
    /\ Committed(t) /\ due' = due \ {task[t].p}
    /\ End(t)
    /\ UNCHANGED <<synced, pending, flow, valid, issued, granted, exchanges,
                   tick, asked, faults>>

\* invalid_grant: mark_spotify_needs_reauth sets the flag of the row as loaded
\* (no UPDATE if it was set already), commits, and with it the new playlist's
\* row, which then is connected and has not been synced.
Refused(t) ==
    /\ task[t].pc = "refresh" /\ task[t].grant \notin valid /\ CanWrite(t)
    /\ settings' = [settings EXCEPT !.reauth = @ \/ ~task[t].seen]
    /\ late' = (late \/ (~task[t].seen /\ settings.token # task[t].grant))
    /\ refused' = refused \cup {task[t].grant}
    /\ Committed(t)
    /\ due' = IF task[t].new THEN due \cup {task[t].p} ELSE due
    /\ End(t)
    /\ UNCHANGED <<synced, pending, flow, valid, issued, granted, exchanges,
                   tick, asked, faults>>

\* The items, and the first flush of _upsert_track, which takes the lock for
\* as long as the artwork of the other tracks is being fetched.
Items(t) ==
    /\ task[t].pc = "tracks" /\ CanWrite(t)
    /\ task[t].user \/ task[t].p \in Open
    /\ task' = [task EXCEPT ![t].pc = "write"]
    /\ lock' = t
    /\ UNCHANGED <<account, lists, tick, ledger, asked, faults>>

Commit(t) ==
    /\ task[t].pc = "write"
    /\ Committed(t)
    /\ synced' = synced \cup {task[t].p}
    /\ due' = due \ {task[t].p}
    /\ End(t)
    /\ UNCHANGED <<account, tick, ledger, asked, faults>>

\* Any other answer: 404, 429, 5xx, a timeout.  The session ends, rolls back
\* and a new playlist's row with it; next_sync_at stays as it is.
Failed(t) ==
    /\ task[t].pc \in {"meta", "refresh", "tracks", "write"} /\ Fault
    /\ End(t)
    /\ UNCHANGED <<account, lists, tick, ledger, asked>>

\* "database is locked", after the busy timeout.
LockedOut(t) ==
    /\ ~CanWrite(t)
    /\ \/ task[t].pc \in {"insert", "tracks"}
       \/ task[t].pc = "meta" /\ ~task[t].force /\ task[t].p \in synced
       \/ task[t].pc = "refresh" /\ task[t].grant \notin valid
    /\ End(t)
    /\ UNCHANGED <<account, lists, tick, ledger, asked, faults>>

(***************************************************************************)
(* The user's account.                                                     *)
(***************************************************************************)

\* MUTANT: the token goes, the flag about it stays.
DisableKeepsFlag ==
    /\ settings.oauth /\ lock = None
    /\ settings' = [settings EXCEPT !.oauth = FALSE, !.token = None]
    /\ late' = FALSE
    /\ UNCHANGED <<pending, flow, valid, issued, granted, exchanges, lists, task,
                   tick, lock, refused, asked, faults>>

\* set_spotify_user_oauth_enabled.
Disable ==
    /\ settings.oauth /\ lock = None
    /\ settings' = [oauth |-> FALSE, token |-> None, reauth |-> FALSE]
    /\ late' = FALSE
    /\ UNCHANGED <<pending, flow, valid, issued, granted, exchanges, lists, task,
                   tick, lock, refused, asked, faults>>

Enable ==
    /\ ~settings.oauth /\ lock = None
    /\ settings' = [settings EXCEPT !.oauth = TRUE]
    /\ UNCHANGED <<pending, flow, valid, issued, granted, exchanges, lists, task,
                   tick, lock, ledger, asked, faults>>

\* authorize; the entries it evicts have expired.  States and grants mean
\* nothing but themselves, so which unused one comes next is fixed.
Authorize(s) ==
    /\ settings.oauth /\ s \notin issued
    /\ s = CHOOSE next \in States \ issued : TRUE
    /\ issued' = issued \cup {s}
    /\ \E gone \in SUBSET pending : pending' = (pending \ gone) \cup {s}
    /\ UNCHANGED <<settings, flow, valid, granted, exchanges, lists, task, tick,
                   lock, ledger, asked, faults>>

\* MUTANT: the entry is dropped once the exchange has succeeded.
CallbackKeepsEntry(c, s) ==
    /\ flow[c] = None /\ s \in pending
    /\ flow' = [flow EXCEPT ![c] = s]
    /\ exchanges' = [exchanges EXCEPT ![s] = @ + 1]
    /\ UNCHANGED <<settings, pending, valid, issued, granted, lists, task, tick,
                   lock, ledger, asked, faults>>

\* callback up to the exchange.  Whether the feature is still on is not asked,
\* nor whether the entry has expired.
Callback(c, s) ==
    /\ flow[c] = None /\ s \in pending
    /\ pending' = pending \ {s}
    /\ flow' = [flow EXCEPT ![c] = s]
    /\ exchanges' = [exchanges EXCEPT ![s] = @ + 1]
    /\ UNCHANGED <<settings, valid, issued, granted, lists, task, tick, lock,
                   ledger, asked, faults>>

\* The grant, and store_spotify_user_refresh_token.
Exchanged(c) ==
    /\ flow[c] # None /\ lock = None
    /\ \E g \in Grants \ granted :
         /\ g = CHOOSE next \in Grants \ granted : TRUE
         /\ granted' = granted \cup {g} /\ valid' = valid \cup {g}
         /\ settings' = [settings EXCEPT !.token = g, !.reauth = FALSE]
    /\ flow' = [flow EXCEPT ![c] = None]
    /\ late' = FALSE
    /\ UNCHANGED <<pending, issued, exchanges, lists, task, tick, lock, refused,
                   asked, faults>>

\* The exchange is refused, or the store times out on the lock.
NotExchanged(c) ==
    /\ flow[c] # None
    /\ flow' = [flow EXCEPT ![c] = None]
    /\ UNCHANGED <<settings, pending, valid, issued, granted, exchanges, lists,
                   task, tick, lock, ledger, asked, faults>>

\* The user withdraws the access, or Spotify replaces the token it refreshed.
Revoke(g) ==
    /\ g \in valid
    /\ valid' = valid \ {g}
    /\ UNCHANGED <<settings, pending, flow, issued, granted, exchanges, lists,
                   task, tick, lock, ledger, asked, faults>>

\* The process stops and starts: sessions, ticks and _pending are gone.
Crash ==
    /\ Fault
    /\ task' = [t \in Tasks |-> Idle] /\ tick' = {} /\ lock' = None
    /\ pending' = {} /\ flow' = [c \in Callbacks |-> None]
    /\ UNCHANGED <<settings, valid, issued, granted, exchanges, lists, ledger, asked>>

Answer(t) ==
    \/ Insert(t) \/ Unchanged(t) \/ Metadata(t) \/ Denied(t) \/ Refreshed(t)
    \/ Refused(t) \/ Items(t) \/ Commit(t) \/ Failed(t) \/ LockedOut(t)

Tick == TickStart \/ TickNext

Next ==
    \/ \E t \in Requests, p \in Playlists : Connect(t, p) \/ SyncNow(t, p)
    \/ \E t \in Tasks : Answer(t)
    \/ Tick
    \/ \E p \in Playlists : Disconnect(p) \/ BecomeDue(p)
    \/ Enable \/ Disable
    \/ \E s \in States : Authorize(s)
    \/ \E c \in Callbacks : Exchanged(c) \/ NotExchanged(c)
    \/ \E c \in Callbacks, s \in States : Callback(c, s)
    \/ \E g \in Grants : Revoke(g)
    \/ Crash

Spec == Init /\ [][Next]_vars

\* Requests to Spotify are answered or time out (httpx timeout=15.0), the loop
\* of the scheduler goes on, and the tick takes its playlists in turn.  Nobody
\* has to connect, authorize or disconnect anything.
Fairness ==
    /\ \A t \in Tasks : WF_vars(Answer(t))
    /\ WF_vars(Tick)

FairSpec == Spec /\ Fairness

(***************************************************************************)
(* Properties.                                                             *)
(***************************************************************************)

\* spotify_needs_reauth is about the stored token: it is set once a refresh of
\* that token was refused, and only then, unless the answer came in after the
\* token it was about had been replaced or dropped.
ReauthNamesTheToken ==
    /\ settings.token \in refused => settings.reauth
    /\ settings.reauth /\ ~late => /\ settings.token # None
                                   /\ settings.token \notin valid

\* A connected playlist without its first sync comes from a refused token,
\* whose record committed it, and is owed the sync: the scheduler finds it due.
FirstSyncIsOwed ==
    \A p \in Playlists :
        rows[p] # "absent" /\ p \notin synced =>
            /\ p \notin Open /\ refused # {}
            /\ rows[p] = "connected" => p \in due

\* Each authorization state is exchanged at most once, however often the
\* browser sends it and whenever the process restarts.
StateIsUsedOnce == \A s \in States : exchanges[s] <= 1

\* A disconnected playlist stays disconnected, whatever connect or sync was
\* under way, and no sync of it starts any more.
FinalStaysFinal ==
    [][\A p \in Playlists : rows[p] = "final" =>
          /\ rows'[p] = "final"
          /\ \A t \in Tasks :
                task[t].p # p \/ task[t].pc = "insert" =>
                    task'[t].p # p \/ task'[t].pc \in {"idle", "insert"}]_vars

\* A connected playlist that Spotify lets the app read is synced when it is
\* due, whatever becomes of the others and of the user's account.
DueIsServed ==
    \A p \in Open :
        (rows[p] = "connected" /\ p \in due) ~> (p \notin due \/ rows[p] = "final")

\* What the source promises and the code does not keep.

\* settings_service.py:93-95: turning the feature off drops the token so that
\* no credential lingers.  A callback that arrives afterwards stores one.
DisabledHoldsNoToken == ~settings.oauth => settings.token = None

\* connect_playlist "performs its initial sync": a refused token leaves the row.
ConnectedIsSynced == \A p \in Playlists : rows[p] # "absent" => p \in synced
=============================================================================
