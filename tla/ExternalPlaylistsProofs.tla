---------------------- MODULE ExternalPlaylistsProofs ------------------------
(***************************************************************************)
(* Theorems of ExternalPlaylists for any lists, names, ids, edits, faults  *)
(* and crashes, while one task at a time syncs: nobody else's playlist is  *)
(* touched unasked, playlists that Groovarr lost track of are counted by   *)
(* the failures, and without failures a SYNCED row is true.                *)
(*                                                                         *)
(* What carries all three is that nothing changes the row under a sync:    *)
(* an operator can answer a collision only while the row waits for the     *)
(* answer, and no sync begins then (Remembers).                            *)
(*                                                                         *)
(* At the end the types, which hold for any number of tasks.               *)
(***************************************************************************)
EXTENDS ExternalPlaylists, TLAPS, FiniteSetTheorems, SequenceTheorems, WellFoundedInduction

\* One sync at a time; with two ForeignNeedsConsent is false (README).
OneTask == \A p, r \in Procs : p = r

\* The points at which a session has loaded the row.
Busy == Syncing \cup {"save"}

\* Records have their fields; what the fields hold matters only where stated.
IsRow(r) == r = [live |-> TRUE, ext |-> r.ext, name |-> r.name, adopted |-> r.adopted,
                 state |-> r.state, snap |-> r.snap, dups |-> r.dups]

IsPlaylist(s) == s = [on |-> TRUE, name |-> s.name, items |-> s.items]

IsTask(m) ==
    /\ m = [pc |-> m.pc, loaded |-> m.loaded, ids |-> m.ids, as |-> m.as,
            made |-> m.made, dups |-> m.dups, item |-> m.item, polls |-> m.polls]
    /\ m.pc \in Busy => IsRow(m.loaded)
    /\ m.pc # "save" => m.dups = 0

Shaped ==
    /\ row = NoRow \/ IsRow(row)
    /\ server = [d \in Ids |-> server[d]]
    /\ \A d \in Ids : server[d] = NoPlaylist \/ IsPlaylist(server[d])
    /\ proc = [p \in Procs |-> proc[p]]
    /\ \A p \in Procs : IsTask(proc[p])
    /\ own \subseteq Ids
    /\ foreign \in Nat /\ faults \in Nat /\ crashes \in Nat

\* The id in the row is one Groovarr made, or the operator has been, or is
\* being, asked about it.
RowFacts ==
    row.live =>
       /\ row.ext \in Ids \cup {NoId}
       /\ row.ext = NoId => ~row.adopted /\ row.snap = <<Never>> /\ row.state # "needs_resolution"
       /\ row.state = "needs_resolution" => ~row.adopted /\ row.snap = <<Never>>
       /\ row.ext \notin own \cup {NoId} => row.adopted \/ row.state = "needs_resolution"

\* A sync works on the row as it is, no collision is open, and the playlist it
\* is replacing is gone once it goes on to create.
Remembers(m) ==
    m.pc \in Busy =>
       /\ m.loaded = IF row.live THEN row ELSE NewRow
       /\ m.loaded.state # "needs_resolution"
       /\ m.pc \in {"rename", "delete"} => m.loaded.ext # NoId
       /\ m.pc = "list" => m.loaded.ext = NoId
       /\ m.pc \in {"create", "count", "save"} => m.loaded.ext = NoId \/ ~Exists(m.loaded.ext)
       /\ m.pc \in {"count", "save"} => m.made \in own

\* Ids are handed out in order.
Numbered ==
    \A d \in Ids : Exists(d) \/ d \in own \/ (row.live /\ row.ext = d)
                     => d <= foreign + Cardinality(own)

\* What Groovarr made and nobody knows any more.
Lost ==
    {d \in own : /\ Exists(d)
                 /\ ~(row.live /\ row.ext = d /\ row.state # "needs_resolution")
                 /\ \A p \in Procs : ~(proc[p].pc \in {"count", "save"} /\ proc[p].made = d)}

LostAreFaults == Cardinality(Lost) <= faults + crashes

\* The playlist of the row is on the server, as the row says.
Shows(r) ==
    /\ server[r.ext] = [on |-> TRUE, name |-> r.name, items |-> Stored(r.snap)]
    /\ r.dups = Len(r.snap) - Len(Stored(r.snap))

\* While nothing has failed: from the first call that changes it to the commit
\* the playlist may be ahead of the row, and at no other time.
Ahead == {"delete", "create", "count", "save"}

Faultless ==
    faults + crashes = 0 =>
       /\ row.live /\ row.ext # NoId /\ (\A p \in Procs : proc[p].pc \notin Ahead \ {"delete"})
            => Exists(row.ext)
       /\ row.live /\ row.snap # <<Never>> /\ (\A p \in Procs : proc[p].pc \notin Ahead)
            => Shows(row)
       /\ \A p \in Procs :
            /\ proc[p].pc \in {"count", "save"} =>
                 server[proc[p].made] = [on |-> TRUE, name |-> proc[p].as,
                                         items |-> Stored(proc[p].ids)]
            /\ proc[p].pc = "save" =>
                 proc[p].dups = Len(proc[p].ids) - Len(Stored(proc[p].ids))

Inv ==
    /\ Shaped
    /\ RowFacts
    /\ \A p \in Procs : Remembers(proc[p])
    /\ Numbered
    /\ LostAreFaults
    /\ Faultless

-----------------------------------------------------------------------------
(* Helpers *)

\* Only these variables are looked at.
seen == <<platform, row, server, proc, own, foreign, faults, crashes>>

LEMMA Unseen ==
    ASSUME Inv, UNCHANGED seen
    PROVE  Inv'
BY DEF Inv, seen, Shaped, RowFacts, Remembers, Numbered, LostAreFaults, Lost, Faultless,
       Shows, Exists, Stored

LEMMA Constants == NoId = 0 /\ NoId \notin Ids /\ Ids \subseteq Nat /\ IsFiniteSet(Ids)
BY ExternalAssumption DEF NoId

\* The rows the code starts from.
LEMMA NewRowFacts ==
    /\ IsRow(NewRow) /\ NewRow.live /\ NewRow.ext = NoId /\ ~NewRow.adopted
    /\ NewRow.state = "pending" /\ NewRow.snap = <<Never>>
    /\ NoRow.live = FALSE /\ NoPlaylist.on = FALSE
BY DEF IsRow, NewRow, NoRow, NoPlaylist

LEMMA IdleFacts == IsTask(IdleTask) /\ IdleTask.pc = "idle" /\ IdleTask.dups = 0
BY DEF IsTask, IdleTask, Busy, Syncing

\* Sets of ids are finite, and counted by numbers.
LEMMA Counts ==
    ASSUME NEW S, S \subseteq Ids
    PROVE  IsFiniteSet(S) /\ Cardinality(S) \in Nat
BY Constants, FS_Subset, FS_CardinalityType

LEMMA LostShrinks ==
    ASSUME Shaped, Shaped', LostAreFaults, Lost' \subseteq Lost,
           faults' >= faults, crashes' >= crashes
    PROVE  LostAreFaults'
<1>1. Lost \subseteq Ids /\ Lost' \subseteq Ids
  BY DEF Lost, Shaped
<1>2. Cardinality(Lost') <= Cardinality(Lost)
  BY <1>1, Counts, FS_Subset
<1>3. Cardinality(Lost) \in Nat /\ Cardinality(Lost') \in Nat
  BY <1>1, Counts
<1> QED
  BY <1>2, <1>3 DEF LostAreFaults, Shaped

LEMMA LostGrows ==
    ASSUME Shaped, Shaped', LostAreFaults, NEW x, Lost' \subseteq Lost \cup {x},
           faults' + crashes' > faults + crashes
    PROVE  LostAreFaults'
<1>1. Lost \subseteq Ids /\ Lost' \subseteq Ids
  BY DEF Lost, Shaped
<1>2. IsFiniteSet(Lost) /\ Cardinality(Lost) \in Nat /\ Cardinality(Lost') \in Nat
  BY <1>1, Counts
<1>3. IsFiniteSet(Lost \cup {x}) /\ Cardinality(Lost \cup {x}) <= Cardinality(Lost) + 1
      /\ Cardinality(Lost \cup {x}) \in Nat
  <2>1. IsFiniteSet(Lost \cup {x})
        /\ Cardinality(Lost \cup {x}) = IF x \in Lost THEN Cardinality(Lost)
                                        ELSE Cardinality(Lost) + 1
    BY <1>2, FS_AddElement
  <2>2. Cardinality(Lost \cup {x}) \in Nat
    BY <2>1, FS_CardinalityType
  <2> QED
    BY <1>2, <2>1, <2>2
<1>4. Cardinality(Lost') <= Cardinality(Lost \cup {x})
  BY <1>3, FS_Subset
<1> QED
  BY <1>2, <1>3, <1>4 DEF LostAreFaults, Shaped

\* The id the server hands out next is above all it and the row know.
LEMMA FreeIsNew ==
    ASSUME Shaped, Numbered, NEW d \in Free
    PROVE  /\ d \in Ids /\ ~Exists(d) /\ d \notin own /\ ~(row.live /\ row.ext = d)
           /\ d = foreign + Cardinality(own) + 1
           /\ Cardinality(own \cup {d}) = Cardinality(own) + 1
<1>1. d \in Ids /\ d = foreign + Cardinality(own) + 1
  BY DEF Free
<1>2. Cardinality(own) \in Nat /\ foreign \in Nat /\ IsFiniteSet(own)
  BY Counts DEF Shaped
<1>3. ~(d <= foreign + Cardinality(own))
  BY <1>1, <1>2
<1>4. ~Exists(d) /\ d \notin own /\ ~(row.live /\ row.ext = d)
  BY <1>1, <1>3 DEF Numbered
<1> QED
  BY <1>1, <1>2, <1>4, FS_AddElement

-----------------------------------------------------------------------------
(* Steps outside a sync *)

LEMMA Moves ==
    ASSUME Shaped, OneTask, NEW p \in Procs, NEW r, proc' = [proc EXCEPT ![p] = r]
    PROVE  /\ Procs = {p} /\ proc'[p] = r
           /\ proc' = [x \in Procs |-> proc'[x]]
BY DEF Shaped, OneTask

LEMMA QuietStep ==
    ASSUME Inv, OneTask, NEW p \in Procs, NEW r, IsTask(r),
           proc[p].pc \notin Busy, r.pc \notin Busy,
           proc' = [proc EXCEPT ![p] = r],
           UNCHANGED <<platform, row, server, own, foreign>>,
           faults' \in Nat, crashes' \in Nat, faults' >= faults, crashes' >= crashes
    PROVE  Inv'
<1>1. Procs = {p} /\ proc'[p] = r /\ proc' = [x \in Procs |-> proc'[x]]
  BY Moves DEF Inv
<1>2. Shaped'
  BY <1>1 DEF Inv, Shaped
<1>3. RowFacts' /\ Numbered'
  BY DEF Inv, RowFacts, Numbered, Exists
<1>4. \A x \in Procs : Remembers(proc[x])'
  BY <1>1 DEF Remembers
<1>5. Lost' \subseteq Lost
  BY <1>1 DEF Lost, Exists, Busy, Syncing
<1>6. LostAreFaults'
  BY <1>2, <1>5, LostShrinks DEF Inv
<1>7. Faultless'
  <2> SUFFICES ASSUME (faults + crashes = 0)' PROVE Faultless'
    BY DEF Faultless
  <2>1. faults + crashes = 0
    BY DEF Inv, Shaped
  <2>2. r.pc \notin Ahead \cup Syncing \cup {"save"} /\ proc[p].pc \notin Ahead
    BY DEF Ahead, Busy, Syncing
  <2>3. \A x \in Procs : proc[x].pc \notin Ahead
    BY <1>1, <2>2
  <2>4. /\ row.live /\ row.ext # NoId => Exists(row.ext)
        /\ row.live /\ row.snap # <<Never>> => Shows(row)
    BY <2>1, <2>3 DEF Inv, Faultless
  <2>5. /\ (row.live /\ row.ext # NoId => Exists(row.ext))'
        /\ (row.live /\ row.snap # <<Never>> => Shows(row))'
    BY <2>4 DEF Exists, Shows, Stored
  <2>6. \A x \in Procs : proc'[x].pc \notin Ahead \cup Syncing \cup {"save"}
    BY <1>1, <2>2
  <2> QED
    BY <2>5, <2>6 DEF Faultless, Ahead
<1> QED
  BY <1>2, <1>3, <1>4, <1>6, <1>7 DEF Inv

LEMMA UserCreatesInv ==
    ASSUME Inv, NEW n \in Names, UserCreates(n)
    PROVE  Inv'
<1>1. PICK d \in Free : server' = [server EXCEPT ![d] = [on |-> TRUE, name |-> n, items |-> <<>>]]
  BY DEF UserCreates
<1>2. /\ d \in Ids /\ ~Exists(d) /\ d \notin own /\ ~(row.live /\ row.ext = d)
      /\ d = foreign + Cardinality(own) + 1
  BY <1>1, FreeIsNew DEF Inv
<1>3. /\ foreign' = foreign + 1 /\ foreign \in Nat
      /\ UNCHANGED <<platform, row, proc, own, faults, crashes>>
  BY DEF UserCreates, settings, Inv, Shaped
<1>4. /\ \A c \in Ids \ {d} : server'[c] = server[c]
      /\ server'[d] = [on |-> TRUE, name |-> n, items |-> <<>>]
      /\ server' = [c \in Ids |-> server'[c]]
  BY <1>1, <1>2 DEF Inv, Shaped
<1>5. Shaped'
  <2>1. IsPlaylist([on |-> TRUE, name |-> n, items |-> <<>>])
    BY DEF IsPlaylist
  <2>2. \A c \in Ids : server'[c] = NoPlaylist \/ IsPlaylist(server'[c])
    BY <1>4, <2>1 DEF Inv, Shaped
  <2> QED
    BY <1>3, <1>4, <2>2 DEF Inv, Shaped
<1>6. RowFacts'
  BY <1>3 DEF Inv, RowFacts
<1>7. \A c \in Ids \ {d} : Exists(c)' = Exists(c)
  BY <1>4 DEF Exists
<1>8. \A p \in Procs : /\ Remembers(proc[p])'
                       /\ proc[p].pc \in {"count", "save"} => proc[p].made \in Ids \ {d}
  <2> TAKE p \in Procs
  <2>1. Remembers(proc[p])
    BY DEF Inv
  <2>2. proc[p].pc \in {"count", "save"} => proc[p].made \in own
    BY <2>1 DEF Remembers, Busy, Syncing
  <2>3. proc[p].pc \in {"count", "save"} => proc[p].made \in Ids \ {d}
    BY <1>2, <2>2 DEF Inv, Shaped
  <2>4. proc[p].pc \in Busy => \/ proc[p].loaded.ext = NoId
                               \/ proc[p].loaded.ext \in Ids \ {d}
    BY <1>2, <2>1, NewRowFacts DEF Remembers, Inv, RowFacts
  <2>5. proc[p].pc \in Busy /\ proc[p].loaded.ext # NoId =>
           server'[proc[p].loaded.ext] = server[proc[p].loaded.ext]
    BY <1>4, <2>4
  <2> QED
    BY <1>3, <2>1, <2>3, <2>5 DEF Remembers, Exists, Busy
<1>9. Numbered'
  <2> SUFFICES ASSUME NEW c \in Ids, (Exists(c) \/ c \in own \/ (row.live /\ row.ext = c))'
               PROVE  (c <= foreign + Cardinality(own))'
    BY DEF Numbered
  <2>1. c \in Nat /\ d \in Nat /\ Cardinality(own) \in Nat
    BY <1>2, Constants, Counts DEF Inv, Shaped
  <2>2. c = d \/ c <= foreign + Cardinality(own)
    BY <1>3, <1>7 DEF Inv, Numbered
  <2> QED
    BY <1>2, <1>3, <2>1, <2>2
<1>10. LostAreFaults'
  <2>1. Lost' \subseteq Lost
    BY <1>2, <1>3, <1>7 DEF Lost, Inv, Shaped
  <2>2. faults' >= faults /\ crashes' >= crashes
    BY <1>3 DEF Inv, Shaped
  <2> QED
    BY <1>5, <2>1, <2>2, LostShrinks DEF Inv
<1>11. Faultless'
  <2>1. row.live /\ row.ext # NoId => server'[row.ext] = server[row.ext]
    BY <1>2, <1>4 DEF Inv, RowFacts
  <2>2. row.live /\ row.snap # <<Never>> => server'[row.ext] = server[row.ext]
    BY <2>1 DEF Inv, RowFacts
  <2>3. \A p \in Procs : proc[p].pc \in {"count", "save"} =>
           server'[proc[p].made] = server[proc[p].made]
    BY <1>4, <1>8
  <2> QED
    BY <1>3, <2>1, <2>2, <2>3 DEF Inv, Faultless, Shows, Exists, Stored
<1> QED
  BY <1>5, <1>6, <1>8, <1>9, <1>10, <1>11 DEF Inv

\* Deleting takes what a sync would count as lost, or what it wrote, and is a fault.
LEMMA UserDeletesInv ==
    ASSUME Inv, NEW d \in Ids, UserDeletes(d)
    PROVE  Inv'
<1>1. /\ server' = [server EXCEPT ![d] = NoPlaylist]
      /\ faults' = faults + 1 /\ UNCHANGED <<platform, row, proc, own, foreign, crashes>>
  BY DEF UserDeletes, settings
<1>2. Shaped'
  BY <1>1 DEF Inv, Shaped
<1>3. \A c \in Ids : Exists(c)' => Exists(c)
  BY <1>1, NewRowFacts DEF Inv, Shaped, Exists
<1>4. RowFacts' /\ Numbered'
  BY <1>1, <1>3 DEF Inv, RowFacts, Numbered
<1>5. \A p \in Procs : Remembers(proc[p])'
  <2> TAKE p \in Procs
  <2>1. Remembers(proc[p])
    BY DEF Inv
  <2>2. proc[p].pc \in Busy => proc[p].loaded.ext = NoId \/ proc[p].loaded.ext \in Ids
    BY <2>1, NewRowFacts DEF Remembers, Inv, RowFacts
  <2>3. proc[p].pc \in Busy /\ proc[p].loaded.ext # NoId =>
           (Exists(proc[p].loaded.ext)' => Exists(proc[p].loaded.ext))
    BY <1>1, <1>3, <2>2
  <2> QED
    BY <1>1, <2>1, <2>3 DEF Remembers, Busy, Syncing
<1>6. LostAreFaults'
  <2>1. Lost' \subseteq Lost
    BY <1>1, <1>3 DEF Lost, Inv, Shaped
  <2>2. faults' >= faults /\ crashes' >= crashes
    BY <1>1 DEF Inv, Shaped
  <2> QED
    BY <1>2, <2>1, <2>2, LostShrinks DEF Inv
<1>7. Faultless'
  <2>1. ~(faults + crashes = 0)'
    BY <1>1 DEF Inv, Shaped
  <2> QED
    BY <2>1 DEF Faultless
<1> QED
  BY <1>2, <1>4, <1>5, <1>6, <1>7 DEF Inv

\* A stop of the process loses what the one task had made.
LEMMA CrashInv ==
    ASSUME Inv, OneTask, Crash
    PROVE  Inv'
<1>1. /\ proc' = [p \in Procs |-> IdleTask] /\ crashes' = crashes + 1
      /\ UNCHANGED <<platform, row, server, own, foreign, faults>>
  BY DEF Crash, settings, remote
<1>2. Shaped'
  BY <1>1, IdleFacts DEF Inv, Shaped
<1>3. RowFacts' /\ Numbered'
  BY <1>1 DEF Inv, RowFacts, Numbered, Exists
<1>4. \A p \in Procs : Remembers(proc[p])'
  BY <1>1, IdleFacts DEF Remembers, Busy, Syncing
<1>5. PICK x : \A p \in Procs : x = proc[p].made
  BY DEF OneTask
<1>6. Lost' \subseteq Lost \cup {x}
  BY <1>1, <1>5 DEF Lost, Exists
<1>7. LostAreFaults'
  <2>1. faults' + crashes' > faults + crashes
    BY <1>1 DEF Inv, Shaped
  <2> QED
    BY <1>2, <1>6, <2>1, LostGrows DEF Inv
<1>8. Faultless'
  <2>1. ~(faults + crashes = 0)'
    BY <1>1 DEF Inv, Shaped
  <2> QED
    BY <2>1 DEF Faultless
<1> QED
  BY <1>2, <1>3, <1>4, <1>7, <1>8 DEF Inv

\* The operator answers only when no sync is under way.
LEMMA AnswerInv ==
    ASSUME Inv, Adopt \/ Cancel
    PROVE  Inv'
<1>1. /\ row.live /\ row.state = "needs_resolution"
      /\ UNCHANGED <<platform, server, proc, own, foreign, faults, crashes>>
      /\ \/ row' = [row EXCEPT !.adopted = TRUE, !.state = "pending"]
         \/ row' = [row EXCEPT !.ext = NoId, !.adopted = FALSE, !.state = "pending"]
  BY DEF Adopt, Cancel, settings, remote, bounds
<1>2. /\ row.ext \in Ids /\ ~row.adopted /\ row.snap = <<Never>>
  BY <1>1 DEF Inv, RowFacts
<1>3. IsRow(row)
  BY <1>1, NewRowFacts DEF Inv, Shaped
<1>4. /\ IsRow(row') /\ row'.live /\ row'.snap = <<Never>> /\ row'.state = "pending"
      /\ \/ row'.ext = row.ext /\ row'.adopted
         \/ row'.ext = NoId /\ ~row'.adopted
  BY <1>1, <1>2, <1>3 DEF IsRow
<1>5. \A p \in Procs : proc[p].pc \notin Busy
  BY <1>1 DEF Inv, Remembers
<1>6. Shaped'
  BY <1>1, <1>4 DEF Inv, Shaped
<1>7. RowFacts'
  BY <1>1, <1>2, <1>4, Constants DEF RowFacts
<1>8. \A p \in Procs : Remembers(proc[p])'
  BY <1>1, <1>5 DEF Remembers
<1>9. Numbered'
  BY <1>1, <1>4, Constants DEF Inv, Numbered, Exists
<1>10. LostAreFaults'
  <2>1. Lost' \subseteq Lost
    BY <1>1 DEF Lost, Exists
  <2>2. faults' >= faults /\ crashes' >= crashes
    BY <1>1 DEF Inv, Shaped
  <2> QED
    BY <1>6, <2>1, <2>2, LostShrinks DEF Inv
<1>11. Faultless'
  <2>1. \A p \in Procs : proc[p].pc \notin Ahead /\ proc[p].pc \notin Syncing \cup {"save"}
    BY <1>5 DEF Busy, Ahead, Syncing
  <2>2. faults + crashes = 0 => Exists(row.ext)
    BY <1>1, <1>2, <2>1, Constants DEF Inv, Faultless
  <2>3. (faults + crashes = 0)' /\ row'.ext # NoId => Exists(row.ext)'
    BY <1>1, <1>4, <2>2 DEF Exists
  <2>4. \A p \in Procs : proc'[p].pc \notin Syncing \cup {"save"}
    BY <1>1, <2>1
  <2> QED
    BY <1>4, <2>3, <2>4 DEF Faultless, Syncing
<1> QED
  BY <1>6, <1>7, <1>8, <1>9, <1>10, <1>11 DEF Inv

\* The points from which a task goes on to others without a session, and the
\* idle end of Begin: an open collision is left alone.
LEMMA QuietActionsInv ==
    ASSUME Inv, OneTask, NEW p \in Procs,
           \/ SpotifySync(p) /\ enabled
           \/ SyncRequest(p) \/ (\E i \in Items : AssetSync(p, i)) \/ Refresh(p)
           \/ PollIdle(p) \/ PollRunning(p) \/ FindItem(p) \/ AssetCallFails(p)
           \/ Begin(p) /\ Awaiting(row)
           \/ CallRaises(p) /\ proc[p].pc \notin Syncing
    PROVE  Inv'
<1>1. /\ proc = [x \in Procs |-> proc[x]] /\ IsTask(proc[p])
      /\ faults \in Nat /\ crashes \in Nat
  BY DEF Inv, Shaped
<1>2. \A c : c \notin Busy /\ proc[p].pc \notin Busy =>
         \E r : /\ IsTask(r) /\ r.pc = c
               /\ [proc EXCEPT ![p].pc = c] = [proc EXCEPT ![p] = r]
  <2> TAKE c
  <2> SUFFICES ASSUME c \notin Busy, proc[p].pc \notin Busy
               PROVE  \E r : /\ IsTask(r) /\ r.pc = c
                             /\ [proc EXCEPT ![p].pc = c] = [proc EXCEPT ![p] = r]
    OBVIOUS
  <2>1. PICK r : r = [proc[p] EXCEPT !.pc = c]
    OBVIOUS
  <2>2. IsTask(r) /\ r.pc = c
    BY <1>1, <2>1 DEF IsTask, Busy
  <2>3. [proc EXCEPT ![p].pc = c] = [proc EXCEPT ![p] = r]
    BY <2>1
  <2> QED
    BY <2>2, <2>3
<1>3. CASE (SpotifySync(p) /\ enabled) \/ SyncRequest(p) \/ Refresh(p) \/ PollIdle(p)
  <2>1. PICK c \in {"begin", "poll", "find"} : proc' = [proc EXCEPT ![p].pc = c]
    BY <1>3 DEF SpotifySync, SyncRequest, Refresh, PollIdle, Goto
  <2>2. proc[p].pc \notin Busy /\ c \notin Busy
    BY <1>3, <2>1 DEF SpotifySync, SyncRequest, Refresh, PollIdle, At, Busy, Syncing
  <2>3. UNCHANGED <<platform, row, server, own, foreign, faults, crashes>>
    BY <1>3 DEF SpotifySync, SyncRequest, Refresh, PollIdle, settings, remote, bounds
  <2>4. PICK r : IsTask(r) /\ r.pc = c /\ proc' = [proc EXCEPT ![p] = r]
    BY <1>2, <2>1, <2>2
  <2> QED
    BY <1>1, <2>2, <2>3, <2>4, QuietStep
<1>4. CASE \E i \in Items : AssetSync(p, i)
  <2>1. PICK r : /\ \E i \in Items : r = [IdleTask EXCEPT !.pc = "refresh", !.item = {i}]
                 /\ proc' = [proc EXCEPT ![p] = r]
    BY <1>4 DEF AssetSync
  <2>2. IsTask(r) /\ r.pc = "refresh"
    <3>1. PICK i : r = [IdleTask EXCEPT !.pc = "refresh", !.item = {i}]
      BY <2>1
    <3>2. r = [pc |-> "refresh", loaded |-> NewRow, ids |-> <<>>, as |-> Never,
               made |-> NoId, dups |-> 0, item |-> {i}, polls |-> 0]
      BY <3>1 DEF IdleTask
    <3> QED
      BY <3>2 DEF IsTask, Busy, Syncing
  <2>3. proc[p].pc \notin Busy /\ "refresh" \notin Busy
    BY <1>4 DEF AssetSync, At, Busy, Syncing
  <2>4. UNCHANGED <<platform, row, server, own, foreign, faults, crashes>>
    BY <1>4 DEF AssetSync, settings, remote, bounds
  <2>5. proc' = [proc EXCEPT ![p] = r] /\ proc[p].pc \notin Busy /\ r.pc \notin Busy
    BY <2>1, <2>2, <2>3
  <2> QED
    BY <1>1, <2>2, <2>4, <2>5, QuietStep
<1>5. CASE PollRunning(p) /\ proc[p].polls + 1 < PollAttempts
  <2>1. PICK r : /\ r = [proc[p] EXCEPT !.polls = proc[p].polls + 1]
                 /\ proc' = [proc EXCEPT ![p] = r] /\ proc[p].pc = "poll"
    BY <1>1, <1>5 DEF PollRunning, At, IsTask
  <2>2. IsTask(r) /\ r.pc = "poll"
    BY <1>1, <2>1 DEF IsTask, Busy, Syncing
  <2>3. "poll" \notin Busy /\ proc[p].pc \notin Busy
    BY <2>1 DEF Busy, Syncing
  <2>4. UNCHANGED <<platform, row, server, own, foreign, faults, crashes>>
    BY <1>5 DEF PollRunning, settings, remote, bounds
  <2>5. proc' = [proc EXCEPT ![p] = r] /\ proc[p].pc \notin Busy /\ r.pc \notin Busy
    BY <2>1, <2>2, <2>3
  <2> QED
    BY <1>1, <2>2, <2>4, <2>5, QuietStep
<1>6. CASE \/ PollRunning(p) /\ ~(proc[p].polls + 1 < PollAttempts)
           \/ AssetCallFails(p)
           \/ CallRaises(p) /\ proc[p].pc \notin Syncing
           \/ Begin(p) /\ Awaiting(row)
  <2>1. proc' = [proc EXCEPT ![p] = IdleTask]
    BY <1>6 DEF PollRunning, AssetCallFails, CallRaises, Begin
  <2>2. proc[p].pc \notin Busy /\ IdleTask.pc \notin Busy
    BY <1>6, IdleFacts DEF PollRunning, AssetCallFails, CallRaises, Begin, At, Busy, Syncing
  <2>3. UNCHANGED <<platform, row, server, own, foreign, crashes>>
    BY <1>6 DEF PollRunning, AssetCallFails, CallRaises, Begin, LostAnswer, At, Syncing,
               settings, remote, bounds
  <2>4. faults' = faults \/ faults' = faults + 1
    BY <1>6 DEF PollRunning, AssetCallFails, CallRaises, Begin, bounds
  <2>5. faults' \in Nat /\ faults' >= faults /\ crashes' \in Nat /\ crashes' >= crashes
    BY <1>1, <2>3, <2>4
  <2> QED
    BY <2>1, <2>2, <2>3, <2>5, IdleFacts, QuietStep
<1>7. CASE FindItem(p)
  <2>1. PICK r : /\ r = [IdleTask EXCEPT !.pc = "begin"]
                 /\ proc' = [proc EXCEPT ![p] = r]
    BY <1>7 DEF FindItem
  <2>2. IsTask(r) /\ r.pc = "begin"
    <3>1. r = [pc |-> "begin", loaded |-> NewRow, ids |-> <<>>, as |-> Never,
               made |-> NoId, dups |-> 0, item |-> {}, polls |-> 0]
      BY <2>1 DEF IdleTask
    <3> QED
      BY <3>1 DEF IsTask, Busy, Syncing
  <2>3. proc[p].pc \notin Busy /\ "begin" \notin Busy
    BY <1>7 DEF FindItem, At, Busy, Syncing
  <2>4. UNCHANGED <<platform, row, server, own, foreign, faults, crashes>>
    BY <1>7 DEF FindItem, settings, remote, bounds
  <2>5. proc' = [proc EXCEPT ![p] = r] /\ proc[p].pc \notin Busy /\ r.pc \notin Busy
    BY <2>1, <2>2, <2>3
  <2> QED
    BY <1>1, <2>2, <2>4, <2>5, QuietStep
<1> QED
  BY <1>3, <1>4, <1>5, <1>6, <1>7

-----------------------------------------------------------------------------
(* A sync, call by call *)

\* The task goes on; the row and the server are as they were.
LEMMA InnerStep ==
    ASSUME Inv, OneTask, NEW p \in Procs, NEW r, IsTask(r), Remembers(r),
           proc' = [proc EXCEPT ![p] = r],
           UNCHANGED <<platform, row, server, own, foreign, faults, crashes>>,
           proc[p].pc \in {"count", "save"} =>
              r.pc \in {"count", "save"} /\ r.made = proc[p].made,
           r.pc \notin Ahead \ {"delete"} => proc[p].pc \notin Ahead \ {"delete"},
           r.pc \notin Ahead => proc[p].pc \notin Ahead,
           faults + crashes = 0 /\ r.pc \in {"count", "save"} =>
              /\ server[r.made] = [on |-> TRUE, name |-> r.as, items |-> Stored(r.ids)]
              /\ r.pc = "save" => r.dups = Len(r.ids) - Len(Stored(r.ids))
    PROVE  Inv'
<1>1. Procs = {p} /\ proc'[p] = r /\ proc' = [x \in Procs |-> proc'[x]]
  BY Moves DEF Inv
<1>2. Shaped'
  BY <1>1 DEF Inv, Shaped
<1>3. RowFacts' /\ Numbered'
  BY DEF Inv, RowFacts, Numbered, Exists
<1>4. \A x \in Procs : Remembers(proc[x])'
  BY <1>1 DEF Remembers, Exists
<1>5. LostAreFaults'
  <2>1. Lost' \subseteq Lost
    BY <1>1 DEF Lost, Exists
  <2>2. faults' >= faults /\ crashes' >= crashes
    BY DEF Inv, Shaped
  <2> QED
    BY <1>2, <2>1, <2>2, LostShrinks DEF Inv
<1>6. Faultless'
  <2> SUFFICES ASSUME (faults + crashes = 0)' PROVE Faultless'
    BY DEF Faultless
  <2>1. /\ row.live /\ row.ext # NoId /\ r.pc \notin Ahead \ {"delete"} => Exists(row.ext)
        /\ row.live /\ row.snap # <<Never>> /\ r.pc \notin Ahead => Shows(row)
    BY <1>1 DEF Inv, Faultless
  <2>2. /\ (row.live /\ row.ext # NoId)' /\ r.pc \notin Ahead \ {"delete"} => Exists(row.ext)'
        /\ (row.live /\ row.snap # <<Never>>)' /\ r.pc \notin Ahead => Shows(row)'
    BY <2>1 DEF Exists, Shows, Stored
  <2>3. r.pc \in {"count", "save"} =>
           server'[r.made] = [on |-> TRUE, name |-> r.as, items |-> Stored(r.ids)']
    BY DEF Stored
  <2>4. r.pc = "save" => r.dups = Len(r.ids) - Len(Stored(r.ids)')
    BY DEF Stored
  <2> QED
    BY <1>1, <2>2, <2>3, <2>4 DEF Faultless
<1> QED
  BY <1>2, <1>3, <1>4, <1>5, <1>6 DEF Inv

\* The row a session writes is the row: nothing has changed it under the sync.
LEMMA Commits ==
    ASSUME Inv, OneTask, NEW p \in Procs, proc[p].pc \in Busy,
           NEW new, IsRow(new), Commit(p, new)
    PROVE  /\ row' = new /\ Procs = {p} /\ proc'[p] = IdleTask
           /\ proc' = [x \in Procs |-> proc'[x]]
<1>1. Procs = {p} /\ proc'[p] = IdleTask /\ proc' = [x \in Procs |-> proc'[x]]
  BY Moves DEF Inv, Commit
<1>2. proc[p].loaded = IF row.live THEN row ELSE NewRow
  BY DEF Inv, Remembers
<1>3. row' = Merged(proc[p].loaded, new)
  BY DEF Commit
<1>4. new = [c \in DOMAIN new |-> new[c]]
  BY DEF IsRow
<1>5. CASE ~row.live
  BY <1>1, <1>3, <1>5 DEF Merged
<1>6. CASE row.live
  <2>1. row' = [c \in DOMAIN new |-> IF new[c] # row[c] THEN new[c] ELSE row[c]]
    BY <1>2, <1>3, <1>6 DEF Merged
  <2>2. \A c \in DOMAIN new : (IF new[c] # row[c] THEN new[c] ELSE row[c]) = new[c]
    OBVIOUS
  <2>3. row' = [c \in DOMAIN new |-> new[c]]
    BY <2>1, <2>2
  <2> QED
    BY <1>1, <1>4, <2>3
<1> QED
  BY <1>5, <1>6

\* What a session works with.
LEMMA Session ==
    ASSUME Inv, NEW p \in Procs, proc[p].pc \in Busy
    PROVE  LET r == proc[p].loaded IN
           /\ IsRow(r) /\ r.live /\ r.ext \in Ids \cup {NoId} /\ r.state # "needs_resolution"
           /\ r.ext = NoId => ~r.adopted /\ r.snap = <<Never>>
           /\ r.ext # NoId => r = row /\ row.live
           /\ row.live => r = row
           /\ r.ext \notin own \cup {NoId} => r.adopted
           /\ proc[p].pc \in {"count", "save"} => proc[p].made \in own /\ proc[p].made \in Ids
<1>1. Remembers(proc[p]) /\ IsTask(proc[p]) /\ own \subseteq Ids /\ RowFacts
  BY DEF Inv, Shaped
<1>2. IsRow(proc[p].loaded) /\ proc[p].loaded.live
  BY <1>1, NewRowFacts DEF IsTask, Remembers
<1>3. proc[p].pc \in {"count", "save"} => proc[p].made \in own /\ proc[p].made \in Ids
  BY <1>1 DEF Remembers
<1>4. CASE row.live
  BY <1>1, <1>2, <1>3, <1>4 DEF Remembers, RowFacts
<1>5. CASE ~row.live
  BY <1>1, <1>2, <1>3, <1>5, NewRowFacts DEF Remembers
<1> QED
  BY <1>4, <1>5

\* A session ends with a commit.
LEMMA EndStep ==
    ASSUME Inv, OneTask, NEW p \in Procs, proc[p].pc \in Busy,
           NEW new, IsRow(new), Commit(p, new), UNCHANGED foreign,
           server' = [d \in Ids |-> server'[d]],
           \A d \in Ids : server'[d] = NoPlaylist \/ IsPlaylist(server'[d]),
           own' \subseteq Ids, faults' \in Nat, crashes' \in Nat
    PROVE  Shaped' /\ (\A x \in Procs : Remembers(proc[x])')
<1>1. /\ row' = new /\ Procs = {p} /\ proc'[p] = IdleTask
      /\ proc' = [x \in Procs |-> proc'[x]]
  BY Commits
<1>2. Shaped'
  BY <1>1, IdleFacts DEF Inv, Shaped
<1>3. \A x \in Procs : Remembers(proc[x])'
  BY <1>1, IdleFacts DEF Remembers, Busy, Syncing
<1> QED
  BY <1>2, <1>3

\* A missing row is made; a row whose collision is open is left alone.
LEMMA BeginInv ==
    ASSUME Inv, OneTask, NEW p \in Procs, Begin(p), ~Awaiting(row)
    PROVE  Inv'
<1>1. PICK r : /\ r = [proc[p] EXCEPT !.pc = "resolve", !.as = name,
                                      !.loaded = IF row.live THEN row ELSE NewRow]
               /\ proc' = [proc EXCEPT ![p] = r] /\ proc[p].pc = "begin"
  BY ZenonT(60) DEF Begin, At
<1>2. IsTask(proc[p]) /\ (row = NoRow \/ IsRow(row)) /\ RowFacts
  BY DEF Inv, Shaped
<1>3. r.loaded = (IF row.live THEN row ELSE NewRow) /\ r.pc = "resolve"
  BY <1>1, <1>2 DEF IsTask
<1>4. IsRow(r.loaded)
  BY <1>2, <1>3, NewRowFacts
<1>5. IsTask(r)
  BY <1>1, <1>2, <1>3, <1>4 DEF IsTask
<1>6. Remembers(r)
  BY <1>2, <1>3, NewRowFacts DEF Remembers, RowFacts, Awaiting
<1>7. UNCHANGED <<platform, row, server, own, foreign, faults, crashes>>
  BY DEF Begin, settings, remote, bounds
<1>8. /\ proc[p].pc \notin {"count", "save"} /\ proc[p].pc \notin Ahead
      /\ r.pc \notin {"count", "save"}
  BY <1>1, <1>3 DEF Ahead
<1>9. proc' = [proc EXCEPT ![p] = r]
  BY <1>1
<1> QED
  BY <1>5, <1>6, <1>7, <1>8, <1>9, InnerStep

LEMMA ResolveInv ==
    ASSUME Inv, OneTask, NEW p \in Procs, Resolve(p)
    PROVE  Inv'
<1>1. PICK r : r = proc[p].loaded
  OBVIOUS
<1>2. proc[p].pc = "resolve" /\ proc[p].pc \in Busy
  BY DEF Resolve, At, Busy, Syncing
<1>3. UNCHANGED <<platform, server, own, foreign, faults, crashes>>
  BY DEF Resolve, settings, remote, bounds
<1>4. /\ IsRow(r) /\ r.live /\ r.ext \in Ids \cup {NoId} /\ r.state # "needs_resolution"
      /\ r.ext # NoId => r = row /\ row.live
      /\ r.ext \notin own \cup {NoId} => r.adopted
  BY <1>1, <1>2, Session
<1>5. CASE r.ext # NoId /\ Commit(p, [r EXCEPT !.state = "synced"])
  <2>1. PICK new : new = [r EXCEPT !.state = "synced"] /\ Commit(p, new)
    BY <1>5
  <2>2. /\ IsRow(new) /\ new.live /\ new.state = "synced" /\ new.ext = r.ext /\ new.name = r.name
        /\ new.adopted = r.adopted /\ new.snap = r.snap /\ new.dups = r.dups
    BY <1>4, <2>1 DEF IsRow
  <2>3. Shaped' /\ (\A x \in Procs : Remembers(proc[x])')
    BY <1>2, <1>3, <2>1, <2>2, EndStep DEF Inv, Shaped
  <2>4. row' = new /\ Procs = {p} /\ proc'[p] = IdleTask
    BY <1>2, <2>1, <2>2, Commits
  <2>5. r = row /\ row.live /\ row.ext # NoId
    BY <1>4, <1>5
  <2>6. RowFacts'
    BY <1>3, <1>4, <2>2, <2>4, <2>5 DEF RowFacts
  <2>7. Numbered'
    BY <1>3, <2>2, <2>4, <2>5 DEF Inv, Numbered, Exists
  <2>8. LostAreFaults'
    <3>1. Lost' \subseteq Lost
      BY <1>2, <1>3, <1>4, <2>2, <2>4, <2>5 DEF Lost, Exists
    <3>2. faults' >= faults /\ crashes' >= crashes
      BY <1>3 DEF Inv, Shaped
    <3> QED
      BY <2>3, <3>1, <3>2, LostShrinks DEF Inv
  <2>9. Faultless'
    <3> SUFFICES ASSUME (faults + crashes = 0)' PROVE Faultless'
      BY DEF Faultless
    <3>1. /\ Exists(row.ext)
          /\ row.snap # <<Never>> => Shows(row)
      BY <1>2, <1>3, <2>4, <2>5 DEF Inv, Faultless, Ahead
    <3>2. /\ Exists(row.ext)'
          /\ (row.snap # <<Never>> => Shows(row))'
      BY <1>3, <2>2, <2>4, <2>5, <3>1 DEF Exists, Shows, Stored
    <3> QED
      BY <2>4, <3>2, IdleFacts DEF Faultless
  <2> QED
    BY <2>3, <2>6, <2>7, <2>8, <2>9 DEF Inv
<1>6. CASE /\ UNCHANGED row
           /\ \E ids : proc' = [proc EXCEPT
                 ![p].pc = IF r.ext = NoId THEN "list"
                           ELSE IF r.name # proc[p].as THEN "rename" ELSE "delete",
                 ![p].ids = ids]
  <2>1. PICK c, ids : /\ c = IF r.ext = NoId THEN "list"
                             ELSE IF r.name # proc[p].as THEN "rename" ELSE "delete"
                      /\ proc' = [proc EXCEPT ![p].pc = c, ![p].ids = ids]
    BY <1>6
  <2>2. PICK m : /\ m = [proc[p] EXCEPT !.pc = c, !.ids = ids]
                 /\ proc' = [proc EXCEPT ![p] = m]
    BY <2>1
  <2>3. IsTask(proc[p]) /\ Remembers(proc[p])
    BY DEF Inv, Shaped
  <2>4. m.pc = c /\ m.loaded = r
    BY <1>1, <2>2, <2>3 DEF IsTask
  <2>5. c \in {"list", "rename", "delete"}
    BY <2>1
  <2>6. IsTask(m)
    BY <1>2, <1>4, <2>2, <2>3, <2>4, <2>5 DEF IsTask
  <2>7. Remembers(m)
    BY <1>1, <1>2, <2>1, <2>3, <2>4, <2>5 DEF Remembers
  <2>8. proc[p].pc \notin {"count", "save"} /\ proc[p].pc \notin Ahead
        /\ m.pc \notin {"count", "save"}
    BY <1>2, <2>4, <2>5 DEF Ahead
  <2>9. proc' = [proc EXCEPT ![p] = m] /\ UNCHANGED row
    BY <1>6, <2>2
  <2> QED
    BY <1>3, <2>6, <2>7, <2>8, <2>9, InnerStep
<1> QED
  BY <1>1, <1>5, <1>6 DEF Resolve

\* A playlist of that name becomes the question to the operator.
LEMMA ListNamesInv ==
    ASSUME Inv, OneTask, NEW p \in Procs, ListNames(p)
    PROVE  Inv'
<1>1. PICK r : r = proc[p].loaded
  OBVIOUS
<1>2. proc[p].pc = "list" /\ proc[p].pc \in Busy
  BY DEF ListNames, At, Busy, Syncing
<1>3. UNCHANGED <<platform, server, own, foreign, faults, crashes>>
  BY DEF ListNames, settings, remote, bounds
<1>4. /\ IsRow(r) /\ r.live /\ r.state # "needs_resolution" /\ r.ext = NoId
      /\ ~r.adopted /\ r.snap = <<Never>>
      /\ row.live => r = row
  <2>1. r.ext = NoId
    BY <1>1, <1>2 DEF Inv, Remembers, Busy
  <2> QED
    BY <1>1, <1>2, <2>1, Session
<1>5. CASE \/ \E d \in Ids : Exists(d) /\ Commit(p, [r EXCEPT !.state = "needs_resolution", !.ext = d])
           \/ Commit(p, [r EXCEPT !.state = "pending"])
  <2>1. PICK new : /\ Commit(p, new)
                   /\ \/ \E d \in Ids : /\ Exists(d)
                                        /\ new = [r EXCEPT !.state = "needs_resolution", !.ext = d]
                      \/ new = [r EXCEPT !.state = "pending"]
    BY <1>5
  <2>2. /\ IsRow(new) /\ new.live /\ ~new.adopted /\ new.snap = <<Never>>
        /\ \/ new.ext \in Ids /\ Exists(new.ext) /\ new.state = "needs_resolution"
           \/ new.ext = NoId /\ new.state = "pending"
    <3>1. CASE new = [r EXCEPT !.state = "pending"]
      BY <1>4, <3>1 DEF IsRow
    <3>2. CASE \E d \in Ids : Exists(d) /\ new = [r EXCEPT !.state = "needs_resolution", !.ext = d]
      <4>1. PICK d \in Ids : Exists(d) /\ new = [r EXCEPT !.state = "needs_resolution", !.ext = d]
        BY <3>2
      <4>2. /\ IsRow(new) /\ new.live /\ ~new.adopted /\ new.snap = <<Never>>
            /\ new.ext = d /\ new.state = "needs_resolution"
        BY <1>4, <4>1 DEF IsRow
      <4> QED
        BY <4>1, <4>2
    <3> QED
      BY <2>1, <3>1, <3>2
  <2>3. Shaped' /\ (\A x \in Procs : Remembers(proc[x])')
    BY <1>2, <1>3, <2>1, <2>2, EndStep DEF Inv, Shaped
  <2>4. row' = new /\ Procs = {p} /\ proc'[p] = IdleTask
    BY <1>2, <2>1, <2>2, Commits
  <2>5. row.live => row.ext = NoId
    BY <1>4
  <2>6. RowFacts'
    BY <1>3, <2>2, <2>4, Constants DEF RowFacts
  <2>7. Numbered'
    <3> SUFFICES ASSUME NEW d \in Ids, (Exists(d) \/ d \in own \/ (row.live /\ row.ext = d))'
                 PROVE  (d <= foreign + Cardinality(own))'
      BY DEF Numbered
    <3>1. Exists(d) \/ d \in own
      BY <1>3, <2>2, <2>4, Constants DEF Exists
    <3> QED
      BY <1>3, <3>1 DEF Inv, Numbered
  <2>8. LostAreFaults'
    <3>1. Lost' \subseteq Lost
      <4> SUFFICES ASSUME NEW d \in Lost' PROVE d \in Lost
        OBVIOUS
      <4>1. d \in own /\ Exists(d) /\ d \in Ids
        BY <1>3 DEF Lost, Exists, Inv, Shaped
      <4>2. ~(row.live /\ row.ext = d)
        BY <2>5, <4>1, Constants
      <4> QED
        BY <1>2, <2>4, <4>1, <4>2 DEF Lost
    <3>2. faults' >= faults /\ crashes' >= crashes
      BY <1>3 DEF Inv, Shaped
    <3> QED
      BY <2>3, <3>1, <3>2, LostShrinks DEF Inv
  <2>9. Faultless'
    BY <1>3, <2>2, <2>4, IdleFacts DEF Faultless, Exists
  <2> QED
    BY <2>3, <2>6, <2>7, <2>8, <2>9 DEF Inv
<1>6. CASE Goto(p, "create") /\ UNCHANGED row
  <2>1. PICK m : /\ m = [proc[p] EXCEPT !.pc = "create"]
                 /\ proc' = [proc EXCEPT ![p] = m]
    BY <1>6 DEF Goto
  <2>2. IsTask(proc[p]) /\ Remembers(proc[p])
    BY DEF Inv, Shaped
  <2>3. m.pc = "create" /\ m.loaded = r
    BY <1>1, <2>1, <2>2 DEF IsTask
  <2>4. IsTask(m)
    BY <1>2, <1>4, <2>1, <2>2, <2>3 DEF IsTask
  <2>5. Remembers(m)
    BY <1>1, <1>2, <1>4, <2>2, <2>3 DEF Remembers, Busy, Syncing
  <2>6. proc[p].pc \notin {"count", "save"} /\ proc[p].pc \notin Ahead
        /\ m.pc \notin {"count", "save"}
    BY <1>2, <2>3 DEF Ahead
  <2>7. proc' = [proc EXCEPT ![p] = m] /\ UNCHANGED row
    BY <1>6, <2>1
  <2> QED
    BY <1>3, <2>4, <2>5, <2>6, <2>7, InnerStep
<1> QED
  BY <1>1, <1>5, <1>6 DEF ListNames

\* A rename leaves a playlist a playlist.
LEMMA Renamed ==
    ASSUME NEW s, IsPlaylist(s), NEW n
    PROVE  IsPlaylist([s EXCEPT !.name = n]) /\ [s EXCEPT !.name = n].on
<1>1. PICK a, b : s = [on |-> TRUE, name |-> a, items |-> b]
  BY DEF IsPlaylist
<1>2. PICK r : r = [s EXCEPT !.name = n]
  OBVIOUS
<1>3. r = [on |-> TRUE, name |-> n, items |-> b]
  BY <1>1, <1>2
<1>4. r.on = TRUE /\ r.name = n /\ r.items = b
  BY <1>3
<1> QED
  BY <1>2, <1>3, <1>4 DEF IsPlaylist

LEMMA RenameInv ==
    ASSUME Inv, OneTask, NEW p \in Procs, Rename(p)
    PROVE  Inv'
<1>1. PICK t : t = proc[p].loaded.ext
  OBVIOUS
<1>2. /\ proc[p].pc = "rename" /\ proc[p].pc \in Busy
      /\ server[t].on
      /\ server' = [server EXCEPT ![t].name = proc[p].as]
  BY <1>1 DEF Rename, At, Busy, Syncing, Exists, Target, ServerRename
<1>3. UNCHANGED <<platform, row, own, foreign, faults, crashes>>
  BY DEF Rename, settings, bounds
<1>4. IsTask(proc[p]) /\ Remembers(proc[p]) /\ t # NoId /\ t \in Ids /\ row.live /\ row.ext = t
      /\ IsRow(proc[p].loaded) /\ proc[p].loaded.ext = t
  <2>1. IsTask(proc[p]) /\ Remembers(proc[p])
    BY DEF Inv, Shaped
  <2>2. t # NoId
    BY <1>1, <1>2, <2>1 DEF Remembers
  <2> QED
    BY <1>1, <1>2, <2>1, <2>2, Session
<1>5. PICK m : m = [proc[p] EXCEPT !.pc = "delete"] /\ proc' = [proc EXCEPT ![p] = m]
  BY DEF Rename, Goto
<1>6. m.pc = "delete" /\ m.loaded = proc[p].loaded
  BY <1>4, <1>5 DEF IsTask
<1>7. IsTask(m)
  BY <1>2, <1>4, <1>5, <1>6 DEF IsTask
<1>8. Procs = {p} /\ proc'[p] = m /\ proc' = [x \in Procs |-> proc'[x]]
  BY <1>5, Moves DEF Inv
<1>9. /\ server' = [d \in Ids |-> server'[d]]
      /\ \A d \in Ids \ {t} : server'[d] = server[d]
      /\ IsPlaylist(server'[t]) /\ server'[t].on
  <2>1. IsPlaylist(server[t])
    BY <1>2, <1>4, NewRowFacts DEF Inv, Shaped
  <2>2. PICK s, n : /\ s = server[t] /\ n = proc[p].as
                    /\ server'[t] = [s EXCEPT !.name = n]
    BY <1>2, <1>4 DEF Inv, Shaped
  <2>3. IsPlaylist(server'[t]) /\ server'[t].on
    <3>1. IsPlaylist([s EXCEPT !.name = n]) /\ [s EXCEPT !.name = n].on
      BY <2>1, <2>2, Renamed
    <3> QED
      BY <2>2, <3>1
  <2> QED
    BY <1>2, <1>4, <2>3 DEF Inv, Shaped
<1>10. \A d \in Ids : Exists(d)' = Exists(d)
  <2>1. \A d \in Ids \ {t} : server'[d].on = server[d].on
    BY <1>9
  <2>2. server'[t].on = TRUE /\ server[t].on = TRUE
    <3>1. IsPlaylist(server'[t]) /\ IsPlaylist(server[t])
      BY <1>2, <1>4, <1>9, NewRowFacts DEF Inv, Shaped
    <3> QED
      BY <3>1 DEF IsPlaylist
  <2> QED
    BY <2>1, <2>2 DEF Exists
<1>11. Shaped'
  BY <1>3, <1>7, <1>8, <1>9 DEF Inv, Shaped
<1>12. RowFacts' /\ Numbered'
  BY <1>3, <1>10 DEF Inv, RowFacts, Numbered
<1>13. \A x \in Procs : Remembers(proc[x])'
  BY <1>2, <1>3, <1>4, <1>6, <1>8 DEF Remembers, Busy, Syncing
<1>14. LostAreFaults'
  <2>1. Lost' \subseteq Lost
    BY <1>2, <1>3, <1>8, <1>10 DEF Lost, Inv, Shaped
  <2>2. faults' >= faults /\ crashes' >= crashes
    BY <1>3 DEF Inv, Shaped
  <2> QED
    BY <1>11, <2>1, <2>2, LostShrinks DEF Inv
<1>15. Faultless'
  <2>1. Exists(row.ext)'
    BY <1>3, <1>4, <1>9 DEF Exists
  <2> QED
    BY <1>6, <1>8, <2>1 DEF Faultless, Ahead
<1> QED
  BY <1>11, <1>12, <1>13, <1>14, <1>15 DEF Inv

LEMMA DeleteInv ==
    ASSUME Inv, OneTask, NEW p \in Procs, Delete(p)
    PROVE  Inv'
<1>1. PICK t : t = proc[p].loaded.ext
  OBVIOUS
<1>2. /\ proc[p].pc = "delete" /\ proc[p].pc \in Busy
      /\ server' = [server EXCEPT ![t] = NoPlaylist]
  BY <1>1 DEF Delete, At, Busy, Syncing, Exists, Target, ServerDelete
<1>3. UNCHANGED <<platform, row, own, foreign, faults, crashes>>
  BY DEF Delete, settings, bounds
<1>4. IsTask(proc[p]) /\ Remembers(proc[p]) /\ t # NoId /\ t \in Ids /\ row.live /\ row.ext = t
      /\ IsRow(proc[p].loaded) /\ proc[p].loaded.ext = t
  <2>1. IsTask(proc[p]) /\ Remembers(proc[p])
    BY DEF Inv, Shaped
  <2>2. t # NoId
    BY <1>1, <1>2, <2>1 DEF Remembers
  <2> QED
    BY <1>1, <1>2, <2>1, <2>2, Session
<1>5. PICK m : m = [proc[p] EXCEPT !.pc = "create"] /\ proc' = [proc EXCEPT ![p] = m]
  BY DEF Delete, Goto
<1>6. m.pc = "create" /\ m.loaded = proc[p].loaded
  BY <1>4, <1>5 DEF IsTask
<1>7. IsTask(m)
  BY <1>2, <1>4, <1>5, <1>6 DEF IsTask
<1>8. Procs = {p} /\ proc'[p] = m /\ proc' = [x \in Procs |-> proc'[x]]
  BY <1>5, Moves DEF Inv
<1>9. /\ server' = [d \in Ids |-> server'[d]]
      /\ \A d \in Ids \ {t} : server'[d] = server[d]
      /\ server'[t] = NoPlaylist
  BY <1>2, <1>4 DEF Inv, Shaped
<1>10. (\A d \in Ids : Exists(d)' => Exists(d)) /\ ~Exists(t)'
  BY <1>9, NewRowFacts DEF Exists
<1>11. Shaped'
  BY <1>3, <1>7, <1>8, <1>9 DEF Inv, Shaped
<1>12. RowFacts' /\ Numbered'
  BY <1>3, <1>10 DEF Inv, RowFacts, Numbered
<1>13. \A x \in Procs : Remembers(proc[x])'
  <2>1. ~(Exists(m.loaded.ext))'
    BY <1>4, <1>6, <1>10 DEF Exists
  <2> QED
    BY <1>2, <1>3, <1>4, <1>6, <1>8, <2>1 DEF Remembers, Busy, Syncing, Exists
<1>14. LostAreFaults'
  <2>1. Lost' \subseteq Lost
    BY <1>2, <1>3, <1>8, <1>10 DEF Lost, Inv, Shaped
  <2>2. faults' >= faults /\ crashes' >= crashes
    BY <1>3 DEF Inv, Shaped
  <2> QED
    BY <1>11, <2>1, <2>2, LostShrinks DEF Inv
<1>15. Faultless'
  BY <1>6, <1>8 DEF Faultless, Ahead
<1> QED
  BY <1>11, <1>12, <1>13, <1>14, <1>15 DEF Inv

\* The new playlist has an id nobody knows yet.
LEMMA CreateInv ==
    ASSUME Inv, OneTask, NEW p \in Procs, Create(p)
    PROVE  Inv'
<1>1. PICK d \in Free :
         /\ server' = [server EXCEPT ![d] = [on |-> TRUE, name |-> proc[p].as,
                                             items |-> Stored(proc[p].ids)]]
         /\ own' = own \cup {d}
         /\ proc' = [proc EXCEPT ![p].made = d,
                                 ![p].pc = IF platform = "plex" THEN "count" ELSE "save"]
  BY DEF Create, ServerCreate
<1>2. /\ d \in Ids /\ ~Exists(d) /\ d \notin own /\ ~(row.live /\ row.ext = d)
      /\ d = foreign + Cardinality(own) + 1
      /\ Cardinality(own \cup {d}) = Cardinality(own) + 1
  BY <1>1, FreeIsNew DEF Inv
<1>3. proc[p].pc = "create" /\ proc[p].pc \in Busy
  BY DEF Create, At, Busy, Syncing
<1>4. UNCHANGED <<platform, row, foreign, faults, crashes>>
  BY DEF Create, settings, bounds
<1>5. IsTask(proc[p]) /\ Remembers(proc[p]) /\ IsRow(proc[p].loaded)
  BY <1>3 DEF Inv, Shaped, IsTask
<1>6. PICK c : c = IF platform = "plex" THEN "count" ELSE "save"
  OBVIOUS
<1>7. PICK m : m = [proc[p] EXCEPT !.made = d, !.pc = c] /\ proc' = [proc EXCEPT ![p] = m]
  BY <1>1, <1>6
<1>8. /\ m.pc = c /\ m.loaded = proc[p].loaded /\ m.made = d /\ m.as = proc[p].as
      /\ m.ids = proc[p].ids /\ m.dups = 0
  BY <1>3, <1>5, <1>7 DEF IsTask
<1>9. IsTask(m)
  BY <1>3, <1>5, <1>7, <1>8 DEF IsTask
<1>10. Procs = {p} /\ proc'[p] = m /\ proc' = [x \in Procs |-> proc'[x]]
  BY <1>7, Moves DEF Inv
<1>11. /\ server' = [x \in Ids |-> server'[x]]
       /\ \A x \in Ids \ {d} : server'[x] = server[x]
       /\ server'[d] = [on |-> TRUE, name |-> m.as, items |-> Stored(m.ids)]
  BY <1>1, <1>2, <1>8 DEF Inv, Shaped
<1>12. IsPlaylist(server'[d])
  BY <1>11 DEF IsPlaylist
<1>13. Shaped'
  BY <1>1, <1>2, <1>4, <1>9, <1>10, <1>11, <1>12 DEF Inv, Shaped
<1>14. RowFacts'
  BY <1>1, <1>4 DEF Inv, RowFacts
<1>15. \A x \in Ids \ {d} : Exists(x)' = Exists(x)
  BY <1>11 DEF Exists
<1>16. \A x \in Procs : Remembers(proc[x])'
  <2>1. m.loaded.ext = NoId \/ ~Exists(m.loaded.ext)'
    <3>1. m.loaded.ext # NoId => m.loaded.ext \in Ids \ {d}
      BY <1>2, <1>3, <1>8, Session
    <3>2. m.loaded.ext # NoId => server'[m.loaded.ext] = server[m.loaded.ext]
      BY <1>11, <3>1
    <3>3. m.loaded.ext = NoId \/ ~Exists(m.loaded.ext)
      BY <1>3, <1>5, <1>8 DEF Remembers
    <3>4. m.loaded.ext # NoId => ~(server'[m.loaded.ext].on)
      BY <3>2, <3>3 DEF Exists
    <3> QED
      BY <3>4 DEF Exists
  <2>2. c \in {"count", "save"} /\ c \in Busy
    BY <1>6 DEF Busy, Syncing
  <2>3. m.loaded = (IF row.live THEN row ELSE NewRow) /\ m.loaded.state # "needs_resolution"
    BY <1>3, <1>5, <1>8 DEF Remembers
  <2>4. m.made \in own'
    BY <1>1, <1>8
  <2> QED
    BY <1>4, <1>8, <1>10, <2>1, <2>2, <2>3, <2>4 DEF Remembers, Exists
<1>17. Numbered'
  <2> SUFFICES ASSUME NEW x \in Ids, (Exists(x) \/ x \in own \/ (row.live /\ row.ext = x))'
               PROVE  (x <= foreign + Cardinality(own))'
    BY DEF Numbered
  <2>1. x \in Nat /\ d \in Nat /\ Cardinality(own) \in Nat /\ foreign \in Nat
    BY <1>2, Constants, Counts DEF Inv, Shaped
  <2>2. x = d \/ x <= foreign + Cardinality(own)
    BY <1>1, <1>4, <1>15 DEF Inv, Numbered
  <2> QED
    BY <1>1, <1>2, <1>4, <2>1, <2>2
<1>18. LostAreFaults'
  <2>1. Lost' \subseteq Lost
    <3> SUFFICES ASSUME NEW x \in Lost' PROVE x \in Lost
      OBVIOUS
    <3>1. c \in {"count", "save"}
      BY <1>6
    <3>2. /\ x \in own' /\ Exists(x)'
          /\ ~(row.live /\ row.ext = x /\ row.state # "needs_resolution")'
          /\ ~(m.pc \in {"count", "save"} /\ m.made = x)
      BY <1>10 DEF Lost
    <3>3. x # d
      BY <1>8, <3>1, <3>2
    <3>4. x \in own /\ x \in Ids /\ Exists(x)
      BY <1>1, <1>15, <3>2, <3>3 DEF Inv, Shaped
    <3> QED
      BY <1>3, <1>4, <1>10, <3>2, <3>4 DEF Lost
  <2>2. faults' >= faults /\ crashes' >= crashes
    BY <1>4 DEF Inv, Shaped
  <2> QED
    BY <1>13, <2>1, <2>2, LostShrinks DEF Inv
<1>19. Faultless'
  <2>1. c \in Ahead \ {"delete"} /\ c \in Ahead
    BY <1>6 DEF Ahead
  <2>2. server'[m.made] = [on |-> TRUE, name |-> m.as, items |-> Stored(m.ids)']
    BY <1>4, <1>8, <1>11 DEF Stored
  <2>3. c = "save" => m.dups = Len(m.ids) - Len(Stored(m.ids)')
    <3>1. c = "save" => Stored(m.ids)' = m.ids
      BY <1>4, <1>6 DEF Stored
    <3>2. Len(m.ids) - Len(m.ids) = 0
      OBVIOUS
    <3> QED
      BY <1>8, <3>1, <3>2
  <2> QED
    BY <1>8, <1>10, <2>1, <2>2, <2>3 DEF Faultless
<1> QED
  BY <1>13, <1>14, <1>16, <1>17, <1>18, <1>19 DEF Inv

LEMMA CountInv ==
    ASSUME Inv, OneTask, NEW p \in Procs, Count(p)
    PROVE  Inv'
<1>1. proc[p].pc = "count"
  BY DEF Count, At
<1>2. UNCHANGED <<platform, row, server, own, foreign, faults, crashes>>
  BY DEF Count, settings, remote, bounds
<1>3. PICK n : n = Len(proc[p].ids) - Len(server[proc[p].made].items)
  OBVIOUS
<1>4. PICK m : m = [proc[p] EXCEPT !.pc = "save", !.dups = n] /\ proc' = [proc EXCEPT ![p] = m]
  BY <1>3 DEF Count
<1>5. IsTask(proc[p]) /\ Remembers(proc[p])
  BY DEF Inv, Shaped
<1>6. /\ m.pc = "save" /\ m.loaded = proc[p].loaded /\ m.made = proc[p].made /\ m.as = proc[p].as
      /\ m.ids = proc[p].ids /\ m.dups = n
  BY <1>4, <1>5 DEF IsTask
<1>7. IsTask(m)
  BY <1>1, <1>4, <1>5, <1>6 DEF IsTask, Busy, Syncing
<1>8. Remembers(m)
  BY <1>1, <1>5, <1>6 DEF Remembers, Busy, Syncing
<1>9. faults + crashes = 0 =>
         /\ server[m.made] = [on |-> TRUE, name |-> m.as, items |-> Stored(m.ids)]
         /\ m.dups = Len(m.ids) - Len(Stored(m.ids))
  <2> SUFFICES ASSUME faults + crashes = 0
               PROVE  /\ server[m.made] = [on |-> TRUE, name |-> m.as, items |-> Stored(m.ids)]
                      /\ m.dups = Len(m.ids) - Len(Stored(m.ids))
    OBVIOUS
  <2>1. server[m.made] = [on |-> TRUE, name |-> m.as, items |-> Stored(m.ids)]
    BY <1>1, <1>6 DEF Inv, Faultless
  <2> QED
    BY <1>3, <1>6, <2>1
<1>10. /\ proc[p].pc \in Ahead \ {"delete"} /\ m.pc \in {"count", "save"}
       /\ m.pc \in Ahead /\ m.pc \in Ahead \ {"delete"}
  BY <1>1, <1>6 DEF Ahead
<1>11. proc' = [proc EXCEPT ![p] = m]
  BY <1>4
<1> QED
  BY <1>2, <1>6, <1>7, <1>8, <1>9, <1>10, <1>11, InnerStep

\* The row takes the id of the playlist made, and forgets the one deleted.
LEMMA SaveInv ==
    ASSUME Inv, OneTask, NEW p \in Procs, Save(p)
    PROVE  Inv'
<1>1. PICK r, m : r = proc[p].loaded /\ m = proc[p]
  OBVIOUS
<1>2. proc[p].pc = "save" /\ proc[p].pc \in Busy
  BY DEF Save, At, Busy, Syncing
<1>3. UNCHANGED <<platform, server, own, foreign, faults, crashes>>
  BY DEF Save, settings, remote, bounds
<1>4. /\ IsRow(r) /\ r.live /\ m.made \in own /\ m.made \in Ids
      /\ r.ext # NoId => r = row /\ row.live
      /\ row.live => r = row
  BY <1>1, <1>2, Session
<1>5. PICK new : /\ new = [r EXCEPT !.ext = m.made, !.name = m.as, !.snap = m.ids,
                                    !.state = "synced", !.dups = m.dups]
                 /\ Commit(p, new)
  BY <1>1 DEF Save
<1>6. /\ IsRow(new) /\ new.live /\ new.ext = m.made /\ new.name = m.as /\ new.snap = m.ids
      /\ new.state = "synced" /\ new.dups = m.dups
  BY <1>4, <1>5 DEF IsRow
<1>7. Shaped' /\ (\A x \in Procs : Remembers(proc[x])')
  BY <1>2, <1>3, <1>5, <1>6, EndStep DEF Inv, Shaped
<1>8. row' = new /\ Procs = {p} /\ proc'[p] = IdleTask
  BY <1>2, <1>5, <1>6, Commits
<1>9. RowFacts'
  BY <1>3, <1>4, <1>6, <1>8, Constants DEF RowFacts
<1>10. Numbered'
  <2> SUFFICES ASSUME NEW d \in Ids, (Exists(d) \/ d \in own \/ (row.live /\ row.ext = d))'
               PROVE  (d <= foreign + Cardinality(own))'
    BY DEF Numbered
  <2>1. Exists(d) \/ d \in own
    BY <1>3, <1>4, <1>6, <1>8 DEF Exists
  <2> QED
    BY <1>3, <2>1 DEF Inv, Numbered
<1>11. LostAreFaults'
  <2>1. Lost' \subseteq Lost
    <3> SUFFICES ASSUME NEW d \in Lost' PROVE d \in Lost
      OBVIOUS
    <3>1. d \in own /\ Exists(d) /\ d \in Ids /\ d # m.made
      BY <1>3, <1>6, <1>8 DEF Lost, Exists, Inv, Shaped
    <3>2. r.ext = NoId \/ ~Exists(r.ext)
      BY <1>1, <1>2 DEF Inv, Remembers, Busy
    <3>3. ~(row.live /\ row.ext = d)
      BY <1>4, <3>1, <3>2, Constants
    <3> QED
      BY <1>1, <1>8, <3>1, <3>3 DEF Lost
  <2>2. faults' >= faults /\ crashes' >= crashes
    BY <1>3 DEF Inv, Shaped
  <2> QED
    BY <1>7, <2>1, <2>2, LostShrinks DEF Inv
<1>12. Faultless'
  <2> SUFFICES ASSUME (faults + crashes = 0)' PROVE Faultless'
    BY DEF Faultless
  <2>1. /\ server[m.made] = [on |-> TRUE, name |-> m.as, items |-> Stored(m.ids)]
        /\ m.dups = Len(m.ids) - Len(Stored(m.ids))
    BY <1>1, <1>2, <1>3 DEF Inv, Faultless
  <2>2. server'[row'.ext] = [on |-> TRUE, name |-> row'.name, items |-> Stored(row'.snap)]
    BY <1>3, <1>6, <1>8, <2>1
  <2>3. row'.dups = Len(row'.snap) - Len(Stored(row'.snap))
    BY <1>6, <1>8, <2>1
  <2>4. Exists(row.ext)'
    BY <2>2 DEF Exists
  <2>5. Shows(row)'
    BY SMTT(60), <1>3, <2>2, <2>3 DEF Shows, Stored
  <2> QED
    BY <1>8, <2>4, <2>5, IdleFacts DEF Faultless
<1> QED
  BY <1>7, <1>9, <1>10, <1>11, <1>12 DEF Inv

-----------------------------------------------------------------------------
(* Failing calls *)

\* A call whose answer is lost may have been carried out, and a playlist made
\* without anybody's knowing is one with a new id.
LEMMA LostAnswers ==
    ASSUME Inv, NEW p \in Procs, proc[p].pc \in Busy, LostAnswer(p),
           UNCHANGED <<platform, foreign>>
    PROVE  /\ server' = [d \in Ids |-> server'[d]]
           /\ \A d \in Ids : server'[d] = NoPlaylist \/ IsPlaylist(server'[d])
           /\ own' \subseteq Ids /\ own \subseteq own'
           /\ \A d \in Ids : d \in own' \ own => ~(row.live /\ row.ext = d)
           /\ \A d \in Ids : Exists(d)' => Exists(d) \/ d \in own' \ own
           /\ \A d \in Ids : d \in own' \/ Exists(d) => d <= foreign + Cardinality(own')
           /\ \A d \in Ids : d <= foreign + Cardinality(own) => d <= foreign + Cardinality(own')
           /\ own' # own => proc[p].pc = "create" /\ \E x : own' \subseteq own \cup {x}
           /\ proc[p].pc = "count" => UNCHANGED <<server, own>>
<1>1. PICK t : t = proc[p].loaded.ext
  OBVIOUS
<1>2. t \in Ids \cup {NoId}
  BY <1>1, Session
<1>3. /\ server = [d \in Ids |-> server[d]]
      /\ \A d \in Ids : server[d] = NoPlaylist \/ IsPlaylist(server[d])
      /\ own \subseteq Ids /\ foreign \in Nat /\ Cardinality(own) \in Nat /\ Ids \subseteq Nat
  BY Counts, Constants DEF Inv, Shaped
<1>4. \A d \in Ids : d \in own \/ Exists(d) => d <= foreign + Cardinality(own)
  BY DEF Inv, Numbered
<1>5. CASE UNCHANGED <<server, own>>
  BY <1>3, <1>4, <1>5 DEF Exists
<1>6. CASE proc[p].pc = "rename" /\ server[t].on /\ UNCHANGED own
           /\ server' = [server EXCEPT ![t].name = proc[p].as]
  <2>1. t \in Ids
    BY <1>1, <1>2, <1>6 DEF Inv, Remembers, Busy, Syncing
  <2>2. IsPlaylist(server[t])
    BY <1>3, <1>6, <2>1, NewRowFacts
  <2>3. PICK s, n : s = server[t] /\ n = proc[p].as /\ server'[t] = [s EXCEPT !.name = n]
    BY <1>3, <1>6, <2>1
  <2>4. IsPlaylist(server'[t])
    <3>1. IsPlaylist([s EXCEPT !.name = n])
      BY <2>2, <2>3, Renamed
    <3> QED
      BY <2>3, <3>1
  <2>5. server' = [d \in Ids |-> server'[d]] /\ \A d \in Ids \ {t} : server'[d] = server[d]
    BY <1>3, <1>6
  <2>6. \A d \in Ids : server'[d] = NoPlaylist \/ IsPlaylist(server'[d])
    BY <1>3, <2>4, <2>5
  <2>7. \A d \in Ids : Exists(d)' => Exists(d)
    BY <1>6, <2>5 DEF Exists
  <2> QED
    BY <1>3, <1>4, <1>6, <2>5, <2>6, <2>7
<1>7. CASE proc[p].pc = "delete" /\ UNCHANGED own /\ server' = [server EXCEPT ![t] = NoPlaylist]
  <2>1. server' = [d \in Ids |-> server'[d]]
        /\ \A d \in Ids : server'[d] = server[d] \/ server'[d] = NoPlaylist
    BY <1>3, <1>7
  <2>2. \A d \in Ids : Exists(d)' => Exists(d)
    BY <2>1, NewRowFacts DEF Exists
  <2>3. \A d \in Ids : server'[d] = NoPlaylist \/ IsPlaylist(server'[d])
    BY <1>3, <2>1
  <2> QED
    BY <1>3, <1>4, <1>7, <2>1, <2>2, <2>3
<1>8. CASE proc[p].pc = "create" /\ \E d \in Free :
             /\ server' = [server EXCEPT ![d] = [on |-> TRUE, name |-> proc[p].as,
                                                 items |-> Stored(proc[p].ids)]]
             /\ own' = own \cup {d}
  <2>1. PICK d \in Free :
             /\ server' = [server EXCEPT ![d] = [on |-> TRUE, name |-> proc[p].as,
                                                 items |-> Stored(proc[p].ids)]]
             /\ own' = own \cup {d}
    BY <1>8
  <2>2. /\ d \in Ids /\ ~Exists(d) /\ d \notin own /\ ~(row.live /\ row.ext = d)
        /\ d = foreign + Cardinality(own) + 1
        /\ Cardinality(own') = Cardinality(own) + 1
    BY <2>1, FreeIsNew DEF Inv
  <2>3. PICK s : /\ s = [on |-> TRUE, name |-> proc[p].as, items |-> Stored(proc[p].ids)]
                 /\ server' = [server EXCEPT ![d] = s]
    BY <2>1
  <2>4. IsPlaylist(s)
    BY <2>3 DEF IsPlaylist
  <2>5. /\ server' = [x \in Ids |-> server'[x]]
        /\ \A x \in Ids \ {d} : server'[x] = server[x]
        /\ server'[d] = s
    BY <1>3, <2>2, <2>3
  <2>6. \A x \in Ids : server'[x] = NoPlaylist \/ IsPlaylist(server'[x])
    BY <1>3, <2>4, <2>5
  <2>7. \A x \in Ids : Exists(x)' => Exists(x) \/ x \in own' \ own
    BY <2>1, <2>2, <2>5 DEF Exists
  <2>8. \A x \in Ids : x <= foreign + Cardinality(own) => x <= foreign + Cardinality(own')
    BY <1>3, <2>2
  <2>9. d <= foreign + Cardinality(own')
    BY <1>3, <2>2
  <2>10. \A x \in Ids : x \in own' \/ Exists(x) => x <= foreign + Cardinality(own')
    BY <1>4, <2>1, <2>8, <2>9
  <2>11. own' \subseteq Ids /\ own \subseteq own' /\ own' \subseteq own \cup {d}
         /\ \A x \in Ids : x \in own' \ own => ~(row.live /\ row.ext = x)
    BY <1>3, <2>1, <2>2
  <2> QED
    BY <1>8, <2>5, <2>6, <2>7, <2>8, <2>10, <2>11
<1> QED
  BY <1>1, <1>5, <1>6, <1>7, <1>8 DEF LostAnswer, At, Target, Exists, ServerRename, ServerDelete,
     ServerCreate

\* FAILED is committed: the row keeps the id it has, or takes the one just made.
LEMMA FailedInv ==
    ASSUME Inv, OneTask, NEW p \in Procs, CallFails(p) \/ CallNotFound(p)
    PROVE  Inv'
<1>1. PICK r, new, m : r = proc[p].loaded /\ m = proc[p] /\ new = Failed(p)
  OBVIOUS
<1>2. /\ m.pc \in Syncing /\ m.pc \in Busy /\ Commit(p, new) /\ LostAnswer(p)
      /\ UNCHANGED <<platform, foreign, crashes>>
      /\ \/ faults' = faults + 1
         \/ UNCHANGED <<server, own, faults>> /\ CallNotFound(p)
  <2>1. CASE CallFails(p)
    BY <1>1, <2>1 DEF CallFails, settings, Busy
  <2>2. CASE CallNotFound(p)
    BY <1>1, <2>2 DEF CallNotFound, LostAnswer, settings, remote, bounds, At, Busy, Syncing
  <2> QED
    BY <2>1, <2>2
<1>3. PICK e : /\ e = IF m.pc = "count" THEN m.made ELSE r.ext
               /\ new = [r EXCEPT !.state = "failed", !.ext = e]
  BY <1>1 DEF Failed, At
<1>4. /\ IsRow(r) /\ r.live /\ r.ext \in Ids \cup {NoId} /\ r.state # "needs_resolution"
      /\ r.ext = NoId => ~r.adopted /\ r.snap = <<Never>>
      /\ r.ext # NoId => r = row /\ row.live
      /\ row.live => r = row
      /\ r.ext \notin own \cup {NoId} => r.adopted
      /\ m.pc = "count" => m.made \in own /\ m.made \in Ids
  BY <1>1, <1>2, Session
<1>5. /\ IsRow(new) /\ new.live /\ new.ext = e /\ new.name = r.name /\ new.snap = r.snap
      /\ new.state = "failed" /\ new.dups = r.dups /\ new.adopted = r.adopted
  BY <1>3, <1>4 DEF IsRow
<1>6. /\ server' = [d \in Ids |-> server'[d]]
      /\ \A d \in Ids : server'[d] = NoPlaylist \/ IsPlaylist(server'[d])
      /\ own' \subseteq Ids /\ own \subseteq own'
      /\ \A d \in Ids : Exists(d)' => Exists(d) \/ d \in own' \ own
      /\ \A d \in Ids : d \in own' \/ Exists(d) => d <= foreign + Cardinality(own')
      /\ \A d \in Ids : d <= foreign + Cardinality(own) => d <= foreign + Cardinality(own')
      /\ own' # own => m.pc = "create" /\ \E x : own' \subseteq own \cup {x}
      /\ m.pc = "count" => UNCHANGED <<server, own>>
  BY <1>1, <1>2, LostAnswers
<1>7. faults' \in Nat /\ crashes' \in Nat /\ faults' >= faults /\ crashes' >= crashes
  BY <1>2 DEF Inv, Shaped
<1>8. row' = new /\ Procs = {p} /\ proc'[p] = IdleTask
  BY <1>1, <1>2, <1>5, Commits
<1>9. Shaped' /\ (\A x \in Procs : Remembers(proc[x])')
  BY <1>1, <1>2, <1>5, <1>6, <1>7, EndStep
<1>10. RowFacts'
  <2>1. e \in Ids \cup {NoId} /\ (e = NoId => r.ext = NoId) /\ (e \notin own \cup {NoId} => e = r.ext)
    BY <1>3, <1>4, Constants
  <2>2. e \notin own' \cup {NoId} => r.adopted
    BY <1>4, <1>6, <2>1
  <2> QED
    BY <1>4, <1>5, <1>8, <2>1, <2>2 DEF RowFacts
<1>11. Numbered'
  <2> SUFFICES ASSUME NEW d \in Ids, (Exists(d) \/ d \in own \/ (row.live /\ row.ext = d))'
               PROVE  (d <= foreign + Cardinality(own))'
    BY DEF Numbered
  <2>1. Exists(d)' \/ d \in own' \/ d = e
    BY <1>5, <1>8
  <2>2. d = e => d \in own \/ (row.live /\ row.ext = d)
    BY <1>3, <1>4, Constants
  <2>3. d <= foreign + Cardinality(own')
    BY <1>6, <2>1, <2>2 DEF Inv, Numbered
  <2> QED
    BY <1>2, <2>3
<1>12. Lost' \subseteq Lost \cup (own' \ own)
  <2> SUFFICES ASSUME NEW d \in Lost', d \in own PROVE d \in Lost
    BY DEF Lost
  <2>1. /\ Exists(d)' /\ d \in Ids /\ Exists(d) /\ d # e
    BY <1>5, <1>6, <1>8 DEF Lost, Inv, Shaped
  <2>2. ~(row.live /\ row.ext = d /\ row.state # "needs_resolution")
    <3> SUFFICES ASSUME row.live, row.ext = d PROVE FALSE
      OBVIOUS
    <3>1. r.ext = d /\ m.pc = "count" /\ r.ext # NoId
      BY <1>3, <1>4, <2>1, Constants
    <3>2. ~Exists(r.ext)
      BY <1>1, <3>1 DEF Inv, Remembers, Busy, Syncing
    <3> QED
      BY <2>1, <3>1, <3>2
  <2>3. ~(m.pc \in {"count", "save"} /\ m.made = d)
    BY <1>2, <1>3, <2>1 DEF Syncing
  <2> QED
    BY <1>1, <1>8, <2>1, <2>2, <2>3 DEF Lost
<1>13. LostAreFaults'
  <2>1. CASE own' = own
    BY <1>7, <1>9, <1>12, <2>1, LostShrinks DEF Inv
  <2>2. CASE own' # own
    <3>1. PICK x : own' \subseteq own \cup {x}
      BY <1>6, <2>2
    <3>2. Lost' \subseteq Lost \cup {x}
      BY <1>12, <3>1
    <3>3. faults' + crashes' > faults + crashes
      BY <1>2, <2>2 DEF Inv, Shaped
    <3> QED
      BY <1>9, <3>2, <3>3, LostGrows DEF Inv
  <2> QED
    BY <2>1, <2>2
<1>14. Faultless'
  <2> SUFFICES ASSUME (faults + crashes = 0)' PROVE FALSE
    BY DEF Faultless
  <2>1. faults + crashes = 0 /\ CallNotFound(p)
    BY <1>2 DEF Inv, Shaped
  <2>2. CASE m.pc \in {"rename", "delete"} /\ ~Exists(r.ext)
    <3>1. r.ext # NoId /\ row.live /\ r = row
      BY <1>1, <1>2, <1>4, <2>2 DEF Inv, Remembers
    <3>2. Exists(row.ext)
      BY <1>1, <1>8, <2>1, <2>2, <3>1 DEF Inv, Faultless, Ahead
    <3> QED
      BY <2>2, <3>1, <3>2
  <2>3. CASE m.pc = "count" /\ ~Exists(m.made)
    <3>1. server[m.made] = [on |-> TRUE, name |-> m.as, items |-> Stored(m.ids)]
      BY <1>1, <2>1, <2>3 DEF Inv, Faultless
    <3> QED
      BY <2>3, <3>1 DEF Exists
  <2> QED
    BY <1>1, <2>1, <2>2, <2>3 DEF CallNotFound, At, Target
<1> QED
  BY <1>9, <1>10, <1>11, <1>13, <1>14 DEF Inv

\* The session is rolled back: what it made is lost.
LEMMA RaisedInv ==
    ASSUME Inv, OneTask, NEW p \in Procs, CallRaises(p), proc[p].pc \in Syncing
    PROVE  Inv'
<1>1. PICK m : m = proc[p]
  OBVIOUS
<1>2. /\ m.pc \in Syncing /\ m.pc \in Busy /\ LostAnswer(p)
      /\ UNCHANGED <<platform, row, foreign, crashes>>
      /\ faults' = faults + 1
      /\ proc' = [proc EXCEPT ![p] = IdleTask]
  BY <1>1 DEF CallRaises, settings, Busy
<1>3. /\ server' = [d \in Ids |-> server'[d]]
      /\ \A d \in Ids : server'[d] = NoPlaylist \/ IsPlaylist(server'[d])
      /\ own' \subseteq Ids /\ own \subseteq own'
      /\ \A d \in Ids : Exists(d)' => Exists(d) \/ d \in own' \ own
      /\ \A d \in Ids : d \in own' \/ Exists(d) => d <= foreign + Cardinality(own')
      /\ \A d \in Ids : d <= foreign + Cardinality(own) => d <= foreign + Cardinality(own')
      /\ own' # own => m.pc = "create" /\ \E x : own' \subseteq own \cup {x}
  BY <1>1, <1>2, LostAnswers
<1>4. Procs = {p} /\ proc'[p] = IdleTask /\ proc' = [x \in Procs |-> proc'[x]]
  BY <1>2, Moves DEF Inv
<1>5. faults' \in Nat /\ crashes' \in Nat /\ faults' + crashes' > faults + crashes
      /\ ~(faults' + crashes' = 0)
  BY <1>2 DEF Inv, Shaped
<1>6. Shaped'
  BY <1>2, <1>3, <1>4, <1>5, IdleFacts DEF Inv, Shaped
<1>7. RowFacts'
  BY <1>2, <1>3 DEF Inv, RowFacts
<1>8. \A x \in Procs : Remembers(proc[x])'
  BY <1>4, IdleFacts DEF Remembers, Busy, Syncing
<1>9. Numbered'
  <2> SUFFICES ASSUME NEW d \in Ids, (Exists(d) \/ d \in own \/ (row.live /\ row.ext = d))'
               PROVE  (d <= foreign + Cardinality(own))'
    BY DEF Numbered
  <2>1. Exists(d)' \/ d \in own' \/ (row.live /\ row.ext = d)
    BY <1>2
  <2>2. d <= foreign + Cardinality(own')
    BY <1>3, <2>1 DEF Inv, Numbered
  <2> QED
    BY <1>2, <2>2
<1>10. PICK x : Lost' \subseteq Lost \cup {x}
  <2>1. \A d \in Lost' : d \in own => d \in Lost \cup {m.made}
    <3> TAKE d \in Lost'
    <3> SUFFICES ASSUME d \in own, d # m.made PROVE d \in Lost
      OBVIOUS
    <3>1. Exists(d)' /\ d \in Ids /\ Exists(d)
      BY <1>3 DEF Lost, Inv, Shaped
    <3> QED
      BY <1>1, <1>2, <1>4, <3>1 DEF Lost
  <2>2. CASE own' = own
    BY <2>1, <2>2 DEF Lost
  <2>3. CASE own' # own
    <3>1. m.pc = "create" /\ \E x : own' \subseteq own \cup {x}
      BY <1>3, <2>3
    <3>2. PICK x : own' \subseteq own \cup {x}
      BY <3>1
    <3>3. \A d \in Lost' : d \in own => d \in Lost
      <4> SUFFICES ASSUME NEW d \in Lost', d \in own PROVE d \in Lost
        OBVIOUS
      <4>1. Exists(d)' /\ d \in Ids /\ Exists(d)
        BY <1>3 DEF Lost, Inv, Shaped
      <4> QED
        BY <1>1, <1>2, <1>4, <3>1, <4>1 DEF Lost
    <3>4. Lost' \subseteq Lost \cup {x}
      BY <3>2, <3>3 DEF Lost
    <3> QED
      BY <3>4
  <2> QED
    BY <2>2, <2>3
<1>11. LostAreFaults'
  BY <1>5, <1>6, <1>10, LostGrows DEF Inv
<1>12. Faultless'
  BY <1>5 DEF Faultless
<1> QED
  BY <1>6, <1>7, <1>8, <1>9, <1>11, <1>12 DEF Inv

-----------------------------------------------------------------------------
(* The invariant *)

LEMMA InitInv ==
    ASSUME Init
    PROVE  Inv
<1>1. /\ row = NoRow /\ server = [d \in Ids |-> NoPlaylist] /\ own = {}
      /\ proc = [p \in Procs |-> IdleTask] /\ foreign = 0 /\ faults = 0 /\ crashes = 0
  BY DEF Init
<1>2. Shaped
  BY <1>1, IdleFacts DEF Shaped
<1>3. RowFacts
  BY <1>1, NewRowFacts DEF RowFacts
<1>4. \A p \in Procs : Remembers(proc[p])
  BY <1>1, IdleFacts DEF Remembers, Busy, Syncing
<1>5. Numbered
  BY <1>1, NewRowFacts DEF Numbered, Exists
<1>6. LostAreFaults
  <2>1. Lost = {}
    BY <1>1 DEF Lost
  <2>2. Cardinality({}) = 0
    BY FS_EmptySet
  <2> QED
    BY <1>1, <2>1, <2>2 DEF LostAreFaults
<1>7. Faultless
  BY <1>1, NewRowFacts, IdleFacts DEF Faultless, Syncing
<1> QED
  BY <1>2, <1>3, <1>4, <1>5, <1>6, <1>7 DEF Inv

LEMMA NextInv ==
    ASSUME Inv, OneTask, [Next]_vars
    PROVE  Inv'
<1>1. CASE Edit \/ (\E i \in Items : Rescan(i)) \/ UNCHANGED vars
  <2>1. UNCHANGED seen
    BY <1>1 DEF Edit, Rescan, vars, seen, settings, wanted, remote, bounds
  <2> QED
    BY <2>1, Unseen
<1>2. CASE \/ \E n \in Names : UserCreates(n)
           \/ \E d \in Ids : UserDeletes(d)
  BY <1>2, UserCreatesInv, UserDeletesInv
<1>3. CASE Crash \/ Adopt \/ Cancel
  BY <1>3, CrashInv, AnswerInv
<1>4. ASSUME NEW p \in Procs,
             \/ SpotifySync(p) /\ enabled
             \/ SyncRequest(p) \/ (\E i \in Items : AssetSync(p, i)) \/ Refresh(p)
             \/ PollIdle(p) \/ PollRunning(p) \/ FindItem(p) \/ AssetCallFails(p)
      PROVE  Inv'
  BY <1>4, QuietActionsInv
<1>5. ASSUME NEW p \in Procs, Begin(p) PROVE Inv'
  BY <1>5, QuietActionsInv, BeginInv
<1>6. ASSUME NEW p \in Procs, CallRaises(p) PROVE Inv'
  BY <1>6, QuietActionsInv, RaisedInv
<1>7. ASSUME NEW p \in Procs, Resolve(p) \/ ListNames(p) \/ Rename(p) \/ Delete(p)
      PROVE  Inv'
  BY <1>7, ResolveInv, ListNamesInv, RenameInv, DeleteInv
<1>8. ASSUME NEW p \in Procs, Create(p) \/ Count(p) \/ Save(p) \/ CallNotFound(p) \/ CallFails(p)
      PROVE  Inv'
  BY <1>8, CreateInv, CountInv, SaveInv, FailedInv
<1>9. ASSUME NEW p \in Procs, SpotifySync(p), ~enabled PROVE Inv'
  <2>1. UNCHANGED seen
    BY <1>9 DEF SpotifySync, seen, settings, remote
  <2> QED
    BY <2>1, Unseen
<1> QED
  BY <1>1, <1>2, <1>3, <1>4, <1>5, <1>6, <1>7, <1>8, <1>9 DEF Next, Step

LEMMA Invariant ==
    ASSUME OneTask
    PROVE  Spec => []Inv
<1>1. Init => Inv
  BY InitInv
<1>2. Inv /\ [Next]_vars => Inv'
  BY NextInv
<1> QED
  BY <1>1, <1>2, PTL DEF Spec

-----------------------------------------------------------------------------
(* What it means *)

\* A playlist nobody here made: a task that changes it has the consent.
LEMMA ForeignStep ==
    ASSUME Inv, OneTask, Next,
           NEW d \in Ids \ own, Exists(d), server'[d] # server[d], proc' # proc
    PROVE  row.live /\ row.adopted /\ row.ext = d
<1>1. PICK p \in Procs : Rename(p) \/ Delete(p) \/ Create(p) \/ CallFails(p) \/ CallRaises(p)
  BY ZenonT(60) DEF Next, Step, Edit, Rescan, UserCreates, UserDeletes, Crash, Adopt, Cancel, SpotifySync,
     SyncRequest, AssetSync, Refresh, PollIdle, PollRunning, FindItem, Begin, Resolve, ListNames, Count, Save,
     CallNotFound, AssetCallFails, remote
<1>2. PICK t : t = proc[p].loaded.ext
  OBVIOUS
<1>3. \A c \in Free : c # d
  BY FreeIsNew DEF Inv
<1>4. proc[p].pc \in {"rename", "delete"} /\ \E s : server' = [server EXCEPT ![t] = s]
  <2>1. CASE Create(p)
    BY <1>3, <2>1 DEF Create, ServerCreate, Inv, Shaped
  <2>2. CASE Rename(p) \/ Delete(p)
    BY <1>2, <2>2 DEF Rename, Delete, ServerRename, ServerDelete, Target, At
  <2>3. CASE LostAnswer(p)
    BY <1>2, <1>3, <2>3 DEF LostAnswer, ServerRename, ServerDelete, ServerCreate, Target, At,
       Inv, Shaped
  <2> QED
    BY <1>1, <2>1, <2>2, <2>3 DEF CallFails, CallRaises
<1>5. t = d
  BY <1>4 DEF Inv, Shaped
<1>6. proc[p].pc \in Busy /\ t # NoId
  BY <1>4, <1>5, Constants DEF Busy, Syncing
<1>7. /\ t # NoId => proc[p].loaded = row /\ row.live
      /\ t \notin own \cup {NoId} => proc[p].loaded.adopted
  BY <1>2, <1>6, Session
<1> QED
  BY <1>2, <1>5, <1>6, <1>7

\* A playlist Groovarr did not make is renamed or deleted by it only after the
\* operator adopted it (resolve_playlist_collision and the guard at the top of
\* sync_external_playlist), whatever calls fail and answers are lost.
THEOREM ForeignHolds ==
    ASSUME OneTask
    PROVE  Spec => ForeignNeedsConsent
<1>1. Inv /\ [Next]_vars =>
        [\A d \in Ids \ own : Exists(d) /\ server'[d] # server[d] /\ proc' # proc
            => row.live /\ row.adopted /\ row.ext = d]_vars
  BY ForeignStep
<1> QED
  BY <1>1, Invariant, PTL DEF Spec, ForeignNeedsConsent

\* What Groovarr knows of the server is what is there, but for the failures:
\* each fault or crash leaves at most one playlist behind, and without any a
\* SYNCED row says what the server holds.
THEOREM KnownHolds ==
    ASSUME OneTask
    PROVE  Spec => []ServerIsKnown
<1>1. Inv => OrphansAreFaults
  <2> SUFFICES ASSUME Inv, AllIdle PROVE Cardinality(Orphans) <= faults + crashes
    BY DEF OrphansAreFaults
  <2>1. Orphans \subseteq Lost /\ Lost \subseteq Ids
    BY DEF Orphans, Lost, AllIdle, At, Inv, Shaped
  <2>2. Cardinality(Orphans) <= Cardinality(Lost)
    BY <2>1, Counts, FS_Subset
  <2>3. Cardinality(Orphans) \in Nat /\ Cardinality(Lost) \in Nat
    BY <2>1, Counts
  <2>4. Cardinality(Lost) <= faults + crashes /\ faults + crashes \in Nat
    BY DEF Inv, Shaped, LostAreFaults
  <2> QED
    BY <2>2, <2>3, <2>4
<1>2. Inv => SyncedIsServed
  <2> SUFFICES ASSUME Inv, faults + crashes = 0, AllIdle, row.live, row.snap # <<Never>>
               PROVE  /\ Exists(row.ext)
                      /\ server[row.ext] = [on |-> TRUE, name |-> row.name,
                                            items |-> Stored(row.snap)]
                      /\ row.dups = Len(row.snap) - Len(server[row.ext].items)
    BY DEF SyncedIsServed
  <2>1. Shows(row)
    BY DEF Inv, Faultless, AllIdle, At, Ahead
  <2>2. server[row.ext] = [on |-> TRUE, name |-> row.name, items |-> Stored(row.snap)]
    BY <2>1 DEF Shows
  <2>3. Exists(row.ext) /\ server[row.ext].items = Stored(row.snap)
    BY <2>2 DEF Exists
  <2> QED
    BY <2>1, <2>2, <2>3 DEF Shows
<1>3. Inv => ServerIsKnown
  BY <1>1, <1>2 DEF ServerIsKnown
<1> QED
  BY <1>3, Invariant, PTL

-----------------------------------------------------------------------------
\* What the recursive Kept returns: a smallest counterexample is none.

\* A set of numbers has a least one.
LEMMA NatMin ==
    ASSUME NEW T, T \subseteq Nat, T # {}
    PROVE  \E m \in T : \A k \in T : m <= k
<1> DEFINE R == {ss \in Nat \X Nat : ss[1] < ss[2]}
<1>1. IsWellFoundedOn(R, Nat)
  BY NatLessThanWellFounded, Zenon DEF OpToRel
<1> HIDE DEF R
<1>2. PICK m \in T : \A k \in T : ~(<<k, m>> \in R)
  BY <1>1, WFMin
<1>3. \A i, j \in Nat : i < j => <<i, j>> \in R
  BY DEF R
<1>4. \A k \in T : k \in Nat /\ m \in Nat /\ ~(k < m)
  BY <1>2, <1>3
<1>5. \A k \in T : m <= k
  BY <1>4
<1> QED
  BY <1>5

\* The entries of a sequence are entries of the list.
LEMMA KeptIsPart ==
    ASSUME NEW S, NEW list \in Seq(S), NEW places
    PROVE  Kept(list, places) \in Seq(S) /\ Len(Kept(list, places)) <= Len(list)
<1> DEFINE N == Len(list)
           step(f, n) == IF n = 0 THEN <<>>
                         ELSE IF n \in places THEN Append(f[n - 1], list[n]) ELSE f[n - 1]
           Upto(f, n) == /\ f = [i \in 0 .. n |-> f[i]]
                         /\ \A i \in 0 .. n : /\ f[i] = step(f, i)
                                              /\ f[i] \in Seq(S) /\ Len(f[i]) <= i
<1>1. N \in Nat /\ \A i \in 1 .. N : list[i] \in S
  BY LenProperties, ElementOfSeq
<1>2. \A n \in 0 .. N : \E f : Upto(f, n)
  <2> DEFINE T == {n \in 0 .. N : ~\E f : Upto(f, n)}
  <2> SUFFICES ASSUME T # {} PROVE FALSE
    OBVIOUS
  <2>1. PICK m \in T : \A k \in T : m <= k
    <3>1. T \subseteq Nat
      BY <1>1
    <3> HIDE DEF T
    <3> QED
      BY <3>1, NatMin
  <2>2. CASE m = 0
    <3> DEFINE f == [i \in 0 .. 0 |-> <<>>]
    <3>1. Upto(f, 0)
      BY EmptySeq
    <3> QED
      BY <2>1, <2>2, <3>1
  <2>3. CASE m # 0
    <3>1. m - 1 \in 0 .. N /\ m \in 1 .. N
      BY <1>1, <2>3
    <3>2. PICK f : Upto(f, m - 1)
      BY <1>1, <2>1, <3>1
    <3> DEFINE g == [i \in 0 .. m |-> IF i = m THEN step(f, m) ELSE f[i]]
    <3>3. \A i \in 0 .. m - 1 : /\ f[i] = step(f, i) /\ f[i] \in Seq(S) /\ Len(f[i]) <= i
      BY <3>2
    <3>4. /\ f[m - 1] \in Seq(S) /\ Len(f[m - 1]) <= m - 1 /\ Len(f[m - 1]) \in Nat
      BY <3>1, <3>3, LenProperties
    <3>5. step(f, m) \in Seq(S) /\ Len(step(f, m)) <= m
      BY <1>1, <2>3, <3>1, <3>4
    <3> HIDE DEF Upto
    <3>6. \A i \in 0 .. m : /\ g[i] = step(g, i) /\ g[i] \in Seq(S) /\ Len(g[i]) <= i
      <4> SUFFICES ASSUME NEW i \in 0 .. m
                   PROVE  g[i] = step(g, i) /\ g[i] \in Seq(S) /\ Len(g[i]) <= i
        OBVIOUS
      <4>1. CASE i = m
        <5>1. g[m] = step(f, m) /\ g[m - 1] = f[m - 1]
          BY <3>1
        <5> QED
          BY <2>3, <3>5, <4>1, <5>1
      <4>2. CASE i # m
        <5>1. i \in 0 .. m - 1 /\ g[i] = f[i]
          BY <3>1, <4>2
        <5>2. i # 0 => i - 1 \in 0 .. m - 1 /\ g[i - 1] = f[i - 1]
          BY <3>1, <5>1
        <5> QED
          BY <3>3, <5>1, <5>2
      <4> QED
        BY <4>1, <4>2
    <3>7. Upto(g, m)
      <4>1. g = [i \in 0 .. m |-> g[i]]
        OBVIOUS
      <4> HIDE DEF g
      <4> QED
        BY <3>6, <4>1 DEF Upto
    <3> HIDE DEF g
    <3> QED
      BY <2>1, <3>7
  <2> QED
    BY <2>2, <2>3
<1>3. PICK f : Upto(f, N)
  BY <1>1, <1>2
<1>4. \E g : g = [n \in 0 .. N |-> step(g, n)] /\ Kept(list, places) = g[N]
  <2>1. f = [n \in 0 .. N |-> step(f, n)]
    BY <1>3
  <2>2. \E g : /\ (\E h : h = [n \in 0 .. N |-> step(h, n)]) => g = [n \in 0 .. N |-> step(g, n)]
               /\ Kept(list, places) = g[N]
    BY Zenon DEF Kept
  <2> QED
    BY <2>1, <2>2, Zenon
<1>5. PICK g : g = [n \in 0 .. N |-> step(g, n)] /\ Kept(list, places) = g[N]
  BY <1>4
<1>6. \A n \in 0 .. N : g[n] = f[n]
  <2> DEFINE T == {n \in 0 .. N : g[n] # f[n]}
  <2> SUFFICES ASSUME T # {} PROVE FALSE
    OBVIOUS
  <2>1. PICK m \in T : \A k \in T : m <= k
    <3>1. T \subseteq Nat
      BY <1>1
    <3> HIDE DEF T
    <3> QED
      BY <3>1, NatMin
  <2>2. g[m] = step(g, m) /\ f[m] = step(f, m)
    BY <1>3, <1>5
  <2>3. CASE m = 0
    BY <2>1, <2>2, <2>3
  <2>4. CASE m # 0
    <3>1. m - 1 \in 0 .. N /\ m - 1 \notin T
      BY <1>1, <2>1, <2>4
    <3> QED
      BY <2>1, <2>2, <2>4, <3>1
  <2> QED
    BY <2>3, <2>4
<1>7. N \in 0 .. N
  BY <1>1
<1> QED
  BY <1>3, <1>5, <1>6, <1>7

-----------------------------------------------------------------------------
\* Types, for any number of tasks.
\*
\* A count of collapsed duplicates is a number because what a playlist holds
\* is no longer than what its task asked for, and that stays so while the
\* task waits: ids are not handed out twice, so no other task's playlist is
\* ever made in its place.

\* A session that writes a name has one.
AsNamed == \A p \in Procs : proc[p].pc \in Busy => proc[p].as \in Names

OwnAreOld == \A d \in own : d <= foreign + Cardinality(own)

\* The playlist whose items are about to be counted.
Counted ==
    \A p \in Procs : proc[p].pc = "count" =>
       /\ proc[p].made \in own
       /\ Exists(proc[p].made) => Len(server[proc[p].made].items) <= Len(proc[p].ids)

Typed == TypeOK /\ AsNamed /\ OwnAreOld /\ Counted

\* What a list is cut down to is part of it.
LEMMA ListsShrink ==
    ASSUME NEW list \in Seq(Items)
    PROVE  /\ ResolveOrderedItems(list) \in Seq(Items)
           /\ Stored(list) \in Seq(Items) /\ Len(Stored(list)) <= Len(list)
           /\ Len(list) \in Nat /\ Len(Stored(list)) \in Nat
<1>1. ResolveOrderedItems(list) \in Seq(Items)
  BY KeptIsPart DEF ResolveOrderedItems
<1>2. Dedup(list) \in Seq(Items) /\ Len(Dedup(list)) <= Len(list)
  BY KeptIsPart DEF Dedup
<1>3. Len(list) \in Nat
  BY LenProperties
<1>4. Stored(list) \in Seq(Items) /\ Len(Stored(list)) <= Len(list)
  BY <1>2, <1>3 DEF Stored
<1> QED
  BY <1>1, <1>3, <1>4, LenProperties

LEMMA IdleTyped == IdleTask \in Task /\ NewRow \in Row /\ IdleTask.pc = "idle"
<1>1. NewRow \in Row
  BY DEF NewRow, Row
<1>2. <<>> \in Seq(Items)
  BY EmptySeq
<1>3. 0 \in 0 .. PollAttempts - 1
  BY ExternalAssumption
<1> QED
  BY <1>1, <1>2, <1>3 DEF IdleTask, Task

LEMMA InitTyped == Init => Typed
<1> SUFFICES ASSUME Init PROVE Typed
  OBVIOUS
<1>1. name \in Names
  BY ExternalAssumption DEF Init
<1>2. TypeOK
  BY <1>1, IdleTyped DEF Init, TypeOK
<1>3. \A p \in Procs : proc[p].pc = "idle"
  BY IdleTyped DEF Init
<1> QED
  BY <1>2, <1>3 DEF Init, Typed, AsNamed, OwnAreOld, Counted, Busy, Syncing

\* The server's playlists after a step, as far as they are Groovarr's: of those it
\* has had, none gets other items, and new ones have new ids.
Contents == [Ids -> Playlist \cup {NoPlaylist}]
OthersAsWere ==
    /\ server' \in Contents
    /\ own \subseteq own' /\ own' \subseteq Ids
    /\ OwnAreOld'
    /\ \A d \in own : Exists(d)' => Exists(d) /\ server'[d].items = server[d].items

LEMMA ServerSame ==
    ASSUME Typed, UNCHANGED <<server, own>>, foreign' \in Nat, foreign' >= foreign
    PROVE  OthersAsWere
<1>1. Cardinality(own) \in Nat
  BY Counts DEF Typed, TypeOK
<1>2. OwnAreOld'
  <2> SUFFICES ASSUME NEW d \in own PROVE d <= foreign' + Cardinality(own)
    BY DEF OwnAreOld
  <2>1. d \in Nat /\ d <= foreign + Cardinality(own) /\ foreign \in Nat
    BY ExternalAssumption DEF Typed, OwnAreOld, TypeOK
  <2> QED
    BY <1>1, <2>1
<1> QED
  BY <1>2 DEF OthersAsWere, Typed, TypeOK, Exists, Contents

\* A playlist gets a name, or goes.
LEMMA ServerLoses ==
    ASSUME Typed, NEW d, UNCHANGED <<own, foreign>>,
           \/ (\E n \in Names : Exists(d) /\ ServerRename(d, n))
           \/ ServerDelete(d)
    PROVE  OthersAsWere
<1>1. server \in Contents /\ own \subseteq Ids
  BY DEF Typed, TypeOK, Contents
<1>2. CASE \E n \in Names : Exists(d) /\ ServerRename(d, n)
  <2>1. PICK n \in Names : Exists(d) /\ server' = [server EXCEPT ![d].name = n]
    BY <1>2 DEF ServerRename
  <2>2. \A e \in Ids : server'[e] = IF e = d THEN [server[e] EXCEPT !.name = n] ELSE server[e]
    BY <1>1, <2>1 DEF Contents
  <2>3. \A e \in Ids : e = d => server[e] \in Playlist
    BY <1>1, <2>1 DEF Contents, Exists, NoPlaylist
  <2>4. \A e \in Ids : e = d => server'[e] \in Playlist /\ server'[e].items = server[e].items
    BY <2>2, <2>3 DEF Playlist
  <2>5. server' = [e \in Ids |-> server'[e]]
    BY <1>1, <2>1 DEF Contents
  <2>6. \A e \in Ids : server'[e] \in Playlist \cup {NoPlaylist}
    BY <1>1, <2>2, <2>4 DEF Contents
  <2>7. server' \in Contents
    BY <2>5, <2>6 DEF Contents
  <2> QED
    BY <1>1, <2>1, <2>2, <2>4, <2>7 DEF OthersAsWere, OwnAreOld, Typed, Exists
<1>3. CASE ServerDelete(d)
  <2>1. server' = [server EXCEPT ![d] = NoPlaylist]
    BY <1>3 DEF ServerDelete
  <2>2. server' \in Contents
    BY <1>1, <2>1 DEF Contents
  <2>3. \A e \in Ids : server'[e] = IF e = d THEN NoPlaylist ELSE server[e]
    BY <1>1, <2>1 DEF Contents
  <2>4. NoPlaylist.on = FALSE
    BY DEF NoPlaylist
  <2> QED
    BY <1>1, <2>2, <2>3, <2>4 DEF OthersAsWere, OwnAreOld, Typed, Exists
<1> QED
  BY <1>2, <1>3

\* A playlist is made, with the next id.
LEMMA ServerGains ==
    ASSUME Typed, NEW d \in Free, NEW s \in Playlist,
           server' = [server EXCEPT ![d] = s],
           \/ own' = own \cup {d} /\ foreign' = foreign
           \/ own' = own /\ foreign' = foreign + 1
    PROVE  OthersAsWere /\ d \in Ids /\ server'[d] = s
<1>1. /\ server \in Contents /\ own \subseteq Ids /\ foreign \in Nat
      /\ d \in Ids /\ d = foreign + Cardinality(own) + 1
  BY DEF Typed, TypeOK, Free, Contents
<1>2. IsFiniteSet(own) /\ Cardinality(own) \in Nat
  BY <1>1, Counts
<1>3. \A e \in own : e \in Nat /\ e <= foreign + Cardinality(own)
  BY <1>1, ExternalAssumption DEF Typed, OwnAreOld
<1>4. d \notin own
  BY <1>1, <1>2, <1>3
<1>5. OwnAreOld'
  <2>1. CASE own' = own \cup {d} /\ foreign' = foreign
    <3>1. Cardinality(own') = Cardinality(own) + 1
      BY <1>2, <1>4, <2>1, FS_AddElement
    <3>2. \A e \in own' : e <= foreign' + Cardinality(own')
      BY <1>1, <1>2, <1>3, <2>1, <3>1
    <3> QED
      BY <3>2 DEF OwnAreOld
  <2>2. CASE own' = own /\ foreign' = foreign + 1
    <3>1. \A e \in own' : e <= foreign' + Cardinality(own')
      BY <1>1, <1>2, <1>3, <2>2
    <3> QED
      BY <3>1 DEF OwnAreOld
  <2> QED
    BY <2>1, <2>2
<1>6. \A e \in Ids : server'[e] = IF e = d THEN s ELSE server[e]
  BY <1>1 DEF Contents
<1>7. server' \in Contents
  BY <1>1 DEF Contents
<1> QED
  BY <1>1, <1>4, <1>5, <1>6, <1>7 DEF OthersAsWere, Exists

LEMMA CreatedList ==
    ASSUME Typed, NEW d \in Free, NEW n \in Names, NEW list \in Seq(Items),
           ServerCreate(d, n, list), own' = own \cup {d}, foreign' = foreign
    PROVE  OthersAsWere /\ d \in Ids /\ Len(server'[d].items) <= Len(list)
<1> DEFINE s == [on |-> TRUE, name |-> n, items |-> Stored(list)]
<1>1. s \in Playlist
  BY ListsShrink DEF Playlist
<1>2. server' = [server EXCEPT ![d] = s]
  BY DEF ServerCreate
<1>3. s.items = Stored(list)
  OBVIOUS
<1> HIDE DEF s
<1>4. OthersAsWere /\ d \in Ids /\ server'[d] = s
  BY <1>1, <1>2, ServerGains
<1> QED
  BY <1>3, <1>4, ListsShrink

\* One task goes on with m.
LEMMA TasksMove ==
    ASSUME Typed, OthersAsWere, NEW p \in Procs, NEW m \in Task,
           proc' = [proc EXCEPT ![p] = m],
           m.pc \in Busy => m.as \in Names,
           m.pc = "count" => /\ m.made \in own'
                             /\ Exists(m.made)' => Len(server'[m.made].items) <= Len(m.ids)
    PROVE  proc' \in [Procs -> Task] /\ AsNamed' /\ Counted' /\ OwnAreOld'
<1>1. proc \in [Procs -> Task]
  BY DEF Typed, TypeOK
<1>2. proc' \in [Procs -> Task] /\ \A q \in Procs : proc'[q] = IF q = p THEN m ELSE proc[q]
  BY <1>1
<1>3. AsNamed'
  BY <1>2 DEF Typed, AsNamed
<1>4. Counted'
  <2> SUFFICES ASSUME NEW q \in Procs, proc'[q].pc = "count"
               PROVE  /\ proc'[q].made \in own'
                      /\ server'[proc'[q].made].on => Len(server'[proc'[q].made].items) <= Len(proc'[q].ids)
    BY DEF Counted, Exists
  <2>1. CASE q = p
    <3>1. proc'[q] = m
      BY <1>2, <2>1
    <3>2. m.pc = "count"
      BY <3>1
    <3>3. m.made \in own' /\ (server'[m.made].on => Len(server'[m.made].items) <= Len(m.ids))
      BY <3>2 DEF Exists
    <3> QED
      BY <3>1, <3>3
  <2>2. CASE q # p
    <3>1. proc'[q] = proc[q]
      BY <1>2, <2>2
    <3>2. /\ proc[q].made \in own
          /\ Exists(proc[q].made) => Len(server[proc[q].made].items) <= Len(proc[q].ids)
      BY <3>1 DEF Typed, Counted
    <3> QED
      BY <3>1, <3>2 DEF OthersAsWere, Exists
  <2> QED
    BY <2>1, <2>2
<1> QED
  BY <1>2, <1>3, <1>4 DEF OthersAsWere

\* No task moves.
LEMMA TasksStay ==
    ASSUME Typed, OthersAsWere, UNCHANGED proc
    PROVE  proc' \in [Procs -> Task] /\ AsNamed' /\ Counted' /\ OwnAreOld'
<1>1. proc \in [Procs -> Task] /\ AsNamed /\ Counted
  BY DEF Typed, TypeOK
<1> QED
  BY <1>1 DEF AsNamed, Counted, OthersAsWere, Exists

\* The rest of TypeOK.
Rest ==
    /\ platform \in Platforms /\ remapped \in Remaps
    /\ entries \in Lists /\ name \in Names /\ enabled \in BOOLEAN
    /\ row \in Row \cup {NoRow}
    /\ status \in [Items -> {"none", "pending_sync", "synced", "failed_sync"}]
    /\ indexed \subseteq Items
    /\ writer \in Procs \cup {NoProc}
    /\ edits \in Nat /\ foreign \in Nat /\ faults \in Nat /\ crashes \in Nat

Moved == proc' \in [Procs -> Task] /\ AsNamed' /\ Counted' /\ OwnAreOld'

LEMMA Whole ==
    ASSUME Rest', OthersAsWere, Moved
    PROVE  Typed'
BY DEF Rest, OthersAsWere, Moved, Typed, TypeOK, Contents

LEMMA RestHolds == Typed => Rest
BY DEF Typed, TypeOK, Rest

LEMMA MergedTyped ==
    ASSUME Typed, NEW old \in Row, NEW new \in Row
    PROVE  Merged(old, new) \in Row
<1>1. CASE ~row.live
  BY <1>1 DEF Merged
<1>2. CASE row.live
  <2>1. row \in Row
    BY <1>2 DEF Typed, TypeOK, NoRow
  <2>2. Merged(old, new) = [c \in DOMAIN new |-> IF new[c] # old[c] THEN new[c] ELSE row[c]]
    BY <1>2 DEF Merged
  <2> QED
    BY <2>1, <2>2 DEF Row
<1> QED
  BY <1>1, <1>2

\* The end of a sync, on the row and on the task.
LEMMA CommitTyped ==
    ASSUME Typed, OthersAsWere, NEW p \in Procs, NEW new \in Row, Commit(p, new),
           UNCHANGED <<settings, wanted, status, indexed>>,
           edits' \in Nat, foreign' \in Nat, faults' \in Nat, crashes' \in Nat
    PROVE  Typed'
<1>1. proc[p].loaded \in Row
  BY DEF Typed, TypeOK, Task
<1>2. row' \in Row
  BY <1>1, MergedTyped DEF Commit
<1>3. proc' = [proc EXCEPT ![p] = IdleTask]
  BY DEF Commit
<1>4. Moved
  BY <1>3, IdleTyped, TasksMove DEF Busy, Syncing, Moved
<1>5. writer' \in Procs \cup {NoProc}
  BY DEF Commit, Typed, TypeOK
<1>6. Rest'
  BY <1>2, <1>5, RestHolds DEF Rest, settings, wanted
<1> QED
  BY <1>4, <1>6, Whole

\* A task goes on, and nothing else of the database changes.
LEMMA MoveTyped ==
    ASSUME Typed, OthersAsWere, NEW p \in Procs, NEW m \in Task,
           proc' = [proc EXCEPT ![p] = m],
           m.pc \in Busy => m.as \in Names,
           m.pc = "count" => /\ m.made \in own'
                             /\ Exists(m.made)' => Len(server'[m.made].items) <= Len(m.ids),
           Rest'
    PROVE  Typed'
<1>1. Moved
  BY TasksMove DEF Moved
<1> QED
  BY <1>1, Whole

LEMMA GotoTyped ==
    ASSUME Typed, OthersAsWere, NEW p \in Procs,
           NEW pc \in {"refresh", "poll", "find", "begin", "resolve", "list",
                       "rename", "delete", "create", "save"},
           Goto(p, pc), pc \in Busy => proc[p].as \in Names, Rest'
    PROVE  Typed'
<1> DEFINE m == [proc[p] EXCEPT !.pc = pc]
<1>1. proc \in [Procs -> Task]
  BY DEF Typed, TypeOK
<1>2. m \in Task /\ m.pc = pc /\ m.as = proc[p].as
  BY <1>1 DEF Task
<1>3. proc' = [proc EXCEPT ![p] = m]
  BY <1>1 DEF Goto
<1> HIDE DEF m
<1> QED
  BY <1>2, <1>3, MoveTyped

LEMMA StatusTyped ==
    ASSUME Typed, NEW p \in Procs, NEW s \in {"synced", "pending_sync", "failed_sync"},
           SetStatus(p, s)
    PROVE  status' \in [Items -> {"none", "pending_sync", "synced", "failed_sync"}]
BY DEF Typed, TypeOK, SetStatus

-----------------------------------------------------------------------------
\* The steps outside the tasks.

LEMMA WorldTyped ==
    ASSUME Typed,
           \/ Edit \/ (\E i \in Items : Rescan(i)) \/ Adopt \/ Cancel
    PROVE  Typed'
<1>1. UNCHANGED <<server, own, foreign, proc>> /\ foreign' \in Nat
  BY DEF Edit, Rescan, Adopt, Cancel, settings, wanted, remote, bounds, Typed, TypeOK
<1>2. foreign' >= foreign
  BY <1>1
<1>3. OthersAsWere
  BY <1>1, <1>2, ServerSame
<1>4. Moved
  BY <1>1, <1>3, TasksStay DEF Moved
<1>5. CASE Edit
  <2>1. entries \in Lists /\ name \in Names /\ enabled \in BOOLEAN /\ edits \in Nat
    BY RestHolds DEF Rest
  <2>2. edits' \in Nat
    BY <1>5, <2>1 DEF Edit
  <2>3. \/ \E l \in Lists : entries' = l /\ UNCHANGED <<name, enabled>>
        \/ \E n \in Names : name' = n /\ UNCHANGED <<entries, enabled>>
        \/ enabled' = ~enabled /\ UNCHANGED <<entries, name>>
    BY <1>5 DEF Edit
  <2>4. entries' \in Lists /\ name' \in Names /\ enabled' \in BOOLEAN /\ edits' \in Nat
    <3>1. CASE \E l \in Lists : entries' = l /\ UNCHANGED <<name, enabled>>
      BY <2>1, <2>2, <3>1
    <3>2. CASE \E n \in Names : name' = n /\ UNCHANGED <<entries, enabled>>
      BY <2>1, <2>2, <3>2
    <3>3. CASE enabled' = ~enabled /\ UNCHANGED <<entries, name>>
      BY <2>1, <2>2, <3>3
    <3> QED
      BY <2>3, <3>1, <3>2, <3>3
  <2>5. Rest'
    BY <1>5, <2>4, RestHolds DEF Edit, Rest, settings, remote
  <2> QED
    BY <1>3, <1>4, <2>5, Whole
<1>6. CASE \E i \in Items : Rescan(i)
  <2>1. Rest'
    BY <1>6, RestHolds DEF Rescan, Rest, settings, wanted
  <2> QED
    BY <1>3, <1>4, <2>1, Whole
<1>7. CASE Adopt \/ Cancel
  <2>1. row.live
    BY <1>7 DEF Adopt, Cancel
  <2>2. row \in Row
    BY <2>1 DEF Typed, TypeOK, NoRow
  <2>3. row' \in Row
    BY <1>7, <2>2 DEF Adopt, Cancel, Row
  <2>4. Rest'
    BY <1>7, <2>3, RestHolds DEF Adopt, Cancel, Rest, settings, wanted, remote, bounds
  <2> QED
    BY <1>3, <1>4, <2>4, Whole
<1> QED
  BY <1>5, <1>6, <1>7

LEMMA UserCreatesTyped ==
    ASSUME Typed, NEW n \in Names, UserCreates(n)
    PROVE  Typed'
<1> DEFINE s == [on |-> TRUE, name |-> n, items |-> <<>>]
<1>1. s \in Playlist
  BY EmptySeq DEF Playlist
<1>2. PICK d \in Free : server' = [server EXCEPT ![d] = s]
  BY DEF UserCreates
<1> HIDE DEF s
<1>3. OthersAsWere
  BY <1>1, <1>2, ServerGains DEF UserCreates
<1>4. Moved
  BY <1>3, TasksStay DEF Moved, UserCreates
<1>5. Rest'
  BY RestHolds DEF UserCreates, Rest, settings, wanted
<1> QED
  BY <1>3, <1>4, <1>5, Whole

LEMMA UserDeletesTyped ==
    ASSUME Typed, NEW d \in Ids, UserDeletes(d)
    PROVE  Typed'
<1>1. OthersAsWere
  BY ServerLoses DEF UserDeletes, ServerDelete
<1>2. Moved
  BY <1>1, TasksStay DEF Moved, UserDeletes
<1>3. Rest'
  BY RestHolds DEF UserDeletes, Rest, settings, wanted
<1> QED
  BY <1>1, <1>2, <1>3, Whole

LEMMA CrashTyped ==
    ASSUME Typed, Crash
    PROVE  Typed'
<1>1. OthersAsWere
  <2>1. UNCHANGED <<server, own, foreign>> /\ foreign' \in Nat
    BY DEF Crash, remote, Typed, TypeOK
  <2>2. foreign' >= foreign
    BY <2>1
  <2> QED
    BY <2>1, <2>2, ServerSame
<1>2. proc' = [p \in Procs |-> IdleTask]
  BY DEF Crash
<1>3. \A p \in Procs : proc'[p].pc = "idle"
  BY <1>2, IdleTyped
<1>4. Moved
  BY <1>1, <1>2, <1>3, IdleTyped DEF Moved, AsNamed, Counted, OthersAsWere, Busy, Syncing
<1>5. Rest'
  BY RestHolds DEF Crash, Rest, settings, wanted, remote
<1> QED
  BY <1>1, <1>4, <1>5, Whole

-----------------------------------------------------------------------------
\* The steps of the tasks, in the order of a sync.

\* A step that leaves the server alone.
LEMMA ServerRests ==
    ASSUME Typed, UNCHANGED <<server, own, foreign>>
    PROVE  OthersAsWere
<1>1. foreign' \in Nat /\ foreign' >= foreign
  BY DEF Typed, TypeOK
<1> QED
  BY <1>1, ServerSame

LEMMA TaskTyped ==
    ASSUME Typed, NEW p \in Procs
    PROVE  /\ proc[p] \in Task
           /\ proc[p].loaded \in Row /\ proc[p].ids \in Seq(Items) /\ proc[p].made \in Ids \cup {NoId}
           /\ proc[p].dups \in Nat
           /\ proc[p].polls \in 0 .. PollAttempts - 1
           /\ proc[p].pc \in Busy => proc[p].as \in Names
           /\ ResolveOrderedItems(entries) \in Seq(Items)
<1>1. proc[p] \in Task
  BY DEF Typed, TypeOK
<1>2. entries \in Seq(Items)
  BY ExternalAssumption DEF Typed, TypeOK
<1>3. ResolveOrderedItems(entries) \in Seq(Items)
  BY <1>2, ListsShrink
<1>4. proc[p].pc \in Busy => proc[p].as \in Names
  BY DEF Typed, AsNamed
<1> QED
  BY <1>1, <1>3, <1>4 DEF Task

LEMMA ScanTyped ==
    ASSUME Typed, NEW p \in Procs,
           (\E i \in Items : AssetSync(p, i)) \/ Refresh(p) \/ PollIdle(p) \/ SyncRequest(p)
    PROVE  Typed'
<1>1. OthersAsWere /\ Rest'
  <2>1. UNCHANGED <<settings, wanted, row, status, remote, writer, own, bounds>>
    BY DEF AssetSync, Refresh, PollIdle, SyncRequest
  <2>2. OthersAsWere
    BY <2>1, ServerRests DEF remote, bounds
  <2>3. Rest'
    BY <2>1, RestHolds DEF Rest, settings, wanted, remote, bounds
  <2> QED
    BY <2>2, <2>3
<1>2. CASE \E i \in Items : AssetSync(p, i)
  <2>1. PICK i \in Items :
           proc' = [proc EXCEPT ![p] = [IdleTask EXCEPT !.pc = "refresh", !.item = {i}]]
    BY <1>2 DEF AssetSync
  <2> DEFINE m == [IdleTask EXCEPT !.pc = "refresh", !.item = {i}]
  <2>2. m \in Task /\ m.pc = "refresh"
    BY IdleTyped DEF Task
  <2>3. proc' = [proc EXCEPT ![p] = m]
    BY <2>1
  <2> HIDE DEF m
  <2> QED
    BY <1>1, <2>2, <2>3, MoveTyped DEF Busy, Syncing
<1>3. CASE Refresh(p)
  <2>1. Goto(p, "poll") \/ Goto(p, "find")
    BY <1>3 DEF Refresh
  <2> QED
    BY <1>1, <2>1, GotoTyped DEF Busy, Syncing
<1>4. CASE PollIdle(p)
  BY <1>1, <1>4, GotoTyped DEF PollIdle, Busy, Syncing
<1>5. CASE SyncRequest(p)
  BY <1>1, <1>5, GotoTyped DEF SyncRequest, Busy, Syncing
<1> QED
  BY <1>2, <1>3, <1>4, <1>5

\* What Spotify lists is written down, and the servers are next.
LEMMA SpotifySyncTyped ==
    ASSUME Typed, NEW p \in Procs, SpotifySync(p)
    PROVE  Typed'
<1>1. OthersAsWere
  BY ServerRests DEF SpotifySync, remote
<1>2. PICK l \in Lists, n \in Names : entries' = l /\ name' = n
  BY DEF SpotifySync
<1>3. edits \in Nat /\ edits' = edits + 1
  BY DEF SpotifySync, Typed, TypeOK
<1>4. Rest'
  BY <1>2, <1>3, RestHolds DEF SpotifySync, Rest, settings, remote
<1>5. CASE enabled
  BY <1>1, <1>4, <1>5, GotoTyped DEF SpotifySync, Busy, Syncing
<1>6. CASE ~enabled
  <2>1. UNCHANGED <<server, own, foreign, proc>>
    BY <1>6 DEF SpotifySync, remote
  <2>2. Moved
    BY <1>1, <2>1, TasksStay DEF Moved
  <2> QED
    BY <1>1, <1>4, <2>2, Whole
<1> QED
  BY <1>5, <1>6

\* The asset's status is written, or the next answer is waited for.
LEMMA LookUpTyped ==
    ASSUME Typed, NEW p \in Procs, PollRunning(p) \/ FindItem(p) \/ AssetCallFails(p)
    PROVE  Typed'
<1>1. /\ UNCHANGED <<settings, wanted, row, remote, writer, own, edits, foreign, crashes>>
      /\ faults' \in Nat
  BY DEF PollRunning, FindItem, AssetCallFails, bounds, Typed, TypeOK
<1>2. OthersAsWere
  BY <1>1, ServerRests DEF remote
<1>3. status' = status \/ (\E s \in {"synced", "pending_sync", "failed_sync"} : SetStatus(p, s))
  BY DEF PollRunning, FindItem, AssetCallFails
<1>4. status' \in [Items -> {"none", "pending_sync", "synced", "failed_sync"}]
  BY <1>3, StatusTyped DEF Typed, TypeOK
<1>5. Rest'
  BY <1>1, <1>4, RestHolds DEF Rest, settings, wanted, remote
<1>6. CASE PollRunning(p) /\ proc[p].polls + 1 < PollAttempts
  <2> DEFINE m == [proc[p] EXCEPT !.polls = proc[p].polls + 1]
  <2>1. proc' = [proc EXCEPT ![p] = m]
    BY <1>6, TaskTyped DEF PollRunning
  <2>2. proc[p].polls + 1 \in 0 .. PollAttempts - 1
    BY <1>6, TaskTyped, ExternalAssumption
  <2>3. m \in Task /\ m.pc = proc[p].pc
    BY <2>2, TaskTyped DEF Task
  <2>4. m.pc = "poll"
    BY <1>6, <2>3 DEF PollRunning, At
  <2> HIDE DEF m
  <2> QED
    BY <1>2, <1>5, <2>1, <2>3, <2>4, MoveTyped DEF Busy, Syncing
<1>7. CASE FindItem(p)
  <2> DEFINE m == [IdleTask EXCEPT !.pc = "begin"]
  <2>1. m \in Task /\ m.pc = "begin"
    BY IdleTyped DEF Task
  <2>2. proc' = [proc EXCEPT ![p] = m]
    BY <1>7 DEF FindItem
  <2> HIDE DEF m
  <2> QED
    BY <1>2, <1>5, <2>1, <2>2, MoveTyped DEF Busy, Syncing
<1>8. CASE proc' = [proc EXCEPT ![p] = IdleTask]
  BY <1>2, <1>5, <1>8, IdleTyped, MoveTyped DEF Busy, Syncing
<1> QED
  BY <1>6, <1>7, <1>8 DEF PollRunning, AssetCallFails

LEMMA BeginTyped ==
    ASSUME Typed, NEW p \in Procs, Begin(p)
    PROVE  Typed'
<1>1. UNCHANGED <<settings, wanted, row, status, remote, own, bounds>>
  BY DEF Begin
<1>2. OthersAsWere
  BY <1>1, ServerRests DEF remote, bounds
<1>3. writer' \in Procs \cup {NoProc}
  BY DEF Begin, Typed, TypeOK
<1>4. Rest'
  BY <1>1, <1>3, RestHolds DEF Rest, settings, wanted, remote, bounds
<1>5. CASE Awaiting(row)
  <2>1. proc' = [proc EXCEPT ![p] = IdleTask]
    BY <1>5 DEF Begin
  <2> QED
    BY <1>2, <1>4, <2>1, IdleTyped, MoveTyped DEF Busy, Syncing
<1>6. CASE ~Awaiting(row)
  <2> DEFINE r == IF row.live THEN row ELSE NewRow
             m == [proc[p] EXCEPT !.pc = "resolve", !.as = name, !.loaded = r]
  <2>1. r \in Row /\ name \in Names
    BY IdleTyped DEF Typed, TypeOK, NoRow
  <2>2. proc' = [proc EXCEPT ![p] = m]
    BY <1>6, TaskTyped DEF Begin
  <2> HIDE DEF r
  <2>3. m \in Task /\ m.pc = "resolve" /\ m.as = name
    BY <2>1, TaskTyped DEF Task
  <2> HIDE DEF m
  <2> QED
    BY <1>2, <1>4, <2>1, <2>2, <2>3, MoveTyped
<1> QED
  BY <1>5, <1>6

\* Columns of the loaded row are set, and the session commits.
LEMMA SetsTyped ==
    ASSUME Typed, OthersAsWere, NEW p \in Procs,
           NEW s \in {"pending", "synced", "failed", "needs_resolution"},
           NEW d \in Ids \cup {NoId},
           Commit(p, [proc[p].loaded EXCEPT !.state = s, !.ext = d]),
           UNCHANGED <<settings, wanted, status, indexed>>,
           edits' \in Nat, foreign' \in Nat, faults' \in Nat, crashes' \in Nat
    PROVE  Typed'
<1> DEFINE r == [proc[p].loaded EXCEPT !.state = s, !.ext = d]
<1>1. r \in Row
  BY TaskTyped DEF Row
<1>2. Commit(p, r)
  OBVIOUS
<1> HIDE DEF r
<1> QED
  BY <1>1, <1>2, CommitTyped

LEMMA ResolveTyped ==
    ASSUME Typed, NEW p \in Procs, Resolve(p)
    PROVE  Typed'
<1>1. /\ UNCHANGED <<settings, wanted, status, remote, own, bounds>>
      /\ edits' \in Nat /\ foreign' \in Nat /\ faults' \in Nat /\ crashes' \in Nat
      /\ At(p, "resolve")
  BY DEF Resolve, bounds, Typed, TypeOK
<1>2. OthersAsWere
  BY <1>1, ServerRests DEF remote, bounds
<1>3. CASE Commit(p, [proc[p].loaded EXCEPT !.state = "synced"])
  <2> DEFINE r == [proc[p].loaded EXCEPT !.state = "synced"]
  <2>1. r \in Row
    BY TaskTyped DEF Row
  <2>2. Commit(p, r)
    BY <1>3
  <2> HIDE DEF r
  <2> QED
    BY <1>1, <1>2, <2>1, <2>2, CommitTyped DEF remote
<1>4. CASE \E pc \in {"list", "rename", "delete"} :
              /\ proc' = [proc EXCEPT ![p].pc = pc, ![p].ids = ResolveOrderedItems(entries)]
              /\ UNCHANGED <<row, writer>>
  <2>1. PICK pc \in {"list", "rename", "delete"} :
              /\ proc' = [proc EXCEPT ![p].pc = pc, ![p].ids = ResolveOrderedItems(entries)]
              /\ UNCHANGED <<row, writer>>
    BY <1>4
  <2> DEFINE m == [proc[p] EXCEPT !.pc = pc, !.ids = ResolveOrderedItems(entries)]
  <2>2. proc' = [proc EXCEPT ![p] = m]
    BY <2>1, TaskTyped
  <2>3. m \in Task /\ m.pc = pc /\ m.as = proc[p].as
    BY TaskTyped DEF Task
  <2>4. proc[p].as \in Names
    BY <1>1, TaskTyped DEF At, Busy, Syncing
  <2>5. Rest'
    BY <1>1, <2>1, RestHolds DEF Rest, settings, wanted, remote, bounds
  <2> HIDE DEF m
  <2> QED
    BY <1>2, <2>2, <2>3, <2>4, <2>5, MoveTyped
<1> QED
  BY <1>3, <1>4, Zenon DEF Resolve

LEMMA ListNamesTyped ==
    ASSUME Typed, NEW p \in Procs, ListNames(p)
    PROVE  Typed'
<1>1. /\ UNCHANGED <<settings, wanted, status, remote, own, bounds>>
      /\ edits' \in Nat /\ foreign' \in Nat /\ faults' \in Nat /\ crashes' \in Nat
      /\ At(p, "list")
  BY DEF ListNames, bounds, Typed, TypeOK
<1>2. OthersAsWere
  BY <1>1, ServerRests DEF remote, bounds
<1>3. CASE \E d \in Ids : Commit(p, [proc[p].loaded EXCEPT !.state = "needs_resolution", !.ext = d])
  BY <1>1, <1>2, <1>3, SetsTyped DEF remote
<1>4. CASE Commit(p, [proc[p].loaded EXCEPT !.state = "pending"])
  <2> DEFINE r == [proc[p].loaded EXCEPT !.state = "pending"]
  <2>1. r \in Row
    BY TaskTyped DEF Row
  <2>2. Commit(p, r)
    BY <1>4
  <2> HIDE DEF r
  <2> QED
    BY <1>1, <1>2, <2>1, <2>2, CommitTyped DEF remote
<1>5. CASE Goto(p, "create") /\ UNCHANGED <<row, writer>>
  <2>1. Rest'
    BY <1>1, <1>5, RestHolds DEF Rest, settings, wanted, remote, bounds
  <2>2. proc[p].as \in Names
    BY <1>1, TaskTyped DEF At, Busy, Syncing
  <2> QED
    BY <1>2, <1>5, <2>1, <2>2, GotoTyped
<1> QED
  BY <1>3, <1>4, <1>5 DEF ListNames

LEMMA RenameDeleteTyped ==
    ASSUME Typed, NEW p \in Procs, Rename(p) \/ Delete(p)
    PROVE  Typed'
<1>1. proc[p].as \in Names
  BY TaskTyped DEF Rename, Delete, At, Busy, Syncing
<1>2. UNCHANGED <<settings, wanted, row, status, indexed, writer, own, bounds>>
  BY DEF Rename, Delete
<1>3. OthersAsWere
  BY <1>1, <1>2, ServerLoses DEF Rename, Delete, bounds
<1>4. Rest'
  BY <1>2, RestHolds DEF Rest, settings, wanted, bounds
<1>5. Goto(p, "delete") \/ Goto(p, "create")
  BY DEF Rename, Delete
<1> QED
  BY <1>1, <1>3, <1>4, <1>5, GotoTyped

LEMMA CreateTyped ==
    ASSUME Typed, NEW p \in Procs, Create(p)
    PROVE  Typed'
<1>1. proc[p].as \in Names /\ proc[p].ids \in Seq(Items)
  BY TaskTyped DEF Create, At, Busy, Syncing
<1>2. PICK d \in Free :
         /\ ServerCreate(d, proc[p].as, proc[p].ids)
         /\ own' = own \cup {d}
         /\ proc' = [proc EXCEPT ![p].made = d,
                                 ![p].pc = IF platform = "plex" THEN "count" ELSE "save"]
  BY DEF Create
<1>3. OthersAsWere /\ d \in Ids /\ Len(server'[d].items) <= Len(proc[p].ids)
  BY <1>1, <1>2, CreatedList DEF Create, bounds
<1>4. Rest'
  BY RestHolds DEF Create, Rest, settings, wanted, bounds
<1> DEFINE pc == IF platform = "plex" THEN "count" ELSE "save"
           m == [proc[p] EXCEPT !.made = d, !.pc = pc]
<1>5. proc' = [proc EXCEPT ![p] = m]
  BY <1>2, TaskTyped
<1>6. pc \in {"count", "save"}
  OBVIOUS
<1> HIDE DEF pc
<1>7. m \in Task /\ m.made = d /\ m.as = proc[p].as /\ m.ids = proc[p].ids
  BY <1>3, <1>6, TaskTyped DEF Task
<1>8. m.made \in own' /\ (server'[m.made].on => Len(server'[m.made].items) <= Len(m.ids))
  BY <1>2, <1>3, <1>7
<1> HIDE DEF m
<1> QED
  BY <1>1, <1>3, <1>4, <1>5, <1>7, <1>8, MoveTyped DEF Exists

LEMMA CountTyped ==
    ASSUME Typed, NEW p \in Procs, Count(p)
    PROVE  Typed'
<1> DEFINE dups == Len(proc[p].ids) - Len(server[proc[p].made].items)
           m == [proc[p] EXCEPT !.pc = "save", !.dups = dups]
<1>1. /\ proc[p].made \in Ids /\ server[proc[p].made] \in Playlist
      /\ Len(server[proc[p].made].items) <= Len(proc[p].ids)
  <2>1. proc[p].pc = "count" /\ Exists(proc[p].made)
    BY DEF Count, At
  <2>2. proc[p].made \in own /\ Len(server[proc[p].made].items) <= Len(proc[p].ids)
    BY <2>1 DEF Typed, Counted
  <2>3. proc[p].made \in Ids
    BY <2>2 DEF Typed, TypeOK
  <2>4. server[proc[p].made] \in Playlist \cup {NoPlaylist}
    BY <2>3 DEF Typed, TypeOK
  <2> QED
    BY <2>1, <2>2, <2>3, <2>4 DEF Exists, NoPlaylist
<1>2. server[proc[p].made].items \in Seq(Items)
  BY <1>1 DEF Playlist
<1>3. Len(proc[p].ids) \in Nat /\ Len(server[proc[p].made].items) \in Nat
  BY <1>2, TaskTyped, LenProperties
<1>4. dups \in Nat
  BY <1>1, <1>3
<1>5. proc' = [proc EXCEPT ![p] = m]
  BY TaskTyped DEF Count
<1> HIDE DEF dups
<1>6. m \in Task /\ m.pc = "save" /\ m.as = proc[p].as
  BY <1>4, TaskTyped DEF Task
<1>7. OthersAsWere
  BY ServerRests DEF Count, remote, bounds
<1>8. Rest'
  BY RestHolds DEF Count, Rest, settings, wanted, remote, bounds
<1>9. proc[p].as \in Names
  BY TaskTyped DEF Count, At, Busy, Syncing
<1> HIDE DEF m
<1> QED
  BY <1>5, <1>6, <1>7, <1>8, <1>9, MoveTyped

LEMMA SaveTyped ==
    ASSUME Typed, NEW p \in Procs, Save(p)
    PROVE  Typed'
<1> DEFINE r == [proc[p].loaded EXCEPT !.ext = proc[p].made, !.name = proc[p].as,
                                       !.snap = proc[p].ids, !.state = "synced",
                                       !.dups = proc[p].dups]
<1>1. proc[p].as \in Names
  BY TaskTyped DEF Save, At, Busy, Syncing
<1>2. r \in Row
  BY <1>1, TaskTyped DEF Row
<1>3. Commit(p, r)
  BY DEF Save
<1> HIDE DEF r
<1>4. OthersAsWere
  BY ServerRests DEF Save, remote, bounds
<1>5. edits' \in Nat /\ foreign' \in Nat /\ faults' \in Nat /\ crashes' \in Nat
  BY DEF Save, bounds, Typed, TypeOK
<1> QED
  BY <1>2, <1>3, <1>4, <1>5, CommitTyped DEF Save, remote

-----------------------------------------------------------------------------
\* The steps that fail.

\* Whether the call was done or not, nobody else's list changes.
LEMMA LostAnswerTyped ==
    ASSUME Typed, NEW p \in Procs, LostAnswer(p), UNCHANGED foreign
    PROVE  OthersAsWere
<1>1. CASE UNCHANGED <<server, own>>
  BY <1>1, ServerRests
<1>2. CASE /\ At(p, "rename") /\ Exists(Target(p))
           /\ ServerRename(Target(p), proc[p].as) /\ UNCHANGED own
  <2>1. proc[p].as \in Names
    BY <1>2, TaskTyped DEF At, Busy, Syncing
  <2> QED
    BY <1>2, <2>1, ServerLoses
<1>3. CASE At(p, "delete") /\ Exists(Target(p)) /\ ServerDelete(Target(p)) /\ UNCHANGED own
  BY <1>3, ServerLoses
<1>4. CASE /\ At(p, "create")
           /\ \E d \in Free : ServerCreate(d, proc[p].as, proc[p].ids) /\ own' = own \cup {d}
  <2>1. proc[p].as \in Names /\ proc[p].ids \in Seq(Items)
    BY <1>4, TaskTyped DEF At, Busy, Syncing
  <2> QED
    BY <1>4, <2>1, CreatedList
<1> QED
  BY <1>1, <1>2, <1>3, <1>4 DEF LostAnswer

LEMMA FailureTyped ==
    ASSUME Typed, NEW p \in Procs, CallFails(p) \/ CallNotFound(p)
    PROVE  Typed'
<1> DEFINE d == IF At(p, "count") THEN proc[p].made ELSE proc[p].loaded.ext
<1>1. d \in Ids \cup {NoId}
  BY TaskTyped DEF Row
<1>2. Commit(p, [proc[p].loaded EXCEPT !.state = "failed", !.ext = d])
  <2>1. Failed(p) = [proc[p].loaded EXCEPT !.state = "failed", !.ext = d]
    BY TaskTyped DEF Failed, Row
  <2> QED
    BY <2>1 DEF CallFails, CallNotFound
<1>3. /\ UNCHANGED <<settings, wanted, status, indexed, foreign>>
      /\ edits' \in Nat /\ foreign' \in Nat /\ faults' \in Nat /\ crashes' \in Nat
  BY DEF CallFails, CallNotFound, remote, bounds, Typed, TypeOK
<1>4. OthersAsWere
  <2>1. CASE CallFails(p)
    BY <1>3, <2>1, LostAnswerTyped DEF CallFails
  <2>2. CASE CallNotFound(p)
    BY <2>2, ServerRests DEF CallNotFound, remote, bounds
  <2> QED
    BY <2>1, <2>2
<1> HIDE DEF d
<1> QED
  BY <1>1, <1>2, <1>3, <1>4, SetsTyped

LEMMA RaiseTyped ==
    ASSUME Typed, NEW p \in Procs, CallRaises(p)
    PROVE  Typed'
<1>1. OthersAsWere
  BY LostAnswerTyped DEF CallRaises
<1>2. proc' = [proc EXCEPT ![p] = IdleTask]
  BY DEF CallRaises
<1>3. writer' \in Procs \cup {NoProc} /\ faults' \in Nat
  BY DEF CallRaises, Typed, TypeOK
<1>4. Rest'
  BY <1>3, RestHolds DEF CallRaises, Rest, settings, wanted
<1> QED
  BY <1>1, <1>2, <1>4, IdleTyped, MoveTyped DEF Busy, Syncing

-----------------------------------------------------------------------------
\* Whatever the tasks, the operator, the server's user, the failures and the
\* restarts do, rows, tasks and playlists keep their shape: a name is written
\* only where one was read, and the count of collapsed duplicates never falls
\* below zero. Any number of tasks may sync at once.
THEOREM TypesHold == Spec => []TypeOK
<1>1. Typed /\ [Next]_vars => Typed'
  <2> SUFFICES ASSUME Typed, [Next]_vars PROVE Typed'
    OBVIOUS
  <2>1. CASE UNCHANGED vars
    BY <2>1 DEF vars, settings, wanted, remote, bounds, Typed, TypeOK, AsNamed, OwnAreOld,
                Counted, Exists
  <2>2. CASE \/ Edit \/ (\E i \in Items : Rescan(i)) \/ Adopt \/ Cancel
    BY <2>2, WorldTyped
  <2>3. CASE (\E n \in Names : UserCreates(n)) \/ (\E d \in Ids : UserDeletes(d)) \/ Crash
    BY <2>3, UserCreatesTyped, UserDeletesTyped, CrashTyped
  <2>4. ASSUME NEW p \in Procs,
               \/ SpotifySync(p) \/ SyncRequest(p) \/ (\E i \in Items : AssetSync(p, i)) \/ Step(p)
               \/ CallFails(p) \/ CallRaises(p) \/ AssetCallFails(p)
        PROVE  Typed'
    BY <2>4, SpotifySyncTyped, ScanTyped, LookUpTyped, BeginTyped, ResolveTyped, ListNamesTyped, RenameDeleteTyped,
       CreateTyped, CountTyped, SaveTyped, FailureTyped, RaiseTyped DEF Step
  <2> QED
    BY <2>1, <2>2, <2>3, <2>4 DEF Next
<1>2. Typed => TypeOK
  BY DEF Typed
<1> QED
  BY <1>1, <1>2, InitTyped, PTL DEF Spec
=============================================================================
