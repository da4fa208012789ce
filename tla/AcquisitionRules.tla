-------------------------- MODULE AcquisitionRules --------------------------
(***************************************************************************)
(* The decisions that are computed and not stored: how a candidate is      *)
(* scored, what a file found in the library is taken for, how streams are  *)
(* muxed, which lyrics are accepted.  A state asks one of them and holds   *)
(* the answer; the state machines take the answers from here as choices.   *)
(*                                                                         *)
(* A video's title is what the regular expressions find in it, a name is a *)
(* sequence of characters of which few are told apart, an external tool is *)
(* what it does when it runs.                                              *)
(***************************************************************************)
EXTENDS Integers, FiniteSets, Sequences, SequencesExt, FiniteSetsExt

CONSTANTS
    Threshold,      \* AppSettings.automatic_match_threshold
    MaxMarks,       \* bound on the markers of one title
    MaxFeatured,    \* bound on the featured artists found
    MaxLength,      \* _MAX_COMPONENT_LENGTH
    Chars,
    Artists,        \* canonical_artist of the tracks
    Titles          \* canonical_title

ASSUME RulesAssumption ==
    /\ Threshold \in Nat /\ MaxMarks \in Nat /\ MaxFeatured \in Nat /\ MaxLength \in Nat
    /\ Artists \cup Titles \subseteq Seq(Chars)

VARIABLES
    question,       \* what is asked
    answer          \* what the code makes of it

vars == <<question, answer>>

-----------------------------------------------------------------------------
(* matching/scoring.py *)

\* The version keywords, one of each kind that the penalties tell apart.
Categories == {"remix", "live", "acoustic", "radio edit"}

\* named: the version says whose, "John Doe Remix".  "other": parse_version knows
\* words without such a keyword, "Original Mix" or "Session Version".
Version == [kind: Categories, named: BOOLEAN] \cup [kind: {"other"}, named: {FALSE}]

Plain == [kind |-> "none", named |-> FALSE]

\* fan: fan made, unofficial or tribute; fanChannel: the channel's name says so.
Markers == {"visualizer", "fan", "fanChannel", "lyric", "cover", "live",
            "instrumental", "clean"}

\* What a keyword is a marker of, besides.
Implied == [kind \in Categories \cup {"other", "none"} |->
               CASE kind = "live"       -> {"live"}
                 [] kind = "acoustic"   -> {"instrumental"}
                 [] kind = "radio edit" -> {"clean"}
                 [] OTHER               -> {}]

\* kind: the first keyword of its title; exact: the requested words are in it;
\* named: whose version was requested is.
Facet == [kind: Categories \cup {"none"}, exact: BOOLEAN, named: BOOLEAN]

\* A keyword that is all that was requested is what was requested.  A title with
\* the requested words can have any keyword, or none ("Live" is in "Alive").
FacetsFor(want) ==
    {f \in Facet : /\ f.exact => want # Plain /\ ~f.named
                   /\ f.named => want.named /\ f.kind = want.kind
                   /\ want # Plain /\ ~want.named /\ f.kind = want.kind => f.exact}

\* The markers of a title, "instrumental" and "acoustic" being keywords too.
MarksFor(kind) ==
    {Implied[kind] \cup more : more \in {s \in UNION {kSubset(k, Markers) : k \in 0 .. MaxMarks} :
                                         "instrumental" \in s => kind # "none"}}

\* MUTANT: another variant of what was asked for is one of its kind.
VersionOfItsKind(want, c) ==
    IF want = Plain THEN IF c.kind = "none" THEN 0 ELSE -40
    ELSE IF c.exact \/ c.kind = want.kind THEN 90
    ELSE IF c.kind = "none" THEN 30 ELSE 0

\* The categories compared, then the words besides the category.  A request that
\* has no category gives no signal where the candidate has one.
VersionDelta(want, c) ==
    IF want = Plain THEN IF c.kind = "none" THEN 0 ELSE -40
    ELSE IF c.exact THEN 90
    ELSE IF c.kind = "none" THEN -50
    ELSE IF want.kind = "other" THEN 0
    ELSE IF c.kind # want.kind \/ (want.named /\ ~c.named) THEN -25
    ELSE 60

IdentityDelta(c) ==
    (CASE c.artist \in {"channel", "title"} -> 25
       [] c.artist = "partial"              -> 10
       [] OTHER                             -> 0)
    + 10 * c.featured
    + (CASE c.title = "contained" -> 25
         [] c.title = "most"      -> 10
         [] OTHER                 -> 0)

OfficialChannel(c) == c.artist = "channel" /\ c.marks \cap {"fan", "fanChannel"} = {}

\* MUTANT: VEVO weighs as much as the artist's own channel.
OfficialMore(c) ==
    (CASE c.official = "phrase" -> 25
       [] c.official = "word"   -> 8
       [] OTHER                 -> 0)
    + (IF OfficialChannel(c) THEN 20 ELSE 0)
    + (IF c.vevo THEN 20 ELSE 0)

OfficialDelta(c) ==
    (CASE c.official = "phrase" -> 25
       [] c.official = "word"   -> 8
       [] OTHER                 -> 0)
    + (IF OfficialChannel(c) THEN 20 ELSE 0)
    + (IF c.vevo THEN 18 ELSE 0)

LengthDelta(c) ==
    CASE c.length = "close" -> 15
      [] c.length = "ok"    -> 8
      [] c.length = "far"   -> -10
      [] OTHER              -> 0

\* What the marker costs.  The keyword "radio edit" is never the "radio" that
\* would forgive "clean", and "cover" is no keyword.
Weight == [visualizer |-> -45, fan |-> -15, fanChannel |-> 0, lyric |-> -25,
           cover |-> -30, live |-> -35, instrumental |-> -20, clean |-> -20]

Penalised(want, explicit, c, m) ==
    /\ m \in c.marks
    /\ m = "clean" => explicit
    /\ m = "live" => want.kind # "live"
    /\ m = "instrumental" => want.kind # "acoustic"

\* One condition after the other in the code.
MarksDelta(want, explicit, c) ==
    LET cost(m) == IF Penalised(want, explicit, c, m) THEN Weight[m] ELSE 0
    IN  cost("visualizer") + cost("fan") + cost("fanChannel") + cost("lyric") + cost("cover")
        + cost("live") + cost("instrumental") + cost("clean")

Score(want, explicit, c) ==
    VersionDelta(want, c) + IdentityDelta(c) + OfficialDelta(c) + LengthDelta(c)
    + MarksDelta(want, explicit, c)

Classify(score) == IF score >= Threshold THEN "automatic" ELSE "manual_review"

\* length: against the track's, within 5 or 15 in a hundred.
AskScore ==
    /\ question.about = "nothing"
    /\ \E want \in Version \cup {Plain}, explicit \in BOOLEAN :
       \E f \in FacetsFor(want) :
       \E artist \in {"channel", "title", "partial", "none"}, featured \in 0 .. MaxFeatured,
          title \in {"contained", "most", "none"}, official \in {"phrase", "word", "none"},
          vevo \in BOOLEAN, length \in {"close", "ok", "far", "unknown"},
          marks \in MarksFor(f.kind) :
          LET c == [kind |-> f.kind, exact |-> f.exact, named |-> f.named, artist |-> artist,
                    featured |-> featured, title |-> title, official |-> official,
                    vevo |-> vevo, length |-> length, marks |-> marks]
          IN  /\ question' = [about |-> "score", want |-> want, explicit |-> explicit, of |-> c]
              /\ answer' = Score(want, explicit, c)

-----------------------------------------------------------------------------
(* domain/naming.py, domain/text_normalize.py and services/library_scan.py *)

\* The characters somebody looks at; "/" stands for those no filename may have.
\* All others are letters.
Marks == {" ", "/", "-", "(", ")", "[", "]"}

\* One space for several, and none at the ends.
Trimmed(s) ==
    LET keeps(i) == s[i] # " " \/ (i > 1 /\ s[i - 1] # " " /\ \E j \in i .. Len(s) : s[j] # " ")
        kept == SelectSeq([i \in DOMAIN s |-> i], keeps)
    IN  [k \in DOMAIN kept |-> s[kept[k]]]

\* normalize_for_comparison: the letters, and spaces for the rest.
Normalized(s) == Trimmed([i \in DOMAIN s |-> IF s[i] \in Marks THEN " " ELSE s[i]])

\* sanitize_filename_component: an illegal character goes without a space in its
\* place, and a long name is cut.  The underscore after a reserved name and the dots
\* that are cut off at the end make no difference once normalised.
Sanitized(s) ==
    LET legal == Trimmed(SelectSeq(s, LAMBDA c : c # "/"))
        named == IF legal = <<>> THEN <<"unknown">> ELSE legal
    IN  Trimmed(SubSeq(named, 1, Min({MaxLength, Len(named)})))

Dash == <<" ", "-", " ">>

\* render_filename and disambiguate_filename, without the extension: y, the year is
\* known; n, the name was taken.
Stem(track, y, n) ==
    Sanitized(track.artist) \o Dash \o Sanitized(track.title)
    \o (IF y THEN <<" ", "(", "year", ")">> ELSE <<>>) \o <<" ", "[", "quality", "]">>
    \o (IF n THEN <<" ", "(", "2", ")">> ELSE <<>>)

\* Without the bracketed group at its end.
Unbracketed(s) ==
    LET opens == IF s = <<>> THEN "none" ELSE IF Last(s) = ")" THEN "("
                 ELSE IF Last(s) = "]" THEN "[" ELSE "none"
    IN  IF Contains(s, opens) THEN Trimmed(SubSeq(s, 1, SelectLastInSeq(s, LAMBDA c : c = opens) - 1))
        ELSE s

\* MUTANT: one bracketed group is taken off.
BareOnce(stem) == Unbracketed(stem)

\* _parse_filename_stem takes off two, and splits at the first dash.
Bare(stem) == Unbracketed(Unbracketed(stem))

Dashes(s) == {i \in DOMAIN s : i + 2 <= Len(s) /\ SubSeq(s, i, i + 2) = Dash}

Parsed(stem) ==
    LET bare == Bare(stem)
        at == Min(Dashes(bare))
    IN  IF Dashes(bare) = {} THEN [artist |-> <<>>, title |-> <<>>]
        ELSE [artist |-> SubSeq(bare, 1, at - 1), title |-> SubSeq(bare, at + 3, Len(bare))]

\* One normalised name within the other.
In(x, y) == \E i \in 1 .. Len(y) + 1 : i + Len(x) - 1 <= Len(y)
                                      /\ SubSeq(y, i, i + Len(x) - 1) = x

\* MUTANT: a name within a name is as good as the name.
PartScoreFull(probe, track, exact, partial) ==
    IF probe # <<>> /\ (In(probe, track) \/ In(track, probe)) THEN exact ELSE 0

PartScore(probe, track, exact, partial) ==
    IF probe = <<>> THEN 0
    ELSE IF probe = track THEN exact
    ELSE IF In(probe, track) \/ In(track, probe) THEN partial
    ELSE 0

\* fits: the lengths are within 15 in a hundred.
ScanScore(file, track, fits) ==
    PartScore(Normalized(file.artist), Normalized(track.artist), 45, 20)
    + PartScore(Normalized(file.title), Normalized(track.title), 40, 20)
    + (IF fits THEN 15 ELSE 0)

\* The first of the best.
BestMatch(file, tracks, fits) ==
    LET score(i) == ScanScore(file, tracks[i], fits[i])
    IN  CHOOSE i \in DOMAIN tracks :
           \A j \in DOMAIN tracks : score(j) < score(i) \/ (score(j) = score(i) /\ i <= j)

Decide(score) == IF score >= 85 THEN "available" ELSE IF score >= 30 THEN "review" ELSE "skipped"

Scan(file, tracks, fits) ==
    LET i == BestMatch(file, tracks, fits)
    IN  [track |-> i, decision |-> Decide(ScanScore(file, tracks[i], fits[i]))]

\* A name that a filename keeps.
Survives(s) == Normalized(s) # <<>> /\ Normalized(Sanitized(s)) = Normalized(s)

\* An untagged file under the name it was imported with.  plain: both names survive,
\* the artist has no dash that splits it, and two bracketed groups follow the title,
\* or one that follows none of the title's own.
OwnName(track, y, n) ==
    Parsed(Stem(track, y, n)) @@
    [from |-> "name",
     plain |-> /\ Survives(track.artist) /\ Survives(track.title)
               /\ Dashes(Sanitized(track.artist)) = {}
               /\ y # n \/ (~y /\ ~n /\ Last(Sanitized(track.title)) \notin {")", "]"})]

\* A file with the tags of write_mp4_tags: format_artist_tag adds who is featured.
OwnTags(track, featured) ==
    [artist |-> track.artist \o (IF featured THEN <<" ", "feat">> ELSE <<>>),
     title |-> track.title, from |-> "tags",
     plain |-> ~featured /\ Normalized(track.artist) # <<>> /\ Normalized(track.title) # <<>>]

\* Somebody else's file, or one this program made for the first track.
Files(tracks) ==
    [artist: Artists, title: Titles, from: {"others"}, plain: {FALSE}]
    \cup {OwnName(tracks[1], y, n) : y \in BOOLEAN, n \in BOOLEAN}
    \cup {OwnTags(tracks[1], featured) : featured \in BOOLEAN}

AskScan ==
    /\ question.about = "nothing"
    /\ \E tracks \in [1 .. 2 -> [artist: Artists, title: Titles]], fits \in [1 .. 2 -> BOOLEAN] :
       \E file \in Files(tracks) :
          /\ question' = [about |-> "scan", file |-> file, tracks |-> tracks, fits |-> fits]
          /\ answer' = Scan(file, tracks, fits)

-----------------------------------------------------------------------------
(* integrations/acquisition/ffmpeg_mux.py and hwaccel.py *)

\* The order of ordered_candidates, and what mux_to_mp4 tries after them.
Rank == [nvenc |-> 1, qsv |-> 2, vaapi |-> 3, software |-> 4, copy |-> 5]

FirstOf(encoders) == CHOOSE e \in encoders : \A f \in encoders : Rank[e] <= Rank[f]

\* detect_hardware_acceleration: an encoder ffmpeg knows, on a device that is
\* there.  nodes: the render nodes that can be opened.
Detected(host) ==
    {e \in host.encoders :
        CASE e = "nvenc" -> host.nvidia
          [] e = "qsv"   -> "intel" \in host.nodes
          [] OTHER       -> host.nodes # {}}

\* MUTANT: the best that was detected, and no other.
BestCandidate(host, policy) ==
    CASE policy = "disabled" -> {}
      [] policy = "auto"     -> {e \in Detected(host) : e = FirstOf(Detected(host))}
      [] OTHER               -> {policy}

\* _resolve_hw_video_encoders.
HwCandidates(host, policy) ==
    CASE policy = "disabled" -> {}
      [] policy = "auto"     -> Detected(host)
      [] OTHER               -> {policy}

Failed == [ok |-> FALSE, container |-> "none", video |-> "none"]

\* Hardware, which only a transcode needs, and what follows where it fails.
Encoders(host, policy, streams) ==
    IF streams.video THEN {"copy"} ELSE HwCandidates(host, policy) \cup {"software"}

\* MUTANT: the first one that fails ends it.
MuxToMp4FirstOnly(host, policy, streams) ==
    LET first == FirstOf(Encoders(host, policy, streams))
    IN  IF first \notin host.works THEN Failed
        ELSE [ok |-> TRUE, container |-> "mp4", video |-> first]

\* The hardware encoders in turn, then software; a compatible stream is copied.
MuxToMp4(host, policy, streams) ==
    LET work == Encoders(host, policy, streams) \cap host.works
    IN  IF work = {} THEN Failed
        ELSE [ok |-> TRUE, container |-> "mp4", video |-> FirstOf(work)]

MuxToMkv(host) ==
    IF "copy" \in host.works THEN [ok |-> TRUE, container |-> "mkv", video |-> "copy"]
    ELSE Failed

\* MUTANT: the policy's other container is asked for by the video alone.
MuxMediaByVideo(host, container, policy, streams) ==
    IF container = "always_mp4" THEN MuxToMp4(host, policy, streams)
    ELSE IF streams.video THEN MuxToMp4(host, "disabled", streams)
    ELSE MuxToMkv(host)

MuxMedia(host, container, policy, streams) ==
    IF container = "always_mp4" THEN MuxToMp4(host, policy, streams)
    ELSE IF streams.video /\ streams.audio THEN MuxToMp4(host, "disabled", streams)
    ELSE MuxToMkv(host)

\* works: what ffmpeg does not fail at when it runs.  streams: those an MP4 can
\* carry as they are.
AskMux ==
    /\ question.about = "nothing"
    /\ \E encoders \in SUBSET {"nvenc", "qsv", "vaapi"}, nvidia \in BOOLEAN,
          nodes \in SUBSET {"intel", "other"},
          works \in SUBSET {"nvenc", "qsv", "vaapi", "software", "copy"},
          container \in {"always_mp4", "prefer_mp4_allow_mkv"},
          policy \in {"disabled", "auto", "nvenc", "qsv", "vaapi"},
          streams \in [video: BOOLEAN, audio: BOOLEAN] :
          LET host == [encoders |-> encoders, nvidia |-> nvidia, nodes |-> nodes, works |-> works]
          IN  /\ question' = [about |-> "mux", host |-> host, container |-> container,
                              policy |-> policy, streams |-> streams]
              /\ answer' = MuxMedia(host, container, policy, streams)

-----------------------------------------------------------------------------
(* integrations/lyrics/lrclib.py and domain/lrc.py *)

\* near: within 5 in a hundred of the track's length, or not given.  words: plain,
\* synced up to the track's end or past it.
Record == [near: BOOLEAN, words: {"instrumental", "none", "plain", "fits", "overruns"}]

\* MUTANT: synced words that run past the end count as plain ones.
KindDowngraded(r) ==
    IF ~r.near \/ r.words \in {"instrumental", "none"} THEN "none"
    ELSE IF r.words = "fits" THEN "synced" ELSE "plain"

\* _result_from_payload.
Kind(r) ==
    IF ~r.near \/ r.words \in {"instrumental", "none", "overruns"} THEN "none"
    ELSE IF r.words = "fits" THEN "synced" ELSE "plain"

\* MUTANT: in the order they came.
AsTheyCame(records, i, j) == i < j

\* The sort is stable: those with synced words come first, in their own order.
Ranked(records, i, j) ==
    LET synced(k) == records[k].words \in {"fits", "overruns"}
    IN  IF synced(i) = synced(j) THEN i < j ELSE synced(i)

\* _request: "busy" is 429 or 5xx, "dated" the same with a Retry-After that is no
\* number, which raises, and "error" is httpx's.  Up to three attempts.
Request(responses) ==
    LET final == {i \in DOMAIN responses : \/ responses[i] \in {"ok", "other"}
                                          \/ (responses[i] = "dated" /\ i < Len(responses))}
    IN  IF final = {} THEN "other" ELSE responses[Min(final)]

FirstKind(records) ==
    LET good == {i \in DOMAIN records : Kind(records[i]) # "none"}
    IN  IF good = {} THEN "none"
        ELSE Kind(records[CHOOSE i \in good : \A j \in good \ {i} : Ranked(records, i, j)])

\* Nothing, too, where a request raised: get_or_fetch_lyrics catches it.
Fetch(get, exact, search, found) ==
    LET first == Request(get)
    IN  IF first = "ok" /\ Kind(exact) # "none" THEN Kind(exact)
        ELSE IF first # "dated" /\ Request(search) = "ok" THEN FirstKind(found)
        ELSE "none"

AskLyrics ==
    /\ question.about = "nothing"
    /\ \E get \in [1 .. 3 -> {"ok", "other", "busy", "dated", "error"}],
          search \in {<<"ok">>, <<"other">>, <<"error", "dated", "ok">>},
          exact \in Record, found \in {<<>>} \cup (Record \X Record) :
          /\ question' = [about |-> "lyrics", get |-> get, exact |-> exact,
                          search |-> search, found |-> found]
          /\ answer' = Fetch(get, exact, search, found)

-----------------------------------------------------------------------------
Init ==
    /\ question = [about |-> "nothing"]
    /\ answer = "none"

Next == AskScore \/ AskScan \/ AskMux \/ AskLyrics

Spec == Init /\ [][Next]_vars

-----------------------------------------------------------------------------
(* Safety *)

\* The candidate with another version, and other signs of being official.
Otherwise(c, want, f, official, vevo) ==
    [c EXCEPT !.kind = f.kind, !.exact = FALSE, !.named = f.named,
              !.official = official, !.vevo = vevo,
              !.marks = (c.marks \ (Implied[want.kind] \cup Implied[c.kind])) \cup Implied[f.kind]]

\* Of two candidates that differ in the version and in what makes them official,
\* the one with the requested version scores higher (the comment on the version
\* signals: "dominates generic 'official'").
VersionOutranksOfficial ==
    question.about = "score" /\ question.of.exact =>
       \A f \in FacetsFor(question.want), official \in {"phrase", "word", "none"}, vevo \in BOOLEAN :
          ~f.exact /\ (f.kind # question.want.kind \/ ~f.named) =>
             answer > Score(question.want, question.explicit,
                            Otherwise(question.of, question.want, f, official, vevo))

\* Without a requested version, official signals and length do not make a match:
\* what is selected by itself has the artist or the title, where one featured
\* artist at most is found (the threshold's comment: "conservative").
PickIsRelated ==
    question.about = "score" /\ question.want = Plain /\ question.of.featured <= 1
    /\ Classify(answer) = "automatic"
    => question.of.artist # "none" \/ question.of.title # "none"

\* The weights of the score rank what was asked for first and select no stranger.
ScoresRankRightly == VersionOutranksOfficial /\ PickIsRelated

Matches(file, track) ==
    /\ Normalized(file.artist) = Normalized(track.artist) /\ Normalized(track.artist) # <<>>
    /\ Normalized(file.title) = Normalized(track.title) /\ Normalized(track.title) # <<>>

\* A file of the folder becomes a track's without review exactly when artist and
\* title are the same once normalised, whatever its length adds or takes away.
ConfidentIsExact ==
    question.about = "scan" =>
       /\ answer.decision = "available" => Matches(question.file, question.tracks[answer.track])
       /\ (\E i \in DOMAIN question.tracks : Matches(question.file, question.tracks[i]))
             => answer.decision = "available"

\* A file this program made is found again, were its row lost, for its track or one
\* of the same names: by its tags, unless somebody is featured, and by its name where
\* the name survived being written and has no more brackets and dashes than the
\* parser undoes.
OwnFilesAreFound ==
    question.about = "scan" /\ question.file.plain =>
       /\ answer.decision = "available"
       /\ Matches(question.tracks[answer.track], question.tracks[1])

\* A scan takes files without review for whose they are, those the program made above all.
ScanAdoptsRightly == ConfidentIsExact /\ OwnFilesAreFound

\* Hardware encoders never turn what software can do into a failure (the docstring
\* of mux_to_mp4).
HardwareIsOptional ==
    question.about = "mux" =>
       (MuxMedia(question.host, question.container, "disabled", question.streams).ok => answer.ok)

\* Where hardware that works was detected, "auto" transcodes with the best of it.
AutoFindsHardware ==
    question.about = "mux" /\ question.policy = "auto" /\ question.container = "always_mp4"
    /\ ~question.streams.video =>
       \A e \in Detected(question.host) \cap question.host.works :
          /\ answer.ok
          /\ Rank[answer.video] <= Rank[e]

\* "prefer MP4, allow MKV" never transcodes a stream, and an MKV is made of
\* nothing but streams an MP4 cannot carry; "always MP4" makes no MKV.
ContainerAsAsked ==
    question.about = "mux" /\ answer.ok =>
       /\ answer.container = "mkv" => /\ question.container = "prefer_mp4_allow_mkv"
                                      /\ ~(question.streams.video /\ question.streams.audio)
       /\ question.container = "prefer_mp4_allow_mkv" =>
             /\ answer.video = "copy"
             /\ answer.container = "mp4" => question.streams.audio

\* Muxing tries what it may, and makes what was asked for.
MuxingServes == HardwareIsOptional /\ AutoFindsHardware /\ ContainerAsAsked

\* Lyrics are written only where a record of the track's length had them, and a
\* record whose times run past the track's end is no source of plain ones.
LyricsFit ==
    question.about = "lyrics" /\ answer # "none" =>
       \E r \in {question.exact} \cup {question.found[i] : i \in DOMAIN question.found} :
          r.near /\ r.words = IF answer = "synced" THEN "fits" ELSE "plain"

\* Plain lyrics come from a search only when it found no synced ones.
SyncedPreferred ==
    question.about = "lyrics" /\ answer = "plain" =>
       \/ Kind(question.exact) = "plain" /\ Request(question.get) = "ok"
       \/ \A i \in DOMAIN question.found : Kind(question.found[i]) # "synced"

\* The lyrics are the track's, and the best there were.
LyricsAreTheTracks == LyricsFit /\ SyncedPreferred

-----------------------------------------------------------------------------
(* What the source promises and the code does not keep *)

\* tests/unit/test_scoring.py:97, "test_same_title_different_artist_is_not_
\* automatic": a candidate without the artist is for a human to review.
OtherArtistIsReviewed ==
    question.about = "score" /\ question.of.artist = "none" /\ question.of.featured = 0
    => Classify(answer) = "manual_review"

\* matching/scoring.py:210, of a version that was not requested: "never upgrade a
\* requested remix into the original".
RemixIsNotUpgraded ==
    question.about = "score" /\ question.want # Plain
    /\ question.of.kind = "none" /\ ~question.of.exact
    => Classify(answer) = "manual_review"

\* services/library_scan.py:8, "a file that scores confidently against exactly one
\* Track is reused as-is": one that fits two is for a human to decide.
AdoptedByOneTrack ==
    question.about = "scan" /\ answer.decision = "available" =>
       \A i \in DOMAIN question.tracks \ {answer.track} :
          Decide(ScanScore(question.file, question.tracks[i], question.fits[i])) # "available"

\* services/library_scan.py:81, "an already-organized "Artist - Title (2024) [1080p]"
\* still splits cleanly".
OwnNamesSplitCleanly ==
    question.about = "scan" /\ question.file.from = "name" =>
       /\ Normalized(question.file.artist) = Normalized(question.tracks[1].artist)
       /\ Normalized(question.file.title) = Normalized(question.tracks[1].title)

\* services/library_scan.py:11, "a file with no plausible signal at all is left
\* alone entirely": of another length, and with no word of the track's.
NoSignalIsLeftAlone ==
    question.about = "scan" /\ answer.decision # "skipped" =>
       LET track == question.tracks[answer.track]
       IN  \/ question.fits[answer.track]
           \/ (ToSet(question.file.artist) \cap ToSet(track.artist)) \ Marks # {}
           \/ (ToSet(question.file.title) \cap ToSet(track.title)) \ Marks # {}
=============================================================================
