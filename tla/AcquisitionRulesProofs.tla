----------------------- MODULE AcquisitionRulesProofs ------------------------
(***************************************************************************)
(* Theorems of AcquisitionRules for any threshold, any marks and featured  *)
(* artists, and names of any number of words.                              *)
(*                                                                         *)
(* A state holds one question with its answer, so nothing has to be        *)
(* carried along: what is shown of an answer is shown of the step that     *)
(* gives it.                                                               *)
(***************************************************************************)
EXTENDS AcquisitionRules, SequenceTheorems, TLAPS

\* What a step asks about.
LEMMA OneQuestion ==
    /\ AskScore => question'.about = "score"
    /\ AskScan => question'.about = "scan"
    /\ AskMux => question'.about = "mux"
    /\ AskLyrics => question'.about = "lyrics"
<1>1. AskScore => question'.about = "score"
  BY DEF AskScore
<1>2. AskScan => question'.about = "scan"
  <2> SUFFICES ASSUME AskScan PROVE question'.about = "scan"
    OBVIOUS
  <2>1. PICK tracks \in [1 .. 2 -> [artist: Artists, title: Titles]], fits \in [1 .. 2 -> BOOLEAN] :
           \E file \in Files(tracks) :
              question' = [about |-> "scan", file |-> file, tracks |-> tracks, fits |-> fits]
    BY DEF AskScan
  <2> QED
    BY <2>1
<1>3. AskMux => question'.about = "mux"
  BY DEF AskMux
<1>4. AskLyrics => question'.about = "lyrics"
  BY DEF AskLyrics
<1> QED
  BY <1>1, <1>2, <1>3, <1>4

-----------------------------------------------------------------------------
(* The score *)

\* One summand of MarksDelta.
Cost(want, explicit, c, m, weight) == IF Penalised(want, explicit, c, m) THEN weight ELSE 0

LEMMA CostIsInt ==
    ASSUME NEW want, NEW explicit, NEW c, NEW m, NEW weight \in Int, weight <= 0
    PROVE  Cost(want, explicit, c, m, weight) \in Int /\ Cost(want, explicit, c, m, weight) <= 0
BY DEF Cost

LEMMA MarksAreCosts ==
    ASSUME NEW want, NEW explicit, NEW c
    PROVE  MarksDelta(want, explicit, c) =
              Cost(want, explicit, c, "visualizer", -45) + Cost(want, explicit, c, "fan", -15)
            + Cost(want, explicit, c, "fanChannel", 0) + Cost(want, explicit, c, "lyric", -25)
            + Cost(want, explicit, c, "cover", -30) + Cost(want, explicit, c, "live", -35)
            + Cost(want, explicit, c, "instrumental", -20) + Cost(want, explicit, c, "clean", -20)
BY DEF MarksDelta, Cost, Weight

\* Marks never add to a score.
LEMMA MarksCost ==
    ASSUME NEW want, NEW explicit, NEW c
    PROVE  MarksDelta(want, explicit, c) \in Int /\ MarksDelta(want, explicit, c) <= 0
<1> DEFINE cost(m, weight) == Cost(want, explicit, c, m, weight)
<1>1. \A m, weight : weight \in Int /\ weight <= 0 => cost(m, weight) \in Int /\ cost(m, weight) <= 0
  BY CostIsInt
<1>2. MarksDelta(want, explicit, c) =
         cost("visualizer", -45) + cost("fan", -15) + cost("fanChannel", 0) + cost("lyric", -25)
       + cost("cover", -30) + cost("live", -35) + cost("instrumental", -20) + cost("clean", -20)
  BY MarksAreCosts
<1> HIDE DEF cost
<1>3. /\ cost("visualizer", -45) \in Int /\ cost("visualizer", -45) <= 0
      /\ cost("fan", -15) \in Int /\ cost("fan", -15) <= 0
      /\ cost("fanChannel", 0) \in Int /\ cost("fanChannel", 0) <= 0
      /\ cost("lyric", -25) \in Int /\ cost("lyric", -25) <= 0
      /\ cost("cover", -30) \in Int /\ cost("cover", -30) <= 0
      /\ cost("live", -35) \in Int /\ cost("live", -35) <= 0
      /\ cost("instrumental", -20) \in Int /\ cost("instrumental", -20) <= 0
      /\ cost("clean", -20) \in Int /\ cost("clean", -20) <= 0
  BY <1>1
<1> QED
  BY <1>2, <1>3

\* What AskScore asks about.
Candidate ==
    [kind: Categories \cup {"none"}, exact: BOOLEAN, named: BOOLEAN,
     artist: {"channel", "title", "partial", "none"}, featured: 0 .. MaxFeatured,
     title: {"contained", "most", "none"}, official: {"phrase", "word", "none"},
     vevo: BOOLEAN, length: {"close", "ok", "far", "unknown"}, marks: SUBSET Markers]

\* What a marker can no longer cost when the version changes: one that the
\* candidate's own keyword implied, or "clean" where "radio edit" was asked for, the
\* others being forgiven for the version that implies them.
LEMMA CostOtherwise ==
    ASSUME NEW want \in Version, NEW explicit \in BOOLEAN, NEW c \in Candidate,
           NEW f \in Facet, NEW official, NEW vevo,
           NEW m \in Markers \ Implied[c.kind], NEW weight \in Int, weight <= 0,
           m = "clean" => want.kind = "other"
    PROVE  Cost(want, explicit, Otherwise(c, want, f, official, vevo), m, weight)
              <= Cost(want, explicit, c, m, weight)
<1> DEFINE d == Otherwise(c, want, f, official, vevo)
<1>1. d.marks = (c.marks \ (Implied[want.kind] \cup Implied[c.kind])) \cup Implied[f.kind]
  BY DEF Otherwise, Candidate
<1>2. want.kind \in Categories \cup {"other"}
  BY DEF Version
<1>3. m \in Implied[want.kind] =>
         \/ (m = "live" /\ want.kind = "live")
         \/ (m = "instrumental" /\ want.kind = "acoustic")
  BY <1>2 DEF Implied, Categories
<1>4. Penalised(want, explicit, c, m) => Penalised(want, explicit, d, m)
  BY <1>1, <1>3 DEF Penalised
<1> HIDE DEF d
<1> QED
  BY <1>4 DEF Cost, d

LEMMA MarksOtherwise ==
    ASSUME NEW want \in Version, NEW explicit \in BOOLEAN, NEW c \in Candidate,
           NEW f \in Facet, NEW official, NEW vevo
    PROVE  MarksDelta(want, explicit, Otherwise(c, want, f, official, vevo))
              <= MarksDelta(want, explicit, c) + 35 + IF want.kind = "other" THEN 0 ELSE 20
<1> DEFINE d == Otherwise(c, want, f, official, vevo)
           of(x, m, weight) == Cost(want, explicit, x, m, weight)
           other == want.kind = "other"
<1>1. \A x, m, weight : weight \in Int /\ weight <= 0 =>
         of(x, m, weight) \in {0, weight}
  BY DEF Cost
<1>2. \A m \in Markers \ Implied[c.kind], weight \in Int : weight <= 0 /\ (m = "clean" => other) =>
         of(d, m, weight) <= of(c, m, weight)
  BY CostOtherwise
<1>3. \A x : MarksDelta(want, explicit, x) =
         of(x, "visualizer", -45) + of(x, "fan", -15) + of(x, "fanChannel", 0)
       + of(x, "lyric", -25) + of(x, "cover", -30) + of(x, "live", -35)
       + of(x, "instrumental", -20) + of(x, "clean", -20)
  BY MarksAreCosts
<1>4. Implied[c.kind] \in {{}, {"live"}, {"instrumental"}, {"clean"}}
  BY DEF Candidate, Implied, Categories
<1> HIDE DEF d, of, other
<1>5. \A x : /\ of(x, "visualizer", -45) \in {0, -45} /\ of(x, "fan", -15) \in {0, -15}
             /\ of(x, "fanChannel", 0) = 0 /\ of(x, "lyric", -25) \in {0, -25}
             /\ of(x, "cover", -30) \in {0, -30} /\ of(x, "live", -35) \in {0, -35}
             /\ of(x, "instrumental", -20) \in {0, -20}
             /\ of(x, "clean", -20) \in {0, -20}
  BY <1>1
<1>6. /\ of(d, "visualizer", -45) <= of(c, "visualizer", -45)
      /\ of(d, "fan", -15) <= of(c, "fan", -15)
      /\ of(d, "fanChannel", 0) <= of(c, "fanChannel", 0)
      /\ of(d, "lyric", -25) <= of(c, "lyric", -25)
      /\ of(d, "cover", -30) <= of(c, "cover", -30)
      /\ "live" \notin Implied[c.kind] => of(d, "live", -35) <= of(c, "live", -35)
      /\ "instrumental" \notin Implied[c.kind]
            => of(d, "instrumental", -20) <= of(c, "instrumental", -20)
      /\ "clean" \notin Implied[c.kind] /\ other => of(d, "clean", -20) <= of(c, "clean", -20)
  BY <1>2, <1>4 DEF Markers
\* What can go is one marker of the candidate's keyword, and "clean".
<1>7. /\ of(d, "live", -35) <= of(c, "live", -35) + 35
      /\ of(d, "instrumental", -20) <= of(c, "instrumental", -20) + 20
      /\ of(d, "clean", -20) <= of(c, "clean", -20) + 20
  BY <1>5
<1>8. of(d, "live", -35) + of(d, "instrumental", -20) + of(d, "clean", -20)
         <= of(c, "live", -35) + of(c, "instrumental", -20) + of(c, "clean", -20)
            + 35 + IF other THEN 0 ELSE 20
  <2>1. CASE Implied[c.kind] = {"live"}
    BY <1>5, <1>6, <1>7, <2>1
  <2>2. CASE Implied[c.kind] = {"instrumental"}
    BY <1>5, <1>6, <1>7, <2>2
  <2>3. CASE Implied[c.kind] \in {{}, {"clean"}}
    <3>1. "live" \notin Implied[c.kind] /\ "instrumental" \notin Implied[c.kind]
      BY <2>3
    <3> QED
      BY <1>5, <1>6, <1>7, <3>1
  <2> QED
    BY <1>4, <2>1, <2>2, <2>3
<1>9. MarksDelta(want, explicit, d) <= MarksDelta(want, explicit, c) + 35 + IF other THEN 0 ELSE 20
  <2> DEFINE sum(x) == of(x, "visualizer", -45) + of(x, "fan", -15) + of(x, "fanChannel", 0)
                       + of(x, "lyric", -25) + of(x, "cover", -30)
             rest(x) == of(x, "live", -35) + of(x, "instrumental", -20) + of(x, "clean", -20)
  <2>1. \A x : sum(x) \in Int /\ rest(x) \in Int
    BY <1>5
  <2>2. sum(d) <= sum(c)
    BY <1>5, <1>6
  <2>3. rest(d) <= rest(c) + 35 + IF other THEN 0 ELSE 20
    BY <1>8
  <2>4. \A x : MarksDelta(want, explicit, x) = sum(x) + rest(x)
    BY <1>3, <1>5
  <2> HIDE DEF sum, rest
  <2> QED
    BY <2>1, <2>2, <2>3, <2>4
<1> QED
  BY <1>9 DEF d, other

\* What the official signs weigh, besides the artist's own channel.
LEMMA OfficialBounds ==
    ASSUME NEW c
    PROVE  /\ OfficialDelta(c) \in Int
           /\ OfficialDelta(c) >= IF OfficialChannel(c) THEN 20 ELSE 0
           /\ OfficialDelta(c) <= 43 + IF OfficialChannel(c) THEN 20 ELSE 0
BY DEF OfficialDelta

LEMMA OtherBounds ==
    ASSUME NEW c, c.featured \in Nat
    PROVE  /\ IdentityDelta(c) \in Int
           /\ c.artist = "none" /\ c.title = "none" => IdentityDelta(c) = 10 * c.featured
           /\ LengthDelta(c) \in Int /\ LengthDelta(c) <= 15
<1>1. IdentityDelta(c) \in Int
  BY DEF IdentityDelta
<1>2. c.artist = "none" /\ c.title = "none" => IdentityDelta(c) = 10 * c.featured
  BY DEF IdentityDelta
<1> QED
  BY <1>1, <1>2 DEF LengthDelta

\* The requested version against another one, all else but the official signs
\* being the same.  A version with a keyword is worth 115 points more than another, 43
\* can be of official signs and 55 of marks, of which 72 and 55 are less; one without is
\* worth 90 more, and 35 can be of marks.
LEMMA ExactVersionWins ==
    ASSUME NEW want \in Version, NEW explicit \in BOOLEAN, NEW c \in Candidate, c.exact,
           NEW f \in Facet, NEW official, NEW vevo,
           f.kind # want.kind \/ (want.named /\ ~f.named)
    PROVE  Score(want, explicit, c) > Score(want, explicit, Otherwise(c, want, f, official, vevo))
<1> DEFINE d == Otherwise(c, want, f, official, vevo)
<1>1. /\ d.kind = f.kind /\ d.exact = FALSE /\ d.named = f.named
      /\ d.artist = c.artist /\ d.featured = c.featured /\ d.title = c.title
      /\ d.length = c.length
      /\ d.marks = (c.marks \ (Implied[want.kind] \cup Implied[c.kind])) \cup Implied[f.kind]
  BY DEF Otherwise, Candidate
<1>2. MarksDelta(want, explicit, d)
         <= MarksDelta(want, explicit, c) + 35 + IF want.kind = "other" THEN 0 ELSE 20
  BY MarksOtherwise
<1>3. MarksDelta(want, explicit, c) \in Int /\ MarksDelta(want, explicit, d) \in Int
  BY MarksCost
<1> HIDE DEF d
<1>4. want # Plain
  <2>1. want.kind \in Categories \cup {"other"} /\ Plain.kind = "none"
    BY DEF Version, Plain
  <2> QED
    BY <2>1 DEF Categories
<1>5. /\ VersionDelta(want, c) = 90
      /\ VersionDelta(want, d) \in IF want.kind = "other" THEN {-50, 0} ELSE {-50, -25}
  BY <1>1, <1>4 DEF VersionDelta
<1>6. IdentityDelta(d) = IdentityDelta(c) /\ LengthDelta(d) = LengthDelta(c)
  BY <1>1 DEF IdentityDelta, LengthDelta
<1>7. c.featured \in Nat
  BY RulesAssumption DEF Candidate
<1>8. IdentityDelta(c) \in Int /\ LengthDelta(c) \in Int
  BY <1>7, OtherBounds
<1>9. OfficialChannel(d) <=> OfficialChannel(c)
  <2>1. want.kind \in DOMAIN Implied /\ f.kind \in DOMAIN Implied /\ c.kind \in DOMAIN Implied
    BY DEF Version, Facet, Candidate, Implied
  <2>2. \A k \in DOMAIN Implied : Implied[k] \cap {"fan", "fanChannel"} = {}
    BY DEF Implied, Categories
  <2> QED
    BY <1>1, <2>1, <2>2 DEF OfficialChannel
<1>10. OfficialDelta(d) <= OfficialDelta(c) + 43 /\ OfficialDelta(c) \in Int /\ OfficialDelta(d) \in Int
  BY <1>9, OfficialBounds
<1> QED
  BY <1>2, <1>3, <1>5, <1>6, <1>8, <1>10 DEF Score, d

\* What is asked of a score is asked about a version and a candidate.
LEMMA ScoreIsAsked ==
    ASSUME AskScore
    PROVE  /\ question'.want \in Version \cup {Plain} /\ question'.explicit \in BOOLEAN
           /\ question'.of \in Candidate
           /\ question'.of.exact => question'.want \in Version
           /\ answer' = Score(question'.want, question'.explicit, question'.of)
<1>1. \A kind : \A s \in MarksFor(kind) : kind \in Categories \cup {"none"} => s \subseteq Markers
  BY DEF MarksFor, Markers, Implied, Categories, kSubset
<1>2. PICK want \in Version \cup {Plain}, explicit \in BOOLEAN :
         \E f \in FacetsFor(want) :
         \E artist \in {"channel", "title", "partial", "none"}, featured \in 0 .. MaxFeatured,
            title \in {"contained", "most", "none"}, official \in {"phrase", "word", "none"},
            vevo \in BOOLEAN, length \in {"close", "ok", "far", "unknown"},
            marks \in MarksFor(f.kind) :
            LET c == [kind |-> f.kind, exact |-> f.exact, named |-> f.named, artist |-> artist,
                      featured |-> featured, title |-> title, official |-> official,
                      vevo |-> vevo, length |-> length, marks |-> marks]
            IN  /\ question' = [about |-> "score", want |-> want, explicit |-> explicit, of |-> c]
                /\ answer' = Score(want, explicit, c)
  BY DEF AskScore
<1>3. PICK f \in FacetsFor(want) :
         \E artist \in {"channel", "title", "partial", "none"}, featured \in 0 .. MaxFeatured,
            title \in {"contained", "most", "none"}, official \in {"phrase", "word", "none"},
            vevo \in BOOLEAN, length \in {"close", "ok", "far", "unknown"},
            marks \in MarksFor(f.kind) :
            LET c == [kind |-> f.kind, exact |-> f.exact, named |-> f.named, artist |-> artist,
                      featured |-> featured, title |-> title, official |-> official,
                      vevo |-> vevo, length |-> length, marks |-> marks]
            IN  /\ question' = [about |-> "score", want |-> want, explicit |-> explicit, of |-> c]
                /\ answer' = Score(want, explicit, c)
  BY <1>2
<1>4. PICK artist \in {"channel", "title", "partial", "none"}, featured \in 0 .. MaxFeatured,
           title \in {"contained", "most", "none"}, official \in {"phrase", "word", "none"},
           vevo \in BOOLEAN, length \in {"close", "ok", "far", "unknown"},
           marks \in MarksFor(f.kind) :
           LET c == [kind |-> f.kind, exact |-> f.exact, named |-> f.named, artist |-> artist,
                     featured |-> featured, title |-> title, official |-> official,
                     vevo |-> vevo, length |-> length, marks |-> marks]
           IN  /\ question' = [about |-> "score", want |-> want, explicit |-> explicit, of |-> c]
               /\ answer' = Score(want, explicit, c)
  BY <1>3
<1> DEFINE c == [kind |-> f.kind, exact |-> f.exact, named |-> f.named, artist |-> artist,
                 featured |-> featured, title |-> title, official |-> official,
                 vevo |-> vevo, length |-> length, marks |-> marks]
<1>5. f \in Facet /\ (f.exact => want # Plain)
  BY DEF FacetsFor
<1>6. marks \subseteq Markers
  BY <1>1, <1>5 DEF Facet
<1>7. c \in Candidate /\ c.exact = f.exact
  BY <1>5, <1>6 DEF Candidate, Facet
<1>8. question' = [about |-> "score", want |-> want, explicit |-> explicit, of |-> c]
  BY <1>4
<1>9. answer' = Score(want, explicit, c)
  BY <1>4
<1> HIDE DEF c
<1> QED
  BY <1>5, <1>7, <1>8, <1>9

\* The requested version outranks official signs, whatever the threshold.
\* score_candidate: "dominates generic 'official'".
THEOREM RequestedVersionWins == Spec => []VersionOutranksOfficial
<1>1. Init => VersionOutranksOfficial
  BY DEF Init, VersionOutranksOfficial
<1>2. VersionOutranksOfficial /\ [Next]_vars => VersionOutranksOfficial'
  <2> SUFFICES ASSUME VersionOutranksOfficial, [Next]_vars
               PROVE  VersionOutranksOfficial'
    OBVIOUS
  <2>1. CASE AskScore
    <3> SUFFICES ASSUME question'.of.exact,
                        NEW f \in FacetsFor(question'.want),
                        NEW official \in {"phrase", "word", "none"}, NEW vevo \in BOOLEAN,
                        ~f.exact, f.kind # question'.want.kind \/ ~f.named
                 PROVE  answer' > Score(question'.want, question'.explicit,
                                        Otherwise(question'.of, question'.want, f, official, vevo))
      BY DEF VersionOutranksOfficial
    <3>1. question'.want \in Version /\ question'.want # Plain
      <4>1. question'.want \in Version
        BY <2>1, ScoreIsAsked
      <4>2. question'.want.kind \in Categories \cup {"other"}
        BY <4>1 DEF Version
      <4>3. Plain.kind = "none"
        BY DEF Plain
      <4> QED
        BY <4>1, <4>2, <4>3 DEF Categories
    <3>2. f \in Facet /\ (f.kind # question'.want.kind \/ (question'.want.named /\ ~f.named))
      BY <3>1 DEF FacetsFor, Facet, Version
    <3> QED
      BY <2>1, <3>1, <3>2, ScoreIsAsked, ExactVersionWins
  <2>2. CASE AskScan \/ AskMux \/ AskLyrics
    BY <2>2, OneQuestion DEF VersionOutranksOfficial
  <2>3. CASE UNCHANGED vars
    BY <2>3 DEF vars, VersionOutranksOfficial
  <2> QED
    BY <2>1, <2>2, <2>3 DEF Next
<1> QED
  BY <1>1, <1>2, PTL DEF Spec

\* Of official signs, length and one featured artist there are 68 points.
LEMMA StrangersAreReviewed ==
    ASSUME Threshold > 68, NEW explicit \in BOOLEAN, NEW c \in Candidate,
           c.featured <= 1, c.artist = "none", c.title = "none"
    PROVE  Classify(Score(Plain, explicit, c)) # "automatic"
<1>1. c.featured \in Nat
  BY RulesAssumption DEF Candidate
<1>2. VersionDelta(Plain, c) \in Int /\ VersionDelta(Plain, c) <= 0
  BY DEF VersionDelta
<1>3. IdentityDelta(c) \in Int /\ IdentityDelta(c) <= 10
  BY <1>1, OtherBounds
<1>4. OfficialDelta(c) \in Int /\ OfficialDelta(c) <= 43
  BY OfficialBounds DEF OfficialChannel
<1>5. LengthDelta(c) \in Int /\ LengthDelta(c) <= 15
  BY <1>1, OtherBounds
<1>6. MarksDelta(Plain, explicit, c) \in Int /\ MarksDelta(Plain, explicit, c) <= 0
  BY MarksCost
<1>7. Score(Plain, explicit, c) < Threshold
  BY <1>2, <1>3, <1>4, <1>5, <1>6, RulesAssumption DEF Score
<1>8. Score(Plain, explicit, c) \in Int
  BY <1>2, <1>3, <1>4, <1>5, <1>6 DEF Score
<1> QED
  BY <1>7, <1>8, RulesAssumption DEF Classify

\* The score ranks the requested version first, and from a threshold of 69 on
\* (the default is 70) it selects nothing that has neither artist nor title.
THEOREM ScoresRank == ASSUME Threshold > 68 PROVE Spec => []ScoresRankRightly
<1>1. Init => PickIsRelated
  BY DEF Init, PickIsRelated
<1>2. PickIsRelated /\ [Next]_vars => PickIsRelated'
  <2> SUFFICES ASSUME PickIsRelated, [Next]_vars
               PROVE  PickIsRelated'
    OBVIOUS
  <2>1. CASE AskScore
    BY <2>1, ScoreIsAsked, StrangersAreReviewed DEF PickIsRelated
  <2>2. CASE AskScan \/ AskMux \/ AskLyrics
    BY <2>2, OneQuestion DEF PickIsRelated
  <2>3. CASE UNCHANGED vars
    BY <2>3 DEF vars, PickIsRelated
  <2> QED
    BY <2>1, <2>2, <2>3 DEF Next
<1> QED
  BY <1>1, <1>2, RequestedVersionWins, PTL DEF Spec, ScoresRankRightly

-----------------------------------------------------------------------------
(* Files of the library folder *)

LEMMA PartScoreMeans ==
    ASSUME NEW probe, NEW track, NEW exact \in Nat, NEW partial \in Nat
    PROVE  /\ PartScore(probe, track, exact, partial) \in {0, partial, exact}
           /\ probe # <<>> /\ probe = track => PartScore(probe, track, exact, partial) = exact
           /\ PartScore(probe, track, exact, partial) \notin {0, partial}
                 => probe # <<>> /\ probe = track
BY DEF PartScore

LEMMA ScanScoreMeans ==
    ASSUME NEW file, NEW track, NEW fits \in BOOLEAN
    PROVE  /\ ScanScore(file, track, fits) \in Nat
           /\ ScanScore(file, track, fits) >= 85 <=> Matches(file, track)
<1> DEFINE fileArtist == Normalized(file.artist)
           fileTitle == Normalized(file.title)
           artist == Normalized(track.artist)
           title == Normalized(track.title)
           ofArtist == PartScore(fileArtist, artist, 45, 20)
           ofTitle == PartScore(fileTitle, title, 40, 20)
           ofLength == IF fits THEN 15 ELSE 0
<1>1. /\ ofArtist \in {0, 20, 45}
      /\ ofArtist \notin {0, 20} <=> fileArtist # <<>> /\ fileArtist = artist
  BY PartScoreMeans
<1>2. /\ ofTitle \in {0, 20, 40}
      /\ ofTitle \notin {0, 20} <=> fileTitle # <<>> /\ fileTitle = title
  BY PartScoreMeans
<1>3. ofLength \in {0, 15}
  OBVIOUS
<1>4. ScanScore(file, track, fits) = ofArtist + ofTitle + ofLength
  BY DEF ScanScore
<1>5. fileArtist = artist /\ artist # <<>> /\ fileTitle = title /\ title # <<>>
         <=> Matches(file, track)
  BY DEF Matches
<1> HIDE DEF ofArtist, ofTitle, ofLength, fileArtist, fileTitle, artist, title
<1> QED
  BY <1>1, <1>2, <1>3, <1>4, <1>5

Tracks == [1 .. 2 -> [artist: Artists, title: Titles]]

\* No track fits the file better than the one it is taken for.
LEMMA BestIsBest ==
    ASSUME NEW file, NEW tracks \in Tracks, NEW fits \in [1 .. 2 -> BOOLEAN]
    PROVE  /\ BestMatch(file, tracks, fits) \in 1 .. 2
           /\ \A j \in 1 .. 2 : ScanScore(file, tracks[j], fits[j])
                 <= ScanScore(file, tracks[BestMatch(file, tracks, fits)],
                              fits[BestMatch(file, tracks, fits)])
<1> DEFINE score(i) == ScanScore(file, tracks[i], fits[i])
           best(i) == \A j \in DOMAIN tracks : score(j) < score(i) \/ (score(j) = score(i) /\ i <= j)
<1>1. DOMAIN tracks = 1 .. 2
  BY DEF Tracks
<1>2. score(1) \in Nat /\ score(2) \in Nat
  BY ScanScoreMeans
<1>3. BestMatch(file, tracks, fits) = CHOOSE i \in DOMAIN tracks : best(i)
  BY DEF BestMatch
<1> HIDE DEF score
<1>4. \E i \in DOMAIN tracks : best(i)
  <2>1. CASE score(1) >= score(2)
    BY <1>1, <1>2, <2>1
  <2>2. CASE score(1) < score(2)
    BY <1>1, <1>2, <2>2
  <2> QED
    BY <1>2, <2>1, <2>2
<1> HIDE DEF best
<1>5. BestMatch(file, tracks, fits) \in 1 .. 2 /\ best(BestMatch(file, tracks, fits))
  BY <1>1, <1>3, <1>4
<1>6. \A i \in 1 .. 2 : best(i) => \A j \in 1 .. 2 : score(j) <= score(i)
  BY <1>1, <1>2 DEF best
<1>7. \A j \in 1 .. 2 : score(j) <= score(BestMatch(file, tracks, fits))
  BY <1>5, <1>6
<1> QED
  BY <1>5, <1>7 DEF score

\* A file is adopted without review for a track of its artist and title, and
\* when there is one.
LEMMA ScanMeans ==
    ASSUME NEW file, NEW tracks \in Tracks, NEW fits \in [1 .. 2 -> BOOLEAN]
    PROVE  LET found == Scan(file, tracks, fits)
           IN  /\ found.decision = "available" => Matches(file, tracks[found.track])
               /\ \A i \in 1 .. 2 : Matches(file, tracks[i]) => found.decision = "available"
<1> DEFINE best == BestMatch(file, tracks, fits)
           score(i) == ScanScore(file, tracks[i], fits[i])
           matches(i) == Matches(file, tracks[i])
<1>1. best \in 1 .. 2 /\ \A j \in 1 .. 2 : score(j) <= score(best)
  BY BestIsBest
<1>2. \A i \in 1 .. 2 : score(i) \in Nat /\ (score(i) >= 85 <=> matches(i))
  BY ScanScoreMeans
<1>3. Scan(file, tracks, fits) = [track |-> best, decision |-> Decide(score(best))]
  BY DEF Scan
<1>4. \A n \in Nat : Decide(n) = "available" <=> n >= 85
  BY DEF Decide
<1> HIDE DEF best, score, matches
<1>5. Decide(score(best)) = "available" <=> score(best) >= 85
  BY <1>1, <1>2, <1>4
<1>6. \A i \in 1 .. 2 : matches(i) => score(best) >= 85
  BY <1>1, <1>2
<1>7. score(best) >= 85 => matches(best)
  BY <1>1, <1>2
<1>8. /\ Decide(score(best)) = "available" => matches(best)
      /\ \A i \in 1 .. 2 : matches(i) => Decide(score(best)) = "available"
  BY <1>5, <1>6, <1>7
<1> QED
  BY <1>3, <1>8 DEF matches

\* What is asked of a scan.
LEMMA ScanIsAsked ==
    ASSUME AskScan
    PROVE  /\ question'.tracks \in Tracks /\ question'.fits \in [1 .. 2 -> BOOLEAN]
           /\ answer' = Scan(question'.file, question'.tracks, question'.fits)
<1>1. PICK tracks \in Tracks, fits \in [1 .. 2 -> BOOLEAN] :
         \E file \in Files(tracks) :
            /\ question' = [about |-> "scan", file |-> file, tracks |-> tracks, fits |-> fits]
            /\ answer' = Scan(file, tracks, fits)
  BY DEF AskScan, Tracks
<1>2. PICK file \in Files(tracks) :
         /\ question' = [about |-> "scan", file |-> file, tracks |-> tracks, fits |-> fits]
         /\ answer' = Scan(file, tracks, fits)
  BY <1>1
<1> QED
  BY <1>2

\* The scan of the library folder adopts what has a track's artist and title, and
\* nothing else.  scan_library, _score_candidate, _best_match.
THEOREM AdoptionIsExact == Spec => []ConfidentIsExact
<1>1. Init => ConfidentIsExact
  BY DEF Init, ConfidentIsExact
<1>2. ConfidentIsExact /\ [Next]_vars => ConfidentIsExact'
  <2> SUFFICES ASSUME ConfidentIsExact, [Next]_vars
               PROVE  ConfidentIsExact'
    OBVIOUS
  <2>1. CASE AskScan
    <3> DEFINE file == question'.file
               tracks == question'.tracks
               fits == question'.fits
    <3>1. /\ tracks \in Tracks /\ fits \in [1 .. 2 -> BOOLEAN]
          /\ answer' = Scan(file, tracks, fits)
      BY <2>1, ScanIsAsked
    <3>2. DOMAIN tracks = 1 .. 2
      BY <3>1 DEF Tracks
    <3> HIDE DEF file, tracks, fits
    <3>3. /\ answer'.decision = "available" => Matches(file, tracks[answer'.track])
          /\ \A i \in 1 .. 2 : Matches(file, tracks[i]) => answer'.decision = "available"
      BY <3>1, ScanMeans
    <3> QED
      BY <3>2, <3>3 DEF ConfidentIsExact, Matches, file, tracks
  <2>2. CASE AskScore \/ AskMux \/ AskLyrics
    BY <2>2, OneQuestion DEF ConfidentIsExact
  <2>3. CASE UNCHANGED vars
    BY <2>3 DEF vars, ConfidentIsExact
  <2> QED
    BY <2>1, <2>2, <2>3 DEF Next
<1> QED
  BY <1>1, <1>2, PTL DEF Spec

-----------------------------------------------------------------------------
(* Muxing *)

Means == {"nvenc", "qsv", "vaapi", "software", "copy"}

\* There is a first of any encoders.
LEMMA FirstIsFirst ==
    ASSUME NEW S \in SUBSET Means, S # {}
    PROVE  FirstOf(S) \in S /\ \A e \in S : Rank[FirstOf(S)] <= Rank[e]
<1> DEFINE least(e) == \A f \in S : Rank[e] <= Rank[f]
<1>1. /\ Rank["nvenc"] = 1 /\ Rank["qsv"] = 2 /\ Rank["vaapi"] = 3
      /\ Rank["software"] = 4 /\ Rank["copy"] = 5
  BY DEF Rank
<1>2. S \subseteq {"nvenc", "qsv", "vaapi", "software", "copy"}
  BY DEF Means
<1>3. \E e \in S : least(e)
  <2>1. CASE "nvenc" \in S
    BY <1>1, <1>2, <2>1
  <2>2. CASE "nvenc" \notin S /\ "qsv" \in S
    BY <1>1, <1>2, <2>2
  <2>3. CASE "nvenc" \notin S /\ "qsv" \notin S /\ "vaapi" \in S
    BY <1>1, <1>2, <2>3
  <2>4. CASE S \cap {"nvenc", "qsv", "vaapi"} = {} /\ "software" \in S
    BY <1>1, <1>2, <2>4
  <2>5. CASE S \cap {"nvenc", "qsv", "vaapi", "software"} = {}
    <3>1. \A e \in S : e = "copy"
      BY <1>2, <2>5
    <3> QED
      BY <1>1, <3>1
  <2> QED
    BY <2>1, <2>2, <2>3, <2>4, <2>5
<1>4. FirstOf(S) = CHOOSE e \in S : least(e)
  BY DEF FirstOf
<1> HIDE DEF least
<1>5. FirstOf(S) \in S /\ least(FirstOf(S))
  BY <1>3, <1>4
<1> QED
  BY <1>5 DEF least

Host == [encoders: SUBSET {"nvenc", "qsv", "vaapi"}, nvidia: BOOLEAN,
         nodes: SUBSET {"intel", "other"}, works: SUBSET Means]

Policies == {"disabled", "auto", "nvenc", "qsv", "vaapi"}

\* What is asked of the muxer.
LEMMA MuxIsAsked ==
    ASSUME AskMux
    PROVE  /\ question'.host \in Host
           /\ question'.container \in {"always_mp4", "prefer_mp4_allow_mkv"}
           /\ question'.policy \in Policies
           /\ question'.streams \in [video: BOOLEAN, audio: BOOLEAN]
           /\ answer' = MuxMedia(question'.host, question'.container, question'.policy,
                                 question'.streams)
<1>1. PICK encoders \in SUBSET {"nvenc", "qsv", "vaapi"}, nvidia \in BOOLEAN,
           nodes \in SUBSET {"intel", "other"}, works \in SUBSET Means,
           container \in {"always_mp4", "prefer_mp4_allow_mkv"}, policy \in Policies,
           streams \in [video: BOOLEAN, audio: BOOLEAN] :
         LET host == [encoders |-> encoders, nvidia |-> nvidia, nodes |-> nodes, works |-> works]
         IN  /\ question' = [about |-> "mux", host |-> host, container |-> container,
                             policy |-> policy, streams |-> streams]
             /\ answer' = MuxMedia(host, container, policy, streams)
  BY DEF AskMux, Means, Policies
<1> DEFINE host == [encoders |-> encoders, nvidia |-> nvidia, nodes |-> nodes, works |-> works]
<1>2. host \in Host
  BY DEF Host
<1>3. /\ question' = [about |-> "mux", host |-> host, container |-> container,
                      policy |-> policy, streams |-> streams]
      /\ answer' = MuxMedia(host, container, policy, streams)
  BY <1>1
<1> HIDE DEF host
<1> QED
  BY <1>2, <1>3

LEMMA EncodersAreMeans ==
    ASSUME NEW host \in Host, NEW policy \in Policies, NEW streams \in [video: BOOLEAN, audio: BOOLEAN]
    PROVE  /\ Encoders(host, policy, streams) \subseteq Means
           /\ Encoders(host, "disabled", streams) = IF streams.video THEN {"copy"} ELSE {"software"}
           /\ Encoders(host, "disabled", streams) \subseteq Encoders(host, policy, streams)
           /\ ~streams.video => Encoders(host, "auto", streams) = Detected(host) \cup {"software"}
<1>1. Detected(host) \subseteq {"nvenc", "qsv", "vaapi"}
  BY DEF Detected, Host
<1>2. HwCandidates(host, policy) \subseteq {"nvenc", "qsv", "vaapi"}
  BY <1>1 DEF HwCandidates, Policies
<1>3. HwCandidates(host, "disabled") = {} /\ HwCandidates(host, "auto") = Detected(host)
  BY DEF HwCandidates
<1> QED
  BY <1>2, <1>3 DEF Encoders, Means

\* An MP4 is made where one of the encoders works, by the first that does.
LEMMA Mp4Means ==
    ASSUME NEW host \in Host, NEW policy \in Policies, NEW streams \in [video: BOOLEAN, audio: BOOLEAN]
    PROVE  LET work == Encoders(host, policy, streams) \cap host.works
               got == MuxToMp4(host, policy, streams)
           IN  /\ got.ok <=> work # {}
               /\ got.ok => /\ got.container = "mp4" /\ got.video \in work
                            /\ \A e \in work : Rank[got.video] <= Rank[e]
<1> DEFINE work == Encoders(host, policy, streams) \cap host.works
<1>1. work \in SUBSET Means
  BY EncodersAreMeans
<1>2. MuxToMp4(host, policy, streams) =
         IF work = {} THEN Failed ELSE [ok |-> TRUE, container |-> "mp4", video |-> FirstOf(work)]
  BY DEF MuxToMp4
<1>3. Failed.ok = FALSE
  BY DEF Failed
<1> HIDE DEF work
<1>4. CASE work = {}
  BY <1>2, <1>3, <1>4 DEF work
<1>5. CASE work # {}
  <2>1. FirstOf(work) \in work /\ \A e \in work : Rank[FirstOf(work)] <= Rank[e]
    BY <1>1, <1>5, FirstIsFirst
  <2>2. MuxToMp4(host, policy, streams) = [ok |-> TRUE, container |-> "mp4", video |-> FirstOf(work)]
    BY <1>2, <1>5
  <2> QED
    BY <2>1, <2>2, <1>5 DEF work
<1> QED
  BY <1>4, <1>5

LEMMA MkvMeans ==
    ASSUME NEW host
    PROVE  /\ MuxToMkv(host).ok <=> "copy" \in host.works
           /\ MuxToMkv(host).ok => MuxToMkv(host).container = "mkv" /\ MuxToMkv(host).video = "copy"
BY DEF MuxToMkv, Failed

\* Hardware never turns what software can do into a failure, detected hardware
\* that works is used, and the container is the one asked for.  mux_media,
\* mux_to_mp4, _resolve_hw_video_encoders.
THEOREM MuxingHolds == Spec => []MuxingServes
<1>1. Init => MuxingServes
  BY DEF Init, MuxingServes, HardwareIsOptional, AutoFindsHardware, ContainerAsAsked
<1>2. MuxingServes /\ [Next]_vars => MuxingServes'
  <2> SUFFICES ASSUME MuxingServes, [Next]_vars
               PROVE  MuxingServes'
    OBVIOUS
  <2>1. CASE AskMux
    <3> DEFINE host == question'.host
               container == question'.container
               policy == question'.policy
               streams == question'.streams
    <3>1. /\ host \in Host /\ policy \in Policies
          /\ container \in {"always_mp4", "prefer_mp4_allow_mkv"}
          /\ streams \in [video: BOOLEAN, audio: BOOLEAN]
          /\ answer' = MuxMedia(host, container, policy, streams)
      BY <2>1, MuxIsAsked
    <3> HIDE DEF host, container, policy, streams
    <3>2. "disabled" \in Policies /\ "auto" \in Policies
      BY DEF Policies
    <3>3. HardwareIsOptional'
      <4>1. MuxMedia(host, container, "disabled", streams).ok
              => MuxMedia(host, container, policy, streams).ok
        <5>1. CASE container = "always_mp4"
          BY <3>1, <3>2, <5>1, Mp4Means, EncodersAreMeans DEF MuxMedia
        <5>2. CASE container # "always_mp4"
          BY <5>2 DEF MuxMedia
        <5> QED
          BY <5>1, <5>2
      <4> QED
        BY <3>1, <4>1 DEF HardwareIsOptional, host, container, policy, streams
    <3>4. AutoFindsHardware'
      <4>1. policy = "auto" /\ container = "always_mp4" /\ ~streams.video =>
              \A e \in Detected(host) \cap host.works : answer'.ok /\ Rank[answer'.video] <= Rank[e]
        <5> SUFFICES ASSUME policy = "auto", container = "always_mp4", ~streams.video,
                            NEW e \in Detected(host) \cap host.works
                     PROVE  answer'.ok /\ Rank[answer'.video] <= Rank[e]
          OBVIOUS
        <5>1. answer' = MuxToMp4(host, "auto", streams)
          BY <3>1 DEF MuxMedia
        <5>2. e \in Encoders(host, "auto", streams) \cap host.works
          BY <3>1, <3>2, EncodersAreMeans
        <5> QED
          BY <3>1, <3>2, <5>1, <5>2, Mp4Means
      <4> QED
        BY <4>1 DEF AutoFindsHardware, host, container, policy, streams
    <3>5. ContainerAsAsked'
      <4>1. answer'.ok =>
              /\ answer'.container = "mkv" => /\ container = "prefer_mp4_allow_mkv"
                                              /\ ~(streams.video /\ streams.audio)
              /\ container = "prefer_mp4_allow_mkv" =>
                    /\ answer'.video = "copy"
                    /\ answer'.container = "mp4" => streams.audio
        <5>1. CASE container = "always_mp4"
          BY <3>1, <5>1, Mp4Means DEF MuxMedia
        <5>2. CASE container # "always_mp4" /\ streams.video /\ streams.audio
          <6>1. answer' = MuxToMp4(host, "disabled", streams)
            BY <3>1, <5>2 DEF MuxMedia
          <6>2. Encoders(host, "disabled", streams) = {"copy"}
            BY <3>1, <3>2, <5>2, EncodersAreMeans
          <6> QED
            BY <3>1, <3>2, <5>2, <6>1, <6>2, Mp4Means
        <5>3. CASE container # "always_mp4" /\ ~(streams.video /\ streams.audio)
          BY <3>1, <5>3, MkvMeans DEF MuxMedia
        <5> QED
          BY <5>1, <5>2, <5>3
      <4> QED
        BY <4>1 DEF ContainerAsAsked, container, streams
    <3> QED
      BY <3>3, <3>4, <3>5 DEF MuxingServes
  <2>2. CASE AskScore \/ AskScan \/ AskLyrics
    BY <2>2, OneQuestion DEF MuxingServes, HardwareIsOptional, AutoFindsHardware, ContainerAsAsked
  <2>3. CASE UNCHANGED vars
    BY <2>3 DEF vars, MuxingServes, HardwareIsOptional, AutoFindsHardware, ContainerAsAsked
  <2> QED
    BY <2>1, <2>2, <2>3 DEF Next
<1> QED
  BY <1>1, <1>2, PTL DEF Spec

-----------------------------------------------------------------------------
(* Lyrics *)

LEMMA KindMeans ==
    ASSUME NEW r \in Record
    PROVE  /\ Kind(r) \in {"none", "plain", "synced"}
           /\ Kind(r) # "none" => r.near /\ r.words = IF Kind(r) = "synced" THEN "fits" ELSE "plain"
BY DEF Kind, Record

\* Of the records found the first good one in the order of the sort is taken.
LEMMA FirstKindMeans ==
    ASSUME NEW found \in {<<>>} \cup (Record \X Record), FirstKind(found) # "none"
    PROVE  \E i \in DOMAIN found :
              /\ found[i] \in Record /\ Kind(found[i]) = FirstKind(found)
              /\ \A j \in DOMAIN found \ {i} : Kind(found[j]) # "none" => Ranked(found, i, j)
<1> DEFINE good == {i \in DOMAIN found : Kind(found[i]) # "none"}
           first(i) == \A j \in good \ {i} : Ranked(found, i, j)
<1>1. DOMAIN found \subseteq 1 .. 2 /\ \A i \in DOMAIN found : found[i] \in Record
  <2>1. CASE found = <<>>
    BY <2>1
  <2>2. CASE found \in Record \X Record
    BY <2>2
  <2> QED
    BY <2>1, <2>2
<1>2. FirstKind(found) = IF good = {} THEN "none" ELSE Kind(found[CHOOSE i \in good : first(i)])
  BY DEF FirstKind
<1>3. good \subseteq 1 .. 2
  BY <1>1
<1>4. Ranked(found, 1, 2) \/ Ranked(found, 2, 1)
  BY DEF Ranked
<1> HIDE DEF first
<1>5. good # {}
  BY <1>2
<1>6. \E i \in good : first(i)
  <2> HIDE DEF good
  <2>1. CASE 1 \in good /\ 2 \in good
    <3>1. \A i \in good : i = 1 \/ i = 2
      BY <1>3
    <3> QED
      BY <1>4, <2>1, <3>1 DEF first
  <2>2. CASE ~(1 \in good /\ 2 \in good)
    <3>1. PICK i \in good : TRUE
      BY <1>5
    <3>2. \A j \in good : j = i
      BY <1>3, <2>2, <3>1
    <3> QED
      BY <3>1, <3>2 DEF first
  <2> QED
    BY <2>1, <2>2
<1>7. PICK i \in good : first(i) /\ FirstKind(found) = Kind(found[i])
  BY <1>2, <1>5, <1>6
<1> QED
  BY <1>1, <1>7 DEF first

\* What is asked of the lyrics' source.
LEMMA LyricsAreAsked ==
    ASSUME AskLyrics
    PROVE  /\ question'.exact \in Record /\ question'.found \in {<<>>} \cup (Record \X Record)
           /\ answer' = Fetch(question'.get, question'.exact, question'.search, question'.found)
BY DEF AskLyrics

\* Lyrics come from a record of the track's length, plain ones from none that
\* runs past its end, nor from a search that found synced ones.  LRCLIBBackend.
THEOREM LyricsHold == Spec => []LyricsAreTheTracks
<1>1. Init => LyricsAreTheTracks
  BY DEF Init, LyricsAreTheTracks, LyricsFit, SyncedPreferred
<1>2. LyricsAreTheTracks /\ [Next]_vars => LyricsAreTheTracks'
  <2> SUFFICES ASSUME LyricsAreTheTracks, [Next]_vars
               PROVE  LyricsAreTheTracks'
    OBVIOUS
  <2>1. CASE AskLyrics
    <3> DEFINE get == question'.get
               exact == question'.exact
               search == question'.search
               found == question'.found
    <3>1. /\ exact \in Record /\ found \in {<<>>} \cup (Record \X Record)
          /\ answer' = Fetch(get, exact, search, found)
      BY <2>1, LyricsAreAsked
    <3> HIDE DEF get, exact, search, found
    <3>2. answer' # "none" =>
            \/ Request(get) = "ok" /\ Kind(exact) # "none" /\ answer' = Kind(exact)
            \/ FirstKind(found) # "none" /\ answer' = FirstKind(found)
      BY <3>1 DEF Fetch
    <3>3. FirstKind(found) # "none" =>
            \E i \in DOMAIN found :
               /\ found[i] \in Record /\ Kind(found[i]) = FirstKind(found)
               /\ \A j \in DOMAIN found \ {i} : Kind(found[j]) # "none" => Ranked(found, i, j)
      BY <3>1, FirstKindMeans
    <3>4. LyricsFit'
      <4>1. answer' # "none" =>
              \E r \in {exact} \cup {found[i] : i \in DOMAIN found} :
                 r.near /\ r.words = IF answer' = "synced" THEN "fits" ELSE "plain"
        BY <3>1, <3>2, <3>3, KindMeans
      <4> QED
        BY <4>1 DEF LyricsFit, exact, found
    <3>5. SyncedPreferred'
      <4>1. answer' = "plain" =>
              \/ Kind(exact) = "plain" /\ Request(get) = "ok"
              \/ \A j \in DOMAIN found : Kind(found[j]) # "synced"
        <5> SUFFICES ASSUME answer' = "plain", ~(Kind(exact) = "plain" /\ Request(get) = "ok"),
                            NEW j \in DOMAIN found, Kind(found[j]) = "synced"
                     PROVE  FALSE
          OBVIOUS
        <5>1. PICK i \in DOMAIN found :
                 /\ Kind(found[i]) = "plain"
                 /\ \A k \in DOMAIN found \ {i} : Kind(found[k]) # "none" => Ranked(found, i, k)
          BY <3>2, <3>3
        <5>2. i # j /\ Ranked(found, i, j)
          BY <5>1
        <5>3. found[i].words \notin {"fits", "overruns"} /\ found[j].words = "fits"
          BY <5>1 DEF Kind
        <5> QED
          BY <5>2, <5>3 DEF Ranked
      <4> QED
        BY <4>1 DEF SyncedPreferred, exact, found, get
    <3> QED
      BY <3>4, <3>5 DEF LyricsAreTheTracks
  <2>2. CASE AskScore \/ AskScan \/ AskMux
    BY <2>2, OneQuestion DEF LyricsAreTheTracks, LyricsFit, SyncedPreferred
  <2>3. CASE UNCHANGED vars
    BY <2>3 DEF vars, LyricsAreTheTracks, LyricsFit, SyncedPreferred
  <2> QED
    BY <2>1, <2>2, <2>3 DEF Next
<1> QED
  BY <1>1, <1>2, PTL DEF Spec
=============================================================================
