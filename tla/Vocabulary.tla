------------------------------ MODULE Vocabulary ------------------------------
(***************************************************************************)
(* The words a workspace's comments are judged by, and the judging         *)
(* (moderation/pattern_matcher.py; the keyword and list routes of          *)
(* settings_routes.py; _matcher_for and the keyword table in               *)
(* moderation/repository.py).                                              *)
(*                                                                         *)
(* A request that classifies, a sync or a simulation, takes the allowlist  *)
(* and the blocklist from the workspace row it reads first, the keywords   *)
(* from a later statement, and the platform's defaults from a cache that   *)
(* it refreshes before every list it consults, if the file on disk has     *)
(* changed.  Owners edit and the file is replaced meanwhile.               *)
(*                                                                         *)
(* A phrase stands for all spellings that strip and lower to it, a text    *)
(* for the set of the phrases that occur in it.                            *)
(***************************************************************************)
EXTENDS Naturals

CONSTANTS
  Phrases,
  Texts,      \* the comments that are classified
  Files,      \* contents keywords.json may be given
  MaxEdits,   \* bound: edits of the owners
  MaxWrites   \* bound: changes of the file

List == {"HARMFUL", "OFFENSIVE", "INSTITUTION", "PERSON"}

ASSUME TextsAssumption == Texts \subseteq SUBSET Phrases /\ Texts # {}
ASSUME FilesAssumption == Files \subseteq [List -> SUBSET Phrases] /\ Files # {}
ASSUME BoundsAssumption == MaxEdits \in Nat /\ MaxWrites \in Nat

VARIABLES
  allow,    \* workspace.keyword_allowlist
  block,    \* workspace.keyword_blocklist
  keyword,  \* workspace_keyword: the severity of each phrase that is on it
  file,     \* external: keywords.json on disk
  cache,    \* KeywordStore
  request,  \* the classifying request (classify does not await)
  edits,    \* edits of the owners so far
  writes,   \* changes of the file so far
  latest,   \* history: the latest time the file has had
  fresh     \* history: the file has its words since it has a time later than any before

words == <<allow, block, keyword, edits>>
disk  == <<file, writes, latest, fresh>>
vars  == <<words, disk, cache, request>>

NoLists == [l \in List |-> {}]

\* What reading the file comes to.  It is missing; json.load refuses it; it is JSON of
\* another shape than the code takes for granted, from the start or from the markers on.
FileState == {"good", "missing", "broken", "misshapen", "mismarked"}

\* The order in which _classify_one consults the defaults.
Turn == <<"HARMFUL", "OFFENSIVE", "INSTITUTION", "PERSON">>

Severity == {"SAFE", "OFFENSIVE", "HARMFUL"}
Target   == {"PERSON", "INSTITUTION", "NEITHER"}
Reason   == {"cleared", "uncertainty", "institution_sample", "triage"}
Verdict  == [severity : Severity, target : Target, abstain : BOOLEAN, reason : Reason]

\* History kept with a request: the phrases each source held at some moment, and at
\* every moment, since the request began.
Source == {"allow", "block", "keyword", "default"}

RequestState ==
  [pc : {"idle", "matcher", "stat", "load", "store", "classify", "answer"},
   text : SUBSET Phrases, allow : SUBSET Phrases, block : SUBSET Phrases,
   keyword : [Phrases -> {"none", "HARMFUL", "OFFENSIVE"}],
   turn : 1..5, mtime : Nat,
   shape : {"good", "misshapen", "mismarked"}, read : [List -> SUBSET Phrases],
   got : [List -> SUBSET Phrases], verdict : Verdict,
   ever : [Source -> SUBSET Phrases], always : [Source -> SUBSET Phrases]]

Idle == [pc |-> "idle", text |-> {}, allow |-> {}, block |-> {},
         keyword |-> [p \in Phrases |-> "none"], turn |-> 1, mtime |-> 0,
         shape |-> "good", read |-> NoLists, got |-> NoLists,
         verdict |-> [severity |-> "SAFE", target |-> "NEITHER", abstain |-> FALSE,
                      reason |-> "cleared"],
         ever |-> [s \in Source |-> {}], always |-> [s \in Source |-> {}]]

Init ==
  /\ allow = {} /\ block = {}
  /\ keyword = [p \in Phrases |-> "none"]
  /\ file \in [state : {"good"}, lists : Files, mtime : {1}]
  /\ cache = [lists |-> NoLists, mtime |-> 0]
  /\ request = Idle
  /\ edits = 0 /\ writes = 0
  /\ latest = 1 /\ fresh = TRUE

----------------------------------------------------------------------------
(* _classify_one, as a function of the text and of the words it is given.  *)

Hits(text, phrases) == text \cap phrases

TargetOf(institution, person) ==
  IF person # {} THEN "PERSON" ELSE IF institution # {} THEN "INSTITUTION" ELSE "NEITHER"

\* Confidences in hundredths.
TargetConfidence(institution, person) ==
  IF institution # {} /\ person # {} THEN 45
  ELSE IF institution # {} THEN 82 ELSE IF person # {} THEN 80 ELSE 55

\* "An allowlist match wins over everything".
SeverityOf(allowed, blocked, harmful, offensive) ==
  IF allowed # {} THEN "SAFE"
  ELSE IF blocked # {} \/ harmful # {} THEN "HARMFUL"
  ELSE IF offensive # {} THEN "OFFENSIVE" ELSE "SAFE"

SeverityConfidence(allowed, blocked, harmful, offensive) ==
  IF allowed # {} \/ blocked # {} THEN 100
  ELSE IF harmful # {} THEN 85 ELSE IF offensive # {} THEN 70 ELSE 66

ReasonFor(severity, target, abstain) ==
  IF severity = "SAFE" THEN "cleared"
  ELSE IF abstain THEN "uncertainty"
  ELSE IF target = "INSTITUTION" THEN "institution_sample" ELSE "triage"

\* The workspace's keywords of a severity come on top of the defaults.
Bucket(severity, keywords, defaults) ==
  defaults[severity] \cup {p \in Phrases : keywords[p] = severity}

Classified(text, al, bl, keywords, defaults) ==
  LET allowed     == Hits(text, al)
      blocked     == Hits(text, bl)
      harmful     == Hits(text, Bucket("HARMFUL", keywords, defaults))
      offensive   == Hits(text, Bucket("OFFENSIVE", keywords, defaults))
      institution == Hits(text, defaults["INSTITUTION"])
      person      == Hits(text, defaults["PERSON"])
      severity    == SeverityOf(allowed, blocked, harmful, offensive)
      target      == TargetOf(institution, person)
      abstain     == SeverityConfidence(allowed, blocked, harmful, offensive) < 50
                     \/ TargetConfidence(institution, person) < 50
  IN  [severity |-> severity, target |-> target, abstain |-> abstain,
       reason |-> ReasonFor(severity, target, abstain)]

AutoRemovable(verdict) == verdict.severity = "HARMFUL"

----------------------------------------------------------------------------
(* What stood while the request ran.                                       *)

Standing(al, bl, keywords, defaults) ==
  [s \in Source |->
     CASE s = "allow" -> al
       [] s = "block" -> bl
       [] s = "keyword" -> {p \in Phrases : keywords[p] = "HARMFUL"}
       [] s = "default" -> defaults["HARMFUL"]]

Noted(local, now) ==
  IF local.pc \in {"idle", "answer"} THEN local
  ELSE [local EXCEPT !.ever = [s \in Source |-> @[s] \cup now[s]],
                     !.always = [s \in Source |-> @[s] \cap now[s]]]

----------------------------------------------------------------------------
(* Owners.                                                                 *)

Edit ==
  /\ edits < MaxEdits
  /\ edits' = edits + 1
  /\ request' = Noted(request, Standing(allow', block', keyword', cache.lists))

\* PATCH replaces a whole list.
SetAllowlist(phrases) ==
  /\ allow' = phrases
  /\ UNCHANGED <<block, keyword, disk, cache>>
  /\ Edit

SetBlocklist(phrases) ==
  /\ block' = phrases
  /\ UNCHANGED <<allow, keyword, disk, cache>>
  /\ Edit

\* Mutant: adding a keyword that is there sets its severity.
AddKeywordMutant(p, severity) ==
  /\ keyword' = [keyword EXCEPT ![p] = severity]
  /\ UNCHANGED <<allow, block, disk, cache>>
  /\ Edit

\* ON CONFLICT DO NOTHING: a phrase that is there keeps its severity (409).
AddKeyword(p, severity) ==
  /\ keyword[p] = "none"
  /\ keyword' = [keyword EXCEPT ![p] = severity]
  /\ UNCHANGED <<allow, block, disk, cache>>
  /\ Edit

RemoveKeyword(p) ==
  /\ keyword[p] # "none"
  /\ keyword' = [keyword EXCEPT ![p] = "none"]
  /\ UNCHANGED <<allow, block, disk, cache>>
  /\ Edit

----------------------------------------------------------------------------
(* keywords.json on disk.                                                  *)

\* Replaced as a whole, truncated by somebody who is still writing, given another shape, or
\* removed.  A copy that keeps its time brings an earlier one, two writes in one tick the same.
FileChanges ==
  /\ writes < MaxWrites /\ writes' = writes + 1
  /\ \E state \in FileState, lists \in Files, mtime \in 1..(latest + 1) :
       /\ state \in {"broken", "missing", "misshapen"} => lists = file.lists
       /\ state = "missing" => mtime = file.mtime
       /\ file' = [state |-> state, lists |-> lists, mtime |-> mtime]
       /\ latest' = IF mtime > latest THEN mtime ELSE latest
       /\ fresh' = (mtime > latest)
  /\ UNCHANGED <<words, cache, request>>

----------------------------------------------------------------------------
(* A request that classifies one text.                                     *)

\* workspace_for_user: the row, the two lists in it.
ReadWorkspace ==
  /\ request.pc = "idle"
  /\ \E t \in Texts :
       LET now == Standing(allow, block, keyword, cache.lists) IN
       request' = [Idle EXCEPT !.pc = "matcher", !.text = t, !.allow = allow, !.block = block,
                               !.ever = now, !.always = now]
  /\ UNCHANGED <<words, disk, cache>>

\* Mutant: the matcher is built without the lists of the row.
MatcherForMutant ==
  /\ request.pc = "matcher"
  /\ request' = [request EXCEPT !.pc = "stat", !.keyword = keyword,
                                !.allow = {}, !.block = {}]
  /\ UNCHANGED <<words, disk, cache>>

\* _matcher_for.
MatcherFor ==
  /\ request.pc = "matcher"
  /\ request' = [request EXCEPT !.pc = "stat", !.keyword = keyword]
  /\ UNCHANGED <<words, disk, cache>>

\* The list of this turn, as the cache has it; after the fourth the verdict.
Consulted(local, lists) ==
  [local EXCEPT !.got[Turn[local.turn]] = lists[Turn[local.turn]],
                !.turn = @ + 1, !.mtime = 0, !.shape = "good", !.read = NoLists,
                !.pc = IF local.turn = 4 THEN "classify" ELSE "stat"]

\* _ensure_loaded: the time of the file against that of the cache.
Stat ==
  /\ request.pc = "stat"
  /\ request' = IF file.state # "missing" /\ file.mtime > cache.mtime
                THEN [request EXCEPT !.pc = "load", !.mtime = file.mtime]
                ELSE Consulted(request, cache.lists)
  /\ UNCHANGED <<words, disk, cache>>

\* _load, as far as json.load: OSError and ValueError, a file that is missing by now or
\* does not parse, are caught and leave the cache alone.
Load ==
  /\ request.pc = "load"
  /\ request' = IF file.state \in {"good", "misshapen", "mismarked"}
                THEN [request EXCEPT !.pc = "store", !.shape = file.state, !.read = file.lists]
                ELSE Consulted(request, cache.lists)
  /\ UNCHANGED <<words, disk, cache>>

\* Mutant: the cache is stamped with the time the file has once it was read.
StampMutant == file.mtime

\* The time that was taken before the file was read.
Stamp == request.mtime

Store ==
  /\ request.pc = "store" /\ request.shape = "good"
  /\ cache' = [lists |-> request.read, mtime |-> Stamp]
  /\ request' = Noted(Consulted(request, request.read),
                      Standing(allow, block, keyword, request.read))
  /\ UNCHANGED <<words, disk>>

\* The words of one version under the markers of another.
Mixed(lists, markers) ==
  [l \in List |-> IF l \in {"HARMFUL", "OFFENSIVE"} THEN lists[l] ELSE markers[l]]

\* _load, on JSON of another shape: AttributeError or TypeError is caught by nobody, and the
\* request ends without a verdict.  The words may have been replaced by then, the markers
\* and the time have not.
StoreRaises ==
  /\ request.pc = "store" /\ request.shape # "good"
  /\ cache' = IF request.shape = "mismarked"
              THEN [cache EXCEPT !.lists = Mixed(request.read, @)] ELSE cache
  /\ request' = Idle
  /\ UNCHANGED <<words, disk>>

Classify ==
  /\ request.pc = "classify"
  /\ request' = [request EXCEPT !.pc = "answer",
       !.verdict = Classified(request.text, request.allow, request.block,
                              request.keyword, request.got)]
  /\ UNCHANGED <<words, disk, cache>>

Answer ==
  /\ request.pc = "answer"
  /\ request' = Idle
  /\ UNCHANGED <<words, disk, cache>>

----------------------------------------------------------------------------

OwnerStep ==
  \/ \E phrases \in SUBSET Phrases : SetAllowlist(phrases) \/ SetBlocklist(phrases)
  \/ \E p \in Phrases :
       RemoveKeyword(p) \/ \E severity \in {"HARMFUL", "OFFENSIVE"} : AddKeyword(p, severity)

RequestStep ==
  ReadWorkspace \/ MatcherFor \/ Stat \/ Load \/ Store \/ StoreRaises \/ Classify \/ Answer

Next == OwnerStep \/ RequestStep \/ FileChanges

Spec == Init /\ [][Next]_vars

----------------------------------------------------------------------------
(* Properties.                                                             *)

TypeOK ==
  /\ allow \subseteq Phrases /\ block \subseteq Phrases
  /\ keyword \in [Phrases -> {"none", "HARMFUL", "OFFENSIVE"}]
  /\ file \in [state : FileState, lists : Files, mtime : Nat]
  /\ cache \in [lists : [List -> SUBSET Phrases], mtime : Nat]
  /\ request \in RequestState
  /\ request.pc \in {"matcher", "stat", "load", "store"} => request.turn \in 1..4
  /\ edits \in Nat /\ writes \in Nat /\ latest \in Nat /\ fresh \in BOOLEAN

Rank(severity) == IF severity = "HARMFUL" THEN 2 ELSE IF severity = "OFFENSIVE" THEN 1 ELSE 0

SeverityNow(t) == Classified(t, allow, block, keyword, cache.lists).severity

\* "A word can surface a comment for review, it can never clear one"
\* (pattern_matcher.py, 014_workspace_keywords.sql): unless the allowlist or the defaults
\* change, or a word is taken away, no edit lowers the severity of any text, whatever
\* stands on the lists already.
NeverCleared ==
  [][ /\ allow' = allow /\ block \subseteq block' /\ cache' = cache
      /\ \A p \in Phrases : keyword[p] # "none" => keyword'[p] # "none"
      => \A t \in Texts : Rank(SeverityNow(t)') >= Rank(SeverityNow(t))]_vars

\* A verdict mixes lists that were read at different moments, but it is one that the
\* vocabulary of the time explains: HARMFUL only by a word some source held while the
\* request ran, on a text the allowlist did not clear all along; and always HARMFUL if one
\* source held a word against the text, and the allowlist none for it, all along.
VerdictOfItsTime ==
  LET against == {"block", "keyword", "default"} IN
  request.pc = "answer" =>
    /\ request.verdict.severity = "HARMFUL" =>
         /\ \E s \in against : request.text \cap request.ever[s] # {}
         /\ request.text \cap request.always["allow"] = {}
    /\ request.text \cap request.ever["allow"] = {}
       /\ (\E s \in against : request.text \cap request.always[s] # {})
       => request.verdict.severity = "HARMFUL"

\* "Reloaded when the file changes": as long as the last change gave the file a time later
\* than any it had, the cache never takes itself for newer than it is.  Once it carries that
\* time it has that file's words, whatever happened before: though the time is read before
\* the words and the file may be replaced in between, and though a file of another shape
\* may have left the cache half replaced.
CacheCatchesUp ==
  fresh =>
    /\ cache.mtime <= file.mtime
    /\ cache.mtime = file.mtime /\ file.state = "good" => cache.lists = file.lists

----------------------------------------------------------------------------
(* What the repository says and the code does not do.                      *)

\* README.md: "Criticism aimed at an institution is never routed for removal, however
\* hostile"; PatternMatcher._route says the same of institution-directed criticism.
InstitutionSpared ==
  request.pc = "answer" /\ request.verdict.target = "INSTITUTION" =>
    ~AutoRemovable(request.verdict)

\* "The platform's default keywords, reloaded when the file changes" (KeywordStore), whatever
\* its time: TLC refutes it by a copy whose time is earlier, or the same.
AlwaysReloaded == cache.mtime >= file.mtime /\ file.state = "good" => cache.lists = file.lists

\* "Fail safe if the file is mid-write or malformed" (KeywordStore._load): TLC refutes it by
\* markers of another shape, which leave the words of one file with the markers of another.
CacheOfOneFile == cache.lists \in Files \cup {NoLists}
=============================================================================
