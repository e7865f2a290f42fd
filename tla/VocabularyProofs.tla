--------------------------- MODULE VocabularyProofs ---------------------------
(***************************************************************************)
(* Theorems about Vocabulary for any phrases, texts and files, any number  *)
(* of edits and changes of the file.                                       *)
(*                                                                         *)
(* The cache can be trusted because the time a request carries is later    *)
(* than that of the cache and never later than any the file has had, so a  *)
(* file with a time of its own was read with it (Fetched); a verdict       *)
(* because everything a request has read of a source lies between what     *)
(* stood always and what stood ever since the request began (Kept).        *)
(***************************************************************************)
EXTENDS Vocabulary, TLAPS

\* What a request has taken from the file, while it is on its way to the cache.
Fetched ==
  /\ cache.mtime <= latest /\ file.mtime <= latest
  /\ fresh => file.mtime = latest
  /\ request.pc \in {"load", "store"} =>
       cache.mtime < request.mtime /\ request.mtime <= latest
  /\ request.pc = "store" =>
       /\ request.read \in Files
       /\ fresh /\ request.mtime = file.mtime /\ file.state = "good" =>
            request.shape = "good" /\ request.read = file.lists

Between(s, words_of_s) ==
  request.always[s] \subseteq words_of_s /\ words_of_s \subseteq request.ever[s]

Harsh(keywords) == {p \in Phrases : keywords[p] = "HARMFUL"}

Running == request.pc \notin {"idle", "answer"}

\* What stands now, and what the request has read of each source.
Kept ==
  Running =>
    /\ Between("allow", allow) /\ Between("block", block)
    /\ Between("keyword", Harsh(keyword)) /\ Between("default", cache.lists["HARMFUL"])
    /\ Between("allow", request.allow) /\ Between("block", request.block)
    /\ request.pc # "matcher" => Between("keyword", Harsh(request.keyword))
    /\ request.turn > 1 => Between("default", request.got["HARMFUL"])
    /\ request.pc = "classify" => request.turn > 1

IInv == TypeOK /\ Fetched /\ CacheCatchesUp /\ Kept /\ VerdictOfItsTime

----------------------------------------------------------------------------
(* Types.                                                                  *)

LEMMA IdleType ==
  /\ Idle \in RequestState /\ Idle.pc = "idle" /\ Idle.turn = 1
BY DEF Idle, RequestState, NoLists, Verdict, Severity, Target, Reason

LEMMA StandingType ==
  ASSUME NEW al \in SUBSET Phrases, NEW bl \in SUBSET Phrases,
         NEW kw \in [Phrases -> {"none", "HARMFUL", "OFFENSIVE"}],
         NEW defaults \in [List -> SUBSET Phrases]
  PROVE  /\ Standing(al, bl, kw, defaults) \in [Source -> SUBSET Phrases]
         /\ Standing(al, bl, kw, defaults)["allow"] = al
         /\ Standing(al, bl, kw, defaults)["block"] = bl
         /\ Standing(al, bl, kw, defaults)["keyword"] = Harsh(kw)
         /\ Standing(al, bl, kw, defaults)["default"] = defaults["HARMFUL"]
BY DEF Standing, Source, List, Harsh

\* Noting what stands changes the history alone.
LEMMA NotedType ==
  ASSUME NEW x \in RequestState, NEW now \in [Source -> SUBSET Phrases]
  PROVE  /\ Noted(x, now) \in RequestState
         /\ Noted(x, now).pc = x.pc /\ Noted(x, now).text = x.text
         /\ Noted(x, now).allow = x.allow /\ Noted(x, now).block = x.block
         /\ Noted(x, now).keyword = x.keyword /\ Noted(x, now).turn = x.turn
         /\ Noted(x, now).mtime = x.mtime /\ Noted(x, now).shape = x.shape /\ Noted(x, now).read = x.read
         /\ Noted(x, now).got = x.got /\ Noted(x, now).verdict = x.verdict
         /\ x.pc \in {"idle", "answer"} => Noted(x, now) = x
         /\ x.pc \notin {"idle", "answer"} => \A s \in Source :
              /\ Noted(x, now).ever[s] = x.ever[s] \cup now[s]
              /\ Noted(x, now).always[s] = x.always[s] \cap now[s]
<1>1. CASE x.pc \in {"idle", "answer"}
  BY <1>1 DEF Noted
<1>2. CASE x.pc \notin {"idle", "answer"}
  <2> DEFINE ever   == [s \in Source |-> x.ever[s] \cup now[s]]
             always == [s \in Source |-> x.always[s] \cap now[s]]
  <2>1. ever \in [Source -> SUBSET Phrases] /\ always \in [Source -> SUBSET Phrases]
    BY DEF RequestState
  <2>2. Noted(x, now) = [x EXCEPT !.ever = ever, !.always = always]
    BY <1>2 DEF Noted, RequestState
  <2>3. \A s \in Source : ever[s] = x.ever[s] \cup now[s] /\ always[s] = x.always[s] \cap now[s]
    OBVIOUS
  <2> HIDE DEF ever, always
  <2> QED
    BY <1>2, <2>1, <2>2, <2>3 DEF RequestState
<1> QED
  BY <1>1, <1>2

LEMMA ConsultedType ==
  ASSUME NEW x \in RequestState, x.turn \in 1..4, NEW lists \in [List -> SUBSET Phrases]
  PROVE  LET y == Consulted(x, lists) IN
         /\ y \in RequestState
         /\ y.pc = (IF x.turn = 4 THEN "classify" ELSE "stat")
         /\ y.turn = x.turn + 1
         /\ y.text = x.text /\ y.allow = x.allow /\ y.block = x.block
         /\ y.keyword = x.keyword /\ y.ever = x.ever /\ y.always = x.always
         /\ y.got["HARMFUL"] = IF x.turn = 1 THEN lists["HARMFUL"] ELSE x.got["HARMFUL"]
<1>1. PICK l \in List : /\ l = Turn[x.turn] /\ (l = "HARMFUL" <=> x.turn = 1)
  BY DEF Turn, List
<1> DEFINE got == [x.got EXCEPT ![l] = lists[l]]
<1>2. got \in [List -> SUBSET Phrases]
      /\ got["HARMFUL"] = IF x.turn = 1 THEN lists["HARMFUL"] ELSE x.got["HARMFUL"]
  BY <1>1 DEF RequestState, List
<1>3. NoLists \in [List -> SUBSET Phrases]
  BY DEF NoLists
<1>4. Consulted(x, lists) =
        [x EXCEPT !.got = got, !.turn = x.turn + 1, !.mtime = 0, !.shape = "good", !.read = NoLists,
                  !.pc = IF x.turn = 4 THEN "classify" ELSE "stat"]
  BY <1>1 DEF Consulted, RequestState
<1>5. PICK pc \in {"classify", "stat"} : pc = IF x.turn = 4 THEN "classify" ELSE "stat"
  OBVIOUS
<1>6. PICK turn \in 1..5 : turn = x.turn + 1
  OBVIOUS
<1>7. Consulted(x, lists) =
        [x EXCEPT !.got = got, !.turn = turn, !.mtime = 0, !.shape = "good", !.read = NoLists,
                  !.pc = pc]
  BY <1>4, <1>5, <1>6
<1> HIDE DEF got
<1>8. Consulted(x, lists) \in RequestState
  <2> DEFINE y == [x EXCEPT !.got = got]
             z == [y EXCEPT !.turn = turn, !.pc = pc]
  <2>1. y \in RequestState
    BY <1>2 DEF RequestState
  <2>2. z \in RequestState
    BY <2>1 DEF RequestState
  <2>3. [z EXCEPT !.mtime = 0, !.shape = "good", !.read = NoLists] \in RequestState
    BY <1>3, <2>2 DEF RequestState
  <2>4. Consulted(x, lists) = [z EXCEPT !.mtime = 0, !.shape = "good", !.read = NoLists]
    BY <1>7 DEF RequestState
  <2> QED
    BY <2>3, <2>4
<1> QED
  BY <1>2, <1>5, <1>6, <1>7, <1>8 DEF RequestState

LEMMA CacheType == ASSUME TypeOK PROVE cache.lists \in [List -> SUBSET Phrases]
BY DEF TypeOK

LEMMA ClassifiedType ==
  ASSUME NEW t, NEW al, NEW bl, NEW kw, NEW defaults
  PROVE  Classified(t, al, bl, kw, defaults) \in Verdict
BY DEF Classified, Verdict, SeverityOf, TargetOf, ReasonFor, Severity, Target, Reason

----------------------------------------------------------------------------
(* Steps.                                                                  *)

LEMMA Unfolded ==
  IInv => /\ TypeOK /\ Fetched /\ CacheCatchesUp /\ Kept /\ VerdictOfItsTime
          /\ request \in RequestState /\ cache.lists \in [List -> SUBSET Phrases]
          /\ allow \in SUBSET Phrases /\ block \in SUBSET Phrases
          /\ keyword \in [Phrases -> {"none", "HARMFUL", "OFFENSIVE"}]
          /\ cache.mtime \in Nat /\ file.mtime \in Nat /\ latest \in Nat
BY CacheType DEF IInv, TypeOK

\* An owner's edit: what stands changes and the request takes note of it.
LEMMA EditStep ==
  ASSUME IInv, Edit, UNCHANGED <<disk, cache>>,
         allow' \in SUBSET Phrases, block' \in SUBSET Phrases,
         keyword' \in [Phrases -> {"none", "HARMFUL", "OFFENSIVE"}]
  PROVE  IInv'
<1> DEFINE now == Standing(allow', block', keyword', cache.lists)
<1>1. /\ now \in [Source -> SUBSET Phrases]
      /\ now["allow"] = allow' /\ now["block"] = block'
      /\ now["keyword"] = Harsh(keyword') /\ now["default"] = cache.lists["HARMFUL"]
  BY Unfolded DEF Standing, Source, List, Harsh
<1>2. request' = Noted(request, now) /\ edits' = edits + 1 /\ request \in RequestState
  BY Unfolded DEF Edit
<1> HIDE DEF now
<1>3. /\ request' \in RequestState
      /\ request'.pc = request.pc /\ request'.text = request.text
      /\ request'.allow = request.allow /\ request'.block = request.block
      /\ request'.keyword = request.keyword /\ request'.turn = request.turn
      /\ request'.mtime = request.mtime /\ request'.read = request.read
      /\ request'.shape = request.shape
      /\ request'.got = request.got /\ request'.verdict = request.verdict
      /\ ~Running => request' = request
      /\ Running => \A s \in Source :
           /\ request'.ever[s] = request.ever[s] \cup now[s]
           /\ request'.always[s] = request.always[s] \cap now[s]
  BY <1>1, <1>2, NotedType DEF Running
<1>4. TypeOK'
  BY <1>2, <1>3, Unfolded DEF TypeOK, disk
<1>5. Fetched' /\ CacheCatchesUp'
  BY <1>3, Unfolded DEF Fetched, CacheCatchesUp, disk
<1>6. VerdictOfItsTime'
  BY <1>3, Unfolded DEF VerdictOfItsTime, Running
<1>7. Kept'
  <2> SUFFICES ASSUME Running' PROVE Kept'
    BY DEF Kept
  <2>1. Running
    BY <1>3 DEF Running
  <2>2. \A s \in Source : \A w : Between(s, w) => Between(s, w)'
    <3> SUFFICES ASSUME NEW s \in Source, NEW w, Between(s, w)
                 PROVE  request'.always[s] \subseteq w /\ w \subseteq request'.ever[s]
      BY DEF Between
    <3> QED
      BY <1>3, <2>1 DEF Between
  <2>3. /\ Between("allow", allow)' /\ Between("block", block)'
        /\ Between("keyword", Harsh(keyword))' /\ Between("default", cache.lists["HARMFUL"])'
    BY <1>1, <1>3, <2>1 DEF Between, Source, Harsh
  <2> QED
    BY <1>3, <2>1, <2>2, <2>3, Unfolded DEF Kept, Between, Source, Harsh
<1> QED
  BY <1>4, <1>5, <1>6, <1>7 DEF IInv

LEMMA OwnerStepStep == ASSUME IInv, OwnerStep PROVE IInv'
<1>1. ASSUME NEW phrases \in SUBSET Phrases, SetAllowlist(phrases) \/ SetBlocklist(phrases)
      PROVE  IInv'
  BY <1>1, EditStep, Unfolded DEF SetAllowlist, SetBlocklist
<1>2. ASSUME NEW p \in Phrases, RemoveKeyword(p) PROVE IInv'
  BY <1>2, EditStep, Unfolded DEF RemoveKeyword
<1>3. ASSUME NEW p \in Phrases, NEW severity \in {"HARMFUL", "OFFENSIVE"},
             AddKeyword(p, severity)
      PROVE  IInv'
  BY <1>3, EditStep, Unfolded DEF AddKeyword
<1> QED
  BY <1>1, <1>2, <1>3 DEF OwnerStep

\* A time on disk later than any before is later than what the request or the cache carries.
LEMMA FileChangesStep == ASSUME IInv, FileChanges PROVE IInv'
<1>1. /\ file' \in [state : FileState, lists : Files, mtime : Nat]
      /\ latest' = IF file'.mtime > latest THEN file'.mtime ELSE latest
      /\ fresh' = (file'.mtime > latest) /\ writes' \in Nat
      /\ UNCHANGED <<allow, block, keyword, edits, cache, request>>
  BY Unfolded DEF FileChanges, words, TypeOK
<1>2. request.mtime \in Nat
  BY Unfolded DEF RequestState
<1>3. TypeOK'
  BY <1>1, Unfolded DEF TypeOK
<1>4. file'.mtime \in Nat /\ latest' \in Nat /\ latest <= latest' /\ file'.mtime <= latest'
      /\ fresh' => file'.mtime = latest' /\ latest < latest'
  BY <1>1, Unfolded
<1>6. Fetched'
  BY <1>1, <1>2, <1>4, Unfolded DEF Fetched
<1>7. CacheCatchesUp'
  BY <1>1, <1>4, Unfolded DEF Fetched, CacheCatchesUp
<1>5. Kept' /\ VerdictOfItsTime'
  BY <1>1, Unfolded DEF Kept, Running, Between, VerdictOfItsTime, Harsh
<1> QED
  BY <1>3, <1>5, <1>6, <1>7 DEF IInv

\* The next list, as the cache has it.
LEMMA ConsultStep ==
  ASSUME IInv, request.pc \in {"stat", "load"}, request' = Consulted(request, cache.lists),
         UNCHANGED <<words, disk, cache>>
  PROVE  IInv'
<1>1. /\ UNCHANGED <<allow, block, keyword, edits, file, writes, latest, fresh, cache>>
      /\ request.turn \in 1..4 /\ request \in RequestState
      /\ cache.lists \in [List -> SUBSET Phrases]
  BY Unfolded DEF words, disk, TypeOK
<1>2. /\ request' \in RequestState
      /\ request'.pc = (IF request.turn = 4 THEN "classify" ELSE "stat")
      /\ request'.turn = request.turn + 1
      /\ request'.text = request.text
      /\ request'.allow = request.allow /\ request'.block = request.block
      /\ request'.keyword = request.keyword
      /\ request'.ever = request.ever /\ request'.always = request.always
      /\ request'.got["HARMFUL"] =
           IF request.turn = 1 THEN cache.lists["HARMFUL"] ELSE request.got["HARMFUL"]
  BY <1>1, ConsultedType
<1>3. TypeOK'
  BY <1>1, <1>2, Unfolded DEF TypeOK
<1>4. Fetched' /\ CacheCatchesUp' /\ VerdictOfItsTime'
  BY <1>1, <1>2, Unfolded DEF Fetched, CacheCatchesUp, VerdictOfItsTime
<1>5. Kept'
  BY <1>1, <1>2, Unfolded DEF Kept, Running, Between, Harsh
<1> QED
  BY <1>3, <1>4, <1>5 DEF IInv

LEMMA ReadWorkspaceStep == ASSUME IInv, ReadWorkspace PROVE IInv'
<1> DEFINE now == Standing(allow, block, keyword, cache.lists)
<1>1. /\ now \in [Source -> SUBSET Phrases]
      /\ now["allow"] = allow /\ now["block"] = block
      /\ now["keyword"] = Harsh(keyword) /\ now["default"] = cache.lists["HARMFUL"]
  BY Unfolded DEF Standing, Source, List, Harsh
<1>2. PICK t \in Texts :
        request' = [Idle EXCEPT !.pc = "matcher", !.text = t, !.allow = allow, !.block = block,
                                !.ever = now, !.always = now]
  BY DEF ReadWorkspace
<1> HIDE DEF now
<1>3. UNCHANGED <<allow, block, keyword, edits, file, writes, latest, fresh, cache>> /\ t \in SUBSET Phrases
  BY TextsAssumption DEF ReadWorkspace, words, disk
<1>4. /\ request' \in RequestState
      /\ request'.pc = "matcher" /\ request'.turn = 1
      /\ request'.allow = allow /\ request'.block = block
      /\ request'.ever = now /\ request'.always = now
  BY <1>1, <1>2, <1>3, IdleType, Unfolded DEF RequestState
<1>5. TypeOK'
  BY <1>3, <1>4, Unfolded DEF TypeOK
<1>6. Fetched' /\ CacheCatchesUp' /\ VerdictOfItsTime'
  BY <1>3, <1>4, Unfolded DEF Fetched, CacheCatchesUp, VerdictOfItsTime
<1>7. Kept'
  BY <1>1, <1>3, <1>4 DEF Kept, Running, Between, Harsh
<1> QED
  BY <1>5, <1>6, <1>7 DEF IInv

LEMMA MatcherForStep == ASSUME IInv, MatcherFor PROVE IInv'
<1>1. /\ UNCHANGED <<allow, block, keyword, edits, file, writes, latest, fresh, cache>>
      /\ request.pc = "matcher" /\ request \in RequestState
      /\ request' = [request EXCEPT !.pc = "stat", !.keyword = keyword]
  BY Unfolded DEF MatcherFor, words, disk
<1>2. /\ request' \in RequestState
      /\ request'.pc = "stat" /\ request'.keyword = keyword
      /\ request'.turn = request.turn /\ request'.text = request.text
      /\ request'.allow = request.allow /\ request'.block = request.block
      /\ request'.ever = request.ever /\ request'.always = request.always
      /\ request'.got = request.got
  BY <1>1, Unfolded DEF RequestState
<1>3. TypeOK'
  BY <1>1, <1>2, Unfolded DEF TypeOK
<1>4. Fetched' /\ CacheCatchesUp' /\ VerdictOfItsTime'
  BY <1>1, <1>2, Unfolded DEF Fetched, CacheCatchesUp, VerdictOfItsTime
<1>5. Kept'
  BY <1>1, <1>2, Unfolded DEF Kept, Running, Between, Harsh
<1> QED
  BY <1>3, <1>4, <1>5 DEF IInv

LEMMA StatStep == ASSUME IInv, Stat PROVE IInv'
<1>1. CASE file.state # "missing" /\ file.mtime > cache.mtime
  <2>1. /\ UNCHANGED <<allow, block, keyword, edits, file, writes, latest, fresh, cache>>
        /\ request.pc = "stat" /\ request \in RequestState
        /\ request' = [request EXCEPT !.pc = "load", !.mtime = file.mtime]
    BY <1>1, Unfolded DEF Stat, words, disk
  <2>2. /\ request' \in RequestState
        /\ request'.pc = "load" /\ request'.mtime = file.mtime
        /\ request'.keyword = request.keyword
        /\ request'.turn = request.turn /\ request'.text = request.text
        /\ request'.allow = request.allow /\ request'.block = request.block
        /\ request'.ever = request.ever /\ request'.always = request.always
        /\ request'.got = request.got
    BY <2>1, Unfolded DEF RequestState
  <2>3. TypeOK'
    BY <2>1, <2>2, Unfolded DEF TypeOK
  <2>4. CacheCatchesUp' /\ VerdictOfItsTime'
    BY <2>1, <2>2, Unfolded DEF CacheCatchesUp, VerdictOfItsTime
  <2>6. Fetched'
    BY <1>1, <2>1, <2>2, Unfolded DEF Fetched
  <2>5. Kept'
    BY <2>1, <2>2, Unfolded DEF Kept, Running, Between, Harsh
  <2> QED
    BY <2>3, <2>4, <2>5, <2>6 DEF IInv
<1>2. CASE ~(file.state # "missing" /\ file.mtime > cache.mtime)
  BY <1>2, ConsultStep DEF Stat
<1> QED
  BY <1>1, <1>2

LEMMA LoadStep == ASSUME IInv, Load PROVE IInv'
<1>1. CASE file.state \in {"good", "misshapen", "mismarked"}
  <2>1. /\ UNCHANGED <<allow, block, keyword, edits, file, writes, latest, fresh, cache>>
        /\ request.pc = "load" /\ request \in RequestState
        /\ request' = [request EXCEPT !.pc = "store", !.shape = file.state, !.read = file.lists]
        /\ file.lists \in Files /\ file.lists \in [List -> SUBSET Phrases]
    BY <1>1, FilesAssumption, Unfolded DEF Load, words, disk, TypeOK
  <2>2. /\ request' \in RequestState
        /\ request'.pc = "store" /\ request'.mtime = request.mtime
        /\ request'.read = file.lists /\ request'.shape = file.state
        /\ request'.keyword = request.keyword
        /\ request'.turn = request.turn /\ request'.text = request.text
        /\ request'.allow = request.allow /\ request'.block = request.block
        /\ request'.ever = request.ever /\ request'.always = request.always
        /\ request'.got = request.got
    BY <1>1, <2>1 DEF RequestState
  <2>3. TypeOK'
    BY <2>1, <2>2, Unfolded DEF TypeOK
  <2>4. Fetched' /\ CacheCatchesUp' /\ VerdictOfItsTime'
    BY <2>1, <2>2, Unfolded DEF Fetched, CacheCatchesUp, VerdictOfItsTime
  <2>5. Kept'
    BY <2>1, <2>2, Unfolded DEF Kept, Running, Between, Harsh
  <2> QED
    BY <2>3, <2>4, <2>5 DEF IInv
<1>2. CASE file.state \notin {"good", "misshapen", "mismarked"}
  BY <1>2, ConsultStep DEF Load
<1> QED
  BY <1>1, <1>2

LEMMA StoreStep == ASSUME IInv, Store PROVE IInv'
<1> DEFINE now  == Standing(allow, block, keyword, request.read)
           next == Consulted(request, request.read)
<1>1. /\ UNCHANGED <<allow, block, keyword, edits, file, writes, latest, fresh>>
      /\ request.pc = "store" /\ request.turn \in 1..4 /\ request \in RequestState
      /\ cache' = [lists |-> request.read, mtime |-> request.mtime]
      /\ request.read \in Files /\ request.read \in [List -> SUBSET Phrases]
      /\ request.mtime \in Nat
  BY Unfolded DEF Store, Stamp, words, disk, TypeOK, Fetched, RequestState
<1>2. /\ now \in [Source -> SUBSET Phrases]
      /\ now["allow"] = allow /\ now["block"] = block
      /\ now["keyword"] = Harsh(keyword) /\ now["default"] = request.read["HARMFUL"]
  BY <1>1, Unfolded DEF Standing, Source, List, Harsh
<1>3. /\ next \in RequestState
      /\ next.pc = (IF request.turn = 4 THEN "classify" ELSE "stat")
      /\ next.turn = request.turn + 1
      /\ next.text = request.text
      /\ next.allow = request.allow /\ next.block = request.block
      /\ next.keyword = request.keyword
      /\ next.ever = request.ever /\ next.always = request.always
      /\ next.got["HARMFUL"] =
           IF request.turn = 1 THEN request.read["HARMFUL"] ELSE request.got["HARMFUL"]
  BY <1>1, ConsultedType
<1>4. request' = Noted(next, now)
  BY DEF Store
<1> HIDE DEF now, next
<1>5. /\ request' \in RequestState
      /\ request'.pc = next.pc /\ request'.turn = next.turn
      /\ request'.allow = next.allow /\ request'.block = next.block
      /\ request'.keyword = next.keyword /\ request'.got = next.got
      /\ \A s \in Source : /\ request'.ever[s] = next.ever[s] \cup now[s]
                           /\ request'.always[s] = next.always[s] \cap now[s]
  BY <1>2, <1>3, <1>4, NotedType
<1>6. TypeOK'
  BY <1>1, <1>3, <1>5, Unfolded DEF TypeOK
<1>7. VerdictOfItsTime'
  BY <1>3, <1>5 DEF VerdictOfItsTime
<1>10. Fetched'
  BY <1>1, <1>3, <1>5, Unfolded DEF Fetched
<1>8. CacheCatchesUp'
  BY <1>1, Unfolded DEF Fetched, CacheCatchesUp
<1>9. Kept'
  <2>1. \A s \in Source : \A w : Between(s, w) => Between(s, w)'
    <3> SUFFICES ASSUME NEW s \in Source, NEW w, Between(s, w)
                 PROVE  request'.always[s] \subseteq w /\ w \subseteq request'.ever[s]
      BY DEF Between
    <3> QED
      BY <1>3, <1>5 DEF Between
  <2>2. /\ Between("allow", allow)' /\ Between("block", block)'
        /\ Between("keyword", Harsh(keyword))' /\ Between("default", cache.lists["HARMFUL"])'
    BY <1>1, <1>2, <1>3, <1>5 DEF Between, Source, Harsh
  <2>3. /\ request'.always["default"] \subseteq request.read["HARMFUL"]
        /\ request.read["HARMFUL"] \subseteq request'.ever["default"]
    BY <1>1, <1>2, <1>3, <1>5 DEF Source
  <2>4. /\ Between("allow", request.allow) /\ Between("block", request.block)
        /\ Between("keyword", Harsh(request.keyword))
        /\ request.turn > 1 => Between("default", request.got["HARMFUL"])
    BY <1>1, Unfolded DEF Kept, Running
  <2>5. /\ Between("allow", request.allow)' /\ Between("block", request.block)'
        /\ Between("keyword", Harsh(request.keyword))'
    BY <1>3, <1>5, <2>4 DEF Between, Source, Harsh
  <2>6. Between("default", request.got["HARMFUL"])'
    <3>1. CASE request.turn = 1
      BY <1>3, <1>5, <2>3, <3>1 DEF Between
    <3>2. CASE request.turn > 1
      BY <1>1, <1>3, <1>5, <2>1, <2>4, <3>2 DEF Between, Source
    <3> QED
      BY <1>1, <3>1, <3>2
  <2>7. request'.pc \in {"classify", "stat"} /\ request'.turn > 1
    BY <1>1, <1>3, <1>5
  <2> QED
    BY <2>2, <2>5, <2>6, <2>7 DEF Kept
<1> QED
  BY <1>6, <1>7, <1>8, <1>9, <1>10 DEF IInv

\* The words may have been replaced, the time has not, and it is earlier than the file's.
LEMMA StoreRaisesStep == ASSUME IInv, StoreRaises PROVE IInv'
<1>1. /\ UNCHANGED <<allow, block, keyword, edits, file, writes, latest, fresh>>
      /\ request.pc = "store" /\ request.shape # "good"
      /\ request' = Idle /\ request' \in RequestState /\ request'.pc = "idle"
      /\ request.read \in [List -> SUBSET Phrases]
  BY IdleType, Unfolded DEF StoreRaises, words, disk, RequestState
<1>2. /\ Mixed(request.read, cache.lists) \in [List -> SUBSET Phrases]
      /\ cache \in [lists : [List -> SUBSET Phrases], mtime : Nat]
  BY <1>1, Unfolded DEF Mixed, TypeOK
<1> HIDE DEF Mixed
<1>3. /\ cache' \in [lists : [List -> SUBSET Phrases], mtime : Nat]
      /\ cache'.mtime = cache.mtime
  BY <1>2 DEF StoreRaises
<1>4. TypeOK'
  BY <1>1, <1>3, Unfolded DEF TypeOK
<1>5. cache.mtime < request.mtime /\ request.mtime <= latest /\ request.mtime \in Nat
  BY <1>1, Unfolded DEF Fetched, RequestState
<1>6. Fetched' /\ CacheCatchesUp'
  BY <1>1, <1>3, <1>5, Unfolded DEF Fetched, CacheCatchesUp
<1> QED
  BY <1>1, <1>4, <1>6 DEF IInv, Kept, Running, VerdictOfItsTime

\* HARMFUL is decided by the words the request has read.
LEMMA HarmfulBy ==
  ASSUME NEW t, NEW al, NEW bl, NEW kw, NEW defaults
  PROVE  Classified(t, al, bl, kw, defaults).severity = "HARMFUL"
         <=> /\ t \cap al = {}
             /\ \/ t \cap bl # {} \/ t \cap Harsh(kw) # {} \/ t \cap defaults["HARMFUL"] # {}
BY DEF Classified, SeverityOf, Hits, Bucket, Harsh

LEMMA ClassifyStep == ASSUME IInv, Classify PROVE IInv'
<1> DEFINE verdict == Classified(request.text, request.allow, request.block,
                                 request.keyword, request.got)
<1>1. /\ UNCHANGED <<allow, block, keyword, edits, file, writes, latest, fresh, cache>>
      /\ request.pc = "classify" /\ request \in RequestState
      /\ request' = [request EXCEPT !.pc = "answer", !.verdict = verdict]
  BY Unfolded DEF Classify, words, disk
<1>2. verdict \in Verdict
  BY ClassifiedType
<1>3. verdict.severity = "HARMFUL"
      <=> /\ request.text \cap request.allow = {}
          /\ \/ request.text \cap request.block # {}
             \/ request.text \cap Harsh(request.keyword) # {}
             \/ request.text \cap request.got["HARMFUL"] # {}
  BY HarmfulBy
<1> HIDE DEF verdict
<1>4. /\ request' \in RequestState
      /\ request'.pc = "answer" /\ request'.verdict = verdict
      /\ request'.text = request.text
      /\ request'.ever = request.ever /\ request'.always = request.always
  BY <1>1, <1>2 DEF RequestState
<1>5. /\ Between("allow", request.allow) /\ Between("block", request.block)
      /\ Between("keyword", Harsh(request.keyword))
      /\ Between("default", request.got["HARMFUL"])
  BY <1>1, Unfolded DEF Kept, Running
<1>6. verdict.severity = "HARMFUL" =>
        /\ \E s \in {"block", "keyword", "default"} : request.text \cap request.ever[s] # {}
        /\ request.text \cap request.always["allow"] = {}
  BY <1>3, <1>5 DEF Between
<1>7. /\ request.text \cap request.ever["allow"] = {}
      /\ \E s \in {"block", "keyword", "default"} : request.text \cap request.always[s] # {}
      => verdict.severity = "HARMFUL"
  BY <1>3, <1>5 DEF Between
<1>8. VerdictOfItsTime'
  BY <1>4, <1>6, <1>7 DEF VerdictOfItsTime
<1>9. TypeOK'
  BY <1>1, <1>4, Unfolded DEF TypeOK
<1>10. Fetched' /\ CacheCatchesUp' /\ Kept'
  BY <1>1, <1>4, Unfolded DEF Fetched, CacheCatchesUp, Kept, Running
<1> QED
  BY <1>8, <1>9, <1>10 DEF IInv

LEMMA AnswerStep == ASSUME IInv, Answer PROVE IInv'
<1>1. /\ UNCHANGED <<allow, block, keyword, edits, file, writes, latest, fresh, cache>>
      /\ request' = Idle /\ request' \in RequestState /\ request'.pc = "idle"
  BY IdleType DEF Answer, words, disk
<1>2. TypeOK'
  BY <1>1, Unfolded DEF TypeOK
<1> QED
  BY <1>1, <1>2, Unfolded DEF IInv, Fetched, CacheCatchesUp, Kept, Running, VerdictOfItsTime

LEMMA StutterStep == ASSUME IInv, UNCHANGED vars PROVE IInv'
<1>1. UNCHANGED <<allow, block, keyword, edits, file, writes, latest, fresh, cache, request>>
  BY DEF vars, words, disk
<1>2. TypeOK'
  BY <1>1, Unfolded DEF TypeOK
<1> QED
  BY <1>1, <1>2, Unfolded
     DEF IInv, Fetched, CacheCatchesUp, Kept, Running, Between, Harsh, VerdictOfItsTime

LEMMA StepIInv == ASSUME IInv, [Next]_vars PROVE IInv'
BY OwnerStepStep, FileChangesStep, ReadWorkspaceStep, MatcherForStep, StatStep, LoadStep,
   StoreStep, StoreRaisesStep, ClassifyStep, AnswerStep, StutterStep DEF Next, RequestStep

LEMMA InitIInv == ASSUME Init PROVE IInv
<1>1. /\ request \in RequestState /\ request.pc = "idle"
      /\ cache.lists = NoLists /\ cache.mtime = 0 /\ file.mtime = 1
      /\ latest = 1 /\ cache \in [lists : [List -> SUBSET Phrases], mtime : Nat]
  BY IdleType DEF Init, NoLists
<1>2. TypeOK
  BY <1>1, IdleType DEF Init, TypeOK, FileState
<1>3. Fetched /\ CacheCatchesUp /\ Kept /\ VerdictOfItsTime
  BY <1>1 DEF Fetched, CacheCatchesUp, Kept, Running, VerdictOfItsTime
<1> QED
  BY <1>2, <1>3 DEF IInv

----------------------------------------------------------------------------
(* Theorems.                                                               *)

\* What requests have read lies between what stood always and ever, and no time is later
\* than the words it stands for, through every edit and every change of the file.
THEOREM Invariant == Spec => []IInv
BY InitIInv, StepIInv, PTL DEF Spec

\* Every variable keeps its type; a request that consults the defaults has a list to go.
THEOREM TypeCorrect == Spec => []TypeOK
<1>1. IInv => TypeOK
  BY DEF IInv
<1> QED
  BY <1>1, Invariant, PTL

\* KeywordStore never holds words older than the time it carries, of any file whose last
\* change gave it a time later than all before: whatever happens to the file between its
\* time and its words being read, and whatever was put back, misshapen or half replaced
\* earlier, the next classification reloads.
THEOREM CacheNeverAhead == Spec => []CacheCatchesUp
<1>1. IInv => CacheCatchesUp
  BY DEF IInv
<1> QED
  BY <1>1, Invariant, PTL

\* A verdict of words read at different moments is one that the words of the time explain,
\* for any vocabulary, any text and any edits.
THEOREM VerdictExplained == Spec => []VerdictOfItsTime
<1>1. IInv => VerdictOfItsTime
  BY DEF IInv
<1> QED
  BY <1>1, Invariant, PTL

\* A keyword that is there is removed or left as it is, never given another severity.
LEMMA KeywordKept ==
  ASSUME TypeOK, [Next]_vars
  PROVE  \A p \in Phrases : keyword[p] = "none" \/ keyword'[p] \in {keyword[p], "none"}
<1>1. ASSUME NEW p \in Phrases, NEW severity \in {"HARMFUL", "OFFENSIVE"}, AddKeyword(p, severity)
      PROVE  \A q \in Phrases : keyword[q] = "none" \/ keyword'[q] \in {keyword[q], "none"}
  BY <1>1 DEF AddKeyword, TypeOK
<1>2. ASSUME NEW p \in Phrases, RemoveKeyword(p)
      PROVE  \A q \in Phrases : keyword[q] = "none" \/ keyword'[q] \in {keyword[q], "none"}
  BY <1>2 DEF RemoveKeyword, TypeOK
<1>3. ASSUME NEW phrases, SetAllowlist(phrases) \/ SetBlocklist(phrases)
      PROVE  UNCHANGED keyword
  BY <1>3 DEF SetAllowlist, SetBlocklist
<1>4. ASSUME FileChanges \/ RequestStep \/ UNCHANGED vars PROVE UNCHANGED keyword
  BY <1>4 DEF FileChanges, RequestStep, ReadWorkspace, MatcherFor, Stat, Load, Store, StoreRaises,
     Classify, Answer, vars, words, disk
<1> QED
  BY <1>1, <1>2, <1>3, <1>4 DEF Next, OwnerStep

\* More words against a text, and none for it, never make its severity lower.
LEMMA SeverityGrows ==
  ASSUME NEW t, NEW al, NEW bl, NEW bl2, NEW kw, NEW kw2, NEW defaults,
         bl \subseteq bl2, \A p \in Phrases : kw[p] = "none" \/ kw2[p] = kw[p]
  PROVE  Rank(Classified(t, al, bl2, kw2, defaults).severity)
         >= Rank(Classified(t, al, bl, kw, defaults).severity)
<1>1. /\ Bucket("HARMFUL", kw, defaults) \subseteq Bucket("HARMFUL", kw2, defaults)
      /\ Bucket("OFFENSIVE", kw, defaults) \subseteq Bucket("OFFENSIVE", kw2, defaults)
  BY DEF Bucket
<1> DEFINE a == Hits(t, al)
           b == Hits(t, bl)
           c == Hits(t, bl2)
           h == Hits(t, Bucket("HARMFUL", kw, defaults))
           i == Hits(t, Bucket("HARMFUL", kw2, defaults))
           o == Hits(t, Bucket("OFFENSIVE", kw, defaults))
           p == Hits(t, Bucket("OFFENSIVE", kw2, defaults))
<1>2. (b # {} => c # {}) /\ (h # {} => i # {}) /\ (o # {} => p # {})
  BY <1>1 DEF Hits
<1>3. /\ Classified(t, al, bl2, kw2, defaults).severity = SeverityOf(a, c, i, p)
      /\ Classified(t, al, bl, kw, defaults).severity = SeverityOf(a, b, h, o)
  BY DEF Classified
<1> HIDE DEF a, b, c, h, i, o, p
<1> QED
  BY <1>2, <1>3 DEF SeverityOf, Rank

\* Adding words surfaces comments and never clears one: whatever stands on the lists
\* already, only the allowlist, the defaults or taking a word away lowers a severity.
THEOREM WordsOnlySurface == Spec => NeverCleared
<1>1. ASSUME IInv, [Next]_vars
      PROVE  /\ allow' = allow /\ block \subseteq block' /\ cache' = cache
             /\ \A p \in Phrases : keyword[p] # "none" => keyword'[p] # "none"
             => \A t \in Texts : Rank(SeverityNow(t)') >= Rank(SeverityNow(t))
  <2> SUFFICES ASSUME allow' = allow, block \subseteq block', cache' = cache,
                      \A p \in Phrases : keyword[p] # "none" => keyword'[p] # "none",
                      NEW t \in Texts
               PROVE  Rank(SeverityNow(t)') >= Rank(SeverityNow(t))
    OBVIOUS
  <2>1. \A p \in Phrases : keyword[p] = "none" \/ keyword'[p] = keyword[p]
    BY <1>1, KeywordKept DEF IInv
  <2> QED
    BY <2>1, SeverityGrows DEF SeverityNow
<1> QED
  BY <1>1, Invariant, PTL DEF Spec, NeverCleared
=============================================================================
