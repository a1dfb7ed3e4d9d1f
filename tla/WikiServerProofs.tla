---- MODULE WikiServerProofs ----
(***************************************************************************)
(* Proofs about the search in the wiki, within the runtime process as a    *)
(* whole: for every set of pages, texts, releases and settings, for every  *)
(* gate, and without a bound on searches, failures, kills and upgrades.    *)
(***************************************************************************)
EXTENDS WikiServer, TLAPS

----
(* The index. *)

\* What the tables of an index hold for a chunk to be found at most once: it
\* has one full text row, and each row is of a chunk of a document.
Tidy(index) ==
  /\ index \in IndexRow
  /\ \A c \in Chunks : index.fts[c] = IF c \in index.chunks THEN 1 ELSE 0
  /\ \A c \in index.chunks : c[1] \in index.documents

\* The index is that of a wiki.
IsOf(index, w) == index.documents = PagesOf(w) /\ index.chunks = ChunksOf(w)

\* The absence of an index is not a tidy one.
LEMMA TidySome ==
  ASSUME NEW index, Tidy(index)
  PROVE  index # None
BY WikiIndexAssumption DEF Tidy

\* A file with empty tables is tidy.
LEMMA OpenedTidy ==
  ASSUME db # None => Tidy(db)
  PROVE  Tidy(Opened)
<1>1. CASE db = None
  <2>1. [c \in Chunks |-> 0] \in [Chunks -> Nat]
    OBVIOUS
  <2>2. QED
    BY <1>1, <2>1 DEF Opened, Tidy, IndexRow
<1>2. CASE db # None
  BY <1>2 DEF Opened
<1>3. QED
  BY <1>1, <1>2

\* The chunks of a wiki are of its pages.
LEMMA ChunksOfWiki ==
  ASSUME NEW w \in Wikis
  PROVE  /\ PagesOf(w) \subseteq Pages /\ ChunksOf(w) \subseteq Chunks
         /\ \A c \in ChunksOf(w) : c[1] \in PagesOf(w)
<1>1. PagesOf(w) \subseteq Pages /\ \A p \in PagesOf(w) : w[p] \subseteq Texts
  BY WikiIndexAssumption DEF PagesOf
<1>2. \A c \in ChunksOf(w) :
        \E p \in PagesOf(w) : c \in {p} \X (w[p] \ Bare)
  BY DEF ChunksOf
<1>3. QED
  BY <1>1, <1>2 DEF Chunks

\* The transaction makes any tidy index that of the wiki: it finds the chunks
\* of every page through the documents, and the full text rows through them.
LEMMA IndexedTidy ==
  ASSUME NEW index, Tidy(index), NEW w \in Wikis
  PROVE  Tidy(Indexed(index, w)) /\ IsOf(Indexed(index, w), w)
<1> DEFINE pages == (index.documents \ PagesOf(w)) \cup PagesOf(w)
           kept == Forget(index, pages)
           new == ChunksOf(w)
           ix == Indexed(index, w)
<1>2. PagesOf(w) \subseteq Pages /\ new \subseteq Chunks
  BY ChunksOfWiki
<1>3. index.fts \in [Chunks -> Nat] /\ index.chunks \subseteq Chunks
  BY DEF Tidy, IndexRow
<1>4. \A c \in index.chunks : c[1] \in pages
  BY DEF Tidy
<1>5. kept.chunks = {} /\ \A c \in Chunks : kept.fts[c] = 0
  <2>1. kept.chunks = {c \in index.chunks : c[1] \notin pages}
    BY DEF Forget, Tidy, IndexRow
  <2>2. kept.fts = [c \in Chunks |-> IF c \in index.chunks /\ c[1] \in pages
                                     THEN 0 ELSE index.fts[c]]
    BY DEF Forget, Tidy, IndexRow
  <2>3. \A c \in Chunks : c \notin index.chunks => index.fts[c] = 0
    BY DEF Tidy
  <2> HIDE DEF pages, kept
  <2>4. QED
    BY <1>4, <2>1, <2>2, <2>3
<1>6. ix = [documents |-> PagesOf(w),
            chunks |-> kept.chunks \cup new,
            fts |-> [c \in Chunks |-> kept.fts[c] + IF c \in new THEN 1 ELSE 0]]
  BY DEF Indexed
<1> HIDE DEF pages, kept, ix
<1>7. /\ ix.documents = PagesOf(w) /\ ix.chunks = new
      /\ ix.fts = [c \in Chunks |-> IF c \in new THEN 1 ELSE 0]
  BY <1>5, <1>6
<1>8. ix \in IndexRow
  <2>1. ix.fts \in [Chunks -> Nat]
    BY <1>7
  <2>2. QED
    BY <1>2, <1>6, <1>7, <2>1 DEF IndexRow
<1>9. Tidy(ix)
  <2>1. \A c \in new : c[1] \in PagesOf(w)
    BY ChunksOfWiki
  <2>2. QED
    BY <1>7, <1>8, <2>1 DEF Tidy
<1>10. QED
  BY <1>7, <1>9 DEF IsOf, ix

----
(* What a query finds. *)

\* In a tidy index the query finds a chunk that matches once, and nothing else.
LEMMA RowsTidy ==
  ASSUME NEW index, Tidy(index)
  PROVE  Rows(index) = {c \in index.chunks : c[2] \in Matching} \X {1}
<1> DEFINE hit == {d \in index.chunks :
                     d[2] \in Matching /\ d[1] \in index.documents}
<1>1. hit = {c \in index.chunks : c[2] \in Matching}
  BY DEF Tidy
<1>2. \A c \in hit : index.fts[c] = 1
  BY DEF Tidy, IndexRow
<1>3. \A c \in hit : {c} \X (1..index.fts[c]) = {c} \X {1}
  <2>1. 1..1 = {1}
    OBVIOUS
  <2>2. QED
    BY <1>2, <2>1
<1>4. Rows(index) = UNION {{c} \X (1..index.fts[c]) : c \in hit}
  BY DEF Rows
<1> HIDE DEF hit
<1>5. {{c} \X (1..index.fts[c]) : c \in hit} = {{c} \X {1} : c \in hit}
  BY <1>3
<1>6. UNION {{c} \X {1} : c \in hit} = hit \X {1}
  OBVIOUS
<1>7. QED
  BY <1>1, <1>4, <1>5, <1>6

\* What is shown of a tidy index is of its type, matches, and is there once.
LEMMA ShownTidy ==
  ASSUME NEW index, Tidy(index), NEW rows \in Cut(Rows(index), RowLimit)
  PROVE  rows \subseteq Chunks \X Nat /\ rows \subseteq (Pages \X Matching) \X {1}
<1> DEFINE hit == {c \in index.chunks : c[2] \in Matching}
<1>1. hit \subseteq Chunks /\ hit \subseteq Pages \X Matching
  BY DEF Tidy, IndexRow, Chunks
<1>2. rows \subseteq hit \X {1}
  BY RowsTidy DEF Cut
<1> HIDE DEF hit
<1>3. QED
  BY <1>1, <1>2

\* Through the index of a wiki the query finds what it should of that wiki.
LEMMA RowsExact ==
  ASSUME NEW index, Tidy(index), NEW w, IsOf(index, w)
  PROVE  Rows(index) = Matches(w)
BY RowsTidy DEF IsOf, Matches

----
(* The search. *)

\* An index that is taken as ready is that of the wiki, or excused. The index
\* of a release is taken as ready by any call of a process that runs, unless
\* the transaction has yet to end that fills it.
IndexInv ==
  /\ IndexTypeOK
  /\ SearchShowsMatches
  /\ db # None => Tidy(db)
  /\ search = "query" => isReady
  /\ search \in {"index", "indexing"} => ~isReady
  /\ isReady => db # None /\ (IsOf(db, wiki) \/ Excused)
  /\ up /\ setting.preindexReady /\ db # None /\ search # "indexing"
       => IsOf(db, wiki) \/ Excused
  /\ setting.preindexReady => \A w \in Wikis : orphans[w] = 0

\* The first process of a working directory finds no index.
LEMMA IndexInit == Init => IndexInv
<1> SUFFICES ASSUME Init PROVE IndexInv
  OBVIOUS
<1>1. orphans = [w \in Wikis |-> 0]
  BY DEF Init, WikiInit
<1>2. orphans \in [Wikis -> Nat] /\ \A w \in Wikis : orphans[w] = 0
  BY <1>1
<1>3. IndexTypeOK
  BY <1>2 DEF Init, WikiInit, IndexTypeOK, Stages
<1>4. QED
  BY <1>2, <1>3 DEF Init, WikiInit, IndexInv, SearchShowsMatches

\* What the type invariant says of an answer.
AnswerType ==
  answer # None =>
    \/ answer.path = "sqlite" /\ answer.hits \subseteq Chunks \X Nat
    \/ answer.path = "legacy" /\ answer.hits \subseteq Pages

\* What Tidy says of an index includes its part of the type.
LEMMA TidyType ==
  ASSUME setting' \in Settings, wiki' \in Wikis, isReady' \in BOOLEAN,
         search' \in Stages, partial' \in BOOLEAN, foreign' \in BOOLEAN,
         orphans' \in [Wikis -> Nat], AnswerType',
         db' # None => Tidy(db')
  PROVE  IndexTypeOK'
BY DEF IndexTypeOK, AnswerType, Tidy

\* A start installs a release, whose index is yet to be made.
LEMMA LaunchStep ==
  ASSUME IndexInv, Launch
  PROVE  IndexInv'
<1> USE DEF IndexInv
<1>1. IndexTypeOK'
  BY TidyType DEF Launch, IndexTypeOK, Stages
<1>2. QED
  BY <1>1 DEF Launch, SearchShowsMatches

\* A call begins a search; an index is only used unmade if it is a release's.
LEMMA AskStep ==
  ASSUME IndexInv, Ask, up' = up, up
  PROVE  IndexInv'
<1> USE DEF IndexInv
<1>1. /\ search' \in {"legacy", "index", "query"}
      /\ isReady' = (isReady \/ search' = "query")
      /\ search' = "index" => ~isReady
      /\ search' = "query" =>
           isReady \/ (db # None /\ setting.preindexReady)
      /\ search = "idle"
      /\ UNCHANGED <<setting, wiki, db, answer, partial, foreign, orphans>>
  BY DEF Ask, NeedsIndex
<1>2. IndexTypeOK'
  BY <1>1, TidyType DEF IndexTypeOK, Stages
<1>3. (IsOf(db, wiki) \/ Excused) <=> (IsOf(db, wiki) \/ Excused)'
  BY <1>1 DEF Excused, IsOf, PagesOf, ChunksOf
<1>4. QED
  BY <1>1, <1>2, <1>3 DEF SearchShowsMatches

\* Steps after which the index, the wiki and what excuses an index are as
\* before, no index is taken as ready that was not, and no transaction ends.
LEMMA SameIndex ==
  ASSUME IndexInv, UNCHANGED <<setting, wiki, db, foreign>>,
         partial' \in BOOLEAN, partial => partial',
         isReady' \in BOOLEAN, isReady' => isReady,
         search' \in Stages, search' = "query" => isReady',
         search' \in {"index", "indexing"} => ~isReady',
         up' => up,
         search = "indexing" => search' = "indexing" \/ partial' \/ ~up',
         orphans' \in [Wikis -> Nat],
         setting.preindexReady => orphans' = orphans,
         AnswerType', SearchShowsMatches'
  PROVE  IndexInv'
<1> USE DEF IndexInv
<1>1. IndexTypeOK'
  BY TidyType DEF IndexTypeOK
<1>2. IsOf(db, wiki)' <=> IsOf(db, wiki)
  BY DEF IsOf, PagesOf, ChunksOf
<1>3. Excused => Excused'
  BY DEF Excused
<1>4. QED
  BY <1>1, <1>2, <1>3 DEF Excused

\* The commands of a search keep the invariant, whichever of them fails.
LEMMA SearchKeeps ==
  ASSUME IndexInv, SearchStep, up' = up
  PROVE  IndexInv'
<1> USE DEF IndexInv, IndexTypeOK, AnswerType
<1>1. CASE OpenDatabase
  <2>1. /\ db' = Opened /\ search = "index" /\ search' = "indexing" /\ ~isReady
        /\ UNCHANGED <<setting, wiki, isReady, answer, partial, foreign, orphans>>
    BY <1>1 DEF OpenDatabase
  <2>2. Tidy(db')
    BY <2>1, OpenedTidy
  <2>3. IndexTypeOK'
    BY <2>1, <2>2, TidyType DEF Stages
  <2>4. QED
    BY <2>1, <2>2, <2>3 DEF SearchShowsMatches
<1>2. CASE IndexMarkdownDir
  <2>1. /\ db # None /\ db' = Indexed(db, wiki) /\ search' = "query" /\ isReady'
        /\ UNCHANGED <<setting, wiki, answer, partial, orphans>> /\ foreign' = FALSE
        /\ isReady' \in BOOLEAN
    BY <1>2 DEF IndexMarkdownDir
  <2>2. Tidy(db') /\ IsOf(db', wiki) /\ db' # None
    BY <2>1, IndexedTidy, TidySome
  <2>3. IndexTypeOK'
    BY <2>1, <2>2, TidyType DEF Stages
  <2>4. IsOf(db, wiki)'
    BY <2>1, <2>2 DEF IsOf, PagesOf, ChunksOf
  <2>5. QED
    BY <2>1, <2>2, <2>3, <2>4 DEF SearchShowsMatches
<1>3. CASE IndexFails
  <2>1. /\ UNCHANGED <<setting, wiki, db, isReady, answer, foreign, orphans>>
        /\ partial' = (partial \/ search = "indexing") /\ search' = "failed"
    BY <1>3 DEF IndexFails
  <2>2. SearchShowsMatches'
    BY <2>1 DEF SearchShowsMatches
  <2>3. QED
    BY <2>1, <2>2, SameIndex DEF Stages
<1>4. CASE Query
  <2>1. /\ UNCHANGED <<setting, wiki, db, isReady, partial, foreign, orphans>>
        /\ search = "query" /\ search' = "done" /\ db # None
    BY <1>4 DEF Query
  <2>2. PICK rows \in Cut(Rows(db), RowLimit) :
          answer' = [path |-> "sqlite", hits |-> rows]
    BY <1>4 DEF Query
  <2>3. answer'.path = "sqlite" /\ answer'.hits = rows
    BY <2>2
  <2>4. Tidy(db) /\ (IsOf(db, wiki) \/ Excused)
    BY <2>1
  <2>5. rows \subseteq Chunks \X Nat /\ rows \subseteq (Pages \X Matching) \X {1}
    BY <2>4, ShownTidy
  <2>6. rows \in Cut(Matches(wiki), RowLimit) \/ Excused
    BY <2>4, RowsExact
  <2>7. AnswerType'
    BY <2>3, <2>5 DEF AnswerType, Chunks
  <2>8. SearchShowsMatches'
    <3>1. Matches(wiki)' = Matches(wiki) /\ (Excused => Excused')
      BY <2>1 DEF Matches, ChunksOf, PagesOf, Excused
    <3>2. rows \in Cut(Matches(wiki)', RowLimit) \/ Excused'
      BY <2>6, <3>1
    <3>3. QED
      BY <2>3, <2>5, <3>2 DEF SearchShowsMatches, Cut, RowLimit
  <2>9. QED
    BY <2>1, <2>7, <2>8, SameIndex DEF Stages
<1>5. CASE QueryFails
  <2>1. /\ UNCHANGED <<setting, wiki, db, answer, partial, foreign, orphans>>
        /\ isReady' = FALSE /\ search = "query" /\ search' = "failed"
    BY <1>5 DEF QueryFails
  <2>2. SearchShowsMatches'
    BY <2>1 DEF SearchShowsMatches
  <2>3. QED
    BY <2>1, <2>2, SameIndex DEF Stages
<1>6. CASE Legacy
  <2>1. /\ UNCHANGED <<setting, wiki, db, isReady, partial, foreign, orphans>>
        /\ search \in {"legacy", "failed"} /\ search' = "done"
    BY <1>6 DEF Legacy
  <2>2. PICK pages \in Cut(Scored(wiki), Limit) :
          answer' = [path |-> "legacy", hits |-> pages]
    BY <1>6 DEF Legacy
  <2>3. answer'.path = "legacy" /\ answer'.hits = pages
    BY <2>2
  <2>4. pages \subseteq Pages
    BY ChunksOfWiki DEF Cut, Scored
  <2>5. AnswerType'
    BY <2>3, <2>4 DEF AnswerType
  <2>6. SearchShowsMatches'
    BY <2>1, <2>3 DEF SearchShowsMatches, Cut, Scored, PagesOf
  <2>7. QED
    BY <2>1, <2>5, <2>6, SameIndex DEF Stages
<1>7. CASE Surface
  <2>1. /\ UNCHANGED <<setting, wiki, db, isReady, answer, partial, foreign, orphans>>
        /\ search = "failed" /\ search' = "error"
    BY <1>7 DEF Surface
  <2>2. SearchShowsMatches'
    BY <2>1 DEF SearchShowsMatches
  <2>3. QED
    BY <2>1, <2>2, SameIndex DEF Stages
<1>8. QED
  BY <1>1, <1>2, <1>3, <1>4, <1>5, <1>6, <1>7 DEF SearchStep

\* Another process leaves a tidy index, and excuses it unless it is of the
\* same wiki.
LEMMA ElsewhereStep ==
  ASSUME IndexInv, Elsewhere, up' = up
  PROVE  IndexInv'
<1> USE DEF IndexInv, IndexTypeOK, AnswerType
<1>1. ASSUME Tidy(db'), orphans' \in [Wikis -> Nat], ~setting.preindexReady,
             foreign' \in BOOLEAN, foreign => foreign',
             db # None => db' # None,
             db # None /\ IsOf(db, wiki) => IsOf(db', wiki) \/ foreign',
             UNCHANGED <<setting, wiki, isReady, search, answer, partial>>
      PROVE  IndexInv'
  <2>1. Excused => Excused'
    BY <1>1 DEF Excused
  <2>2. IsOf(db, wiki)' <=> IsOf(db', wiki)
    BY <1>1 DEF IsOf, PagesOf, ChunksOf
  <2>3. SearchShowsMatches'
    BY <1>1, <2>1 DEF SearchShowsMatches, Scored, Cut, Matches, ChunksOf, PagesOf
  <2>4. IndexTypeOK'
    BY <1>1, TidyType
  <2>5. QED
    BY <1>1, <2>1, <2>2, <2>3, <2>4 DEF Excused
<1>2. CASE IndexElsewhere
  <2>1. PICK w \in Wikis : db' = Indexed(Opened, w)
    BY <1>2 DEF IndexElsewhere
  <2>2. Tidy(db') /\ db' # None
    BY <2>1, OpenedTidy, IndexedTidy, TidySome
  <2>3. QED
    BY <1>1, <1>2, <2>2 DEF IndexElsewhere
<1>3. CASE OrphanCommits
  <2>1. PICK w \in Wikis :
          /\ orphans[w] > 0 /\ orphans' = [orphans EXCEPT ![w] = @ - 1]
          /\ db' = Indexed(Opened, w) /\ foreign' = (foreign \/ w # wiki)
          /\ UNCHANGED <<setting, wiki, isReady, search, answer, partial>>
    BY <1>3 DEF OrphanCommits
  <2>2. Tidy(db') /\ IsOf(db', w) /\ db' # None
    BY <2>1, OpenedTidy, IndexedTidy, TidySome
  <2>3. ~setting.preindexReady /\ orphans' \in [Wikis -> Nat]
    BY <2>1
  <2>4. foreign' \in BOOLEAN /\ (IsOf(db', wiki) \/ foreign')
    BY <2>1, <2>2
  <2>5. QED
    BY <1>1, <2>1, <2>2, <2>3, <2>4
<1>4. CASE OrphanFails
  <2>1. PICK w \in Wikis :
          /\ orphans[w] > 0 /\ orphans' = [orphans EXCEPT ![w] = @ - 1]
          /\ db' \in {db, Opened}
          /\ UNCHANGED <<setting, wiki, isReady, search, answer, partial, foreign>>
    BY <1>4 DEF OrphanFails
  <2>2. ~setting.preindexReady /\ orphans' \in [Wikis -> Nat]
    BY <2>1
  <2>3. db' = db \/ (db = None /\ Tidy(db'))
    BY <2>1, OpenedTidy DEF Opened
  <2>4. CASE db' = db
    <3>1. IndexTypeOK' /\ SearchShowsMatches'
      BY <2>1, <2>2, <2>4 DEF SearchShowsMatches, Scored, Cut, Matches, ChunksOf,
                              PagesOf, Excused
    <3>2. IsOf(db, wiki)' <=> IsOf(db, wiki)
      BY <2>1, <2>4 DEF IsOf, PagesOf, ChunksOf
    <3>3. QED
      BY <2>1, <2>2, <2>4, <3>1, <3>2 DEF Excused
  <2>5. CASE db = None /\ Tidy(db')
    BY <1>1, <2>1, <2>2, <2>5, TidySome
  <2>6. QED
    BY <2>3, <2>4, <2>5
<1>5. QED
  BY <1>2, <1>3, <1>4 DEF Elsewhere

\* Every step of the process, and of those around it, keeps the invariant.
LEMMA IndexStep == IndexInv /\ [Next]_vars => IndexInv'
<1> SUFFICES ASSUME IndexInv, [Next]_vars PROVE IndexInv'
  OBVIOUS
<1> USE DEF IndexInv, IndexTypeOK, AnswerType
<1>1. ASSUME UNCHANGED wikiVars, up' = up PROVE IndexInv'
  <2>1. SearchShowsMatches'
    BY <1>1 DEF wikiVars, SearchShowsMatches, Scored, Cut, Matches, ChunksOf,
                PagesOf, Excused
  <2>2. QED
    BY <1>1, <2>1, SameIndex DEF wikiVars
<1>2. CASE Start
  BY <1>2, LaunchStep DEF Start
<1>3. ASSUME NEW c \in Calls, BeginSearch(c) PROVE IndexInv'
  <2>1. up /\ up' = up
    BY <1>3 DEF BeginSearch, Gate!RunTool
  <2>2. QED
    BY <1>3, <2>1, AskStep DEF BeginSearch
<1>4. CASE Search
  BY <1>4, SearchKeeps DEF Search, gateVars
<1>5. ASSUME UNCHANGED <<setting, wiki, db, isReady, partial, foreign>>,
             orphans' \in [Wikis -> Nat],
             setting.preindexReady => orphans' = orphans,
             search # "indexing" \/ ~up', up' => up,
             search' = "idle", answer' = None
      PROVE  IndexInv'
  <2>1. SearchShowsMatches' /\ AnswerType'
    BY <1>5 DEF SearchShowsMatches, AnswerType
  <2>2. QED
    BY <1>5, <2>1, SameIndex DEF Stages
<1>6. CASE EndSearch
  BY <1>5, <1>6 DEF EndSearch, Return
<1>7. CASE Exit
  <2>1. orphans' \in [Wikis -> Nat] /\ (setting.preindexReady => orphans' = orphans)
    BY <1>7 DEF Exit, Abandon
  <2>2. QED
    BY <1>5, <1>7, <2>1 DEF Exit, Abandon, Gate!Exit
<1>8. CASE Environment
  BY <1>1, <1>8, ElsewhereStep DEF Environment, Gate!Tick, gateVars
<1>9. CASE Arrive
  BY <1>1, <1>9 DEF Arrive, Gate!Arrive
<1>10. CASE RecordEvent
  BY <1>1, <1>10 DEF RecordEvent, Gate!RecordEvent
<1>11. ASSUME NEW c \in Calls, RunOther(c) \/ Answer(c) PROVE IndexInv'
  BY <1>1, <1>11 DEF RunOther, Answer, Gate!RunTool, Gate!Answer
<1>12. CASE UNCHANGED vars
  BY <1>1, <1>12 DEF vars, gateVars
<1>13. QED
  BY <1>2, <1>3, <1>4, <1>6, <1>7, <1>8, <1>9, <1>10, <1>11, <1>12 DEF Next

\* Between searches, during them, and however they end, what is taken for an
\* index of the wiki is one.
THEOREM IndexInvariant == Spec => []IndexInv
BY IndexInit, IndexStep, PTL DEF Spec

\* The tables of the index agree with each other, and every variable has its
\* type.
THEOREM IndexTypeCorrect == Spec => []IndexTypeOK
<1>1. IndexInv => IndexTypeOK
  BY DEF IndexInv
<1>2. QED
  BY <1>1, IndexInvariant, PTL

\* What a search shows matches and is there once; it is all of what matches in
\* the current wiki, or as much as the limits leave, unless it is excused.
THEOREM SearchFindsMatches == Spec => []SearchShowsMatches
<1>1. IndexInv => SearchShowsMatches
  BY DEF IndexInv
<1>2. QED
  BY <1>1, IndexInvariant, PTL

----
(* The gate in front of the search: what is proved of the gate alone. *)

GateFacts == INSTANCE ToolGateProofs WITH Faults <- GateFaults

\* The parameters are such as those proofs assume.
LEMMA GateParameters == GateFacts!GateAssumption
BY WikiServerAssumption
   DEF Gate!GateAssumption, GateFacts!GateAssumption, Gate!NoPolicy,
       GateFacts!NoPolicy, Gate!IsFiniteSet, GateFacts!IsFiniteSet,
       Gate!ValidPolicy, GateFacts!ValidPolicy, Gate!Modes, GateFacts!Modes,
       Gate!ValidWindow, GateFacts!ValidWindow

\* The gate begins here as it does there.
LEMMA GateBegins == Gate!Init => GateFacts!Init
BY DEF Gate!Init, GateFacts!Init

\* A step of the gate is one there: each of the two has its own copy of the
\* definitions.
LEMMA GateMoves == [Gate!Next]_gateVars => [GateFacts!Next]_gateVars
BY DEF Gate!Next, GateFacts!Next,
       Gate!Start, GateFacts!Start, Gate!Restored, GateFacts!Restored,
       Gate!Arrive, GateFacts!Arrive, Gate!Reading, GateFacts!Reading,
       Gate!Active, GateFacts!Active, Gate!FirstEvent, GateFacts!FirstEvent,
       Gate!Allowed, GateFacts!Allowed,
       Gate!ToolCallDecision, GateFacts!ToolCallDecision,
       Gate!NoPolicy, GateFacts!NoPolicy,
       Gate!EffectiveWindow, GateFacts!EffectiveWindow,
       Gate!Later, GateFacts!Later, Gate!Earlier, GateFacts!Earlier,
       Gate!ValidWindow, GateFacts!ValidWindow,
       Gate!PolicyDecision, GateFacts!PolicyDecision,
       Gate!Forbids, GateFacts!Forbids, Gate!SeatMode, GateFacts!SeatMode,
       Gate!TimeState, GateFacts!TimeState, Gate!UsageState, GateFacts!UsageState,
       Gate!Exceeds, GateFacts!Exceeds, Gate!Reaches, GateFacts!Reaches,
       Gate!RecordEvent, GateFacts!RecordEvent, Gate!Settled, GateFacts!Settled,
       Gate!RunTool, GateFacts!RunTool, Gate!LastEvents, GateFacts!LastEvents,
       Gate!Counted, GateFacts!Counted, Gate!Answer, GateFacts!Answer,
       Gate!Exit, GateFacts!Exit, Gate!Uncounted, GateFacts!Uncounted,
       Gate!Admitted, GateFacts!Admitted, Gate!Tick, GateFacts!Tick,
       Gate!Cardinality, GateFacts!Cardinality

\* Every step of the process is one of the gate, or leaves the gate alone, but
\* for the end of a search.
LEMMA GateOrSearch ==
  ASSUME [Next]_vars, ~EndSearch
  PROVE  [GateFacts!Next]_(GateFacts!vars)
<1>1. [Gate!Next]_gateVars
  BY DEF Next, vars, Start, Arrive, RecordEvent, Search, Exit, Environment,
         BeginSearch, RunOther, Answer, Gate!Next
<1>2. QED
  BY <1>1, GateMoves DEF GateFacts!vars, gateVars

\* While a search is under way the call that it is for waits at the end of the
\* queue, counted and metered as a success: no other handler goes on.
SearcherWaits ==
  Blocked =>
    /\ queue # <<>>
    /\ handler[Last(queue)] = [stage |-> "waiting", tool |-> SearchTool,
                               event |-> "tool_success"]

ServedInv == GateFacts!GateInv /\ SearcherWaits

\* What the gate's invariant says of types.
LEMMA ServedTypes ==
  ASSUME GateFacts!GateInv
  PROVE  /\ queue \in Seq(Calls) /\ up \in BOOLEAN
         /\ \A c \in Calls : handler[c].stage = "resumed" => up
         /\ handler \in [Calls ->
              [stage : {"new", "waiting", "resumed", "answered", "lost"},
               tool : Tools,
               event : {"lease_check_failed", "tool_denied", "tool_call",
                        "tool_success", "tool_unknown", "tool_error"}]]
<1>1. /\ queue \in Seq(Calls) /\ up \in BOOLEAN
      /\ handler \in [Calls -> GateFacts!Handler]
  BY DEF GateFacts!GateInv, GateFacts!TypeOK
<1>2. \A c \in Calls : handler[c].stage = "resumed" => up
  BY <1>1 DEF GateFacts!GateInv, GateFacts!Synced, GateFacts!Active
<1>3. QED
  BY <1>1, <1>2 DEF GateFacts!Handler, GateFacts!Stages, GateFacts!Events

\* BeginSearch: the call joins the queue as its last one.
LEMMA SearchBegins ==
  ASSUME ServedInv, NEW c \in Calls, BeginSearch(c)
  PROVE  SearcherWaits'
<1>0. queue \in Seq(Calls)
  BY ServedTypes DEF ServedInv
<1>1. queue' = Append(queue, c)
  BY DEF BeginSearch, Gate!RunTool
<1>2. queue' # <<>> /\ Last(queue') = c
  BY <1>0, <1>1 DEF Last
<1>3. PICK e : handler' = [handler EXCEPT ![c].stage = "waiting", ![c].event = e]
  BY DEF BeginSearch, Gate!RunTool
<1>4. handler'[c].event = "tool_success" /\ handler[c].tool = SearchTool
  BY DEF BeginSearch
<1>5. handler'[c] = [stage |-> "waiting", tool |-> SearchTool,
                     event |-> "tool_success"]
  BY <1>3, <1>4, ServedTypes DEF ServedInv
<1>6. QED
  BY <1>2, <1>5 DEF SearcherWaits

\* EndSearch: the call that searched is no success if the search failed, and
\* that takes nothing from what is metered or counted.
LEMMA SearchEnds ==
  ASSUME ServedInv, EndSearch
  PROVE  /\ GateFacts!GateInv' /\ search' = "idle" /\ recorded' = recorded
         /\ \E c \in Calls, e \in {"tool_success", "tool_error"} :
              /\ handler[c].stage = "waiting" /\ handler[c].event = "tool_success"
              /\ handler' = [handler EXCEPT ![c].event = e]
<1>1. search \in {"done", "error"} /\ search' = "idle"
  BY DEF EndSearch, Return
<1>2. PICK c : c = Last(queue)
  OBVIOUS
<1>3. c \in Calls
  <2>1. queue \in Seq(Calls) /\ queue # <<>>
    BY <1>1, ServedTypes DEF ServedInv, SearcherWaits, Blocked
  <2>2. Len(queue) \in 1..Len(queue)
    BY <2>1
  <2>3. QED
    BY <1>2, <2>1, <2>2 DEF Last
<1>4. handler[c].stage = "waiting" /\ handler[c].event = "tool_success"
  BY <1>1, <1>2 DEF ServedInv, SearcherWaits, Blocked
<1>5. PICK e \in {"tool_success", "tool_error"} :
        handler' = [handler EXCEPT ![c].event = e]
  <2>1. handler' = [handler EXCEPT ![c].event =
                      IF search = "error" THEN "tool_error" ELSE @]
    BY <1>2 DEF EndSearch
  <2>2. CASE search = "error"
    BY <2>1, <2>2
  <2>3. CASE search # "error"
    BY <1>4, <2>1, <2>3
  <2>4. QED
    BY <2>2, <2>3
<1>6. UNCHANGED <<policy, up, seat, now, count, saved, queue, recorded,
                  uncounted, starts>>
  BY DEF EndSearch
<1>7. e \in GateFacts!Events \ {"tool_call"}
  BY DEF GateFacts!Events
<1>8. GateFacts!GateInv'
  BY <1>3, <1>4, <1>5, <1>6, <1>7, GateParameters, GateFacts!OutcomeLater
     DEF ServedInv
<1>9. QED
  BY <1>1, <1>3, <1>4, <1>5, <1>6, <1>8

\* Every step of the process keeps the invariant of the gate.
LEMMA ServedStep == ServedInv /\ [Next]_vars => ServedInv'
<1> SUFFICES ASSUME ServedInv, [Next]_vars PROVE ServedInv'
  OBVIOUS
<1>1. CASE EndSearch
  BY <1>1, SearchEnds DEF ServedInv, SearcherWaits, Blocked
<1>2. ASSUME ~EndSearch PROVE GateFacts!GateInv'
  BY <1>2, GateOrSearch, GateParameters, GateFacts!GateStep DEF ServedInv
<1>3. ASSUME ~EndSearch PROVE SearcherWaits'
  <2>1. CASE \E c \in Calls : BeginSearch(c)
    BY <2>1, SearchBegins
  <2>2. CASE UNCHANGED <<handler, queue>> /\ (search' # "idle" => search # "idle")
    BY <2>2 DEF ServedInv, SearcherWaits, Blocked
  <2>3. CASE search' = "idle"
    BY <2>3 DEF SearcherWaits, Blocked
  <2>4. Search => UNCHANGED <<handler, queue>> /\ search # "idle"
    BY DEF Search, gateVars, SearchStep, OpenDatabase, IndexMarkdownDir,
           IndexFails, Query, QueryFails, Legacy, Surface
  <2>5. Environment => UNCHANGED <<handler, queue, search>>
    BY DEF Environment, Gate!Tick, wikiVars, Elsewhere, IndexElsewhere,
           OrphanCommits, OrphanFails, gateVars
  <2>6. CASE Start \/ Arrive \/ RecordEvent \/ Exit
             \/ \E c \in Calls : RunOther(c) \/ Answer(c)
    <3>1. search' = "idle"
      BY <2>6 DEF Start, Launch, Arrive, RecordEvent, Exit, Abandon, RunOther,
                  Answer, Blocked, wikiVars
    <3>2. QED
      BY <2>3, <3>1
  <2>7. QED
    BY <1>3, <2>1, <2>2, <2>4, <2>5, <2>6 DEF Next, vars, gateVars, wikiVars
<1>4. QED
  BY <1>1, <1>2, <1>3 DEF ServedInv

\* The search behind the gate disturbs nothing that the gate relies on, and its
\* outcome is recorded for the call that searched.
THEOREM ServedInvariant == Spec => []ServedInv
<1>1. Init => ServedInv
  BY GateBegins, GateParameters, GateFacts!GateInit
     DEF Init, WikiInit, ServedInv, SearcherWaits, Blocked
<1>2. QED
  BY <1>1, ServedStep, PTL DEF Spec

\* The counts miss no metered call but those in flight and those that died
\* uncounted: also when a search holds the process up and is killed in it.
THEOREM ServedAccounted == Spec => []Gate!Accounted
<1>1. ServedInv => Gate!Accounted
  BY DEF ServedInv, GateFacts!GateInv, GateFacts!Accounted, Gate!Accounted,
         GateFacts!Metered, Gate!Metered, GateFacts!Uncounted, Gate!Uncounted,
         GateFacts!Admitted, Gate!Admitted, GateFacts!Active, Gate!Active,
         GateFacts!Cardinality, Gate!Cardinality
<1>2. QED
  BY <1>1, ServedInvariant, PTL

\* The hard stop is overrun by less than a chunk, and what died uncounted,
\* whatever the search does.
THEOREM ServedWithinBound == Spec => []Gate!BoundedOverrun
<1>1. ServedInv => GateFacts!BoundedOverrun
  BY GateParameters, GateFacts!MeteredWithinChunk
     DEF ServedInv, GateFacts!BoundedOverrun
<1>2. GateFacts!BoundedOverrun => Gate!BoundedOverrun
  BY DEF GateFacts!BoundedOverrun, Gate!BoundedOverrun,
         GateFacts!Budgeted, Gate!Budgeted, GateFacts!NoPolicy, Gate!NoPolicy,
         GateFacts!Exceeds, Gate!Exceeds, GateFacts!Metered, Gate!Metered,
         GateFacts!Cardinality, Gate!Cardinality
<1>3. QED
  BY <1>1, <1>2, ServedInvariant, PTL

\* When calls arrive one at a time and no process is killed, no search is
\* metered past a hard stop.
THEOREM ServedHardStop ==
  ASSUME Chunk = 1, "kill" \notin GateFaults
  PROVE  Spec => []Gate!HardStop
<1>1. Init => GateFacts!AllCounted
  BY DEF Init, Gate!Init, GateFacts!AllCounted
<1>2. GateFacts!AllCounted /\ [Next]_vars => GateFacts!AllCounted'
  <2>1. CASE EndSearch
    BY <2>1 DEF EndSearch, GateFacts!AllCounted
  <2>2. CASE ~EndSearch
    BY <2>2, GateOrSearch, GateParameters, GateFacts!AllCountedStep
  <2>3. QED
    BY <2>1, <2>2
<1>3. ServedInv /\ GateFacts!AllCounted => GateFacts!HardStop
  BY GateParameters, GateFacts!CountedInTime DEF ServedInv
<1>4. GateFacts!HardStop => Gate!HardStop
  BY DEF GateFacts!HardStop, Gate!HardStop,
         GateFacts!Budgeted, Gate!Budgeted, GateFacts!NoPolicy, Gate!NoPolicy,
         GateFacts!Exceeds, Gate!Exceeds, GateFacts!Metered, Gate!Metered,
         GateFacts!Cardinality, Gate!Cardinality
<1>5. QED
  BY <1>1, <1>2, <1>3, <1>4, ServedInvariant, PTL DEF Spec

\* When recording does not fail, what a search found is answered only if its
\* call was metered: a search that fails has been metered as well, but ends in a
\* tool_error.
THEOREM SearchesMetered ==
  ASSUME "log" \notin GateFaults
  PROVE  Spec => []Gate!ResultIsMetered
<1>1. Init => GateFacts!Paid
  BY DEF Init, Gate!Init, GateFacts!Paid
<1>2. ServedInv /\ GateFacts!Paid /\ [Next]_vars => GateFacts!Paid'
  <2> SUFFICES ASSUME ServedInv, GateFacts!Paid, [Next]_vars
               PROVE  GateFacts!Paid'
    OBVIOUS
  <2>1. CASE EndSearch
    <3>1. PICK c \in Calls, e \in {"tool_success", "tool_error"} :
            /\ handler[c].event = "tool_success"
            /\ handler' = [handler EXCEPT ![c].event = e]
      BY <2>1, SearchEnds
    <3>2. recorded' = recorded
      BY <2>1, SearchEnds
    <3>3. \A x \in Calls :
            /\ handler'[x].event = "tool_success" => handler[x].event = "tool_success"
            /\ handler'[x].event = "tool_call" => handler'[x] = handler[x]
      BY <3>1, ServedTypes DEF ServedInv
    <3>4. QED
      BY <3>2, <3>3 DEF GateFacts!Paid, GateFacts!Billed
  <2>2. CASE ~EndSearch
    BY <2>2, GateOrSearch, GateParameters, GateFacts!PaidStep DEF ServedInv
  <2>3. QED
    BY <2>1, <2>2
<1>3. GateFacts!Paid => Gate!ResultIsMetered
  BY DEF GateFacts!Paid, GateFacts!Billed, Gate!ResultIsMetered
<1>4. QED
  BY <1>1, <1>2, <1>3, ServedInvariant, PTL DEF Spec

\* No call is let through outside the window of the workspace, also when a
\* search has held the process up.
THEOREM ServedInWindow == Spec => Gate!SeatNeverWidens
<1>1. Init => GateFacts!Fresh
  BY DEF Init, Gate!Init, GateFacts!Fresh
<1>2. ServedInv /\ GateFacts!Fresh /\ [Next]_vars
        => GateFacts!Fresh' /\ [GateFacts!InWindow]_(Gate!vars)
  <2> SUFFICES ASSUME ServedInv, GateFacts!Fresh, [Next]_vars
               PROVE  GateFacts!Fresh' /\ GateFacts!InWindow
    OBVIOUS
  <2>1. CASE EndSearch
    <3>1. PICK c \in Calls, e \in {"tool_success", "tool_error"} :
            /\ handler[c].stage = "waiting"
            /\ handler' = [handler EXCEPT ![c].event = e]
      BY <2>1, SearchEnds
    <3>2. \A x \in Calls : handler'[x].stage = handler[x].stage
                           /\ (handler[x].stage = "new" => handler'[x] = handler[x])
      BY <3>1, ServedTypes DEF ServedInv
    <3>3. QED
      BY <3>2 DEF GateFacts!Fresh, GateFacts!InWindow
  <2>2. CASE ~EndSearch
    BY <2>2, GateOrSearch, GateParameters, GateFacts!WindowStep
       DEF ServedInv, GateFacts!GateInv
  <2>3. QED
    BY <2>1, <2>2
<1>3. GateFacts!InWindow =>
        \A c \in Calls :
          /\ handler[c].stage = "new"
          /\ handler'[c].event = "tool_call"
          /\ policy # Gate!NoPolicy
          => /\ policy.mode = "ENABLED"
             /\ policy.window.starts <= now /\ now <= policy.window.grace
  BY DEF GateFacts!InWindow, GateFacts!NoPolicy, Gate!NoPolicy
<1>4. QED
  BY <1>1, <1>2, <1>3, ServedInvariant, PTL DEF Spec, Gate!SeatNeverWidens

====
