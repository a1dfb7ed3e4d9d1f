---- MODULE WikiIndex ----
(***************************************************************************)
(* Search in the wiki of a bundle, by a runtime process (runtime/src/      *)
(* server.mjs, wiki-rag-shared.mjs) through the index that the wiki-rag    *)
(* command keeps in SQLite (wiki-rag/src), or through the pages themselves *)
(* ("legacy"), which is also what a failing index falls back to.           *)
(*                                                                         *)
(* A page is a set of texts: the chunks that its headings, and a greatest  *)
(* length, divide it into, and what is in no chunk. Which texts a query    *)
(* matches is given; matches are not ranked, so that which of them a limit *)
(* cuts off is left open. The index has a documents row for each page, a   *)
(* row in chunks for each chunk, and rows in the full text table           *)
(* chunks_fts, which no key keeps from being double.                       *)
(***************************************************************************)
EXTENDS Integers, FiniteSets

CONSTANTS
  Pages,       \* names of wiki pages
  TopLevel,    \* those that are not in a folder of the wiki
  Texts,       \* texts that a page may be made of, each with its place
  Bare,        \* those in no chunk, such as a heading with nothing below it
  Matching,    \* those that the full text search of the query matches
  Containing,  \* those that contain the query, letter by letter
  Wikis,       \* wikis that are released: their pages, and the texts of each
  Limit,       \* how many hits the call asks for, as clampLimit leaves it
  SqlLimit,    \* how many rows the query of the index returns at most
  Settings,    \* wiki settings of a runtime process, see Setting
  Faults,      \* "index": the wiki-rag command may fail
  None         \* an absent value

Chunks == Pages \X Texts
IndexRow == [documents : SUBSET Pages, chunks : SUBSET Chunks, fts : [Chunks -> Nat]]

ASSUME WikiIndexAssumption ==
  /\ Matching \subseteq Texts /\ TopLevel \subseteq Pages
  /\ \A w \in Wikis : DOMAIN w \subseteq Pages /\ w \in [DOMAIN w -> SUBSET Texts]
  /\ None \notin IndexRow

\* RAG_ENGINE and RAG_FAIL_OPEN; whether the release has an index of its own;
\* and whether another bundle's process runs in the same directory.
Setting == [sqlite : BOOLEAN, failOpen : BOOLEAN, preindexReady : BOOLEAN,
            sameCwd : BOOLEAN]

VARIABLES
  setting,  \* the settings of the process
  wiki,     \* the wiki of its bundle
  db,       \* its index: documents, chunks and chunks_fts, or None
  isReady,  \* the index was made by this process
  search,   \* stage of the search under way, or "idle"
  answer,   \* the last answer: the engine and its hits, or None
  partial,  \* history: an index run of this process left an empty index
  foreign,  \* history: another wiki was indexed since this process did its own
  orphans   \* index commands that outlived their process, by its wiki

wikiVars == <<setting, wiki, db, isReady, search, answer, partial, foreign,
              orphans>>

Stages == {"idle", "legacy", "index", "indexing", "query", "failed", "done", "error"}

----
(***************************************************************************)
(* The wiki-rag command: ensureSchema, indexMarkdownDir, searchLexical.    *)
(***************************************************************************)

\* openDatabase makes the file and its tables, before the index is written.
Opened ==
  IF db = None
  THEN [documents |-> {}, chunks |-> {}, fts |-> [c \in Chunks |-> 0]]
  ELSE db

\* Mutant: the chunks are deleted first, and their full text rows not found.
Forget_ChunksFirst(index, pages) ==
  [index EXCEPT !.chunks = {c \in @ : c[1] \notin pages}]

\* The rows of chunks_fts whose chunk is one of the pages' go, then the chunks.
Forget(index, pages) ==
  [index EXCEPT
    !.fts = [c \in Chunks |-> IF c \in index.chunks /\ c[1] \in pages
                              THEN 0 ELSE @[c]],
    !.chunks = {c \in @ : c[1] \notin pages}]

PagesOf(w) == DOMAIN w

ChunksOf(w) == UNION {{p} \X (w[p] \ Bare) : p \in PagesOf(w)}

\* The transaction: pages that are gone are pruned, the others indexed anew.
Indexed(index, w) ==
  LET kept == Forget(index, (index.documents \ PagesOf(w)) \cup PagesOf(w))
  IN [documents |-> PagesOf(w),
      chunks |-> kept.chunks \cup ChunksOf(w),
      fts |-> [c \in Chunks |->
                 kept.fts[c] + IF c \in ChunksOf(w) THEN 1 ELSE 0]]

\* Full text rows that match, joined with chunks and documents.
Rows(index) ==
  UNION {{c} \X (1..index.fts[c]) :
           c \in {d \in index.chunks :
                   d[2] \in Matching /\ d[1] \in index.documents}}

\* The pages that the search in the pages themselves finds: it does not look
\* into folders, and has a page once however often it contains the query.
Scored(w) ==
  {p \in PagesOf(w) \cap TopLevel : w[p] \cap Containing # {}}

\* What a limit leaves of a list: all of it, or as many as the limit.
Cut(hits, limit) ==
  {h \in SUBSET hits :
     Cardinality(h) <= limit /\ (h = hits \/ Cardinality(h) = limit)}

\* The command has a limit of its own, and the caller's is applied after it.
RowLimit == IF Limit < SqlLimit THEN Limit ELSE SqlLimit

----
(***************************************************************************)
(* runWikiSearchWithFallbackDetailed and createSqliteWikiSearchRunner.     *)
(***************************************************************************)

\* The process starts with the wiki of the release that is installed. The
\* index of a release is deleted with the rest of the extracted bundle, and
\* another one is made in its place; without it the index is in the working
\* directory, where those of earlier processes are.
Launch ==
  /\ wiki' \in Wikis
  /\ db' = IF setting.preindexReady THEN None ELSE db
  /\ isReady' = FALSE /\ search' = "idle" /\ answer' = None
  /\ partial' = FALSE
  /\ UNCHANGED <<setting, foreign, orphans>>

\* Mutant: an index that is there is taken as it is.
NeedsIndex_IfAbsent == db = None

NeedsIndex == db = None \/ ~setting.preindexReady

\* wiki_search is called; ensureReady decides whether to index first.
Ask ==
  /\ search = "idle"
  /\ search' = IF ~setting.sqlite THEN "legacy"
               ELSE IF ~isReady /\ NeedsIndex THEN "index" ELSE "query"
  /\ isReady' = (isReady \/ search' = "query")
  /\ UNCHANGED <<setting, wiki, db, answer, partial, foreign, orphans>>

OpenDatabase ==
  /\ search = "index"
  /\ db' = Opened
  /\ search' = "indexing"
  /\ UNCHANGED <<setting, wiki, isReady, answer, partial, foreign, orphans>>

IndexMarkdownDir ==
  /\ search = "indexing" /\ db # None
  /\ db' = Indexed(db, wiki)
  /\ isReady' = TRUE /\ foreign' = FALSE
  /\ search' = "query"
  /\ UNCHANGED <<setting, wiki, answer, partial, orphans>>

\* The command cannot be run, or fails: its transaction is rolled back.
IndexFails ==
  /\ "index" \in Faults
  /\ search \in {"index", "indexing"}
  /\ partial' = (partial \/ search = "indexing")
  /\ search' = "failed"
  /\ UNCHANGED <<setting, wiki, db, isReady, answer, foreign, orphans>>

Query ==
  /\ search = "query" /\ db # None
  /\ \E rows \in Cut(Rows(db), RowLimit) :
       answer' = [path |-> "sqlite", hits |-> rows]
  /\ search' = "done"
  /\ UNCHANGED <<setting, wiki, db, isReady, partial, foreign, orphans>>

\* The index will be made again before the next query.
QueryFails ==
  /\ "index" \in Faults \/ db = None
  /\ search = "query"
  /\ isReady' = FALSE
  /\ search' = "failed"
  /\ UNCHANGED <<setting, wiki, db, answer, partial, foreign, orphans>>

Legacy ==
  /\ search = "legacy" \/ (search = "failed" /\ setting.failOpen)
  /\ \E pages \in Cut(Scored(wiki), Limit) :
       answer' = [path |-> "legacy", hits |-> pages]
  /\ search' = "done"
  /\ UNCHANGED <<setting, wiki, db, isReady, partial, foreign, orphans>>

\* RAG_FAIL_OPEN is off: the failure is the answer.
Surface ==
  /\ search = "failed" /\ ~setting.failOpen
  /\ search' = "error"
  /\ UNCHANGED <<setting, wiki, db, isReady, answer, partial, foreign, orphans>>

\* A process of another bundle, in the same working directory, makes the same
\* index from its own wiki.
IndexElsewhere ==
  /\ setting.sameCwd /\ ~setting.preindexReady
  /\ \E w \in Wikis \ {wiki} : db' = Indexed(Opened, w)
  /\ foreign' = TRUE
  /\ UNCHANGED <<setting, wiki, isReady, search, answer, partial, orphans>>

\* The process ends, perhaps within a search. That takes a kill, which the
\* index command survives or not: spawnSync starts it as a process of its own.
\* The index that a release has of its own goes with the release, whatever is
\* still written to it.
Abandon ==
  /\ search' = "idle" /\ answer' = None
  /\ \/ UNCHANGED orphans
     \/ /\ search \in {"index", "indexing"} /\ ~setting.preindexReady
        /\ orphans' = [orphans EXCEPT ![wiki] = @ + 1]
  /\ UNCHANGED <<setting, wiki, db, isReady, partial, foreign>>

\* A command that outlived its process commits the wiki of that process, which
\* need not be that of the process that now runs.
OrphanCommits ==
  \E w \in Wikis :
    /\ orphans[w] > 0
    /\ orphans' = [orphans EXCEPT ![w] = @ - 1]
    /\ db' = Indexed(Opened, w)
    /\ foreign' = (foreign \/ w # wiki)
    /\ UNCHANGED <<setting, wiki, isReady, search, answer, partial>>

\* Or it fails, perhaps after it has made the file.
OrphanFails ==
  \E w \in Wikis :
    /\ orphans[w] > 0
    /\ orphans' = [orphans EXCEPT ![w] = @ - 1]
    /\ db' \in {db, Opened}
    /\ UNCHANGED <<setting, wiki, isReady, search, answer, partial, foreign>>

Return ==
  /\ search \in {"done", "error"}
  /\ search' = "idle" /\ answer' = None
  /\ UNCHANGED <<setting, wiki, db, isReady, partial, foreign, orphans>>

SearchStep ==
  \/ OpenDatabase \/ IndexMarkdownDir \/ IndexFails
  \/ Query \/ QueryFails \/ Legacy \/ Surface

WikiInit ==
  /\ setting \in Settings /\ wiki \in Wikis
  /\ db = None /\ isReady = FALSE /\ search = "idle" /\ answer = None
  /\ partial = FALSE /\ foreign = FALSE /\ orphans = [w \in Wikis |-> 0]

\* What other processes do to the index, whatever this one is doing.
Elsewhere == IndexElsewhere \/ OrphanCommits \/ OrphanFails

WikiNext == Launch \/ Ask \/ SearchStep \/ Return \/ Abandon \/ Elsewhere

WikiSpec == WikiInit /\ [][WikiNext]_wikiVars

----
(***************************************************************************)
(* Properties.                                                             *)
(***************************************************************************)

\* Every variable has its type, and the tables of the index agree: each chunk
\* is of a document and has one full text row, and there are no others.
IndexTypeOK ==
  /\ setting \in Settings /\ wiki \in Wikis /\ isReady \in BOOLEAN
  /\ search \in Stages /\ partial \in BOOLEAN /\ foreign \in BOOLEAN
  /\ orphans \in [Wikis -> Nat]
  /\ answer # None =>
       \/ answer.path = "sqlite" /\ answer.hits \subseteq Chunks \X Nat
       \/ answer.path = "legacy" /\ answer.hits \subseteq Pages
  /\ db # None =>
       /\ db \in IndexRow
       /\ \A c \in Chunks : db.fts[c] = IF c \in db.chunks THEN 1 ELSE 0
       /\ \A c \in db.chunks : c[1] \in db.documents

\* The rows that a query of a wiki should return: each matching chunk once.
Matches(w) == {c \in ChunksOf(w) : c[2] \in Matching} \X {1}

\* The ways in which another index than that of the wiki may be queried. Of a
\* release with an index of its own, an index run that fails once it has made
\* the file leaves an index without pages, which is taken for that of the
\* release. And the processes of two bundles in one directory overwrite each
\* other's index, as does the command of a process that was killed, when it
\* comes to its end after the next process has made the index.
Excused == foreign \/ (setting.preindexReady /\ partial)

\* What is shown of the index are chunks that match, and none of them twice,
\* whoever made the index and however often. They are those of the wiki of the
\* process, all of them or as many as the limits leave, also after an upgrade
\* of the wiki and after failing and killed index runs, unless it is excused.
\* A search without the index shows the pages at the top of that wiki which
\* contain the query, up to the limit.
SearchShowsMatches ==
  search = "done" =>
    \/ answer.path = "legacy" /\ answer.hits \in Cut(Scored(wiki), Limit)
    \/ /\ answer.path = "sqlite"
       /\ answer.hits \subseteq (Pages \X Matching) \X {1}
       /\ answer.hits \in Cut(Matches(wiki), RowLimit) \/ Excused

====
