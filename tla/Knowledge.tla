------------------------------ MODULE Knowledge ------------------------------
(***************************************************************************)
(* The documents of one workspace in services/knowledge: upload, list,     *)
(* detail and search of PgKnowledgeRepository.                             *)
(*                                                                         *)
(* Upload and search wait for the embedding provider inside their          *)
(* transaction; two statements of a search see what was committed before   *)
(* each.  A document is named by its place in the order of commits, since  *)
(* nothing deletes one.  Words have WordLength characters.  A tag as it    *)
(* was written may differ from the tag it means in its case and in the     *)
(* blanks around it (exact is FALSE).  The order of the results is left    *)
(* out, and similarity is 0 or a half; a score counts halves.              *)
(***************************************************************************)
EXTENDS Integers, Sequences, FiniteSets

CONSTANTS
  Readers,       \* users of the workspace
  RoleOf,        \* the role of each, or "none" for a caller without an access context
  TagLists,      \* permission_tags of a request, as written
  Vocabulary,    \* words
  Texts,         \* texts: sequences of paragraphs, which are sequences of words
  Queries,       \* the terms of a query
  AllowedLists,  \* allowedDocumentIds, or all documents if it is not given
  TopK,          \* topK, within 1..20
  WordLength,
  MaxChunkChars, \* 900
  MaxDocuments   \* bound: documents

ASSUME KnowledgeAssumption ==
  /\ RoleOf \in [Readers -> {"owner", "admin", "member", "none"}]
  /\ {TopK, WordLength, MaxChunkChars} \subseteq Nat \ {0}
  /\ MaxDocuments \in Nat
  /\ Texts \subseteq Seq(Seq(Vocabulary) \ {<<>>})
  /\ \A allowed \in AllowedLists : allowed \subseteq Nat

VARIABLES
  storable,   \* the retention mode is neither live_only nor local_only
  library,    \* documents and document_chunks
  uploading,  \* the upload under way
  search      \* one search, and its answer until the next begins

knowledgeVars == <<storable, library, uploading, search>>

-----------------------------------------------------------------------------
(* Chunks *)

TextLength(words) == Len(words) * (WordLength + 1) - 1

\* One word more, behind a space; a word that does not fit begins a chunk.
AddWord(acc, word) ==
  LET more == Append(acc.current, word) IN
  IF TextLength(more) <= MaxChunkChars THEN [acc EXCEPT !.current = more]
  ELSE [chunks |-> IF acc.current = <<>> THEN acc.chunks ELSE Append(acc.chunks, acc.current),
        current |-> <<word>>]

SplitLongParagraph(words) ==
  LET split[n \in 0..Len(words)] ==
        IF n = 0 THEN [chunks |-> <<>>, current |-> <<>>] ELSE AddWord(split[n - 1], words[n])
      all == split[Len(words)]
  IN Append(all.chunks, all.current)

Flushed(acc) == IF acc.current = <<>> THEN acc.chunks ELSE Append(acc.chunks, acc.current)

\* One paragraph more, behind an empty line.
AddParagraph(acc, words) ==
  LET length == IF acc.current = <<>> THEN TextLength(words)
                ELSE acc.length + 2 + TextLength(words)
  IN IF TextLength(words) > MaxChunkChars
     THEN [chunks |-> Flushed(acc) \o SplitLongParagraph(words), current |-> <<>>, length |-> 0]
     ELSE IF length <= MaxChunkChars
     THEN [acc EXCEPT !.current = @ \o words, !.length = length]
     ELSE [chunks |-> Flushed(acc), current |-> words, length |-> TextLength(words)]

ChunkDocumentText(text) ==
  LET chunked[n \in 0..Len(text)] ==
        IF n = 0 THEN [chunks |-> <<>>, current |-> <<>>, length |-> 0]
        ELSE AddParagraph(chunked[n - 1], text[n])
  IN Flushed(chunked[Len(text)])

-----------------------------------------------------------------------------
(* Access *)

\* A tag of blanks is none.
NormalizePermissionTags(tags) ==
  {[tag |-> t.tag, exact |-> TRUE] : t \in {u \in tags : u.tag # "blank"}}

\* Mutant: the tags are stored as they were written.
AsWritten(tags) == tags

\* The tags of the rows of an upload.
StoredTags(tags) == NormalizePermissionTags(tags)

Privileged(u) == RoleOf[u] \in {"owner", "admin"}

EffectiveTags(u) == {[tag |-> t, exact |-> TRUE] : t \in {u, RoleOf[u]}}

\* canAccessKnowledgeChunk, for all chunks of a document, which have the same tags.
CanAccess(u, document) ==
  LET tags == NormalizePermissionTags(document.tags) IN
  \/ tags = {}
  \/ RoleOf[u] # "none" /\ (Privileged(u) \/ document.owner = u)
  \/ RoleOf[u] # "none" /\ tags \cap EffectiveTags(u) # {}

\* createKnowledgeAccessPredicate, in SQL: on the tags as they are stored.
AccessPredicate(u, document) ==
  \/ document.tags = {}
  \/ RoleOf[u] # "none" /\ (Privileged(u) \/ document.owner = u)
  \/ RoleOf[u] # "none" /\ document.tags \cap EffectiveTags(u) # {}

\* listDocuments and getDocumentDetail: documents with a chunk that u can access.
ListDocuments(u) == {d \in DOMAIN library : CanAccess(u, library[d])}

GetDocumentDetail(u, d) ==
  IF d \in ListDocuments(u) THEN library[d].chunks ELSE <<>>

-----------------------------------------------------------------------------
(* Upload *)

NoUpload == [owner |-> "nobody", tags |-> {}, chunks |-> <<>>, embedded |-> FALSE]

NoSearch == [step |-> "idle", reader |-> "nobody", terms |-> {}, allowed |-> {}, vector |-> FALSE,
             seen |-> 0, keyword |-> {}, results |-> {}, least |-> 0]

KnowledgeInit ==
  /\ storable = TRUE
  /\ library = <<>>
  /\ uploading = NoUpload
  /\ search = NoSearch

\* The row in workspace_policies.
SetRetention ==
  /\ storable' = ~storable
  /\ UNCHANGED <<library, uploading, search>>

\* uploadDocument, up to the embeddings of its chunks: the policy allows storage, and the
\* text is not empty.
UploadDocument(u, tags, text) ==
  /\ uploading = NoUpload /\ Len(library) < MaxDocuments
  /\ storable
  /\ ChunkDocumentText(text) # <<>>
  /\ uploading' =
       [owner |-> u, tags |-> StoredTags(tags),
        chunks |-> ChunkDocumentText(text), embedded |-> FALSE]
  /\ UNCHANGED <<storable, library, search>>

\* createChunkEmbeddings: one that fails leaves all chunks without.  Then the chunks and
\* the audit row are inserted, and the transaction commits.
StoreDocument ==
  /\ uploading # NoUpload
  /\ \E embedded \in BOOLEAN :
       library' = Append(library, [uploading EXCEPT !.embedded = embedded])
  /\ uploading' = NoUpload
  /\ UNCHANGED <<storable, search>>

\* A statement fails, and the transaction rolls back.
UploadFails ==
  /\ uploading # NoUpload
  /\ uploading' = NoUpload
  /\ UNCHANGED <<storable, library, search>>

-----------------------------------------------------------------------------
(* Search *)

\* Chunks, by their document and their index, of the first n documents.
Rows(n) == UNION {{<<d, i>> : i \in DOMAIN library[d].chunks} : d \in 1..n}

Words(row) == library[row[1]].chunks[row[2]]

\* scoreChunk: how often the terms are in the text.
ScoreChunk(row, terms) == 2 * Cardinality({n \in DOMAIN Words(row) : Words(row)[n] \in terms})

BestOf(rows, score, n, best) ==
  /\ best \subseteq rows
  /\ Cardinality(best) = IF Cardinality(rows) < n THEN Cardinality(rows) ELSE n
  /\ \A r \in best, s \in rows \ best : score[r] >= score[s]

Search(u, terms, allowed) ==
  /\ search.step \in {"idle", "answered"}
  /\ search' = [NoSearch EXCEPT !.step = "embed", !.reader = u, !.terms = terms,
                               !.allowed = allowed]
  /\ UNCHANGED <<storable, library, uploading>>

\* The predicates of both statements.
Selected(row) ==
  row[1] \in search.allowed /\ AccessPredicate(search.reader, library[row[1]])

\* createSearchEmbedding, which may fail, and the select for the keywords.
SelectKeywords ==
  /\ search.step = "embed"
  /\ \E vector \in BOOLEAN :
       search' = [search EXCEPT !.step = "keyword", !.vector = vector, !.seen = Len(library),
                                !.keyword = {r \in Rows(Len(library)) :
                                               /\ ScoreChunk(r, search.terms) > 0
                                               /\ Selected(r)}]
  /\ UNCHANGED <<storable, library, uploading>>

\* The select for the nearest vectors, and the answer: both sets of rows are filtered
\* again, and their scores are added.
Answered ==
  LET near == {r \in Rows(Len(library)) :
                 search.vector /\ library[r[1]].embedded /\ Selected(r)}
      readable == {r \in Rows(Len(library)) : CanAccess(search.reader, library[r[1]])}
  IN
  /\ search.step = "keyword"
  /\ \E similarity \in [near -> 0..1] : \E vectorRows \in SUBSET near :
       LET score == [r \in (search.keyword \cup vectorRows) \cap readable |->
                       (IF r \in search.keyword THEN ScoreChunk(r, search.terms) ELSE 0)
                         + (IF r \in vectorRows THEN similarity[r] ELSE 0)]
           scored == {r \in DOMAIN score : score[r] > 0}
       IN /\ BestOf(near, similarity, 3 * TopK, vectorRows)
          /\ \E results \in SUBSET scored :
               /\ BestOf(scored, score, TopK, results)
               /\ search' = [search EXCEPT
                    !.step = "answered", !.results = results,
                    !.least = IF results = {} THEN 0
                              ELSE CHOOSE n \in {score[r] : r \in results} :
                                     \A r \in results : n <= score[r],
                    !.keyword = {}, !.vector = FALSE]
  /\ UNCHANGED <<storable, library, uploading>>

\* A statement fails.
SearchFails ==
  /\ search.step \in {"embed", "keyword"}
  /\ search' = NoSearch
  /\ UNCHANGED <<storable, library, uploading>>

-----------------------------------------------------------------------------
KnowledgeNext ==
  \/ SetRetention \/ StoreDocument \/ UploadFails
  \/ SelectKeywords \/ Answered \/ SearchFails
  \/ \E u \in Readers :
       \/ \E tags \in TagLists, text \in Texts : UploadDocument(u, tags, text)
       \/ \E terms \in Queries, allowed \in AllowedLists : Search(u, terms, allowed)

KnowledgeSpec == KnowledgeInit /\ [][KnowledgeNext]_knowledgeVars

-----------------------------------------------------------------------------
(* Properties *)

\* Every variable stays in its range, and no chunk is empty or, unless it is one word,
\* too long.
KnowledgeTypeOK ==
  /\ storable \in BOOLEAN
  /\ Len(library) <= MaxDocuments
  /\ \A d \in DOMAIN library : \A i \in DOMAIN library[d].chunks :
         /\ library[d].chunks[i] # <<>>
         /\ TextLength(library[d].chunks[i]) <= MaxChunkChars \/ Len(library[d].chunks[i]) = 1
  /\ search.step \in {"idle", "embed", "keyword", "answered"}

\* The search shows what the detail of the documents shows, whatever embedding failed and
\* whatever was uploaded meanwhile: a result is in the detail, and a chunk of the detail
\* that has a term is a result, unless topK others rank at least as high.
SearchAgreesWithDetail ==
  search.step = "answered" =>
    /\ \A r \in search.results :
         r[1] \in search.allowed /\ r[2] \in DOMAIN GetDocumentDetail(search.reader, r[1])
    /\ \A r \in Rows(search.seen) :
         /\ r[1] \in search.allowed \cap ListDocuments(search.reader)
         /\ ScoreChunk(r, search.terms) > 0
         => \/ r \in search.results
            \/ Cardinality(search.results) = TopK /\ ScoreChunk(r, search.terms) <= search.least
=============================================================================
