------------------------------ MODULE Documents -------------------------------
(***************************************************************************)
(* Documents and their search index: the page (DocumentsPage.tsx), the     *)
(* routes (api/documents.py), remove_document (platform_ops.py) and the    *)
(* job that indexes (rag/ingest.py, rag/store.py).  An upload runs on the  *)
(* event loop, a removal on a thread beside it, and a removal is several   *)
(* statements, each a commit of its own.  Besides the page, other tabs of  *)
(* its user upload and remove, and so do an administrator and the assistant*)
(* (skills/platform.py) who remove.                                        *)
(***************************************************************************)
EXTENDS Naturals

CONSTANTS
    MaxDocs,     \* bound: documents ever uploaded
    Blank,       \* those without a word of text, such as a scanned PDF
    MaxCalls,    \* bound: uploads and removals on one visit of the page
    MaxBesides,  \* bound: uploads and removals by others meanwhile
    MaxHarm      \* bound: crashes, and requests or answers that are lost

ASSUME DocumentsAssumption ==
    /\ MaxDocs \in Nat \ {0} /\ Blank \subseteq 1 .. MaxDocs
    /\ MaxCalls \in Nat /\ MaxBesides \in Nat /\ MaxHarm \in Nat

VARIABLES
    pageDocs,    \* docs: the list on screen, if any
    docError,    \* an error is on screen
    uploading,   \* the button is disabled
    docCall,     \* docCall[k]: the handler started by click k, where 0 is the mount,
                 \*             or, of the last ones, by others
    docRow,      \* server: documents.status; ids are never given twice
    chunks,      \* server: documents with rows in rag_chunks
    indexJob,    \* server: the index_document job of a document
    harm,        \* crashes and losses so far
    docDoubt,    \* ghost: since a handler began alone, another one overlapped
                 \*        it or one of them failed
    unlisted,    \* ghost: others have changed the list since a list was last read
    torn,        \* ghost: removals that a crash left with the row but no index
    stranded,    \* ghost: uploads that a crash left without a job
    overrun      \* ghost: documents indexed behind a removal's back

docPage   == <<pageDocs, docError, uploading>>
docStore  == <<docRow, chunks, indexJob>>
docGhosts == <<torn, stranded, overrun>>
docVars   == <<docPage, docCall, docStore, harm, docDoubt, unlisted, docGhosts>>

Docs     == 1 .. MaxDocs
Calls    == 0 .. (MaxCalls + MaxBesides)
Mine     == 0 .. MaxCalls
NoCall   == [do |-> "none", at |-> "idle", doc |-> 0, got |-> {}]
Fetching == [NoCall EXCEPT !.do = "load", !.at = "listing"]

Busy(k)    == docCall[k].at \notin {"idle", "over"}
Stored(d)  == docRow[d] \notin {"none", "gone"}
Removal(d) == {k \in Calls : docCall[k].do = "remove" /\ docCall[k].doc = d}
Goes(k, at) == docCall' = [docCall EXCEPT ![k].at = at]

(* What the page has words for, of which nothing ever sets "indexing" *)
DocStatuses == {"uploaded", "indexing", "indexed", "failed"}

(* list_documents *)
DocList == [d \in {e \in Docs : Stored(e)} |-> docRow[d]]

DocumentsInit ==
    /\ pageDocs = {} /\ docError = FALSE /\ uploading = FALSE
    /\ docCall = [k \in Calls |-> IF k = 0 THEN Fetching ELSE NoCall]
    /\ \E old \in {"none", "indexed"} :
         /\ docRow = [d \in Docs |-> IF d = 1 THEN old ELSE "none"]
         /\ chunks = IF old = "indexed" THEN {1} \ Blank ELSE {}
         /\ indexJob = [d \in Docs |-> IF d = 1 /\ old = "indexed" THEN "over" ELSE "none"]
    /\ harm = 0 /\ docDoubt = FALSE /\ unlisted = FALSE
    /\ torn = {} /\ stranded = {} /\ overrun = {}

-----------------------------------------------------------------------------
(* The page: its buttons are there once a list has been shown.             *)

PageLoaded    == pageDocs # {}
UploadOffered == PageLoaded /\ ~uploading
Offered(d)    == \E list \in pageDocs : d \in DOMAIN list

Starts(k, what, d) ==
    /\ PageLoaded
    /\ k > 0 /\ docCall[k] = NoCall /\ \A j \in Mine : j < k => docCall[j] # NoCall
    /\ docCall' = [docCall EXCEPT ![k] = [NoCall EXCEPT !.do = what, !.at = "asked", !.doc = d]]
    /\ docDoubt' = \E j \in Mine \ {k} : Busy(j)
    /\ UNCHANGED <<pageDocs, docStore, harm, unlisted, docGhosts>>

ClickUpload(k) ==
    /\ UploadOffered
    /\ Starts(k, "upload", 0)
    /\ uploading' = TRUE /\ docError' = FALSE

(* Any row of the list, and the question before it answered with yes        *)
ClickDelete(k, d) ==
    /\ Offered(d)
    /\ Starts(k, "remove", d)
    /\ UNCHANGED <<docError, uploading>>

(* After the answer, the list is fetched anew; *)
CallAnswered(k) ==
    /\ docCall[k].at = "answered"
    /\ Goes(k, "listing")
    /\ UNCHANGED <<docPage, docStore, harm, docDoubt, unlisted, docGhosts>>

ListHandled(k) ==
    /\ docCall[k].at = "listing"
    /\ docCall' = [docCall EXCEPT ![k].at = "listed", ![k].got = {DocList}]
    /\ unlisted' = FALSE
    /\ UNCHANGED <<docPage, docStore, harm, docDoubt, docGhosts>>

ListShown(k) ==
    /\ docCall[k].at = "listed"
    /\ pageDocs' = docCall[k].got
    /\ uploading' = (uploading /\ docCall[k].do # "upload")
    /\ docCall' = [docCall EXCEPT ![k].at = "over", ![k].got = {}]
    /\ UNCHANGED <<docError, docStore, harm, docDoubt, unlisted, docGhosts>>

(* A removal that fails says nothing and fetches no list; all else that     *)
(* fails shows an error.  The finally of upload frees the button.           *)
CallFails(k) ==
    /\ docCall[k].at \in {"asked", "answered", "refused", "broken", "listing", "listed"}
    /\ \/ docCall[k].at \in {"refused", "broken"} /\ UNCHANGED harm
       \/ docCall[k].at \notin {"refused", "broken"} /\ harm < MaxHarm /\ harm' = harm + 1
    /\ docError' = (docError \/ docCall[k].do # "remove"
                             \/ docCall[k].at \in {"listing", "listed"})
    /\ uploading' = (uploading /\ docCall[k].do # "upload")
    /\ docCall' = [docCall EXCEPT ![k].at = "over", ![k].got = {}]
    /\ docDoubt' = TRUE
    /\ UNCHANGED <<pageDocs, docStore, unlisted, docGhosts>>

-----------------------------------------------------------------------------
(* Others ask for the same, and the page does not hear of it.              *)

AskedElsewhere(k, what, d) ==
    /\ docCall[k] = NoCall /\ \A j \in Calls \ Mine : j < k => docCall[j] # NoCall
    /\ docCall' = [docCall EXCEPT ![k] = [NoCall EXCEPT !.do = what, !.at = "asked", !.doc = d]]
    /\ UNCHANGED <<docPage, docStore, harm, docDoubt, unlisted, docGhosts>>

-----------------------------------------------------------------------------
(* upload_document: refused for its type or size, or a row, then a job      *)

UploadRefused(k) ==
    /\ docCall[k].do = "upload" /\ docCall[k].at = "asked"
    /\ Goes(k, "refused")
    /\ UNCHANGED <<docPage, docStore, harm, docDoubt, unlisted, docGhosts>>

UploadInserted(k) ==
    /\ docCall[k].do = "upload" /\ docCall[k].at = "asked"
    /\ \E d \in Docs :
         /\ docRow[d] = "none" /\ \A e \in 1 .. (d - 1) : docRow[e] # "none"
         /\ docRow' = [docRow EXCEPT ![d] = "uploaded"]
         /\ docCall' = [docCall EXCEPT ![k].at = "inserted", ![k].doc = d]
    /\ unlisted' = (unlisted \/ k \notin Mine)
    /\ UNCHANGED <<docPage, chunks, indexJob, harm, docDoubt, docGhosts>>

UploadQueued(k) ==
    /\ docCall[k].at = "inserted"
    /\ indexJob' = [indexJob EXCEPT ![docCall[k].doc] = "queued"]
    /\ Goes(k, "answered")
    /\ UNCHANGED <<docPage, docRow, chunks, harm, docDoubt, unlisted, docGhosts>>

-----------------------------------------------------------------------------
(* remove_document *)

RemoveChecked(k) ==
    /\ docCall[k].do = "remove" /\ docCall[k].at = "asked"
    /\ Goes(k, IF Stored(docCall[k].doc) THEN "found" ELSE "refused")
    /\ UNCHANGED <<docPage, docStore, harm, docDoubt, unlisted, docGhosts>>

RemoveChunks_Keeps(k) ==
    /\ docCall[k].at = "found"
    /\ Goes(k, "cleared")
    /\ UNCHANGED <<docPage, docStore, harm, docDoubt, unlisted, docGhosts>>

RemoveChunks(k) ==
    /\ docCall[k].at = "found"
    /\ chunks' = chunks \ {docCall[k].doc}
    /\ Goes(k, "cleared")
    /\ UNCHANGED <<docPage, docRow, indexJob, harm, docDoubt, unlisted, docGhosts>>

RemoveRow(k) ==
    /\ docCall[k].at = "cleared"
    /\ docRow' = [docRow EXCEPT ![docCall[k].doc] = "gone"]
    /\ Goes(k, "answered")
    /\ unlisted' = (unlisted \/ k \notin Mine)
    /\ UNCHANGED <<docPage, chunks, indexJob, harm, docDoubt, docGhosts>>

-----------------------------------------------------------------------------
(* index_document_job, one at a time and in the order of the queue          *)

Indexing(d) == indexJob[d] \in {"embedding", "stored", "marked"}
JobIs(d, at) == indexJob' = [indexJob EXCEPT ![d] = at]

IndexBegins(d) ==
    /\ indexJob[d] = "queued"
    /\ \A e \in Docs : ~Indexing(e) /\ (e < d => indexJob[e] # "queued")
    /\ IF Stored(d) THEN chunks' = chunks \ {d} /\ JobIs(d, "embedding")
                    ELSE UNCHANGED chunks /\ JobIs(d, "marked")
    /\ UNCHANGED <<docPage, docCall, docRow, harm, docDoubt, unlisted, docGhosts>>

(* index_text goes on when its embeddings have been computed, and writes    *)
(* them whatever has become of the document meanwhile.                      *)
IndexStores(d) ==
    /\ indexJob[d] = "embedding"
    /\ chunks' = chunks \cup ({d} \ Blank)
    /\ overrun' = IF Stored(d) /\ \A k \in Removal(d) : docCall[k].at # "cleared"
                  THEN overrun ELSE overrun \cup {d}
    /\ JobIs(d, "stored")
    /\ UNCHANGED <<docPage, docCall, docRow, harm, docDoubt, unlisted, torn, stranded>>

(* UPDATE documents: nothing happens to a row that is gone. *)
Marks(d, as) == docRow' = [docRow EXCEPT ![d] = IF Stored(d) THEN as ELSE @]

IndexMarks(d) ==
    /\ indexJob[d] = "stored"
    /\ Marks(d, "indexed") /\ JobIs(d, "marked")
    /\ UNCHANGED <<docPage, docCall, chunks, harm, docDoubt, unlisted, docGhosts>>

IndexFails_Retries(d) ==
    /\ indexJob[d] = "embedding"
    /\ JobIs(d, "queued")
    /\ UNCHANGED <<docPage, docCall, docRow, chunks, harm, docDoubt, unlisted, docGhosts>>

(* An unreadable or missing file, or no embeddings *)
IndexFails(d) ==
    /\ indexJob[d] = "embedding"
    /\ Marks(d, "failed") /\ JobIs(d, "marked")
    /\ UNCHANGED <<docPage, docCall, chunks, harm, docDoubt, unlisted, docGhosts>>

IndexEnds(d) ==
    /\ indexJob[d] = "marked"
    /\ JobIs(d, "over")
    /\ UNCHANGED <<docPage, docCall, docRow, chunks, harm, docDoubt, unlisted, docGhosts>>

(* The server crashes and is started again: handlers end where they are,    *)
(* and the queue takes up the job that was running.                         *)
ServerCrashes ==
    /\ harm < MaxHarm /\ harm' = harm + 1
    /\ LET at(place) == {k \in Calls : docCall[k].at = place}
       IN /\ docCall' = [k \in Calls |->
                IF k \in at("inserted") \cup at("found") \cup at("cleared")
                THEN [docCall[k] EXCEPT !.at = "broken"] ELSE docCall[k]]
          /\ stranded' = stranded \cup {docCall[k].doc : k \in at("inserted")}
          /\ torn' = torn \cup {docCall[k].doc : k \in at("cleared")}
    /\ indexJob' = [d \in Docs |-> IF Indexing(d) THEN "queued" ELSE indexJob[d]]
    /\ UNCHANGED <<docPage, docRow, chunks, docDoubt, unlisted, overrun>>

IndexMoves == \E d \in Docs : IndexBegins(d) \/ IndexStores(d) \/ IndexMarks(d)
                              \/ IndexFails(d) \/ IndexEnds(d)
UploadMoves == \E k \in Calls : UploadQueued(k)

DocumentsNext ==
    \/ \E k \in Mine :
         \/ ClickUpload(k) \/ \E d \in Docs : ClickDelete(k, d)
         \/ CallAnswered(k) \/ ListHandled(k) \/ ListShown(k) \/ CallFails(k)
    \/ \E k \in Calls \ Mine :
         AskedElsewhere(k, "upload", 0) \/ \E d \in Docs : AskedElsewhere(k, "remove", d)
    \/ \E k \in Calls :
         \/ UploadRefused(k) \/ UploadInserted(k)
         \/ RemoveChecked(k) \/ RemoveChunks(k) \/ RemoveRow(k)
    \/ UploadMoves \/ IndexMoves \/ ServerCrashes

-----------------------------------------------------------------------------
DocumentsTypeOK ==
    /\ \A list \in pageDocs : DOMAIN list \subseteq Docs
    /\ docError \in BOOLEAN /\ uploading \in BOOLEAN
    /\ docDoubt \in BOOLEAN /\ unlisted \in BOOLEAN
    /\ \A k \in Calls :
         /\ docCall[k].do \in {"none", "load", "upload", "remove"}
         /\ docCall[k].doc \in 0 .. MaxDocs
    /\ docRow \in [Docs -> (DocStatuses \ {"indexing"}) \cup {"none", "gone"}]
    /\ chunks \subseteq Docs
    /\ indexJob \in [Docs -> {"none", "queued", "embedding", "stored", "marked", "over"}]
    /\ harm \in 0 .. MaxHarm
    /\ torn \subseteq Docs /\ stranded \subseteq Docs /\ overrun \subseteq Docs

(* A document that is called ready to be asked about is found by the        *)
(* search, unless it has no text, is being indexed again, or its removal    *)
(* is under way or was cut short by a crash.                                *)
IndexedIsSearchable ==
    \A d \in Docs : docRow[d] = "indexed" =>
        \/ d \in chunks \/ d \in Blank \/ d \in torn
        \/ indexJob[d] # "over"
        \/ \E k \in Removal(d) : docCall[k].at = "cleared"

(* The text of a removed document is not found any more, unless its index   *)
(* was written while it was being removed.                                  *)
RemovedIsForgotten ==
    \A d \in Docs : docRow[d] = "gone" /\ d \in chunks => d \in overrun

(* No document waits for an index that nobody builds, unless a crash came   *)
(* between its row and its job.                                             *)
NobodyWaitsInVain ==
    \A d \in Docs : docRow[d] = "uploaded" =>
        \/ indexJob[d] \notin {"none", "over"} \/ d \in stranded
        \/ \E k \in Calls : docCall[k].doc = d /\ docCall[k].at = "inserted"

DocumentsAreSound == IndexedIsSearchable /\ RemovedIsForgotten /\ NobodyWaitsInVain

(* The page at rest lists the documents that the server has, unless its     *)
(* handlers overlapped or one failed, or somebody else has uploaded or      *)
(* removed one since; and its upload button is disabled just while an upload*)
(* is under way, its list included.                                         *)
DocumentsAreListed ==
    /\ uploading <=> \E k \in Mine : docCall[k].do = "upload" /\ Busy(k)
    /\ (~docDoubt /\ ~unlisted /\ \A k \in Mine : ~Busy(k)) =>
         \A list \in pageDocs : DOMAIN list = {d \in Docs : Stored(d)}

(* Every upload gets a verdict, indexed or failed, or is removed, whatever  *)
(* the worker has to start over; only a crash between its row and its job   *)
(* leaves it waiting.                                                       *)
UploadSettles ==
    \A d \in Docs : docRow[d] = "uploaded" ~> (docRow[d] # "uploaded" \/ d \in stranded)

=============================================================================
