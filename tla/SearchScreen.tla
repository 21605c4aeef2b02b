---------------------------- MODULE SearchScreen ------------------------------
(***************************************************************************)
(* Searching: the search bar of every page (Layout.tsx) and the search     *)
(* page (SearchPage.tsx), which searches when its URL changes and when its *)
(* form is submitted.  A submit that changes the URL does both.            *)
(***************************************************************************)
EXTENDS Naturals

CONSTANTS
    Queries,
    NoQuery,       \* the empty input
    MaxSearches    \* bound: searches on one visit of the page

ASSUME SearchAssumption == NoQuery \notin Queries /\ MaxSearches \in Nat \ {0}

VARIABLES
    urlQuery,      \* q of the URL
    query,         \* the input of the form
    kind,          \* the filter of the form
    hits,          \* the hits on screen: of what they were searched
    busy,          \* the button of the form is disabled
    searchError,   \* an error is on screen
    search,        \* search[i]: the i-th search of the page
    strayed,       \* ghost: the URL was changed while a search was under way
    doubled        \* ghost: two searches were under way together since the
                   \*        last one was begun alone

searchVars == <<urlQuery, query, kind, hits, busy, searchError, search, strayed, doubled>>

Kinds    == {"all", "transcript"}
Searches == 1 .. MaxSearches
Unasked  == [q |-> NoQuery, kind |-> "all", at |-> "idle"]

Asking(i)     == search[i].at = "asked"
SomeAsking    == \E i \in Searches : Asking(i)
Unused(i)     == search[i] = Unasked /\ \A j \in 1 .. (i - 1) : search[j] # Unasked
Asked(q, k)   == [q |-> q, kind |-> k, at |-> "asked"]

(* The effect of a new q in the URL is a search for all kinds. *)
UrlEffect(q) == Asked(q, "all")

(* run *)
Runs(asked) ==
    /\ search' = [i \in Searches |-> IF i \in DOMAIN asked THEN asked[i] ELSE search[i]]
    /\ busy' = TRUE /\ searchError' = FALSE

(* The page is mounted, by the search bar of another page perhaps.          *)
SearchInit ==
    /\ urlQuery \in Queries \cup {NoQuery} /\ query = urlQuery
    /\ kind = "all" /\ hits = {} /\ searchError = FALSE
    /\ busy = (urlQuery # NoQuery)
    /\ search = [i \in Searches |-> IF i = 1 /\ urlQuery # NoQuery
                                    THEN UrlEffect(urlQuery) ELSE Unasked]
    /\ strayed = FALSE /\ doubled = FALSE

TypeQuery(q) ==
    /\ query' = q
    /\ UNCHANGED <<urlQuery, kind, hits, busy, searchError, search, strayed, doubled>>

PickKind(k) ==
    /\ kind' = k
    /\ UNCHANGED <<urlQuery, query, hits, busy, searchError, search, strayed, doubled>>

(* The search bar, or the browser's way back to an earlier q: the filter    *)
(* stays as it is, and the same q again has no effect.                      *)
TopBar(q) ==
    /\ q # urlQuery
    /\ urlQuery' = q /\ query' = q
    /\ \E i \in Searches : Unused(i) /\ Runs([j \in {i} |-> UrlEffect(q)])
    /\ strayed' = SomeAsking /\ doubled' = SomeAsking
    /\ UNCHANGED <<kind, hits>>

(* The browser's way back to /search without a q: nothing is searched, and  *)
(* the hits stay.                                                           *)
ClearUrl ==
    /\ urlQuery # NoQuery
    /\ urlQuery' = NoQuery /\ query' = NoQuery
    /\ strayed' = (strayed \/ SomeAsking)
    /\ UNCHANGED <<kind, hits, busy, searchError, search, doubled>>

Submittable == ~busy /\ query # NoQuery

(* submit of a q that the URL has: the filter may be another. *)
SubmitAgain ==
    /\ Submittable /\ query = urlQuery
    /\ \E i \in Searches : Unused(i) /\ Runs([j \in {i} |-> Asked(query, kind)])
    /\ strayed' = (strayed /\ SomeAsking) /\ doubled' = SomeAsking
    /\ UNCHANGED <<urlQuery, query, kind, hits>>

(* submit of a new q: with the filter, and the effect of the URL without.   *)
SubmitNew ==
    /\ Submittable /\ query # urlQuery
    /\ urlQuery' = query
    /\ \E i \in Searches :
         /\ Unused(i) /\ i < MaxSearches
         /\ Runs([j \in {i, i + 1} |-> IF j = i THEN Asked(query, kind)
                                               ELSE UrlEffect(query)])
    /\ strayed' = SomeAsking /\ doubled' = TRUE
    /\ UNCHANGED <<query, kind, hits>>

(* Answers come in any order, and the first frees the button.               *)
SearchAnswered(i) ==
    /\ Asking(i)
    /\ hits' = {[q |-> search[i].q, kind |-> search[i].kind]}
    /\ busy' = FALSE
    /\ search' = [search EXCEPT ![i].at = "over"]
    /\ UNCHANGED <<urlQuery, query, kind, searchError, strayed, doubled>>

SearchFails(i) ==
    /\ Asking(i)
    /\ searchError' = TRUE /\ busy' = FALSE
    /\ search' = [search EXCEPT ![i].at = "over"]
    /\ UNCHANGED <<urlQuery, query, kind, hits, strayed, doubled>>

SearchNext ==
    \/ \E q \in Queries \cup {NoQuery} : TypeQuery(q)
    \/ \E k \in Kinds : PickKind(k)
    \/ \E q \in Queries : TopBar(q)
    \/ ClearUrl \/ SubmitAgain \/ SubmitNew
    \/ \E i \in Searches : SearchAnswered(i) \/ SearchFails(i)

SearchTypeOK ==
    /\ urlQuery \in Queries \cup {NoQuery} /\ query \in Queries \cup {NoQuery}
    /\ kind \in Kinds /\ hits \subseteq [q : Queries, kind : Kinds]
    /\ busy \in BOOLEAN /\ searchError \in BOOLEAN
    /\ search \in [Searches -> [q : Queries \cup {NoQuery}, kind : Kinds,
                                at : {"idle", "asked", "over"}]]
    /\ strayed \in BOOLEAN /\ doubled \in BOOLEAN

(* The button is disabled only while a search is under way.  When none is   *)
(* and none failed, the hits are those of the query of the URL, unless that *)
(* was changed during a search or has no query, where the hits of the last  *)
(* one stay; and those of the last search in full, filter included, unless  *)
(* it had one beside it.                                                    *)
LastAsked == CHOOSE i \in Searches : search[i] # Unasked
                 /\ \A j \in Searches : j > i => search[j] = Unasked

HitsAreOfTheUrl ==
    /\ busy => SomeAsking
    /\ (~SomeAsking /\ ~searchError) =>
         \A h \in hits : /\ h.q = urlQuery \/ strayed \/ urlQuery = NoQuery
                         /\ doubled \/ h = [q |-> search[LastAsked].q,
                                            kind |-> search[LastAsked].kind]

=============================================================================
