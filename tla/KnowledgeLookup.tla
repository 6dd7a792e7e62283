---------------------------- MODULE KnowledgeLookup ----------------------------
(***************************************************************************)
(* The company knowledge a candidate is given                              *)
(* (evidence/internal_company_knowledge.py): for every unit of its plan    *)
(* that asks for some, documents of the Document MCP server and an entry   *)
(* of the approved catalog. Turns look up concurrently and share a cache   *)
(* of documents; the server's documents change meanwhile.                  *)
(*                                                                         *)
(* A query is a model value. Of a document that was read it is kept when   *)
(* and for whom; of an entry's answer the images it shows, and whether it  *)
(* says anything besides.                                                  *)
(***************************************************************************)
EXTENDS Integers, Sequences, SequencesExt

CONSTANTS
    Lookups,       \* the turns
    Authorities,   \* what a cache key is bound to: conversation, policy, manifest, scope
    Direct,        \* those of direct conversations
    NoAuthority,
    NoLookupQuery,
    LookupQueries,       \* NoLookupQuery, or what a unit asks for
    Listing,       \* documents in the order the server lists them
    Unlisted,      \* an identifier a selector makes up
    Baseline,      \* documents of the baseline categories
    MaxDocuments,  \* max_documents
    Ttl,           \* cache_ttl_seconds, 0 for no cache
    Catalog,       \* approved entries: their images, those their answer shows and those
                   \* sanitizing takes out of it, and whether it says anything besides
    MaxImages,     \* max_images of a group conversation
    MaxUnits, MaxChanges, MaxClock, \* bounds: units of a plan, publications, time
    CallTime       \* bound: how long the server's answer is on its way

ASSUME KnowledgeAssumption ==
    /\ MaxDocuments \in Nat \ {0} /\ {Ttl, MaxImages, CallTime} \subseteq Nat
    /\ Direct \subseteq Authorities /\ NoAuthority \notin Authorities
    /\ \A e \in DOMAIN Catalog : Catalog[e].shows \subseteq Catalog[e].images

VARIABLES
    corpus,      \* the documents the server has
    changes,     \* how often it published one or withdrew one
    now,
    cache,       \* the documents kept under a key
    lookups

knowledgeVars == <<corpus, changes, now, cache, lookups>>

Documents == Range(Listing)
NoLookup == [at |-> "idle", authority |-> NoAuthority, units |-> <<>>,
             ids |-> <<>>, asked |-> 0, docs |-> <<>>, facts |-> {}, media |-> {}]

KnowledgeInit ==
    /\ corpus = {} /\ changes = 0 /\ now = 0
    /\ cache = <<>>
    /\ lookups = [t \in Lookups |-> NoLookup]

-----------------------------------------------------------------------------
(* The server and time. *)

Calling == {t \in Lookups : lookups[t].at \in {"fetching", "answered"}}

KnowledgeTick ==
    /\ now < MaxClock
    /\ \A t \in Calling : now < lookups[t].asked + CallTime
    /\ now' = now + 1
    /\ UNCHANGED <<corpus, changes, cache, lookups>>

\* A document is published or withdrawn.
PublishDocument(d) ==
    /\ changes < MaxChanges
    /\ changes' = changes + 1
    /\ corpus' = IF d \in corpus THEN corpus \ {d} ELSE corpus \cup {d}
    /\ UNCHANGED <<now, cache, lookups>>

-----------------------------------------------------------------------------
(* Which documents are read (manifest.py). *)

\* The first occurrences.
Unique(s) == SelectSeq([i \in DOMAIN s |-> i], LAMBDA i : \A j \in 1..(i - 1) : s[j] # s[i])
WithoutRepeats(s) == LET first == Unique(s) IN [k \in DOMAIN first |-> s[first[k]]]

UpTo(n, s) == SubSeq(s, 1, IF Len(s) < n THEN Len(s) ELSE n)

list_products == SelectSeq(Listing, LAMBDA d : d \in corpus)

validated_selected_document_ids(selection, products) ==
    UpTo(MaxDocuments, SelectSeq(WithoutRepeats(selection), LAMBDA d : Contains(products, d)))

fallback_document_ids(products) ==
    UpTo(MaxDocuments, SelectSeq(products, LAMBDA d : d \in Baseline) \o
                        SelectSeq(products, LAMBDA d : d \notin Baseline))

\* One that was selected is never left out; another is added before the limit is looked at.
selected_with_fallback_ids(selected, fallback) ==
    LET room == IF Len(selected) < MaxDocuments THEN MaxDocuments - Len(selected) ELSE 1 IN
    IF selected = <<>> THEN fallback
    ELSE selected \o UpTo(room, SelectSeq(fallback, LAMBDA d : ~Contains(selected, d)))

-----------------------------------------------------------------------------
(* The documents of a unit (DocumentMcpClient.fetch_context_async). *)

Begin(t, authority, units) ==
    /\ lookups[t].at = "idle"
    /\ lookups' = [lookups EXCEPT ![t] =
          [NoLookup EXCEPT !.at = "unit", !.authority = authority, !.units = units]]
    /\ UNCHANGED <<corpus, changes, now, cache>>

Query(t) == Head(lookups[t].units)

\* A unit without a query is passed over; after the last the candidate has what was found.
NextUnit(t) ==
    /\ lookups[t].at = "unit"
    /\ LET l == lookups[t]
       IN lookups' = [lookups EXCEPT ![t] =
             IF l.units = <<>> THEN [l EXCEPT !.at = "done"]
             ELSE IF Query(t) = NoLookupQuery THEN [l EXCEPT !.units = Tail(@)]
             ELSE [l EXCEPT !.at = "listing"]]
    /\ UNCHANGED <<corpus, changes, now, cache>>

\* DirectDocumentProductSelector.select: a selector may name anything, in any order; it
\* is not asked when there is nothing to select from.
SelectorAnswers(products) ==
    IF products = <<>> THEN {<<>>}
    ELSE BoundedSeq(Documents \cup {Unlisted}, MaxDocuments)

\* The products are listed and the selector's answer is completed.
SelectDocuments(t, selection) ==
    /\ lookups[t].at = "listing"
    /\ LET ids == selected_with_fallback_ids(
                      validated_selected_document_ids(selection, list_products),
                      fallback_document_ids(list_products))
       IN lookups' = [lookups EXCEPT ![t].ids = ids,
                                     ![t].at = IF ids = <<>> THEN "static" ELSE "documents"]
    /\ UNCHANGED <<corpus, changes, now, cache>>

\* (mutant) Conversations share what was read.
unbound_key(t) == <<"any", Query(t), Range(lookups[t].ids)>>

\* key_for_document_query
key_for_document_query(t) == <<lookups[t].authority, Query(t), Range(lookups[t].ids)>>

\* A key names at most as many documents as a command may.
TooMany(t) == Ttl > 0 /\ Len(lookups[t].ids) > MaxDocuments

\* Every document that was read is taken to have content, and becomes a fact.
document_fact(t, docs) ==
    {[source |-> "document", authority |-> doc.authority, query |-> Query(t),
      document |-> doc.id, age |-> now - doc.read] :
        doc \in Range(docs)}

Documented(t, docs) ==
    [lookups EXCEPT ![t].at = "static", ![t].facts = @ \cup document_fact(t, docs),
                    ![t].docs = <<>>, ![t].ids = <<>>]

\* (mutant) What has run out is served once more.
kept_hit(t) ==
    LET key == key_for_document_query(t) IN
    Ttl > 0 /\ key \in DOMAIN cache /\ cache[key].docs # <<>>

\* TtlCache.get
Hit(t) ==
    LET key == key_for_document_query(t) IN
    Ttl > 0 /\ key \in DOMAIN cache /\ cache[key].docs # <<>> /\ cache[key].expires > now

CacheHit(t) ==
    /\ lookups[t].at = "documents" /\ ~TooMany(t)
    /\ Hit(t)
    /\ lookups' = Documented(t, cache[key_for_document_query(t)].docs)
    /\ UNCHANGED <<corpus, changes, now, cache>>

\* What has run out is removed as it is looked for.
CacheMiss(t) ==
    LET key == key_for_document_query(t) IN
    /\ lookups[t].at = "documents" /\ ~TooMany(t)
    /\ ~Hit(t)
    /\ cache' = IF Ttl > 0 /\ key \in DOMAIN cache /\ cache[key].expires <= now
                THEN Restrict(cache, DOMAIN cache \ {key}) ELSE cache
    /\ lookups' = [lookups EXCEPT ![t].at = "fetching", ![t].asked = now]
    /\ UNCHANGED <<corpus, changes, now>>

\* The server answers with the documents it has, in whatever order; they are put in the
\* order in which they were asked for.
ServerAnswers(t) ==
    /\ lookups[t].at = "fetching"
    /\ LET ids == SelectSeq(lookups[t].ids, LAMBDA d : d \in corpus)
       IN lookups' = [lookups EXCEPT ![t].at = "answered",
             ![t].docs = [k \in DOMAIN ids |->
                 [id |-> ids[k], read |-> now, authority |-> lookups[t].authority]]]
    /\ UNCHANGED <<corpus, changes, now, cache>>

\* TtlCache.set: whatever is there is replaced, though it may be newer.
Store(t) ==
    LET key == key_for_document_query(t) IN
    /\ lookups[t].at = "answered"
    /\ cache' = IF Ttl > 0
                THEN [k \in DOMAIN cache \cup {key} |->
                        IF k = key THEN [docs |-> lookups[t].docs, expires |-> now + Ttl]
                        ELSE cache[k]]
                ELSE cache
    /\ lookups' = Documented(t, lookups[t].docs)
    /\ UNCHANGED <<corpus, changes, now>>

\* Listing, selecting or reading fails with DocumentMcpError: there are no documents.
NoDocuments(t) ==
    /\ lookups[t].at \in {"listing", "fetching", "answered"}
    /\ lookups' = Documented(t, <<>>)
    /\ UNCHANGED <<corpus, changes, now, cache>>

\* What is no DocumentMcpError ends the lookup: a key for one document too many, a timeout
\* (which a replan survives), or a failure of the selector of entries.
LookupEscapes(t) ==
    /\ \/ lookups[t].at = "documents" /\ TooMany(t)
       \/ lookups[t].at \in {"listing", "fetching", "answered", "static"}
    /\ lookups' = [lookups EXCEPT ![t] = [NoLookup EXCEPT !.at = "escaped"]]
    /\ UNCHANGED <<corpus, changes, now, cache>>

-----------------------------------------------------------------------------
(* The approved entry of a unit. *)

\* A selector's answer, of which nothing is known to be in the catalog.
Selections(max) == BoundedSeq(DOMAIN Catalog \cup {Unlisted}, max)
Images == UNION {Catalog[e].images : e \in DOMAIN Catalog}

ImageLimit(t) == IF lookups[t].authority \in Direct THEN 0 ELSE MaxImages

\* validate_selection_for_gateway: the first entry that there is ...
EntryOf(entries) ==
    LET known == {i \in DOMAIN entries : entries[i] \in DOMAIN Catalog}
    IN {entries[i] : i \in {i \in known : \A j \in known : i <= j}}

\* ... and the first images of it, none twice.
ImagesOf(t, e, images) ==
    LET known == {i \in DOMAIN images : /\ images[i] \in Catalog[e].images
                                       /\ \A j \in 1..(i - 1) : images[j] # images[i]}
    IN {images[i] : i \in {i \in known :
            Cardinality({j \in known : j <= i}) <= ImageLimit(t)}}

\* to_document_context: the images its text shows, the others taken out.
ShownWith(e, images) == Catalog[e].shows \cap images
Says(e, images) == Catalog[e].says \/ ShownWith(e, images) # {}

\* (mutant) The text is checked before it is sanitized only.
shows_before(e, images) == ShownWith(e, images) = images

\* _selected_markers, of the text as it is and sanitized
ShowsSelected(e, images) ==
    /\ ShownWith(e, images) = images
    /\ ShownWith(e, images) \ Catalog[e].lost = images

\* static_fact
static_fact(t, e, images) ==
    IF Says(e, images) /\ ShowsSelected(e, images)
    THEN {[source |-> "static", query |-> Query(t), entry |-> e,
           shows |-> ShownWith(e, images) \ Catalog[e].lost]}
    ELSE {}

\* The selector of entries answers, and the unit is done.
SelectEntry(t, entries, images) ==
    /\ lookups[t].at = "static"
    /\ LET images_of(e) == ImagesOf(t, e, images)
           facts_of(e) == static_fact(t, e, images_of(e))
       IN lookups' = [lookups EXCEPT ![t].at = "unit", ![t].units = Tail(@),
             ![t].facts = @ \cup UNION {facts_of(e) : e \in EntryOf(entries)},
             ![t].media = @ \cup UNION {[fact : facts_of(e), image : images_of(e)] :
                                            e \in EntryOf(entries)}]
    /\ UNCHANGED <<corpus, changes, now, cache>>

-----------------------------------------------------------------------------
KnowledgeNext ==
    \/ KnowledgeTick
    \/ \E d \in Documents : PublishDocument(d)
    \/ \E t \in Lookups :
        \/ \E authority \in Authorities, units \in BoundedSeq(LookupQueries, MaxUnits) :
              Begin(t, authority, units)
        \/ NextUnit(t)
        \/ \E selection \in SelectorAnswers(list_products) :
              SelectDocuments(t, selection)
        \/ CacheHit(t) \/ CacheMiss(t) \/ ServerAnswers(t) \/ Store(t)
        \/ NoDocuments(t) \/ LookupEscapes(t)
        \/ \E entries \in Selections(2), images \in BoundedSeq(Images, 2) :
              SelectEntry(t, entries, images)

KnowledgeSpec == KnowledgeInit /\ [][KnowledgeNext]_knowledgeVars

-----------------------------------------------------------------------------
(* Properties. *)

\* A document a turn is given was read for its own conversation, policy and scope, and no
\* longer ago than documents are kept and an answer may be on its way: what another turn
\* stores late, or stored before a document was withdrawn, does not outlive that.
DocumentsOwnAndFresh ==
    \A t \in Lookups : \A f \in lookups[t].facts : f.source = "document" =>
        /\ f.authority = lookups[t].authority
        /\ f.age <= Ttl + CallTime

\* Every image bound to a fact is shown by the fact's text, and the other way round; a
\* direct conversation is shown none.
MediaShown ==
    \A t \in Lookups :
        /\ \A f \in lookups[t].facts : f.source = "static" =>
              f.shows = {m.image : m \in {b \in lookups[t].media : b.fact = f}}
        /\ lookups[t].authority \in Direct => lookups[t].media = {}

\* What a turn is told of the company is its own, current, and shown as it is
\* (InternalCompanyKnowledgeGatewayV1.collect).
KnowledgeSound == DocumentsOwnAndFresh /\ MediaShown
=============================================================================
