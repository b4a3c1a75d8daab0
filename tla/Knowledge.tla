----------------------------- MODULE Knowledge -----------------------------
(***************************************************************************)
(* The knowledge brick: the static index over a configured corpus, and the *)
(* service that checks what any index returns.  The id of a document is a  *)
(* number, ordered as its bytes are; a text is opaque, with a length and   *)
(* the texts it contains.                                                  *)
(***************************************************************************)
EXTENDS Integers, Sequences, SequencesExt, FiniteSetsExt, Results

CONSTANTS
    Texts,                  \* queries, values and the texts of documents
    TextBytes,              \* their lengths
    Containment,            \* pairs of a text and a text it contains
    BlankTexts,             \* texts that are all whitespace
    MaxSearchLimit,
    MaxQueryBytes,
    MaxDocumentTextBytes,
    MaxResultTextBytes,
    MaxStaticDocuments,
    MaxStaticTextBytes

ASSUME KnowledgeAssumption ==
    /\ TextBytes \in [Texts -> Nat]
    /\ BlankTexts \subseteq Texts
    /\ {MaxSearchLimit, MaxQueryBytes, MaxDocumentTextBytes, MaxResultTextBytes,
        MaxStaticDocuments, MaxStaticTextBytes} \subseteq Nat

contains(text, query) == <<text, query>> \in Containment

TotalBytes(texts) ==
    LET Bytes(total, text) == total + TextBytes[text] IN FoldLeft(Bytes, 0, texts)

TextsOf(documents) == [i \in DOMAIN documents |-> documents[i].text]

Take(seq, limit) == SubSeq(seq, 1, Min({limit, Len(seq)}))

(* The first place at which the text so far exceeds a limit is among these. *)
Over(documents, limit) ==
    {i \in DOMAIN documents : TotalBytes(TextsOf(SubSeq(documents, 1, i))) > limit}

-----------------------------------------------------------------------------
(* Query::new, SearchLimit::new and KnowledgeDocument::new *)

IsQuery(text) == TextBytes[text] <= MaxQueryBytes /\ text \notin BlankTexts
IsSearchLimit(limit) == limit \in 1 .. MaxSearchLimit
IsDocument(d) == TextBytes[d.text] \in 1 .. MaxDocumentTextBytes

(* Two documents with one key in the map. *)
SameKey(d, e) == d.tenant = e.tenant /\ d.namespace = e.namespace /\ d.id = e.id

(* StaticKnowledgeIndex::new: the number, then for each document the bytes  *)
(* so far and its key.                                                     *)
StaticIndex(documents) ==
    LET over == Over(documents, MaxStaticTextBytes)
        repeated == {i \in DOMAIN documents :
                       \E j \in 1 .. i - 1 : SameKey(documents[i], documents[j])}
    IN  IF Len(documents) > MaxStaticDocuments THEN Err("LimitExceeded")
        ELSE IF \E i \in over : \A j \in repeated : i <= j THEN Err("LimitExceeded")
        ELSE IF repeated # {} THEN Err("InvalidRequest")
        ELSE Ok(ToSet(documents))

(* KnowledgeIndex::search of the static index, in the order of its map. *)
static_search(index, request) ==
    LET Matches(d) == /\ d.tenant = request.tenant /\ d.namespace = request.namespace
                      /\ contains(d.text, request.query)
        Before(d, e) == d.id < e.id
    IN  Take(SetToSortSeq({d \in index : Matches(d)}, Before), request.limit)

(* KnowledgeService::search on what an index returned: the number, then for *)
(* each document its scope, its place in the order and the bytes so far.    *)
(* A hit keeps its scope here; the code keeps its id and its text.         *)
search(documents, request) ==
    LET InScope(d) == d.tenant = request.tenant /\ d.namespace = request.namespace
        InOrder(i) == i = 1 \/ documents[i - 1].id < documents[i].id
        over == Over(documents, MaxResultTextBytes)
        wrong == {i \in DOMAIN documents : ~InScope(documents[i]) \/ ~InOrder(i)}
    IN  IF Len(documents) > request.limit THEN Err("LimitExceeded")
        ELSE IF \E i \in wrong : \A j \in over : i <= j THEN Err("ProtocolViolation")
        ELSE IF over # {} THEN Err("LimitExceeded")
        ELSE Ok(documents)

=============================================================================
