------------------------------ MODULE Repository ------------------------------
(***************************************************************************)
(* What MongoRepository does to a collection.  A collection is a function    *)
(* from the ids of its documents to records; a filter and the fields of an   *)
(* update are records, and a deletion time is present or not.  The order in  *)
(* which MongoDB scans documents is not relied upon: the methods that take    *)
(* the first match are sets of possible results.                             *)
(***************************************************************************)
EXTENDS Integers, FiniteSets

NoDoc == 0   \* nil, for the id of a document

Match(doc, filter) == \A k \in DOMAIN filter : doc[k] = filter[k]

Matching(docs, filter) == {i \in DOMAIN docs : Match(docs[i], filter)}

FirstOf(ids) == IF ids = {} THEN {NoDoc} ELSE ids

CreateOne(docs, id, doc) ==
  [i \in DOMAIN docs \cup {id} |-> IF i = id THEN doc ELSE docs[i]]

\* Documents deleted softly are found by the single lookups, the counts and the
\* pages alike.
FindOneByFilter(docs, filter) == FirstOf(Matching(docs, filter))
FindByID(docs, id) == IF id \in DOMAIN docs THEN id ELSE NoDoc
CountDocs(docs, filter) == Cardinality(Matching(docs, filter))

\* The first pageSize ids after lastID, or before it when sort is not 1.
FindManyPaginated(docs, filter, pageSize, lastID, sort) ==
  LET rest == {i \in Matching(docs, filter) :
                 lastID # NoDoc => IF sort = 1 THEN i > lastID ELSE i < lastID}
      before(i) == {j \in rest : IF sort = 1 THEN j < i ELSE j > i}
  IN  {i \in rest : Cardinality(before(i)) < pageSize}

\* $set writes the given fields and leaves the others alone.
Set(doc, payload) ==
  [f \in DOMAIN doc \cup DOMAIN payload |-> IF f \in DOMAIN payload THEN payload[f] ELSE doc[f]]

\* A payload of one field.
Only(field, value) == [f \in {field} |-> value]

\* Neither update creates a document: without a match nothing is written.
UpdatePartialByID(docs, id, payload) ==
  [i \in DOMAIN docs |-> IF i = id THEN Set(docs[i], payload) ELSE docs[i]]
UpdatePartialByFilter(docs, filter, payload) ==
  [i \in DOMAIN docs |-> IF Match(docs[i], filter) THEN Set(docs[i], payload) ELSE docs[i]]

\* One matching document is removed for good.
RemoveFromDatabase(docs, filter) ==
  {[j \in DOMAIN docs \ {i} |-> docs[j]] : i \in FirstOf(Matching(docs, filter))}

================================================================================
