-------------------------- MODULE MapUploadRefinement --------------------------
(***************************************************************************)
(* MapUpload implements AtomicUploads: a transaction is a draft of the map *)
(* as it was committed, with the blocks that are stored.                   *)
(***************************************************************************)
EXTENDS MapUpload

\* The elements of the blocks stored so far; those of a block that is being
\* checked are counted already.
Written(t) == IF t.stage = "read" THEN t.elements ELSE t.elements - Cardinality(t.asked)

DraftOf(t) ==
    IF t = None THEN None
    ELSE [changeset |-> t.changeset, base |-> map, map |-> t.map, elements |-> Written(t)]

Drafts == [q \in Requests |-> DraftOf(txn[q])]

\* None is no transaction and no draft.
ASSUME DraftsAssumption ==
    /\ None \notin TxnType
    /\ None \notin [changeset: Changesets, base: [Ids -> Element], map: [Ids -> Element],
                    elements: Nat]

Atomic == INSTANCE AtomicUploads WITH draft <- Drafts

\* However uploads, and whatever opens and closes changesets, come between one
\* another, the map is as if each upload was made at one moment; each of its
\* blocks is as if written at one moment; and one that deletes only what is
\* unused deletes as much as it can, though it is checked kind by kind.
UploadsAtomic == Atomic!Spec
==============================================================================
