----------------------- MODULE EditNotifierRefinement -----------------------
(***************************************************************************)
(* EditNotifier implements EditFeed, as its records subscribers see it: a   *)
(* connection is a follower from the answer to its subscription until it    *)
(* unsubscribes or its connection starts to close, and the feed has reached *)
(* the ID the server has announced.                                         *)
(***************************************************************************)
EXTENDS EditNotifier

Matching(areas, key) == key[1] = Everywhere \/ key[1] \in areas

RecordsFollowers ==
    [c \in Conns |->
        IF Following(c, "records")
        THEN [interest |-> client[c].sub["records"], from |-> client[c].start["records"],
              sent |-> client[c].heard]
        ELSE None]

\* None is no follower.
ASSUME FollowersAssumption ==
    None \notin [interest : Keys, from : 0..MaxEdits, sent : [EditIds -> Nat]]

Feed == INSTANCE EditFeed WITH
    Followers <- Conns, Interests <- Keys, Entries <- EditKinds, Nobody <- None,
    MaxLog <- MaxEdits, Matches <- Matching,
    log <- edits, reached <- known, follower <- RecordsFollowers,
    spoiled <- ask.spoiled

\* The server is a feed of records: whatever the executor, the listener and the
\* other connections do between reading the latest IDs and telling the clients,
\* all the subscribers of the moment are told at once, of exactly the edits they
\* lack, and one that subscribes is answered with where that feed has got to.
\* A reset of the map spoils at most the check that it falls into.
ImplementsFeed == Feed!Spec
=============================================================================
