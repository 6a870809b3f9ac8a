# pycrocosm: models, checks and proofs

pycrocosm is an OpenStreetMap API server: Django views over a map kept in PostgreSQL by the C++ library
pgmap, and an asyncio server that tells clients of edits. This directory holds TLA+ models of its parts,
the TLC configurations that check them, and proofs checked by TLAPS. Every definition that models code
names its lines in `PROJECT.json` under `map`.

To run: `tlc -workers 2 -config Uploads.cfg MCMapUpload`, `tlapm MapUploadProofs.tla`, and so on with
the runs and theorems of `PROJECT.json`.

## 1. Inventory

All the web processes, the commands and the notification server share one database. What a web process
keeps between requests is a connection to the map and a cache; all else is in the database, so processes
interact by the transactions and locks of pgmap (`GetTransaction("ACCESS SHARE" | "EXCLUSIVE")`), by
Django's own rows, and by PostgreSQL's `NOTIFY`.

| Part | Source | State | Operations | What makes it correct |
|---|---|---|---|---|
| Edit notification server | `notify/server.py`, `notify/protocol.py` | latest IDs known, one check at a time and whether another is due, the connections and their subscriptions, counts for each address, the listener | hello, subscribe, unsubscribe, ping; LISTEN and heartbeat; the check; deadlines, slow readers, stop | each record once and in order; nothing missed from the ID a subscriber was answered with; waiting requests are answered; limits hold; it stops |
| Uploads and changesets | `changeset/views.py`, `elements/views.py`, `closeoldchangesets` | elements, changesets with their boxes | open, close, close old ones, upload block by block, change one element | nothing live refers to what is not; `if-unused` keeps what is in use and no more; no edit lost; nothing written to a closed changeset; the box has the changes |
| Extract updates | `replicate/remoteupdate.py`, `replicate/extracts.py`, `updateextracts` | an extract's content, its checkpoint | follow records in windows, from this map or another server; take afresh | an extract is its source at its checkpoint, across crashes and two updates at once |
| Replication API | `replicate/views.py` | none of its own | diffs of a minute, hour or day; custom diffs; pages of edit activity | a diff is complete and never changes; following pages gives each record once |
| OAuth2 | `oauth2/` | applications, codes, authorizations | authorize, exchange, revoke, use a token | a code gives one token, a revoked application none |
| Rate limit | `pycrocosm/ratelimit.py` | a count for each client, in a worker's cache or the database's | count a request | nobody is refused before the limit; few pass beyond it; a client that waits is let through |
| Single run | `pycrocosm/singlerun.py` | a lock file | take, release | one at a time, and a crash leaves none behind |
| Preferences, registration | `users/views.py`, `register/views.py` | preferences; users, whose IDs the map allocates | replace all, set one; register | a replacement is whole; one row for a key; an ID for each user |
| Overpass queries | `overpass/` | the sets of a query as it runs | parse; filters, unions, differences, recursion, output | a query is run as written or refused; it finds what it means, however it is searched |
| Map queries | `querymap/views.py`, `querymap/mapmeta.py`, `pycrocosm/mapdb.py` | none (a shared-lock transaction each) | area and object queries | limits |
| The rest | `api`, `multifetch`, `objectinfo`, `pycrocosm/parsers.py`, `common.py`, planet dump, administration pages, front page | none | parse, format, read once | formatting only |

How they interact. An upload commits elements, a changeset's box and records of edit activity in one
transaction; pgmap then notifies. The notification server hears (or its heartbeat finds) that the latest
IDs moved, and reads records. Extract updates read the same records, in this process or over HTTP.
Replication diffs read by time range, and wait for the upload lock to be free first.

What is hard here:

- *One loop and one executor thread* in the notification server. Between the latest IDs being read and
  the clients being told come many awaits, in which clients come, subscribe, leave, or fall behind. The
  moment a subscriber is let in decides which records it is sent.
- *Two readers of one change*: LISTEN may lose notifications, the heartbeat may repeat them, and a
  change noticed during a check must not be forgotten.
- *Check and act under a lock*: an upload's check of its changeset and versions is good at the commit
  only because the lock is taken before anything is read.
- *Deletions that depend on each other*: whether a member may be deleted depends on whether its parent
  is, which depends on its own parents.
- *A box computed block by block* while later blocks move what earlier ones used.
- *No transaction* around Django's rows: OAuth2, preferences and registration do several writes each.
- *Crashes between windows* of an extract's update, and two updates of one extract.

- *Searching in three ways* for what lies in a region, by limits of how much each way finds: they must agree.

`PROJECT.json` lists each of these as a hazard at its line, with the properties that would catch it, or
a note why none does.

## 2. Plan

1. **Notification server** (done, proved but for liveness): `EditFeed`, the abstract feed; `EditNotifier`, the
   server; `EditNotifierRefinement`; `MCEditNotifier`; `EditNotifierProofs`, `EditNotifierClientProofs`.
2. **Uploads** (done, proved): `MapUpload`; `AtomicUploads`, the abstract map, which changes upload by upload;
   `MapUploadRefinement`; `MCMapUpload`; `MapUploadProofs`.
3. **Extract updates** (done, proved but for liveness): `ExtractUpdate`, in `MCReplication`; `ExtractPatchProofs`,
   `ExtractUpdateProofs`. What an abstract specification would say, that an extract may at any moment become its
   source as it was at some later record, is said by `CurrentToCheckpoint` and `GoesForward` together.
4. **Diffs** (done, proved): `ReplicateDiff`, side by side with extracts in `Replication`, in `MCReplication`, and
   `ReplicateDiffProofs`.
5. **What the site keeps of its users** (done, proved): `OAuthGrants`, `Preferences`, `Registration` and
   `RateLimit`, put together in `Accounts`, in `MCAccounts`, and `AccountsProofs`; `RateLimit` alone in `MCRateLimit`.
6. **Overpass** (done; queries and output proved): `OverpassTree`, `OverpassQL`, `OverpassSearch`,
   `OverpassEvaluator`, in `MCOverpass`, and `OverpassSearchProofs`. Not proved: the grammar, statements within
   statements and the walks over relations are recursive operators, which the prover does not take.

Order: first what loses users' work or subscribers' records silently (1, 2), then the copies made of it
(3, 4), then the rest. Items 1 to 5 are written to be proved about: constants with assumptions, one action
for each operation, no recursive operators. The MC modules extend the modules they check, so that the
assumptions on the constants are evaluated for each run.

## 3. The notification server

### Modules

`EditNotifier` has one action for what the loop does between two awaits, one for each step of the executor
that reads the map, and one for each thing that may happen outside: an edit committed, the map reset, the
listener's connection dying, a connection made or lost, a request received, a timer.

| Variable | In the code |
|---|---|
| `edits` | the map's edit activity: for each, the areas it may concern |
| `listener`, `notified` | `PgListener` and what PostgreSQL has for it to read |
| `phase` | how far `start()` and `stop()` have got |
| `known` | `EditNotifier.latest` |
| `check`, `again`, `ask` | `_check_until_settled`, `_again`, and the locals of `_check` across its awaits |
| `client` | each `Connection`: queue, worker, deadline, subscriptions; and what was sent to it |
| `perAddress` | `EditNotifier.per_address` |
| `count` | how often each bounded thing happened (no code) |

A check: `CheckBegins`, `ReadLatest` (the executor reads; commits may follow before the loop sees it),
`CheckLatest`, then rounds of `AreaAnswered` and `RecordsAnswered` for what is subscribed to by then, until
nothing is left to ask and `Announce` tells all in one go. A subscription: `AskToSubscribe`, perhaps
`WktChecked`, the wait for `idle`, `Subscribe` or `SubscribeRefused`. `client.asked`, `told` and `heard` are
history, used by properties only.

Two abstractions need a word. Between two requests that are answered at once the loop runs nothing else,
while the model lets it: the model has more interleavings, never fewer. An area may be answered "yes"
wrongly when asking failed, as the code does, and never "no" wrongly.

`EditFeed` says what following records promises: a log, how far the feed has reached in it, and followers.
In one step the feed reaches further for *all* followers, who are sent what concerns them or let go. Joining
tells a follower exactly where the feed is. The log may begin again (`Restart`). A step that the feed was then
about to take may be spoiled by it (`ReachSpoiled`): followers may miss entries, but are still sent none twice
and none beyond where the feed says it has reached. And the feed may go back (`GoBack`), to where the log ends
by now. `EditNotifierRefinement` maps `reached` to `known`, the followers to open connections subscribed to
records, and `spoiled` to `ask.spoiled`, which the model keeps as history: whether the map was reset between a
check's reading of the latest IDs and its end.

### Runs

All are of `MCEditNotifier`. Connections that are alike are symmetric, except in runs of liveness.

- `FeedPair.cfg` (pass): four clients of two hosts, of whom two may subscribe, each after one of two areas, with
  one edit and one failing read of records; two connections are made, where two are allowed at once, one from each
  host, and one area that may be followed. `RecordsExactlyOnce`, `StartsFresh`, `AreasWithinLimit`,
  `ConnectionsWithinLimits`, and `ImplementsFeed` (the refinement). Two subscribers are enough to have one
  subscribe while the other's area is asked about, to have one dropped while the other is told, and for both to be
  let in before either follows an area; two areas, for what the second subscribes to not to be among what was
  asked already. The listener tells of the edit, so the heartbeat is left out.
- `OneClient.cfg` (pass): one client that may ask anything but to end its records, with any call failing once, the listener dropped,
  the map reset, a slow reader and SIGTERM. `TypeOK`, `WaitersHaveCheck` (also when the latest IDs cannot be read),
  `IdleHasDeadline`, `EditsHinted`, and `ImplementsFeed`, here
  of a map that is reset. Nearly every action is taken here. One edit is enough: it can be committed before
  the reset or after it, and the reset fall before, into or after the check that asks about it. The heartbeat and
  an end to records are left to `Live.cfg`.
- `Live.cfg` (pass): `CatchesUp`, `RecordsReachSubscribers`, `SubscribersAnswered`, `IdleConnectionsEnd`, with one
  edit, the listener lost once and the map reset once. The heartbeat starts checks at any time, so one edit is
  enough to be committed in the midst of a check. The client may follow records and edits: one that follows
  records has no deadline, so that if it then waits for ever nothing else ends its wait.
- `Stranded.cfg`, `FollowedRefused.cfg`, `StopHangs.cfg` (violations): see Findings.

**Fairness** (`FairSpec`) is weak and on what the server does: the loop runs what is ready (a worker, a timer,
an answer from the executor); the heartbeat's sleep ends; an attempt to connect the listener succeeds in the
end; a transport that is closed reports its end. asyncio runs ready callbacks in order and the executor has
one thread and a queue, so none of these can be put off for ever. Nothing is assumed of clients, of edits or
of failures, and a dead listener may never notice, so catching up rests on the heartbeat alone.
`SubscribersAnswered` excepts behaviours in which something changes during every check for ever: the code sets
`idle` only after a check in which nothing did.

### Proofs

For all values of the constants (any number of clients, areas, formats, edits, resets and failures):

- `EditNotifierProofs` proves `TypeCorrect`, which needs `WorkerOK` beside the types (a worker waits only if it has
  a request), and then `RecordsOnce` and `EditsTold`. The inductive invariant is
  `TypeInv /\ Tidied /\ FeedInv`. `RecordsExactlyOnce` is not inductive, as it says nothing of a check under
  way; `FeedInv` adds what the check has *learned*: for each area asked, whether some edit after `known` up to
  the target concerns it, and for each key read, exactly which. These stay true when edits are committed, as
  IDs only grow. `Tidied` says that what is not subscribed was sent nothing, so that a new subscription starts
  from nothing. The step that matters is `Announce`: what was learned, joined to what had been sent, is all that
  is due up to the target.
- `EditNotifierClientProofs` proves `WaitersChecked` (whoever waits has a check that will come) and
  `SubscriptionsStartFresh`. The latter is from `FreshInv`: for one who waits, either the check has not read the
  map yet, another is due, or what it read is no older than the request. It assumes that reading the latest
  IDs does not fail: when it does, the code answers with the IDs it has. `AreasLimited`: only a subscription adds
  an area followed, and it checks again after waiting. `ConnectionsLimited`: the counts kept for each address are
  the connections there are, so what is compared with the limits is right. `IdleTimed`: an open connection has a
  deadline exactly while it follows nothing. `RecordsOrdered`: what was sent to a
  subscriber is in the order of IDs, as the check sends only what is after `known`.
- The last part of `EditNotifierClientProofs` proves `ServerIsAFeed`: under the mapping of `EditNotifierRefinement`, the
  initial states are those of `EditFeed` and every step is a step of it or none, however often the map is reset.
  `FeedInv` speaks of a map not yet reset, so this rests on `AskInv` and `UnheardInv` as well. `AskInv` is what a
  check has found that no reset can take away (`Ranging`: only edits after `known`, up to the target), and what it
  has unless one came after it read the latest IDs (`Learned`, as before); `UnheardInv` is that a client that
  follows no records has been sent none. A reset is `Restart`, the end of a check `ReachAll`, or `ReachSpoiled` if
  the map was reset meanwhile, and a check that gives up `GoBack` or nothing.

Only model-checked: liveness, which is beyond the prover.

## 4. Uploads and changesets

### Module

`MapUpload` has the map and the changesets as committed, and for each request the transaction it has open, if
any. Requests that write take the map's lock before they read (`MapFree`). An upload is `BeginUpload`, then for
each block `ReadBlock` (with the checks of any block: room left, references found, versions as stored), for
deletions the four checks `KeepRelations` (repeated until it keeps none), `KeepWays`, `KeepNodesOfWays` and
`KeepMemberNodes`, then `StoreBlock`, which stretches the box; and at the end `Commit` or, at any moment,
`Abort`, which stands for a failing check, a database error and the death of the process alike. A change of
one element by `elements/views.py` is an upload of one block of one element.

| Variable | In the code |
|---|---|
| `map` | the live and deleted elements pgmap keeps, as committed |
| `changeset` | owner, whether open, and box |
| `txn` | the locals of `upload` and of the functions it calls, and the map as its transaction sees it |

Left out: tags (except whether a relation's changed, which decides the box), the order of nodes and of members,
visibility in responses, the limit on the members of one element, and pgmap's own work: resolving placeholder
IDs, records of edit activity, its indexes. A box is the set of places it was stretched to include, which says
more than its corners would.

`AtomicUploads` says what uploads promise: drafts of the map, written block by block, each block at one moment and
leaving nothing that refers to what is not there; and a draft is published at one moment or dropped. It has no
lock and no checks: it says that a draft is published only if the map is still the one it was begun from, and
that a deletion of what is unused takes out exactly the largest set of what was asked for that nothing else uses.
`MapUploadRefinement` maps a transaction to a draft of the blocks it has stored: its checks are no steps of the
draft, and storing a block is the step that writes it.

### Runs

- `Uploads.cfg` (pass): two uploads in one changeset, two nodes in two places, a way, three relations. The map
  starts as a chain of three relations over the way, or nearly bare. Three relations in a chain are the fewest
  for which the check of relations must run a third time; two elements to an upload let a block delete two
  that depend on each other, or two blocks follow each other; two versions let one edit be made from a stale
  version. `TypeOK`, `Integrity`, `OnlyOpenChangesets`, `VersionsStoredOnce`, `BoxHasChanges`, and
  `UploadsAtomic` (the refinement).
  Deadlock is not checked, as a system with its one changeset closed has nothing to write. Both uploads are of
  one user: that a changeset is its user's alone is in the theorem, which holds for any users.

### Proofs

`MapUploadProofs` proves `UploadTypeCorrect`, `IntegrityKept`, `KeptInUse` (which no run checks, as `UploadsAtomic` says more),
`OpenChangesetsOnly`, `VersionsOnce`, `BoxIsRight` and `UploadsAreAtomic`, for any elements, maps to start from that are consistent, changesets, users, requests and limits. One inductive
invariant serves them all. `Integrity` alone is not inductive, as it holds of a transaction's map after storing
only if the checks before were right, so the invariant says what each check has established: that a block's
references are live or in it; that from "ways" on, no relation outside the block refers to one in it; and so
on down to the members of the last check. It also says what the lock gives: at most one transaction, its
changeset open and its user's, its versions at least those committed. The crux is that no check
undoes an earlier one: what a check keeps goes on using only elements whose own check is not over, as ways refer
only to nodes, nodes to nothing, and the check of relations ends only when it keeps none.

`BoxIsRight` has an invariant of its own, `BoxInv`: of each element that a transaction has changed so far, its box has
what the change would touch were it to commit now. The crux is that a later block may move what an earlier one
touched, and stretches the box for that itself. It uses that what is live was created, so that a block that creates
an element cannot be of one that was there (in `StartsAssumption`, live elements have a version above 0).

`UploadsAreAtomic` proves the refinement, step by step. That a draft is published over the map it was begun from is
the lock's doing, in the invariant. That a deletion is the largest that can be made needs one more invariant,
`AskedInv`: whatever part of the block nothing else uses has not been taken out of it yet. Each check keeps this,
as what it takes out is used by something that is not in the block, so that no part with it is unused; and when
the four are over, nothing outside the block uses what is left, so it is such a part itself, and the largest.

## 5. Following the edits: extracts and diffs

### Modules

`ExtractUpdate` has the source as it was after each of its records, the extracts as committed, and each updater:
the command, of which one run holds the lock of its name (`pycrocosm/singlerun.py`), and the administration page,
which asks for no lock.

| Variable | In the code |
|---|---|
| `maps`, `record` | the source, and its edit activity (pgmap's) |
| `extract` | the rows and tables of the extracts: content, checkpoint, whether updated automatically and from where |
| `lock` | the command's lock, which the database or the kernel frees when its process dies |
| `update` | the locals of `update_extract`, `RemoteUpdate.run` and `UpdateExtract` across their reads and commits |
| `mixed`, `count` | history, and how often each bounded thing happened (no code) |

An update is `Choose` (what is stored decides how it is done), `ReadLatest`, then for each window `ReadWindow`
(all pages of an answer; the checks that edits are whole; what is held over) and `ApplyRows` (content and
checkpoint in one transaction), and `Finish`; or `Refused`, which for this server's own map goes on to `Afresh`.
`Fail` and `Crash` may come between any two. Beside them an edit may be committed, and an extract saved,
imported, deleted or set at any moment. What pgmap does is taken from how the code uses it: what a record has
(`RecordOf`), that a patch keeps the newest copy it knows of each element (`Patched`), and which elements are in
an extract (`Select`). As the code keeps records in the order of their IDs, an answer, a window and what is held
over are sets of rows. Extracts and checkpoints are given at first as `Initial` says: an extract that is followed
begins as the source was imported (`InitialAssumption`); ways hold only nodes (`ElementsAssumption`).

`ReplicateDiff` has what matters of uploads for a diff: the lock, the time at which each block is stored, the
commit. A reader asks for the diff of a page or of a range (`getoscdiff`, `customdiff`), takes the lock, lets it go
and then reads (`WaitForUploads`, `LetGo`, `ReadDiff`). Its pages and catalogs are functions of the time.
It is taken of pgmap that a range includes its start and excludes its end, and that an edit's time is the one at
which it was stored, not an earlier one.

### Runs

`Replication` puts the two side by side. `Replication.cfg` of `MCReplication` (pass): they share nothing, so each
behaviour is of one, chosen at first.

- *Extracts*: two nodes (one moves into the rectangle and out, one is always out), a way over both, a relation
  holding the far node; one or two extracts, of this server and another; windows, pages and the records too old
  to follow all of one record, so that an edit of two records lies across two windows and two pages; two runs of
  the command and one of the page; one unusual thing (an import, a deletion, a changed setting, a failure, a
  crash or a request of the page). Three records with one extract are an edit before an update and one in its
  midst; with two extracts one record is enough for each to be updated after the other. Four versions of the
  moving node let it go in, out and in again.
- *Diffs*: one upload of two blocks, one reader; steps of one and two seconds, catalogs of two entries, eight
  seconds, in which pages, entries and catalogs all end.

`CurrentToCheckpoint`: an extract is its source as it was at its checkpoint. With the filter by area (`AsAt`): it has
the nodes in the rectangle as they were and no others, and every node and way that belongs to it. `WholeEdits`: it never has a part of an
edit. `PagesComplete`: following answers gives each record once. `DiffsFinal`: a diff once given never lacks what is
committed later. `PagesFitTimes`: times, pages and lists agree at each end. `GoesForward`: a
checkpoint is never lost, set back or ahead of its source, which is what the command's lock is for.
`CatchesUp`: an extract that is updated automatically catches up in the end.

Each exception is named in its property: the page and the command at once may commit from a checkpoint that is
not the extract's any more (`mixed`); with the filter by area a relation may be missed, and a way kept that has
left (`FilteredWindow.cfg`, a violation: see Findings).

**Fairness** (`FairSpec`): the command is run by a schedule, over all the extracts updated automatically, so its
beginning is strongly fair (a run by hand may hold the lock when a scheduled one is due); a run that has begun
goes on or dies, so its steps are weakly fair. Nothing is assumed of the page, of edits or of failures.

### Proofs

`ReplicateDiffProofs` proves `DiffTypeCorrect`, `DiffsAreFinal`, `PathsAreRight` and `CatalogsAreRight` (together
`PagesAreRight`), for any uploads, readers, lengths of diffs, sizes of catalogs and epoch (`TimesAssumption`).
`DiffsFinal` is not inductive, as an upload could have stored something timed in the range of a diff that was read
and commit it later. The invariant says that this is never so: whoever may hold stored blocks holds the
lock; when a reader has the lock, nothing is stored; and from then on whatever is stored is timed at or after the
end of the range, as that was not after now. `PathsAreRight` is arithmetic: a remainder by a catalog's
length, divided again by an entry's, leaves the remainder by the entry's. `CatalogsAreRight` rests on the same:
a page is listed if its entry is, at each of the three levels, and can be read if its time is over.

`EachIsApart` is that extracts and diffs side by side (`ReplicationSpec`) behave as each alone, so that the theorems
about either are about both; `ReplicationTypesCorrect` is one.

`ExtractPatchProofs` and `ExtractUpdateProofs` prove `ExtractTypeCorrect`, `PagesAreComplete`, `EditsAreWhole`,
`ExtractsAreCurrent` and `CheckpointsGoForward`, for any elements and maps, edits, extracts, updaters, windows, sizes of answers and settings
(`ElementsAssumption`, `UpdatersAssumption`, `ExtractsAssumption`, `BoundsAssumption`, `InitialAssumption`). The
argument is in two parts.

- *What a patch does* (`ExtractPatchProofs`), of any sequence of maps and their records (`History`: each record says
  what one edit did, which raised the version of one element). Take contents that are right at a record `a`
  (`Keeps`), a later record `b`, and some of the records between, among them at least all that reach the rectangle
  (`Patching`). `PatchKeeps`: the patch is right at `b`. For what belongs to the extract at `b`, either nothing of it
  changed since `a`, and it was there; or some edit of it was the last (`LastEdit`), which reaches the rectangle
  as it does belong, so that its record is among them and sends the node, the way that holds it and the other
  nodes of that way as they then were and still are. For a node that is in the rectangle no more, the first edit
  since (`FirstEdit`) reached into it as it was there, so its record supersedes the copy or removes it.
  `PatchIsWhole`: with all the records, and when they tell of related parents, the patch is exactly what is
  selected of the map at `b`, relations too. `UnpatchedKeeps`: if no record between reaches the rectangle, what was
  right at `a` is right at `b`. `AllAnswers` is the induction over answers for `PagesComplete`.
- *What updaters do* (`ExtractUpdateProofs`). `CurrentToCheckpoint` is not inductive: it says nothing of an updater
  between two of its questions. `IInv` adds, for an updater in the midst of windows (`GoodWindow`), that the rows to
  be applied and those held over are together exactly those asked for between its checkpoint and the record it has
  got to, that those held over are of a later edit, and that it stopped reading at the end of an edit. So at each
  commit what is applied is all that was asked for (`AppliedIsRight`), and the new checkpoint is the end of an edit
  as far as the extract is concerned (`AppliedEndsOver`). `Follows` says that the extract has the checkpoint the
  updater read: this is what the page breaks, so it is claimed while no request of the page was made, when
  at most one updater is at work (`OneAtATime`), and `mixed` has the extracts for which it may have failed. Edits
  committed meanwhile change nothing of this, as their records come after and are of other edits (`GoesOn`).
- *That checkpoints go forward* follows from the same invariant, before and after a step: rows that are applied come
  after the checkpoint that the updater read (`RowsAre`), which is the extract's own unless the step says in `mixed`
  that it was not (`FromItsCheckpoint`); and no checkpoint is beyond the source's last record, at which an extract
  taken afresh is.

`IInv` was checked by TLC over the states of both runs before it was proved. Only model-checked: `CatchesUp`.

## 6. What the site keeps of its users

### Modules

Every statement is a transaction of its own (there is no `ATOMIC_REQUESTS`), so each is an action, and requests come
between the steps of one another.

| Module | State | Actions, in the code |
|---|---|---|
| `OAuthGrants` | applications, codes, authorizations with their tokens, how far each exchange and revocation has got | `oauth2/views.py`: register, agree; find a code unused, save it as used, make the token; disable authorizations, then use up codes; the owner's token; the administrator's changes |
| `Preferences` | rows of a key and a value | `users/views.py`: delete all and insert one by one; look for a row, then save or create it |
| `Registration` | users by ID, the ID that the map allocates next | `register/views.py`: the form, the map's lock, the ID, the user saved, the map's commit |
| `RateLimit` | a client's counter in one of two caches, which drops it when its time is over or to make room | `pycrocosm/ratelimit.py`: add, incr (one step in the local cache, a get and a set in the database), add again, decide |

A code or token stands for its secret and its hash; that redirect URI, verifier and the application's secret are
right is decided before an exchange begins. An exchange reads its application and its code at one moment, though the
code reads one after the other, and an application is registered in one step, though its secret is saved in a second:
nobody has it before.

The rate limit counts in whatever cache is set up, and `PRODUCTION.md:62-79` names two. The default is Django's
`LocMemCache`: the counter is one worker's, and `incr` adds to it under a lock. With several workers each counts on its
own, so a client gets several times the limit, as that page says; the model is of one worker. The other is
`DatabaseCache`, which all workers share: its `incr` is Django's `BaseCache.incr`, a get and then a set, so another
request may come between, and the set gives the counter the cache's own timeout instead of the window.

### Runs

`Accounts` puts the four side by side. `Accounts.cfg` of `MCAccounts` (pass): as they share nothing, each behaviour
is of one of them, chosen at first.

- *Grants*: a user, an application, two permissions, two exchanges and one revocation at once; two codes, two
  tokens, one change; codes and tokens that last one second, and one second. Two exchanges may meet on one code, or
  one may come after another; a revocation may come in each gap.
- *Preferences*: two keys, a value, two requests that replace and two that set one, three rows made.
- *Registration*: two names, two requests, three IDs, one failed commit.
- *Rate*: two requests in a window of one second, two at once, seven in all over three seconds, with either cache; the
  database's timeout is two seconds. Seven are enough to spend a counter, to have it dropped between two steps of a
  request, and to spend the next.

`OneTokenPerCode`, `GrantedAsAgreed`, `RevokedCodesGiveNothing`, `OneRowPerKey` and `UsersKept` hold
with exceptions that are races of the code, each named by a history variable: two exchanges that both found a code
unused (`raced`); an exchange under way when its code was revoked (`dead` leaves it out); preferences
written by requests at work together (`crossed`); an ID whose commit failed, which the next user is given, and who
then replaces the one saved (`lost`).
What they say is that nothing *else* goes wrong.

`LimitHolds` has no exception, but says how far the limit holds. `NotTooManyPass`: of one counter the limit is let
through, and as many more as may have found the one before it gone, which is the threads but one. With the database's
counter, of which what one wrote another may write over, it is the most that so many threads can make of it (`Writes`)
instead of the limit. `NotRefusedEarly`: nobody is told a higher count than there were requests, since there was neither a counter nor a request
at work. `FreeAfterWindow`, for the local cache: a request that comes a window after all others were done, alone, is let
through.

`RateWindow.cfg` of `MCRateLimit` (violation) asks `FreeAfterWindow` of the database's counter: see Findings.

### Proofs

`AccountsProofs` proves `GrantTypesCorrect`, `OneTokenForACode`, `GrantsAsAgreed` and `RevokedCodesAreDead`, for
any users, applications, permissions, exchanges, revocations, durations and bounds (`OAuthAssumption`), from one invariant: the code of a
token, and of an exchange that goes on to make one, is used up; two exchanges of one code under way, or an exchange
of a code that has a token, are a race; what an exchange will grant is within what was agreed; a dead code is used
up and no exchange has it. It proves `RegistrationTypesCorrect` and `RegisteredUsersKept` (`RegistrationAssumption`): between the ID being read and its
commit the lock is held, so an ID not yet committed has no user but one who was saved and lost, or is about to be
committed.

Of preferences, `PreferencesTypesCorrect` and `OneRowForAKey`: a request that met no other at work (`crossed`) finds what it
deleted, or what it looked for, still so when it writes, and never writes a key twice.

Of the rate limit, for any limit, window, timeout and threads (`RateAssumption`): `RateTypesCorrect`;
`NobodyRefusedEarly`, with either cache; and `LocalLimitHolds`, that with the local one all of `LimitHolds` holds.
`EarlyInv`: what is counted, or was read and will be written one higher, is with the requests still to be counted within
those there were. `PassInv`: while the counter is there, those let through and those about to find that they were not
counted are no more than it has counted, up to the limit, and the threads but one. `FreshInv`: the counter ends no later
than a window after the last request, so one that comes after that, alone, is the first of a new one.

`EachIsApart` is that the four side by side (`AccountsSpec`) behave as each alone, so that these theorems are about
the whole; `AccountsTypesCorrect` is one. Of what the run checks of the four, only the bound `Writes` on the database's
counter is model-checked and not proved.

## 7. Overpass

### Modules

`OverpassTree` has the statements as records, which the parser makes and the evaluator runs. `OverpassQL` is the
parser (`overpass/ql.py`) over tokens: a parser is an operator from a place in the text to what it got and the place
after it, or an error. `OverpassSearch` is what a query finds and what a print fetches to draw
(`Evaluator.query`, `store`, `print_set` of `overpass/evaluator.py` and what they call), without recursion, so that it
can be proved about. `OverpassEvaluator` adds the statements that hold others and the walks over relations, and runs a
script, parsed or made of an XAPI request, against
a map: `Interpret` or `Xapi`, then `Execute` a statement at a time, or `TimeOut`. A query
reads the map in one transaction, so the map does not change under it. Positions are on a line, a box is an
interval, and an element has or has not the one tag that filters ask for.

What a query *means* is defined apart (`Means`, `Selects`, `Reached`): for each element, whether the filters hold of
it, with regions as "some node of it is in", and recursion as the least set closed under membership. The code instead
searches by tags, by stored boxes, up from the nodes of a region or down from what other filters found, whichever
the limits allow, and keeps the nodes of regions for the next query.

### Run

`Overpass.cfg` of `MCOverpass` (pass): twenty-one queries that between them use every statement and filter, and six XAPI
requests, each over 162 maps (relations that hold one another or not, missing elements, positions, tags) under seven
settings in which each limit is met and not met; and for the parser the texts one token away from one of the queries.

`AnswersExactly`: what a query finds is what it means, or it is refused. `GeometryComplete`, `DrawnWhole`: what is drawn is
drawn whole. `NothingElseIgnoredAtFirst`: a text is refused, or whatever tells in it what to search for is in the
tree as often as it was written. Words that may be left out or are implied tell nothing. There is one exception,
`PassedOver`: the parser drops the set of an around filter that gives a position, and one of the queries has it.

`TypeOK` has as its parts what the proofs take of a map, a script and a run (`MapTypeOK`, `ScriptTypeOK`,
`RunTypeOK`, which says of the kept regions that their nodes are those in them, and `StatementOK` for every statement
of every script), so that the run shows that the program's states satisfy it.

### Proofs

`OverpassSearchProofs` proves, for every map, sets, limits and query, of whatever filters and however many:

- `RegionSearchIsExact`: in a region without stored boxes, going up from the nodes (`UpFindsWanted`) and going down from
  what the other filters find (`DownKeepsWanted`) find the same. What is kept of a region is what is in it
  (`NodesInRegion`) and stays so as others are kept (`CacheStaysOK`); the map does not change under a script.
- `QueryIsExact`: a query that is not refused finds what it means (`Selects`). The area searched, common to the boxes of
  filters and script, is where they all ask for (`RegionMeans`, `CommonBox`; for stored boxes `OverlapMeans`); an
  around filter measures from every node of its set (`MeasuredFromAll`); tags, users and times are the conditions of the
  search (`ConditionsMean`), IDs, sets and links what it looks among (`IdsMean`), where links are as `Linked` defines them,
  from what holds what, and not as the search follows them (`LinkedMeans`). Then the three kinds are added in turn
  (`FindAddsAKind`), and one over its limit stays so (`OverStays`).
- `QueryStatementMeans`: its set is then stored, and of a script's run all that the next statement relies on
  (`RunTypeOK`) holds again. So a sequence of queries means what it says, step by step.
- `PrintsWhole`: what is printed is fetched whole (`GeometryIsWhole`), also when only the first elements of a set are
  printed and nodes of a member way are neither in the set nor members.

They rest on the IDs of nodes, ways and relations being apart (`SearchAssumption`) and coordinates being numbers between
two ends (`TreeAssumption`). `AnswersExactly`, `GeometryComplete`, `DrawnWhole` and `TypeOK` speak of a whole script, which
`execute` and `Means` take apart by recursion, and `NothingElseIgnoredAtFirst` of the parser: these are only model-checked.

By reading and by these runs: an error "too many" may be for what was met on the way and not for what was
found, as the steps of recursion downwards have limits of their own (`Reach`); `qt` and `maxsize` are parsed and have no effect; a search by stored boxes finds ways and relations that cross
a box without a node in it, as is intended, so `Selects` says so.

## 8. Findings

Five runs show the code at odds with what the repository says of it:

- `Stranded.cfg`: when the map cannot be reached as an area's WKT is checked, the exception ends the connection's
  worker, and requests already queued are not handled (`notify/server.py:112`).
- `FollowedRefused.cfg`: an area given as WKT is compared as it was given with areas as the map tidied them, so
  a followed area may be refused (`notify/server.py:424`).
- `StopHangs.cfg`: `stop()` waits for connections to end before it closes them, so that one subscriber who stays
  keeps the server from stopping (`notify/server.py:514`, for Python 3.12.1 and later).
- `RateWindow.cfg`: with the database cache every count gives the counter the cache's own timeout, 300 seconds, instead
  of the window, refused requests too, so that a client which waits for the window as the answer tells it to is refused
  still (`pycrocosm/ratelimit.py:32`, against `API.md:256`).
- `FilteredWindow.cfg`: an update by area applies the records of a window at once and selects at the end. When a
  way's node leaves the rectangle, the way then lets go of it and the node comes back, all in one window, the
  record of the way was left out, as nothing of it reached the rectangle. The way's old version is selected again, and
  stays in the extract until a record that reaches the rectangle sends the way again (`replicate/remoteupdate.py:225`, against lines 17 to
  24: what the filter leaves out could not have changed the extract).

What follows has no run of its own, but a team should know it. It is in the model, and in the exceptions of the
properties above:

- *A way deleted without naming its nodes* adds none of them to the changeset's box (`changeset/views.py:679`, against
  the comment at line 670). `BoxHasChanges` therefore asks nothing for a deleted way.
- *The set of an around filter that gives a position*, `(around.a:1,1)`, is read and dropped (`overpass/ql.py:670` and
  `686`), against lines 7 and 8 of that module: that nothing of a query is quietly ignored.
- *A request goes uncounted* when the counter is dropped between its steps, or in the database when two count at once:
  `NotTooManyPass` says how many may pass beyond the limit for that.
- *The filter by area may miss a relation.* A relation may be in an extract only for a node that lies outside, of a
  way that crosses the boundary. A record of an edit of that relation alone does not reach into the rectangle, if it
  says only where the changed elements and their parents were, as it is taken here. The module's own text
  (`replicate/remoteupdate.py:18`) says that such a record reaches in. `CurrentToCheckpoint` therefore says nothing
  of relations when the filter is on.
- *A checkpoint within an edit.* With the filter, the last record asked for of an edit may not be its last. If
  `EXTRACT_UPDATE_USE_BBOX` is then turned off, the update of an extract of another server is refused for ever, as
  the rest of the edit is not whole.
- *The page and the command at once.* The slower of two updates may set the checkpoint back, over content that
  is newer, or put back what the other removed.
- *The last step of a catalog's entry* is worked out by `TimestampToPath` (`replicate/views.py:396`) as number
  1000 of that entry. A request for it is answered and its diff is right, but the catalogs list the same step
  as number 0 of the next entry.

## 9. Not modelled

- *Notification client and its command*: a terminal program around the protocol, and the server's command line.
- *Map queries, object info, multifetch, capabilities, front page*: reads in one transaction with a shared lock;
  streaming and limits of a response are pgmap's.
- *Planet dumps*: one call of pgmap that writes a file.
- *Parsers and layout*: osmChange and JSON documents, WKT, the splitting of a query into tokens, XAPI's brackets,
  and every document written.
- *Users' details, passwords, signing in, and the rest of the administration pages*: Django's, or forms around what is
  modelled.
- *A reset of a source's IDs* for an extract: an update compares IDs only, so a reset is noticed if the source is
  then behind the checkpoint and not once it has passed it again.
- *pgmap itself*, taken as the code uses it: transactions that are atomic, an EXCLUSIVE lock that excludes writers,
  queries that answer from what is committed, and what is said above of records, patches and ranges of time.
