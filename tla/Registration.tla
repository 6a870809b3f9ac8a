---------------------------- MODULE Registration ---------------------------
(***************************************************************************)
(* Registering a user.  The ID is allocated in a transaction of the map's  *)
(* database, held exclusively; the user is saved in Django's, at once; and *)
(* then the map's transaction is committed.  Saving with an ID that is in  *)
(* use replaces the user who has it, unless the name is another's.         *)
(***************************************************************************)
EXTENDS Naturals, FiniteSets

CONSTANTS
    Names,
    Registrars,   \* requests to register
    MaxUsers,     \* bound: the IDs allocated
    MaxFailures,  \* bound: how often a commit of the map fails
    None

ASSUME RegistrationAssumption ==
    MaxUsers \in Nat /\ MaxFailures \in Nat /\ None \notin Names \cup Registrars

VARIABLES
    users,      \* the users saved, by ID: their names
    nextId,     \* the ID the map allocates next, as committed
    mapLock,
    register,   \* how far each request has got
    lost        \* history: IDs whose user was saved while the map's commit failed

registrationVars == <<users, nextId, mapLock, register, lost>>

NotAsked == [stage |-> "idle", name |-> None, id |-> 0]

RegistrationTypeOK ==
    /\ users \in [1..MaxUsers -> Names \cup {None}]
    /\ nextId \in 1..(MaxUsers + 1)
    /\ mapLock \in Registrars \cup {None}
    /\ register \in [Registrars ->
          [stage: {"idle", "lock", "allocate", "save", "commit"}, name: Names \cup {None}, id: 0..MaxUsers]]
    /\ lost \subseteq 1..MaxUsers

InitRegistration ==
    /\ users = [i \in 1..MaxUsers |-> None]
    /\ nextId = 1
    /\ mapLock = None
    /\ register = [r \in Registrars |-> NotAsked]
    /\ lost = {}

Taken(name) == \E i \in 1..MaxUsers : users[i] = name

\* The form is valid: no user has the name.
Submit(r, name) ==
    /\ register[r].stage = "idle"
    /\ ~Taken(name)
    /\ register' = [register EXCEPT ![r] = [stage |-> "lock", name |-> name, id |-> 0]]
    /\ UNCHANGED <<users, nextId, mapLock, lost>>

\* (Mutant: the transaction is not exclusive.)
LockShared(r) ==
    /\ register[r].stage = "lock"
    /\ mapLock' = IF mapLock = None THEN r ELSE mapLock
    /\ register' = [register EXCEPT ![r].stage = "allocate"]
    /\ UNCHANGED <<users, nextId, lost>>

Lock(r) ==
    /\ register[r].stage = "lock"
    /\ mapLock = None
    /\ mapLock' = r
    /\ register' = [register EXCEPT ![r].stage = "allocate"]
    /\ UNCHANGED <<users, nextId, lost>>

Allocate(r) ==
    /\ register[r].stage = "allocate"
    /\ nextId <= MaxUsers
    /\ register' = [register EXCEPT ![r].stage = "save", ![r].id = nextId]
    /\ UNCHANGED <<users, nextId, mapLock, lost>>

End(r) ==
    /\ mapLock' = IF mapLock = r THEN None ELSE mapLock
    /\ register' = [register EXCEPT ![r] = NotAsked]

\* Another user may have been given the name meanwhile, which the database refuses.
SaveUser(r) ==
    LET q == register[r]
    IN /\ q.stage = "save"
       /\ IF \E i \in 1..MaxUsers \ {q.id} : users[i] = q.name
          THEN End(r) /\ UNCHANGED users
          ELSE /\ users' = [users EXCEPT ![q.id] = q.name]
               /\ register' = [register EXCEPT ![r].stage = "commit"]
               /\ UNCHANGED mapLock
       /\ UNCHANGED <<nextId, lost>>

CommitMap(r) ==
    /\ register[r].stage = "commit"
    /\ nextId' = register[r].id + 1
    /\ End(r)
    /\ UNCHANGED <<users, lost>>

\* The commit fails, or the process dies: the map forgets the allocation.
FailCommit(r) ==
    /\ register[r].stage \in {"allocate", "save", "commit"}
    /\ Cardinality(lost) < MaxFailures
    /\ lost' = IF register[r].stage = "commit" THEN lost \cup {register[r].id} ELSE lost
    /\ End(r)
    /\ UNCHANGED <<users, nextId>>

NextRegistration ==
    \E r \in Registrars :
        \/ \E name \in Names : Submit(r, name)
        \/ Lock(r)
        \/ Allocate(r)
        \/ SaveUser(r)
        \/ CommitMap(r)
        \/ FailCommit(r)

RegistrationSpec == InitRegistration /\ [][NextRegistration]_registrationVars

\* A user who was registered stays who it was, unless the map's commit failed
\* after the user was saved: the ID is then allocated again, and the next user
\* to register replaces this one.
UsersKept ==
    [][\A i \in 1..MaxUsers : users[i] \notin {None, users'[i]} => i \in lost]_registrationVars
=============================================================================
