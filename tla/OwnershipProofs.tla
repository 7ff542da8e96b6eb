-------------------------- MODULE OwnershipProofs ---------------------------
(***************************************************************************)
(* Exclusive ownership, for every number of processes, sockets, databases  *)
(* and command lines, and every order of starts, failures and kills.       *)
(***************************************************************************)
EXTENDS Ownership, TLAPS

\* Whose listener a path names.
HoldsPath == {"bound", "serving", "stopping"}

\* A process holds the locks of its stage.
LocksOf(h) ==
    /\ host[h].at \in HoldsSocket => socket_lock[host[h].socket] = h
    /\ host[h].at \in HoldsDb => db_lock[host[h].db] = h

\* A path names its listener exactly while that is bound.
PathOf(h) ==
    /\ \A s \in Sockets : path[s] = h => host[h].socket = s /\ host[h].at \in HoldsPath
    /\ host[h].at \in HoldsPath => path[host[h].socket] = h

\* What it knows of its database.
FileOf(h) ==
    LET f == file[host[h].db]
    IN  /\ At(h, "checked") => (f = "absent" /\ host[h].create) \/ f \in {"blank", "ready"}
        /\ At(h, "opened") => f \in {"blank", "ready"}
        /\ host[h].at \in HoldsStore \ {"opened"} => f = "ready"

Owner(h) == LocksOf(h) /\ PathOf(h) /\ FileOf(h)

NoneMigrated == \A d \in Databases : file[d] # "migrated"

OwnershipInv == OwnershipTypeOK /\ NoneMigrated /\ \A h \in Hosts : Owner(h)

Stages == HoldsSocket \cup {"launched", "ended"}

Placed(r) == r.at # "ended" => r.socket \in Sockets /\ r.db \in Databases

\* The invariant holds before any process is started.
LEMMA OwnershipInitInv == OwnershipInit => OwnershipInv
<1> SUFFICES ASSUME OwnershipInit PROVE OwnershipInv
  OBVIOUS
<1>1. Ended \in HostRow /\ Ended.at = "ended"
  BY DEF Ended, HostRow
<1>2. \A h \in Hosts : host[h] = Ended
  BY DEF OwnershipInit
<1>3. OwnershipTypeOK
  <2>1. host \in [Hosts -> HostRow]
    BY <1>1 DEF OwnershipInit
  <2>2. \A h \in Hosts : ~At(h, "ended") => host[h].socket \in Sockets /\ host[h].db \in Databases
    BY <1>1, <1>2 DEF At
  <2>3. /\ socket_lock \in [Sockets -> Hosts \cup {Nobody}]
        /\ db_lock \in [Databases -> Hosts \cup {Nobody}]
        /\ path \in [Sockets -> Hosts \cup {Nobody, Stale}]
    BY DEF OwnershipInit
  <2>4. file \in [Databases -> Files]
    BY DEF OwnershipInit, Files
  <2>5. QED BY <2>1, <2>2, <2>3, <2>4 DEF OwnershipTypeOK
<1>4. NoneMigrated
  BY DEF OwnershipInit, NoneMigrated
<1>5. ASSUME NEW h \in Hosts PROVE Owner(h)
  <2>1. host[h].at = "ended"
    BY <1>1, <1>2
  <2>2. \A s \in Sockets : path[s] # h
    BY OwnershipAssumption DEF OwnershipInit
  <2>3. QED BY <2>1, <2>2 DEF Owner, LocksOf, PathOf, FileOf, At, HoldsSocket, HoldsDb,
                              HoldsStore, HoldsPath
<1>6. QED BY <1>3, <1>4, <1>5 DEF OwnershipInv

\* A step of process h that leaves to every other process its locks, its path
\* and the database it has locked keeps the invariant if it keeps h's part.
LEMMA StepKeepsOthers ==
    ASSUME OwnershipInv, NEW h \in Hosts, NEW r \in HostRow, Placed(r),
           host' = [host EXCEPT ![h] = r],
           socket_lock' \in [Sockets -> Hosts \cup {Nobody}],
           db_lock' \in [Databases -> Hosts \cup {Nobody}],
           path' \in [Sockets -> Hosts \cup {Nobody, Stale}],
           file' \in [Databases -> Files],
           \A g \in Hosts \ {h}, s \in Sockets : socket_lock[s] = g => socket_lock'[s] = g,
           \A g \in Hosts \ {h}, d \in Databases :
              db_lock[d] = g => db_lock'[d] = g /\ file'[d] = file[d],
           \A g \in Hosts \ {h}, s \in Sockets : path[s] = g <=> path'[s] = g,
           NoneMigrated',
           Owner(h)'
    PROVE  OwnershipInv'
<1>1. /\ host' \in [Hosts -> HostRow]
      /\ host'[h] = r
      /\ \A g \in Hosts \ {h} : host'[g] = host[g]
  BY DEF OwnershipInv, OwnershipTypeOK
<1>2. OwnershipTypeOK'
  <2>1. ASSUME NEW g \in Hosts
        PROVE  host'[g].at # "ended" => host'[g].socket \in Sockets /\ host'[g].db \in Databases
    BY <1>1 DEF OwnershipInv, OwnershipTypeOK, Placed, At
  <2>2. QED BY <1>1, <2>1 DEF OwnershipTypeOK, At
<1>3. ASSUME NEW g \in Hosts, g # h PROVE Owner(g)'
  <2>1. Owner(g) /\ host'[g] = host[g] /\ host[g] \in HostRow
    BY <1>1, <1>3 DEF OwnershipInv, OwnershipTypeOK
  <2>2. host[g].at \in HoldsSocket => host[g].socket \in Sockets /\ host[g].db \in Databases
    BY <1>3 DEF OwnershipInv, OwnershipTypeOK, At, HoldsSocket, HoldsDb
  <2>3. HoldsDb \subseteq HoldsSocket /\ HoldsStore \subseteq HoldsDb /\ HoldsPath \subseteq HoldsDb
        /\ "checked" \in HoldsDb /\ "opened" \in HoldsDb
    BY DEF HoldsSocket, HoldsDb, HoldsStore, HoldsPath
  <2>4. LocksOf(g)'
    BY <1>3, <2>1, <2>2, <2>3 DEF Owner, LocksOf
  <2>5. PathOf(g)'
    BY <1>3, <2>1, <2>2, <2>3 DEF Owner, PathOf
  <2>6. host[g].at \in HoldsDb => file'[host[g].db] = file[host[g].db]
    BY <1>3, <2>1, <2>2, <2>3 DEF Owner, LocksOf
  <2>7. FileOf(g)'
    BY <2>1, <2>3, <2>6 DEF Owner, FileOf, At
  <2>8. QED BY <2>4, <2>5, <2>7 DEF Owner
<1>4. QED BY <1>2, <1>3 DEF OwnershipInv

Moved(h, at) == [host[h] EXCEPT !.at = at]

\* Goto replaces the row of one process by itself at another stage.
LEMMA GotoRow ==
    ASSUME OwnershipInv, NEW h \in Hosts, NEW at \in Stages, host[h].at # "ended", Goto(h, at)
    PROVE  /\ Moved(h, at) \in HostRow /\ Placed(Moved(h, at))
           /\ host' = [host EXCEPT ![h] = Moved(h, at)]
           /\ host'[h].at = at /\ host'[h].socket = host[h].socket
           /\ host'[h].db = host[h].db /\ host'[h].create = host[h].create
           /\ host[h].socket \in Sockets /\ host[h].db \in Databases
<1>1. host \in [Hosts -> HostRow] /\ host[h] \in HostRow
  BY DEF OwnershipInv, OwnershipTypeOK
<1>2. host[h].socket \in Sockets /\ host[h].db \in Databases
  BY DEF OwnershipInv, OwnershipTypeOK, At
<1>3. host' = [host EXCEPT ![h] = Moved(h, at)] /\ host'[h] = Moved(h, at)
  BY <1>1 DEF Goto, Moved
<1>4. /\ Moved(h, at).at = at /\ Moved(h, at).socket = host[h].socket
      /\ Moved(h, at).db = host[h].db /\ Moved(h, at).create = host[h].create
      /\ Moved(h, at) \in HostRow
  BY <1>1 DEF Moved, HostRow, Stages
<1>5. QED BY <1>2, <1>3, <1>4 DEF Placed

\* The locks, the paths and the files have their types.
LEMMA TypeFacts ==
    ASSUME OwnershipInv
    PROVE  /\ socket_lock \in [Sockets -> Hosts \cup {Nobody}]
           /\ db_lock \in [Databases -> Hosts \cup {Nobody}]
           /\ path \in [Sockets -> Hosts \cup {Nobody, Stale}]
           /\ file \in [Databases -> Files]
           /\ NoneMigrated
BY DEF OwnershipInv, OwnershipTypeOK

-----------------------------------------------------------------------------
(* The steps of a process.                                                 *)

\* A new process holds nothing.
LEMMA LaunchInv ==
    ASSUME OwnershipInv, NEW h \in Hosts, NEW c \in Configs, Launch(h, c)
    PROVE  OwnershipInv'
<1> DEFINE r == [at |-> "launched", socket |-> c.socket, db |-> c.db, create |-> c.create]
<1>1. r \in HostRow /\ Placed(r) /\ r.at = "launched"
  BY OwnershipAssumption DEF HostRow, Placed
<1>2. host' = [host EXCEPT ![h] = r] /\ host'[h] = r
  BY DEF Launch, OwnershipInv, OwnershipTypeOK
<1>3. \A s \in Sockets : path[s] # h
  BY DEF OwnershipInv, Owner, PathOf, Launch, At, HoldsPath
<1>4. Owner(h)'
  BY <1>1, <1>2, <1>3 DEF Launch, Owner, LocksOf, PathOf, FileOf, At, HoldsSocket, HoldsDb,
                          HoldsStore, HoldsPath
<1>5. QED BY <1>1, <1>2, <1>4, TypeFacts, StepKeepsOthers DEF Launch, NoneMigrated

\* flock grants the socket's lock only if nobody has it.
LEMMA LockSocketInv ==
    ASSUME OwnershipInv, NEW h \in Hosts, LockSocket(h)
    PROVE  OwnershipInv'
<1> DEFINE at == "socket locked"
           r == Moved(h, at)
<1>1. Goto(h, at) /\ at \in Stages /\ host[h].at = "launched"
  BY DEF LockSocket, Stages, HoldsSocket, At
<1>2. /\ r \in HostRow /\ Placed(r) /\ host' = [host EXCEPT ![h] = r]
      /\ host'[h].at = at /\ host'[h].socket = host[h].socket
      /\ host'[h].db = host[h].db /\ host[h].socket \in Sockets
  BY <1>1, GotoRow
<1>3. /\ socket_lock' \in [Sockets -> Hosts \cup {Nobody}] /\ socket_lock'[host[h].socket] = h
      /\ \A g \in Hosts, s \in Sockets : socket_lock[s] = g => socket_lock'[s] = g
  BY <1>2, TypeFacts, OwnershipAssumption DEF LockSocket
<1>4. Owner(h)'
  <2>1. PathOf(h)
    BY DEF OwnershipInv, Owner
  <2>2. QED BY <1>1, <1>2, <1>3, <2>1 DEF LockSocket, Owner, LocksOf, PathOf, FileOf, At,
                             HoldsSocket, HoldsDb, HoldsStore, HoldsPath
<1>5. QED BY <1>2, <1>3, <1>4, TypeFacts, StepKeepsOthers DEF LockSocket, NoneMigrated

\* The lock of the database likewise.
LEMMA LockDatabaseInv ==
    ASSUME OwnershipInv, NEW h \in Hosts, LockDatabase(h)
    PROVE  OwnershipInv'
<1> DEFINE at == "locked"
           r == Moved(h, at)
<1>1. Goto(h, at) /\ at \in Stages /\ host[h].at = "socket locked"
  BY DEF LockDatabase, Stages, HoldsSocket, HoldsDb, At
<1>2. /\ r \in HostRow /\ Placed(r) /\ host' = [host EXCEPT ![h] = r]
      /\ host'[h].at = at /\ host'[h].socket = host[h].socket
      /\ host'[h].db = host[h].db /\ host[h].db \in Databases
  BY <1>1, GotoRow
<1>3. /\ db_lock' \in [Databases -> Hosts \cup {Nobody}] /\ db_lock'[host[h].db] = h
      /\ \A g \in Hosts, d \in Databases : db_lock[d] = g => db_lock'[d] = g
  BY <1>2, TypeFacts, OwnershipAssumption DEF LockDatabase
<1>4. Owner(h)'
  <2>1. PathOf(h) /\ LocksOf(h)
    BY DEF OwnershipInv, Owner
  <2>2. QED BY <1>1, <1>2, <1>3, <2>1 DEF LockDatabase, Owner, LocksOf, PathOf, FileOf, At,
                             HoldsSocket, HoldsDb, HoldsStore, HoldsPath
<1>5. QED BY <1>2, <1>3, <1>4, TypeFacts, StepKeepsOthers DEF LockDatabase, NoneMigrated

\* The check of the database changes nothing, and is remembered.
LEMMA CheckDatabaseInv ==
    ASSUME OwnershipInv, NEW h \in Hosts, CheckDatabase(h)
    PROVE  OwnershipInv'
<1> DEFINE at == "checked"
           r == Moved(h, at)
<1>1. Goto(h, at) /\ at \in Stages /\ host[h].at = "locked"
  BY DEF CheckDatabase, Stages, HoldsSocket, HoldsDb, At
<1>2. /\ r \in HostRow /\ Placed(r) /\ host' = [host EXCEPT ![h] = r]
      /\ host'[h].at = at /\ host'[h].socket = host[h].socket
      /\ host'[h].db = host[h].db /\ host'[h].create = host[h].create
      /\ host[h].db \in Databases
  BY <1>1, GotoRow
<1>3. (file[host[h].db] = "absent" /\ host[h].create) \/ file[host[h].db] \in {"blank", "ready"}
  BY <1>2, TypeFacts DEF CheckDatabase, Files, NoneMigrated
<1>4. Owner(h)'
  <2>1. PathOf(h) /\ LocksOf(h)
    BY DEF OwnershipInv, Owner
  <2>2. QED BY <1>1, <1>2, <1>3, <2>1 DEF CheckDatabase, Owner, LocksOf, PathOf, FileOf, At,
                             HoldsSocket, HoldsDb, HoldsStore, HoldsPath
<1>5. QED BY <1>2, <1>4, TypeFacts, StepKeepsOthers DEF CheckDatabase, NoneMigrated

\* The Store never meets an older schema: it was checked under the lock.
LEMMA OpenStoreInv ==
    ASSUME OwnershipInv, NEW h \in Hosts, OpenStore(h)
    PROVE  OwnershipInv'
<1> DEFINE at == "opened"
           r == Moved(h, at)
<1>1. Goto(h, at) /\ at \in Stages /\ host[h].at = "checked"
  BY DEF OpenStore, Stages, HoldsSocket, HoldsDb, At
<1>2. /\ r \in HostRow /\ Placed(r) /\ host' = [host EXCEPT ![h] = r]
      /\ host'[h].at = at /\ host'[h].socket = host[h].socket
      /\ host'[h].db = host[h].db /\ host'[h].create = host[h].create
      /\ host[h].socket \in Sockets /\ host[h].db \in Databases
  BY <1>1, GotoRow
<1>3. \A g \in Hosts \ {h} : db_lock[host[h].db] # g
  BY <1>1 DEF OwnershipInv, Owner, LocksOf, HoldsDb
<1>4. /\ file' \in [Databases -> Files] /\ NoneMigrated'
      /\ \A d \in Databases : d # host[h].db => file'[d] = file[d]
      /\ file'[host[h].db] \in {"blank", "ready"}
  <2>1. file[host[h].db] \in {"absent", "blank", "ready"}
    BY <1>1 DEF OwnershipInv, Owner, FileOf, At, HoldsStore
  <2>2. QED BY <1>2, <2>1, TypeFacts DEF OpenStore, NoneMigrated, Files
<1>6. UNCHANGED <<socket_lock, db_lock, path>>
  BY DEF OpenStore
<1>7. /\ \A g \in Hosts \ {h}, d \in Databases : db_lock[d] = g => db_lock'[d] = g /\ file'[d] = file[d]
      /\ NoneMigrated'
  BY <1>3, <1>4, <1>6, TypeFacts DEF NoneMigrated
<1>8. Owner(h)'
  <2>1. PathOf(h) /\ LocksOf(h) /\ FileOf(h)
    BY DEF OwnershipInv, Owner
  <2>2. LocksOf(h)'
    BY <1>1, <1>2, <1>6, <2>1 DEF LocksOf, HoldsSocket, HoldsDb
  <2>3. PathOf(h)'
    BY <1>1, <1>2, <1>3, <1>4, <1>6, <2>1 DEF PathOf, HoldsPath
  <2>4. FileOf(h)'
    BY <1>1, <1>2, <1>3, <1>4, <1>6, <2>1 DEF FileOf, At, HoldsStore
  <2>5. QED BY <2>2, <2>3, <2>4 DEF Owner
<1>9. QED BY <1>2, <1>3, <1>4, <1>6, <1>7, <1>8, TypeFacts, StepKeepsOthers

\* After create and verify the subject is there.
LEMMA VerifySubjectInv ==
    ASSUME OwnershipInv, NEW h \in Hosts, VerifySubject(h)
    PROVE  OwnershipInv'
<1> DEFINE at == "verified"
           r == Moved(h, at)
<1>1. Goto(h, at) /\ at \in Stages /\ host[h].at = "opened"
  BY DEF VerifySubject, Stages, HoldsSocket, HoldsDb, At
<1>2. /\ r \in HostRow /\ Placed(r) /\ host' = [host EXCEPT ![h] = r]
      /\ host'[h].at = at /\ host'[h].socket = host[h].socket
      /\ host'[h].db = host[h].db /\ host'[h].create = host[h].create
      /\ host[h].socket \in Sockets /\ host[h].db \in Databases
  BY <1>1, GotoRow
<1>3. \A g \in Hosts \ {h} : db_lock[host[h].db] # g
  BY <1>1 DEF OwnershipInv, Owner, LocksOf, HoldsDb
<1>4. /\ file' \in [Databases -> Files] /\ NoneMigrated'
      /\ \A d \in Databases : d # host[h].db => file'[d] = file[d]
      /\ file'[host[h].db] = "ready"
  <2>1. file[host[h].db] \in {"blank", "ready"}
    BY <1>1 DEF OwnershipInv, Owner, FileOf, At, HoldsStore
  <2>2. QED BY <1>2, <2>1, TypeFacts DEF VerifySubject, NoneMigrated, Files
<1>6. UNCHANGED <<socket_lock, db_lock, path>>
  BY DEF VerifySubject
<1>7. /\ \A g \in Hosts \ {h}, d \in Databases : db_lock[d] = g => db_lock'[d] = g /\ file'[d] = file[d]
      /\ NoneMigrated'
  BY <1>3, <1>4, <1>6, TypeFacts DEF NoneMigrated
<1>8. Owner(h)'
  <2>1. PathOf(h) /\ LocksOf(h) /\ FileOf(h)
    BY DEF OwnershipInv, Owner
  <2>2. LocksOf(h)'
    BY <1>1, <1>2, <1>6, <2>1 DEF LocksOf, HoldsSocket, HoldsDb
  <2>3. PathOf(h)'
    BY <1>1, <1>2, <1>3, <1>4, <1>6, <2>1 DEF PathOf, HoldsPath
  <2>4. FileOf(h)'
    BY <1>1, <1>2, <1>3, <1>4, <1>6, <2>1 DEF FileOf, At, HoldsStore
  <2>5. QED BY <2>2, <2>3, <2>4 DEF Owner
<1>9. QED BY <1>2, <1>3, <1>4, <1>6, <1>7, <1>8, TypeFacts, StepKeepsOthers

\* Looking at the socket changes nothing.
LEMMA CheckSocketInv ==
    ASSUME OwnershipInv, NEW h \in Hosts, CheckSocket(h)
    PROVE  OwnershipInv'
<1>1. PICK at \in {"clear", "stale"} : Goto(h, at)
  BY DEF CheckSocket
<1> DEFINE r == Moved(h, at)
<1>2. at \in Stages /\ host[h].at = "verified"
  BY DEF CheckSocket, Stages, HoldsSocket, HoldsDb, At
<1>3. /\ r \in HostRow /\ Placed(r) /\ host' = [host EXCEPT ![h] = r]
      /\ host'[h].at = at /\ host'[h].socket = host[h].socket
      /\ host'[h].db = host[h].db /\ host'[h].create = host[h].create
      /\ host[h].socket \in Sockets /\ host[h].db \in Databases
  BY <1>1, <1>2, GotoRow
<1>4. Owner(h)'
  <2>1. PathOf(h) /\ LocksOf(h) /\ FileOf(h)
    BY DEF OwnershipInv, Owner
  <2>2. QED BY <1>1, <1>2, <1>3, <2>1 DEF CheckSocket, Owner, LocksOf, PathOf, FileOf,
                             At, HoldsSocket, HoldsDb, HoldsStore, HoldsPath
<1>5. QED BY <1>3, <1>4, TypeFacts, StepKeepsOthers DEF CheckSocket, NoneMigrated

\* The path it removes is nobody else's: their sockets are locked by others.
LEMMA RemoveStaleInv ==
    ASSUME OwnershipInv, NEW h \in Hosts, RemoveStale(h)
    PROVE  OwnershipInv'
<1> DEFINE at == "clear"
           r == Moved(h, at)
<1>1. Goto(h, at) /\ at \in Stages /\ host[h].at = "stale"
  BY DEF RemoveStale, Stages, HoldsSocket, HoldsDb, At
<1>2. /\ r \in HostRow /\ Placed(r) /\ host' = [host EXCEPT ![h] = r]
      /\ host'[h].at = at /\ host'[h].socket = host[h].socket
      /\ host'[h].db = host[h].db /\ host'[h].create = host[h].create
      /\ host[h].socket \in Sockets /\ host[h].db \in Databases
  BY <1>1, GotoRow
<1>3. \A g \in Hosts \ {h} : path[host[h].socket] # g
  <2>1. socket_lock[host[h].socket] = h
    BY <1>1 DEF OwnershipInv, Owner, LocksOf, HoldsSocket, HoldsDb
  <2>2. QED BY <1>2, <2>1 DEF OwnershipInv, Owner, LocksOf, PathOf, HoldsSocket, HoldsDb, HoldsPath
<1>4. /\ path' \in [Sockets -> Hosts \cup {Nobody, Stale}]
      /\ path'[host[h].socket] = Nobody
      /\ \A s \in Sockets : s # host[h].socket => path'[s] = path[s]
  BY <1>2, TypeFacts DEF RemoveStale
<1>5. \A g \in Hosts \ {h}, s \in Sockets : path[s] = g <=> path'[s] = g
  BY <1>3, <1>4, OwnershipAssumption
<1>6. UNCHANGED <<socket_lock, db_lock, file>>
  BY DEF RemoveStale
<1>7. /\ \A g \in Hosts \ {h}, d \in Databases : db_lock[d] = g => db_lock'[d] = g /\ file'[d] = file[d]
      /\ NoneMigrated'
  BY <1>3, <1>4, <1>5, OwnershipAssumption, <1>6, TypeFacts DEF NoneMigrated
<1>8. Owner(h)'
  <2>1. PathOf(h) /\ LocksOf(h) /\ FileOf(h)
    BY DEF OwnershipInv, Owner
  <2>2. LocksOf(h)'
    BY <1>1, <1>2, <1>6, <2>1 DEF LocksOf, HoldsSocket, HoldsDb
  <2>3. PathOf(h)'
    BY <1>1, <1>2, <1>3, <1>4, <1>5, OwnershipAssumption, <1>6, <2>1 DEF PathOf, HoldsPath
  <2>4. FileOf(h)'
    BY <1>1, <1>2, <1>3, <1>4, <1>5, OwnershipAssumption, <1>6, <2>1 DEF FileOf, At, HoldsStore
  <2>5. QED BY <2>2, <2>3, <2>4 DEF Owner
<1>9. QED BY <1>2, <1>3, <1>4, <1>5, OwnershipAssumption, <1>6, <1>7, <1>8, TypeFacts, StepKeepsOthers

\* The path names the new listener.
LEMMA BindInv ==
    ASSUME OwnershipInv, NEW h \in Hosts, Bind(h)
    PROVE  OwnershipInv'
<1> DEFINE at == "bound"
           r == Moved(h, at)
<1>1. Goto(h, at) /\ at \in Stages /\ host[h].at = "clear"
  BY DEF Bind, Stages, HoldsSocket, HoldsDb, At
<1>2. /\ r \in HostRow /\ Placed(r) /\ host' = [host EXCEPT ![h] = r]
      /\ host'[h].at = at /\ host'[h].socket = host[h].socket
      /\ host'[h].db = host[h].db /\ host'[h].create = host[h].create
      /\ host[h].socket \in Sockets /\ host[h].db \in Databases
  BY <1>1, GotoRow
<1>3. \A g \in Hosts \ {h} : path[host[h].socket] # g
  <2>1. socket_lock[host[h].socket] = h
    BY <1>1 DEF OwnershipInv, Owner, LocksOf, HoldsSocket, HoldsDb
  <2>2. QED BY <1>2, <2>1 DEF OwnershipInv, Owner, LocksOf, PathOf, HoldsSocket, HoldsDb, HoldsPath
<1>4. /\ path' \in [Sockets -> Hosts \cup {Nobody, Stale}]
      /\ path'[host[h].socket] = h
      /\ \A s \in Sockets : s # host[h].socket => path'[s] = path[s]
  BY <1>2, TypeFacts DEF Bind
<1>5. \A g \in Hosts \ {h}, s \in Sockets : path[s] = g <=> path'[s] = g
  BY <1>3, <1>4, OwnershipAssumption
<1>6. UNCHANGED <<socket_lock, db_lock, file>>
  BY DEF Bind
<1>7. /\ \A g \in Hosts \ {h}, d \in Databases : db_lock[d] = g => db_lock'[d] = g /\ file'[d] = file[d]
      /\ NoneMigrated'
  BY <1>3, <1>4, <1>5, OwnershipAssumption, <1>6, TypeFacts DEF NoneMigrated
<1>8. Owner(h)'
  <2>1. PathOf(h) /\ LocksOf(h) /\ FileOf(h)
    BY DEF OwnershipInv, Owner
  <2>2. LocksOf(h)'
    BY <1>1, <1>2, <1>6, <2>1 DEF LocksOf, HoldsSocket, HoldsDb
  <2>3. PathOf(h)'
    BY <1>1, <1>2, <1>3, <1>4, <1>5, OwnershipAssumption, <1>6, <2>1 DEF PathOf, HoldsPath
  <2>4. FileOf(h)'
    BY <1>1, <1>2, <1>3, <1>4, <1>5, OwnershipAssumption, <1>6, <2>1 DEF FileOf, At, HoldsStore
  <2>5. QED BY <2>2, <2>3, <2>4 DEF Owner
<1>9. QED BY <1>2, <1>3, <1>4, <1>5, OwnershipAssumption, <1>6, <1>7, <1>8, TypeFacts, StepKeepsOthers

\* Nothing changes but the stage.
LEMMA ListenInv ==
    ASSUME OwnershipInv, NEW h \in Hosts, Listen(h)
    PROVE  OwnershipInv'
<1> DEFINE at == "serving"
           r == Moved(h, at)
<1>1. Goto(h, at) /\ at \in Stages /\ host[h].at = "bound"
  BY DEF Listen, Stages, HoldsSocket, HoldsDb, At
<1>2. /\ r \in HostRow /\ Placed(r) /\ host' = [host EXCEPT ![h] = r]
      /\ host'[h].at = at /\ host'[h].socket = host[h].socket
      /\ host'[h].db = host[h].db /\ host'[h].create = host[h].create
      /\ host[h].socket \in Sockets /\ host[h].db \in Databases
  BY <1>1, GotoRow
<1>6. UNCHANGED <<socket_lock, db_lock, path, file>>
  BY DEF Listen
<1>7. /\ \A g \in Hosts \ {h}, d \in Databases : db_lock[d] = g => db_lock'[d] = g /\ file'[d] = file[d]
      /\ NoneMigrated'
  BY <1>6, TypeFacts DEF NoneMigrated
<1>8. Owner(h)'
  <2>1. PathOf(h) /\ LocksOf(h) /\ FileOf(h)
    BY DEF OwnershipInv, Owner
  <2>2. LocksOf(h)'
    BY <1>1, <1>2, <1>6, <2>1 DEF LocksOf, HoldsSocket, HoldsDb
  <2>3. PathOf(h)'
    BY <1>1, <1>2, <1>6, <2>1 DEF PathOf, HoldsPath
  <2>4. FileOf(h)'
    BY <1>1, <1>2, <1>6, <2>1 DEF FileOf, At, HoldsStore
  <2>5. QED BY <2>2, <2>3, <2>4 DEF Owner
<1>9. QED BY <1>2, <1>6, <1>7, <1>8, TypeFacts, StepKeepsOthers

\* A stopping process keeps its path.
LEMMA StopInv ==
    ASSUME OwnershipInv, NEW h \in Hosts, Stop(h)
    PROVE  OwnershipInv'
<1> DEFINE at == "stopping"
           r == Moved(h, at)
<1>1. Goto(h, at) /\ at \in Stages /\ host[h].at = "serving"
  BY DEF Stop, Stages, HoldsSocket, HoldsDb, At
<1>2. /\ r \in HostRow /\ Placed(r) /\ host' = [host EXCEPT ![h] = r]
      /\ host'[h].at = at /\ host'[h].socket = host[h].socket
      /\ host'[h].db = host[h].db /\ host'[h].create = host[h].create
      /\ host[h].socket \in Sockets /\ host[h].db \in Databases
  BY <1>1, GotoRow
<1>6. UNCHANGED <<socket_lock, db_lock, path, file>>
  BY DEF Stop
<1>7. /\ \A g \in Hosts \ {h}, d \in Databases : db_lock[d] = g => db_lock'[d] = g /\ file'[d] = file[d]
      /\ NoneMigrated'
  BY <1>6, TypeFacts DEF NoneMigrated
<1>8. Owner(h)'
  <2>1. PathOf(h) /\ LocksOf(h) /\ FileOf(h)
    BY DEF OwnershipInv, Owner
  <2>2. LocksOf(h)'
    BY <1>1, <1>2, <1>6, <2>1 DEF LocksOf, HoldsSocket, HoldsDb
  <2>3. PathOf(h)'
    BY <1>1, <1>2, <1>6, <2>1 DEF PathOf, HoldsPath
  <2>4. FileOf(h)'
    BY <1>1, <1>2, <1>6, <2>1 DEF FileOf, At, HoldsStore
  <2>5. QED BY <2>2, <2>3, <2>4 DEF Owner
<1>9. QED BY <1>2, <1>6, <1>7, <1>8, TypeFacts, StepKeepsOthers

\* The path is removed while the socket is still locked.
LEMMA UnlinkInv ==
    ASSUME OwnershipInv, NEW h \in Hosts, Unlink(h)
    PROVE  OwnershipInv'
<1> DEFINE at == "unlinked"
           r == Moved(h, at)
<1>1. Goto(h, at) /\ at \in Stages /\ host[h].at = "stopping"
  BY DEF Unlink, Stages, HoldsSocket, HoldsDb, At
<1>2. /\ r \in HostRow /\ Placed(r) /\ host' = [host EXCEPT ![h] = r]
      /\ host'[h].at = at /\ host'[h].socket = host[h].socket
      /\ host'[h].db = host[h].db /\ host'[h].create = host[h].create
      /\ host[h].socket \in Sockets /\ host[h].db \in Databases
  BY <1>1, GotoRow
<1>3. \A g \in Hosts \ {h} : path[host[h].socket] # g
  <2>1. socket_lock[host[h].socket] = h
    BY <1>1 DEF OwnershipInv, Owner, LocksOf, HoldsSocket, HoldsDb
  <2>2. QED BY <1>2, <2>1 DEF OwnershipInv, Owner, LocksOf, PathOf, HoldsSocket, HoldsDb, HoldsPath
<1>4. /\ path' \in [Sockets -> Hosts \cup {Nobody, Stale}]
      /\ path'[host[h].socket] = Nobody
      /\ \A s \in Sockets : s # host[h].socket => path'[s] = path[s]
  BY <1>2, TypeFacts DEF Unlink
<1>5. \A g \in Hosts \ {h}, s \in Sockets : path[s] = g <=> path'[s] = g
  BY <1>3, <1>4, OwnershipAssumption
<1>6. UNCHANGED <<socket_lock, db_lock, file>>
  BY DEF Unlink
<1>7. /\ \A g \in Hosts \ {h}, d \in Databases : db_lock[d] = g => db_lock'[d] = g /\ file'[d] = file[d]
      /\ NoneMigrated'
  BY <1>3, <1>4, <1>5, OwnershipAssumption, <1>6, TypeFacts DEF NoneMigrated
<1>8. Owner(h)'
  <2>1. PathOf(h) /\ LocksOf(h) /\ FileOf(h)
    BY DEF OwnershipInv, Owner
  <2>2. LocksOf(h)'
    BY <1>1, <1>2, <1>6, <2>1 DEF LocksOf, HoldsSocket, HoldsDb
  <2>3. PathOf(h)'
    BY <1>1, <1>2, <1>3, <1>4, <1>5, OwnershipAssumption, <1>6, <2>1 DEF PathOf, HoldsPath
  <2>4. FileOf(h)'
    BY <1>1, <1>2, <1>3, <1>4, <1>5, OwnershipAssumption, <1>6, <2>1 DEF FileOf, At, HoldsStore
  <2>5. QED BY <2>2, <2>3, <2>4 DEF Owner
<1>9. QED BY <1>2, <1>3, <1>4, <1>5, OwnershipAssumption, <1>6, <1>7, <1>8, TypeFacts, StepKeepsOthers

\* A closed listener is named by no path.
LEMMA CloseInv ==
    ASSUME OwnershipInv, NEW h \in Hosts, Close(h)
    PROVE  OwnershipInv'
<1> DEFINE at == "closed"
           r == Moved(h, at)
<1>1. Goto(h, at) /\ at \in Stages /\ host[h].at = "unlinked"
  BY DEF Close, Stages, HoldsSocket, HoldsDb, At
<1>2. /\ r \in HostRow /\ Placed(r) /\ host' = [host EXCEPT ![h] = r]
      /\ host'[h].at = at /\ host'[h].socket = host[h].socket
      /\ host'[h].db = host[h].db /\ host'[h].create = host[h].create
      /\ host[h].socket \in Sockets /\ host[h].db \in Databases
  BY <1>1, GotoRow
<1>3. /\ path' \in [Sockets -> Hosts \cup {Nobody, Stale}]
      /\ \A s \in Sockets : path'[s] # h
      /\ \A g \in Hosts \ {h}, s \in Sockets : path[s] = g <=> path'[s] = g
  BY TypeFacts, OwnershipAssumption DEF Close, Orphaned
<1>6. UNCHANGED <<socket_lock, db_lock, file>>
  BY DEF Close
<1>7. /\ \A g \in Hosts \ {h}, d \in Databases : db_lock[d] = g => db_lock'[d] = g /\ file'[d] = file[d]
      /\ NoneMigrated'
  BY <1>3, <1>6, TypeFacts DEF NoneMigrated
<1>8. Owner(h)'
  <2>1. PathOf(h) /\ LocksOf(h) /\ FileOf(h)
    BY DEF OwnershipInv, Owner
  <2>2. LocksOf(h)'
    BY <1>1, <1>2, <1>6, <2>1 DEF LocksOf, HoldsSocket, HoldsDb
  <2>3. PathOf(h)'
    BY <1>1, <1>2, <1>3, <1>6, <2>1 DEF PathOf, HoldsPath
  <2>4. FileOf(h)'
    BY <1>1, <1>2, <1>3, <1>6, <2>1 DEF FileOf, At, HoldsStore
  <2>5. QED BY <2>2, <2>3, <2>4 DEF Owner
<1>9. QED BY <1>2, <1>3, <1>6, <1>7, <1>8, TypeFacts, StepKeepsOthers

\* Only its own lock is released.
LEMMA ReleaseDatabaseInv ==
    ASSUME OwnershipInv, NEW h \in Hosts, ReleaseDatabase(h)
    PROVE  OwnershipInv'
<1> DEFINE at == "released"
           r == Moved(h, at)
<1>1. Goto(h, at) /\ at \in Stages /\ host[h].at = "closed"
  BY DEF ReleaseDatabase, Stages, HoldsSocket, HoldsDb, At
<1>2. /\ r \in HostRow /\ Placed(r) /\ host' = [host EXCEPT ![h] = r]
      /\ host'[h].at = at /\ host'[h].socket = host[h].socket
      /\ host'[h].db = host[h].db /\ host'[h].create = host[h].create
      /\ host[h].socket \in Sockets /\ host[h].db \in Databases
  BY <1>1, GotoRow
<1>3. /\ db_lock' \in [Databases -> Hosts \cup {Nobody}]
      /\ \A g \in Hosts \ {h}, d \in Databases : db_lock[d] = g => db_lock'[d] = g
  <2>1. db_lock[host[h].db] = h
    BY <1>1 DEF OwnershipInv, Owner, LocksOf, HoldsDb
  <2>2. QED BY <1>2, <2>1, TypeFacts DEF ReleaseDatabase
<1>6. UNCHANGED <<socket_lock, path, file>>
  BY DEF ReleaseDatabase
<1>7. /\ \A g \in Hosts \ {h}, d \in Databases : db_lock[d] = g => db_lock'[d] = g /\ file'[d] = file[d]
      /\ NoneMigrated'
  BY <1>3, <1>6, TypeFacts DEF NoneMigrated
<1>8. Owner(h)'
  <2>1. PathOf(h) /\ LocksOf(h) /\ FileOf(h)
    BY DEF OwnershipInv, Owner
  <2>2. LocksOf(h)'
    BY <1>1, <1>2, <1>6, <2>1 DEF LocksOf, HoldsSocket, HoldsDb
  <2>3. PathOf(h)'
    BY <1>1, <1>2, <1>3, <1>6, <2>1 DEF PathOf, HoldsPath
  <2>4. FileOf(h)'
    BY <1>1, <1>2, <1>3, <1>6, <2>1 DEF FileOf, At, HoldsStore
  <2>5. QED BY <2>2, <2>3, <2>4 DEF Owner
<1>9. QED BY <1>2, <1>3, <1>6, <1>7, <1>8, TypeFacts, StepKeepsOthers

\* An ended process has nothing.
LEMMA EndedOwns ==
    ASSUME NEW h \in Hosts, host'[h].at = "ended", \A s \in Sockets : path'[s] # h
    PROVE  Owner(h)'
BY DEF Owner, LocksOf, PathOf, FileOf, At, HoldsSocket, HoldsDb, HoldsStore, HoldsPath

\* The row of an ended process.
LEMMA EndedRow == Ended \in HostRow /\ Placed(Ended) /\ Ended.at = "ended"
BY DEF Ended, HostRow, Placed

\* The socket's lock is the last thing a process gives up.
LEMMA ReleaseSocketInv ==
    ASSUME OwnershipInv, NEW h \in Hosts, ReleaseSocket(h)
    PROVE  OwnershipInv'
<1>1. host' = [host EXCEPT ![h] = Ended] /\ host'[h] = Ended /\ host[h].at = "released"
  BY DEF ReleaseSocket, OwnershipInv, OwnershipTypeOK, At
<1>2. \A s \in Sockets : path[s] # h
  BY <1>1 DEF OwnershipInv, Owner, PathOf, HoldsPath
<1>3. Owner(h)'
  BY <1>1, <1>2, EndedRow, EndedOwns DEF ReleaseSocket
<1>4. /\ socket_lock' \in [Sockets -> Hosts \cup {Nobody}]
      /\ \A g \in Hosts \ {h}, s \in Sockets : socket_lock[s] = g => socket_lock'[s] = g
  <2>1. socket_lock[host[h].socket] = h /\ host[h].socket \in Sockets
    BY <1>1 DEF OwnershipInv, OwnershipTypeOK, At, Owner, LocksOf, HoldsSocket
  <2>2. QED BY <2>1, TypeFacts DEF ReleaseSocket
<1>5. UNCHANGED <<db_lock, path, file>>
  BY DEF ReleaseSocket
<1>6. QED BY <1>1, <1>3, <1>4, <1>5, EndedRow, TypeFacts, StepKeepsOthers DEF NoneMigrated

\* What closing the descriptors of h does to the paths.
LEMMA OrphanedPaths ==
    ASSUME OwnershipInv, NEW h \in Hosts, path' = Orphaned(h)
    PROVE  /\ path' \in [Sockets -> Hosts \cup {Nobody, Stale}]
           /\ \A s \in Sockets : path'[s] # h
           /\ \A g \in Hosts \ {h}, s \in Sockets : path[s] = g <=> path'[s] = g
BY TypeFacts, OwnershipAssumption DEF Orphaned

\* A failed require leaves the process with the locks it had, on its way out.
LEMMA ThrowInv ==
    ASSUME OwnershipInv, NEW h \in Hosts, Throw(h)
    PROVE  OwnershipInv'
<1> DEFINE r == host'[h]
<1>1. host \in [Hosts -> HostRow] /\ host[h] \in HostRow /\ host[h].at # "ended"
  BY DEF OwnershipInv, OwnershipTypeOK, Throw
<1>2. host' = [host EXCEPT ![h] = r]
  BY <1>1 DEF Throw
<1>3. \/ r = Ended
      \/ r = Moved(h, "released") /\ host[h].at = "socket locked"
      \/ r = Moved(h, "closed") /\ host[h].at \in HoldsDb
  BY <1>1 DEF Throw, Moved, HostRow, HoldsSocket, Listening
<1>4. r \in HostRow /\ Placed(r)
  <2>1. host[h].socket \in Sockets /\ host[h].db \in Databases
    BY <1>1 DEF OwnershipInv, OwnershipTypeOK, At
  <2>2. ASSUME NEW at \in {"released", "closed"}
        PROVE  /\ Moved(h, at) \in HostRow
               /\ Moved(h, at).socket = host[h].socket /\ Moved(h, at).db = host[h].db
    BY <1>1 DEF Moved, HostRow, HoldsSocket, HoldsDb
  <2>3. QED BY <1>3, <2>1, <2>2, EndedRow DEF Placed
<1>5. UNCHANGED <<socket_lock, db_lock, file>> /\ path' = Orphaned(h)
  BY DEF Throw
<1>6. Owner(h)'
  <2>1. LocksOf(h)
    BY DEF OwnershipInv, Owner
  <2>2. LocksOf(h)'
    BY <1>1, <1>3, <1>5, <2>1, EndedRow DEF LocksOf, Moved, HostRow, HoldsSocket, HoldsDb
  <2>3. r.at \in {"ended", "released", "closed"}
    BY <1>1, <1>3, EndedRow DEF Moved, HostRow
  <2>4. PathOf(h)' /\ FileOf(h)'
    BY <1>5, <2>3, OrphanedPaths DEF PathOf, FileOf, At, HoldsPath, HoldsStore
  <2>5. QED BY <2>2, <2>4 DEF Owner
<1>7. QED BY <1>2, <1>4, <1>5, <1>6, OrphanedPaths, TypeFacts, StepKeepsOthers DEF NoneMigrated

\* A killed process gives up exactly what was its own.
LEMMA KillInv ==
    ASSUME OwnershipInv, NEW h \in Hosts, Kill(h)
    PROVE  OwnershipInv'
<1>1. host' = [host EXCEPT ![h] = Ended] /\ host'[h] = Ended
  BY DEF Kill, OwnershipInv, OwnershipTypeOK
<1>2. path' = Orphaned(h) /\ UNCHANGED file
  BY DEF Kill
<1>3. Owner(h)'
  BY <1>1, <1>2, EndedRow, EndedOwns, OrphanedPaths
<1>4. /\ socket_lock' \in [Sockets -> Hosts \cup {Nobody}]
      /\ db_lock' \in [Databases -> Hosts \cup {Nobody}]
      /\ \A g \in Hosts \ {h}, s \in Sockets : socket_lock[s] = g => socket_lock'[s] = g
      /\ \A g \in Hosts \ {h}, d \in Databases : db_lock[d] = g => db_lock'[d] = g
  BY TypeFacts DEF Kill
<1>5. QED BY <1>1, <1>2, <1>3, <1>4, EndedRow, OrphanedPaths, TypeFacts, StepKeepsOthers
          DEF NoneMigrated

-----------------------------------------------------------------------------
(* The theorems.                                                           *)

\* Every step of every process preserves the invariant.
LEMMA OwnershipNextInv ==
    ASSUME OwnershipInv, [OwnershipNext]_ownershipVars
    PROVE  OwnershipInv'
<1>1. CASE UNCHANGED ownershipVars
  BY <1>1 DEF ownershipVars, OwnershipInv, OwnershipTypeOK, NoneMigrated, Owner, LocksOf, PathOf,
              FileOf, At
<1>2. CASE OwnershipNext
  <2>1. PICK h \in Hosts :
            \/ \E c \in Configs : Launch(h, c)
            \/ LockSocket(h) \/ LockDatabase(h) \/ CheckDatabase(h) \/ OpenStore(h)
            \/ VerifySubject(h) \/ CheckSocket(h) \/ RemoveStale(h) \/ Bind(h) \/ Listen(h)
            \/ Stop(h) \/ Unlink(h) \/ Close(h) \/ ReleaseDatabase(h) \/ ReleaseSocket(h)
            \/ Throw(h) \/ Kill(h)
    BY <1>2 DEF OwnershipNext
  <2>2. QED BY <2>1, LaunchInv, LockSocketInv, LockDatabaseInv, CheckDatabaseInv, OpenStoreInv,
               VerifySubjectInv, CheckSocketInv, RemoveStaleInv, BindInv, ListenInv, StopInv,
               UnlinkInv, CloseInv, ReleaseDatabaseInv, ReleaseSocketInv, ThrowInv, KillInv
<1>3. QED BY <1>1, <1>2

\* The locks and paths always belong to the processes whose stage says so.
LEMMA OwnershipInvariant == OwnershipSpec => []OwnershipInv
<1>1. OwnershipInv /\ [OwnershipNext]_ownershipVars => OwnershipInv'
  BY OwnershipNextInv
<1>2. QED BY OwnershipInitInv, <1>1, PTL DEF OwnershipSpec

\* Whatever holds of the locks makes the owners exclusive.
LEMMA InvExcludes == OwnershipInv => OwnersAreExclusive
<1> SUFFICES ASSUME OwnershipInv PROVE OwnersAreExclusive
  OBVIOUS
<1>1. HoldsStore \subseteq HoldsDb /\ "serving" \in HoldsPath /\ "serving" \in HoldsStore \ {"opened"}
  BY DEF HoldsStore, HoldsDb, HoldsPath
<1>2. ASSUME NEW g \in Hosts, NEW h \in Hosts, host[g].at \in HoldsStore, host[h].at \in HoldsStore,
             host[g].db = host[h].db
      PROVE  g = h
  BY <1>1, <1>2 DEF OwnershipInv, Owner, LocksOf
<1>3. ASSUME NEW h \in Hosts, At(h, "serving")
      PROVE  path[host[h].socket] = h /\ file[host[h].db] = "ready"
  BY <1>1, <1>3 DEF OwnershipInv, Owner, PathOf, FileOf, At
<1>4. QED BY <1>2, <1>3 DEF OwnersAreExclusive, OwnershipInv, NoneMigrated

\* Two hosts never have one database open, a serving host is the one its socket
\* path leads to, and no host migrates a database: for any number of processes
\* and any interleaving of starts, failures, stops and kills.
THEOREM OwnershipIsExclusive == OwnershipSpec => []OwnersAreExclusive
BY OwnershipInvariant, InvExcludes, PTL

-----------------------------------------------------------------------------
(* The refinement.                                                         *)

\* Whether a process serves the socket s.
Serves(h, s) == host[h].at = "serving" /\ host[h].socket = s

\* What a client meets is decided by who serves, and nobody else does.
ServedInv ==
    /\ \A s \in Sockets :
          /\ \A h \in Hosts : Serves(h, s) => served[s] = host[h].db
          /\ (\A h \in Hosts : ~Serves(h, s)) => served[s] = Nobody
    /\ \A g, h \in Hosts : g # h /\ host[g].at \in HoldsDb /\ host[h].at \in HoldsDb =>
          host[g].socket # host[h].socket /\ host[g].db # host[h].db
    /\ \A h \in Hosts : host[h].at \in HoldsDb => host[h].socket \in Sockets /\ host[h].db \in Databases

\* This follows from the locks.
LEMMA ServedIsExclusive == OwnershipInv => ServedInv
<1> SUFFICES ASSUME OwnershipInv PROVE ServedInv
  OBVIOUS
<1>1. ASSUME NEW s \in Sockets, NEW h \in Hosts, Serves(h, s)
      PROVE  served[s] = host[h].db
  <2>1. path[s] = h
    BY <1>1 DEF OwnershipInv, Owner, PathOf, HoldsPath, Serves
  <2>2. QED BY <1>1, <2>1 DEF served, Serves, At
<1>2. ASSUME NEW s \in Sockets, \A h \in Hosts : ~Serves(h, s)
      PROVE  served[s] = Nobody
  <2>1. path[s] \in Hosts => host[path[s]].socket = s
    BY DEF OwnershipInv, Owner, PathOf
  <2>2. QED BY <1>2, <2>1 DEF served, Serves, At
<1>3. ASSUME NEW g \in Hosts, NEW h \in Hosts, g # h, host[g].at \in HoldsDb, host[h].at \in HoldsDb
      PROVE  host[g].socket # host[h].socket /\ host[g].db # host[h].db
  BY <1>3 DEF OwnershipInv, Owner, LocksOf, HoldsSocket
<1>4. ASSUME NEW h \in Hosts, host[h].at \in HoldsDb
      PROVE  host[h].socket \in Sockets /\ host[h].db \in Databases
  BY <1>4 DEF OwnershipInv, OwnershipTypeOK, At, HoldsDb
<1>5. QED BY <1>1, <1>2, <1>3, <1>4 DEF ServedInv

\* served is a function of the sockets, before and after a step.
LEMMA ServedEqual ==
    ASSUME NEW f, f = [s \in Sockets |-> f[s]], \A s \in Sockets : served'[s] = f[s]
    PROVE  served' = f
BY DEF served

\* A step that changes neither who serves nor where is invisible to clients.
LEMMA ServedUnchanged ==
    ASSUME ServedInv, ServedInv', \A h \in Hosts : host[h].at = "serving" <=> host'[h].at = "serving",
           \A h \in Hosts : host[h].at = "serving" => host'[h].socket = host[h].socket /\ host'[h].db = host[h].db
    PROVE  served' = served
<1>1. ASSUME NEW s \in Sockets PROVE served'[s] = served[s]
  <2>1. CASE \E h \in Hosts : Serves(h, s)
    BY <2>1 DEF ServedInv, Serves
  <2>2. CASE \A h \in Hosts : ~Serves(h, s)
    BY <2>2 DEF ServedInv, Serves
  <2>3. QED BY <2>1, <2>2
<1>2. served = [s \in Sockets |-> served[s]]
  BY DEF served
<1>3. QED BY <1>1, <1>2, ServedEqual

\* A process that begins to serve finds its path and its database free.
LEMMA BeginsServing ==
    ASSUME ServedInv, ServedInv', NEW h \in Hosts, host[h].at = "bound", host'[h].at = "serving",
           \A g \in Hosts \ {h} : host'[g] = host[g],
           host'[h].socket = host[h].socket, host'[h].db = host[h].db
    PROVE  Abstract!Up(host[h].socket, host[h].db)
<1> DEFINE s == host[h].socket
           d == host[h].db
<1>1. s \in Sockets /\ d \in Databases
  BY DEF ServedInv, HoldsDb
<1>2. \A g \in Hosts : host[g].at = "serving" => host[g].socket # s /\ host[g].db # d
  BY DEF ServedInv, HoldsDb
<1>3. served[s] = Nobody
  BY <1>1, <1>2 DEF ServedInv, Serves
<1>4. ASSUME NEW t \in Sockets PROVE served[t] # d
  <2>1. CASE \E g \in Hosts : Serves(g, t)
    BY <1>2, <2>1 DEF ServedInv, Serves
  <2>2. CASE \A g \in Hosts : ~Serves(g, t)
    BY <1>1, <2>2, OwnershipAssumption DEF ServedInv
  <2>3. QED BY <2>1, <2>2
<1>5. ASSUME NEW t \in Sockets PROVE served'[t] = IF t = s THEN d ELSE served[t]
  <2>1. CASE t = s
    BY <1>1, <2>1 DEF ServedInv, Serves
  <2>2. CASE t # s /\ \E g \in Hosts : Serves(g, t)
    BY <2>2 DEF ServedInv, Serves
  <2>3. CASE t # s /\ \A g \in Hosts : ~Serves(g, t)
    <3>1. \A g \in Hosts : ~Serves(g, t)'
      BY <2>3 DEF Serves
    <3>2. QED BY <2>3, <3>1 DEF ServedInv
  <2>4. QED BY <2>1, <2>2, <2>3
<1>6. served' = [served EXCEPT ![s] = d]
  <2>1. [served EXCEPT ![s] = d] = [t \in Sockets |-> IF t = s THEN d ELSE served[t]]
    BY DEF served
  <2>2. served' = [t \in Sockets |-> served'[t]]
    BY DEF served
  <2>3. served' = [t \in Sockets |-> IF t = s THEN d ELSE served[t]]
    BY <1>5, <2>2
  <2>4. QED BY <2>1, <2>3
<1>7. QED BY <1>3, <1>4, <1>6 DEF Abstract!Up

\* A process that stops serving leaves its path without an answer.
LEMMA EndsServing ==
    ASSUME ServedInv, ServedInv', NEW h \in Hosts, host[h].at = "serving", host'[h].at # "serving",
           \A g \in Hosts \ {h} : host'[g] = host[g]
    PROVE  Abstract!Down(host[h].socket) /\ host[h].socket \in Sockets
<1> DEFINE s == host[h].socket
<1>1. s \in Sockets /\ host[h].db \in Databases
  BY DEF ServedInv, HoldsDb
<1>2. served[s] # Nobody
  BY <1>1, OwnershipAssumption DEF ServedInv, Serves
<1>3. \A g \in Hosts \ {h} : host[g].at = "serving" => host[g].socket # s
  BY DEF ServedInv, HoldsDb
<1>4. ASSUME NEW t \in Sockets PROVE served'[t] = IF t = s THEN Nobody ELSE served[t]
  <2>1. CASE t = s
    <3>1. \A g \in Hosts : ~Serves(g, t)'
      BY <1>3, <2>1 DEF Serves
    <3>2. QED BY <2>1, <3>1 DEF ServedInv
  <2>2. CASE t # s /\ \E g \in Hosts : Serves(g, t)
    BY <2>2 DEF ServedInv, Serves
  <2>3. CASE t # s /\ \A g \in Hosts : ~Serves(g, t)
    <3>1. \A g \in Hosts : ~Serves(g, t)'
      BY <2>3 DEF Serves
    <3>2. QED BY <2>3, <3>1 DEF ServedInv
  <2>4. QED BY <2>1, <2>2, <2>3
<1>5. served' = [served EXCEPT ![s] = Nobody]
  <2>1. [served EXCEPT ![s] = Nobody] = [t \in Sockets |-> IF t = s THEN Nobody ELSE served[t]]
    BY DEF served
  <2>2. served' = [t \in Sockets |-> served'[t]]
    BY DEF served
  <2>3. served' = [t \in Sockets |-> IF t = s THEN Nobody ELSE served[t]]
    BY <1>4, <2>2
  <2>4. QED BY <2>1, <2>3
<1>6. QED BY <1>1, <1>2, <1>5 DEF Abstract!Down

\* Every step of a process is a step of the endpoint, or invisible to clients.
LEMMA StepRefines ==
    ASSUME OwnershipInv, ServedInv, ServedInv', [OwnershipNext]_ownershipVars
    PROVE  [Abstract!EndpointNext]_served
<1>1. CASE UNCHANGED ownershipVars
  BY <1>1 DEF ownershipVars, served, At
<1>2. ASSUME NEW h \in Hosts, Listen(h) PROVE Abstract!EndpointNext
  <2>1. /\ host \in [Hosts -> HostRow] /\ host[h].at = "bound"
        /\ host' = [host EXCEPT ![h].at = "serving"]
    BY <1>2 DEF Listen, Goto, At, OwnershipInv, OwnershipTypeOK
  <2>2. /\ host'[h].at = "serving" /\ host'[h].socket = host[h].socket /\ host'[h].db = host[h].db
        /\ \A g \in Hosts \ {h} : host'[g] = host[g]
    BY <2>1 DEF HostRow
  <2>3. host[h].socket \in Sockets /\ host[h].db \in Databases
    BY <2>1 DEF ServedInv, HoldsDb
  <2>4. QED BY <2>1, <2>2, <2>3, BeginsServing DEF Abstract!EndpointNext
<1>3. ASSUME NEW h \in Hosts, NEW r, host' = [host EXCEPT ![h] = r], r.at # "serving"
      PROVE  [Abstract!EndpointNext]_served
  <2>1. host'[h] = r /\ \A g \in Hosts \ {h} : host'[g] = host[g]
    BY <1>3 DEF OwnershipInv, OwnershipTypeOK
  <2>2. CASE host[h].at = "serving"
    BY <1>3, <2>1, <2>2, EndsServing DEF Abstract!EndpointNext
  <2>3. CASE host[h].at # "serving"
    BY <1>3, <2>1, <2>3, ServedUnchanged
  <2>4. QED BY <2>2, <2>3
<1>4. ASSUME NEW h \in Hosts, NEW at, at # "serving", Goto(h, at)
      PROVE  [Abstract!EndpointNext]_served
  <2>1. host' = [host EXCEPT ![h] = Moved(h, at)] /\ Moved(h, at).at = at
    BY <1>4 DEF Goto, Moved, OwnershipInv, OwnershipTypeOK, HostRow
  <2>2. QED BY <1>3, <1>4, <2>1
<1>5. ASSUME NEW h \in Hosts, Throw(h) PROVE [Abstract!EndpointNext]_served
  <2>1. host \in [Hosts -> HostRow] /\ host[h] \in HostRow
    BY DEF OwnershipInv, OwnershipTypeOK
  <2>2. host' = [host EXCEPT ![h] = host'[h]] /\ host'[h].at \in {"ended", "released", "closed"}
    BY <1>5, <2>1, EndedRow DEF Throw, HostRow
  <2>3. QED BY <1>3, <2>2
<1>6. ASSUME NEW h \in Hosts, NEW c \in Configs, Launch(h, c)
      PROVE  [Abstract!EndpointNext]_served
  <2> DEFINE r == [at |-> "launched", socket |-> c.socket, db |-> c.db, create |-> c.create]
  <2>1. host' = [host EXCEPT ![h] = r] /\ r.at # "serving"
    BY <1>6 DEF Launch
  <2>2. QED BY <1>3, <2>1
<1>7. ASSUME NEW h \in Hosts, ReleaseSocket(h) \/ Kill(h)
      PROVE  [Abstract!EndpointNext]_served
  BY <1>3, <1>7, EndedRow DEF ReleaseSocket, Kill
<1>8. CASE OwnershipNext
  <2>1. PICK h \in Hosts :
            \/ \E c \in Configs : Launch(h, c)
            \/ LockSocket(h) \/ LockDatabase(h) \/ CheckDatabase(h) \/ OpenStore(h)
            \/ VerifySubject(h) \/ CheckSocket(h) \/ RemoveStale(h) \/ Bind(h) \/ Listen(h)
            \/ Stop(h) \/ Unlink(h) \/ Close(h) \/ ReleaseDatabase(h) \/ ReleaseSocket(h)
            \/ Throw(h) \/ Kill(h)
    BY <1>8 DEF OwnershipNext
  <2>2. CASE \/ LockSocket(h) \/ LockDatabase(h) \/ CheckDatabase(h) \/ OpenStore(h)
             \/ VerifySubject(h) \/ CheckSocket(h) \/ RemoveStale(h) \/ Bind(h)
             \/ Stop(h) \/ Unlink(h) \/ Close(h) \/ ReleaseDatabase(h)
    <3>1. PICK at : at # "serving" /\ Goto(h, at)
      BY <2>2 DEF LockSocket, LockDatabase, CheckDatabase, OpenStore, VerifySubject, CheckSocket,
                  RemoveStale, Bind, Stop, Unlink, Close, ReleaseDatabase
    <3>2. QED BY <1>4, <3>1
  <2>3. QED BY <1>2, <1>5, <1>6, <1>7, <2>1, <2>2
<1>9. QED BY <1>1, <1>8

\* Nobody answers at first.
LEMMA InitRefines == OwnershipInit => Abstract!EndpointInit
<1> SUFFICES ASSUME OwnershipInit PROVE Abstract!EndpointInit
  OBVIOUS
<1>1. \A s \in Sockets : path[s] = Nobody
  BY DEF OwnershipInit
<1>2. QED BY <1>1, OwnershipAssumption DEF Abstract!EndpointInit, served

\* The processes implement what clients rely on: behind a socket path there is
\* at most one host, behind two paths never the same database, and a host is
\* replaced only after it has stopped answering.
THEOREM OwnershipImplementsEndpoint == OwnershipSpec => ImplementsEndpoint
<1>1. OwnershipInv /\ ServedInv /\ ServedInv' /\ [OwnershipNext]_ownershipVars
          => [Abstract!EndpointNext]_served
  BY StepRefines
<1>2. QED BY OwnershipInvariant, ServedIsExclusive, InitRefines, <1>1, PTL
          DEF OwnershipSpec, ImplementsEndpoint, Abstract!EndpointSpec
=============================================================================
