----------------------------- MODULE Ownership ------------------------------
(***************************************************************************)
(* Which cogg-host process owns a socket and a database: the startup and   *)
(* the shutdown of main in tools/tui/host.cpp, one step per system call    *)
(* whose order matters, and the kernel objects they touch.  A process is   *)
(* started for a socket path and a database path, and every require that   *)
(* fails unwinds it.  Any number of processes start, stop, fail and are    *)
(* killed, in any interleaving.                                            *)
(***************************************************************************)
EXTENDS Naturals, FiniteSets

CONSTANTS
    Hosts,      \* process ids; a process that has ended may be started again
    Sockets,    \* socket paths, as the file system resolves them
    Databases,  \* canonical database paths
    Configs,    \* command lines: [socket, db, create]
    Nobody,     \* no process: a free lock, or a path that does not exist
    Stale       \* a socket file whose listener is gone

ASSUME OwnershipAssumption ==
    /\ Configs \subseteq [socket : Sockets, db : Databases, create : BOOLEAN]
    /\ Nobody \notin Hosts \cup Databases /\ Stale \notin Hosts /\ Nobody # Stale

VARIABLES
    host,         \* host -> [at, socket, db, create]
    socket_lock,  \* socket -> the holder of flock(<socket>.lock)
    db_lock,      \* database -> the holder of flock(<db>.host.lock)
    path,         \* socket -> whose listener the socket file names
    file          \* database -> what its path holds

ownershipVars == <<host, socket_lock, db_lock, path, file>>

\* absent, a database without its subject, an older schema, a whole subject,
\* and an older database that was brought to schema 5
Files == {"absent", "blank", "old", "ready", "migrated"}

Ended == [at |-> "ended", socket |-> Nobody, db |-> Nobody, create |-> FALSE]

At(h, at) == host[h].at = at

Goto(h, at) == host' = [host EXCEPT ![h].at = at]

\* The processes that hold each lock, have the Store open, and accept calls.
HoldsDb == {"locked", "checked", "opened", "verified", "stale", "clear", "bound",
            "serving", "stopping", "unlinked", "closed"}
HoldsSocket == HoldsDb \cup {"socket locked", "released"}
HoldsStore == {"opened", "verified", "stale", "clear", "bound", "serving",
               "stopping", "unlinked"}
Listening == {"serving", "stopping", "unlinked"}

OwnershipInit ==
    /\ host = [h \in Hosts |-> Ended]
    /\ socket_lock = [s \in Sockets |-> Nobody]
    /\ db_lock = [d \in Databases |-> Nobody]
    /\ path = [s \in Sockets |-> Nobody]
    /\ file \in [Databases -> {"absent", "old"}]

-----------------------------------------------------------------------------
(* Startup.                                                                *)

\* options(): the database path is made canonical, the socket path absolute.
Launch(h, c) ==
    /\ At(h, "ended")
    /\ host' = [host EXCEPT ![h] =
                  [at |-> "launched", socket |-> c.socket, db |-> c.db, create |-> c.create]]
    /\ UNCHANGED <<socket_lock, db_lock, path, file>>

\* Mutant: the socket is not locked, only checked.
LockSocketUnheld(h) ==
    /\ At(h, "launched")
    /\ Goto(h, "socket locked")
    /\ UNCHANGED <<socket_lock, db_lock, path, file>>

\* flock(LOCK_EX | LOCK_NB) on <socket>.lock.
LockSocket(h) ==
    /\ At(h, "launched")
    /\ socket_lock[host[h].socket] = Nobody
    /\ socket_lock' = [socket_lock EXCEPT ![host[h].socket] = h]
    /\ Goto(h, "socket locked")
    /\ UNCHANGED <<db_lock, path, file>>

\* Mutant: the lock of the database belongs to the socket's directory, so that
\* hosts of different sockets do not meet.
LockDatabaseUnshared(h) ==
    /\ At(h, "socket locked")
    /\ Goto(h, "locked")
    /\ UNCHANGED <<socket_lock, db_lock, path, file>>

\* flock(LOCK_EX | LOCK_NB) on <db>.host.lock.
LockDatabase(h) ==
    /\ At(h, "socket locked")
    /\ db_lock[host[h].db] = Nobody
    /\ db_lock' = [db_lock EXCEPT ![host[h].db] = h]
    /\ Goto(h, "locked")
    /\ UNCHANGED <<socket_lock, path, file>>

\* current_database_only: --create exactly for a path that does not exist, and
\* an existing database has schema 5 already.
CheckDatabase(h) ==
    /\ At(h, "locked")
    /\ IF host[h].create THEN file[host[h].db] = "absent"
                         ELSE file[host[h].db] \notin {"absent", "old"}
    /\ Goto(h, "checked")
    /\ UNCHANGED <<socket_lock, db_lock, path, file>>

\* Store::Store: creates a missing file and brings an older schema to 5.
OpenStore(h) ==
    /\ At(h, "checked")
    /\ file' = [file EXCEPT ![host[h].db] =
                  CASE @ = "absent" -> "blank" [] @ = "old" -> "migrated" [] OTHER -> @]
    /\ Goto(h, "opened")
    /\ UNCHANGED <<socket_lock, db_lock, path>>

\* Store::create, which refuses an existing subject, and Store::verify, which
\* refuses a missing one.
VerifySubject(h) ==
    /\ At(h, "opened")
    /\ IF host[h].create THEN file[host[h].db] = "blank"
                         ELSE file[host[h].db] \in {"ready", "migrated"}
    /\ file' = [file EXCEPT ![host[h].db] = IF host[h].create THEN "ready" ELSE @]
    /\ Goto(h, "verified")
    /\ UNCHANGED <<socket_lock, db_lock, path>>

\* connect() is refused: a socket file is there, and nobody listens on it.  A
\* process between bind() and listen() is refused as well.
Refuses(s) == path[s] = Stale \/ \E g \in Hosts : path[s] = g /\ host[g].at \notin Listening

\* lstat and connect on the socket path.
CheckSocket(h) ==
    /\ At(h, "verified")
    /\ \/ path[host[h].socket] = Nobody /\ Goto(h, "clear")
       \/ Refuses(host[h].socket) /\ Goto(h, "stale")
    /\ UNCHANGED <<socket_lock, db_lock, path, file>>

\* unlink() of the path, whatever it names by now.
RemoveStale(h) ==
    /\ At(h, "stale")
    /\ path[host[h].socket] # Nobody
    /\ path' = [path EXCEPT ![host[h].socket] = Nobody]
    /\ Goto(h, "clear")
    /\ UNCHANGED <<socket_lock, db_lock, file>>

\* bind() fails on a path that exists.
Bind(h) ==
    /\ At(h, "clear")
    /\ path[host[h].socket] = Nobody
    /\ path' = [path EXCEPT ![host[h].socket] = h]
    /\ Goto(h, "bound")
    /\ UNCHANGED <<socket_lock, db_lock, file>>

\* listen(), chmod, the Unlink guard, the audit and the worker.
Listen(h) ==
    /\ At(h, "bound")
    /\ Goto(h, "serving")
    /\ UNCHANGED <<socket_lock, db_lock, path, file>>

-----------------------------------------------------------------------------
(* The end of a process.  The destructors run in the reverse order of the  *)
(* declarations: Unlink, listener, store, db_lock, socket_lock.            *)

\* SIGTERM ends the loop and joins the worker; so does a failed audit.
Stop(h) ==
    /\ At(h, "serving")
    /\ Goto(h, "stopping")
    /\ UNCHANGED <<socket_lock, db_lock, path, file>>

\* The path is removed by name.
Unlink(h) ==
    /\ At(h, "stopping")
    /\ path' = [path EXCEPT ![host[h].socket] = Nobody]
    /\ Goto(h, "unlinked")
    /\ UNCHANGED <<socket_lock, db_lock, file>>

\* The descriptors of h are closed: a path that still names its listener
\* names a dead one.
Orphaned(h) == [s \in Sockets |-> IF path[s] = h THEN Stale ELSE path[s]]

Close(h) ==
    /\ At(h, "unlinked")
    /\ path' = Orphaned(h)
    /\ Goto(h, "closed")
    /\ UNCHANGED <<socket_lock, db_lock, file>>

ReleaseDatabase(h) ==
    /\ At(h, "closed")
    /\ db_lock' = [db_lock EXCEPT ![host[h].db] = Nobody]
    /\ Goto(h, "released")
    /\ UNCHANGED <<socket_lock, path, file>>

ReleaseSocket(h) ==
    /\ At(h, "released")
    /\ socket_lock' = [socket_lock EXCEPT ![host[h].socket] = Nobody]
    /\ host' = [host EXCEPT ![h] = Ended]
    /\ UNCHANGED <<db_lock, path, file>>

\* A failed require, for the reason a guard above gives or for one the model
\* leaves out (a missing executor, an I/O error), unwinds what was acquired.
\* Before the Unlink guard exists a bound path is left behind.
Throw(h) ==
    /\ host[h].at \notin Listening \cup {"ended", "closed", "released"}
    /\ path' = Orphaned(h)
    /\ host' = [host EXCEPT ![h] =
                  CASE @.at = "launched" -> Ended
                    [] @.at = "socket locked" -> [@ EXCEPT !.at = "released"]
                    [] OTHER -> [@ EXCEPT !.at = "closed"]]
    /\ UNCHANGED <<socket_lock, db_lock, file>>

\* SIGKILL: the kernel closes every descriptor and runs no destructor.
Kill(h) ==
    /\ ~At(h, "ended")
    /\ socket_lock' = [s \in Sockets |-> IF socket_lock[s] = h THEN Nobody ELSE socket_lock[s]]
    /\ db_lock' = [d \in Databases |-> IF db_lock[d] = h THEN Nobody ELSE db_lock[d]]
    /\ path' = Orphaned(h)
    /\ host' = [host EXCEPT ![h] = Ended]
    /\ UNCHANGED file

OwnershipNext ==
    \E h \in Hosts :
        \/ \E c \in Configs : Launch(h, c)
        \/ LockSocket(h) \/ LockDatabase(h) \/ CheckDatabase(h) \/ OpenStore(h)
        \/ VerifySubject(h) \/ CheckSocket(h) \/ RemoveStale(h) \/ Bind(h) \/ Listen(h)
        \/ Stop(h) \/ Unlink(h) \/ Close(h) \/ ReleaseDatabase(h) \/ ReleaseSocket(h)
        \/ Throw(h) \/ Kill(h)

OwnershipSpec == OwnershipInit /\ [][OwnershipNext]_ownershipVars

-----------------------------------------------------------------------------
HostRow == [at : HoldsSocket \cup {"launched", "ended"}, socket : Sockets \cup {Nobody},
            db : Databases \cup {Nobody}, create : BOOLEAN]

\* The locks are free or held by a process, and so are the socket files.
OwnershipTypeOK ==
    /\ host \in [Hosts -> HostRow]
    /\ \A h \in Hosts : ~At(h, "ended") => host[h].socket \in Sockets /\ host[h].db \in Databases
    /\ socket_lock \in [Sockets -> Hosts \cup {Nobody}]
    /\ db_lock \in [Databases -> Hosts \cup {Nobody}]
    /\ path \in [Sockets -> Hosts \cup {Nobody, Stale}]
    /\ file \in [Databases -> Files]

\* "Socket and canonical database paths have exclusive host locks": two
\* processes never have the Store of one database open, a process that serves
\* is the one its socket path leads to, and no failing, stopping or newly
\* started process takes that path away from it, whatever was killed before.
\* A process serves only a verified subject, and none of them ever migrates
\* a database, not even one that is stopped between its check and its open.
OwnersAreExclusive ==
    /\ \A g, h \in Hosts :
          /\ host[g].at \in HoldsStore /\ host[h].at \in HoldsStore
          /\ host[g].db = host[h].db
          => g = h
    /\ \A h \in Hosts : At(h, "serving") => path[host[h].socket] = h
    /\ \A h \in Hosts : At(h, "serving") => file[host[h].db] = "ready"
    /\ \A d \in Databases : file[d] # "migrated"

-----------------------------------------------------------------------------
\* What a client meets behind a socket path: the listener the path names, if
\* its process is in the accept loop.
served ==
    [s \in Sockets |->
        IF path[s] \in Hosts /\ At(path[s], "serving") THEN host[path[s]].db ELSE Nobody]

Abstract == INSTANCE Endpoint WITH server <- served

\* A socket path never leads to a second host before the first has stopped
\* answering, and a database is never answered for behind two paths.
ImplementsEndpoint == Abstract!EndpointSpec
=============================================================================
