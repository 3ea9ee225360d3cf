----------------------------- MODULE DatabasePool -----------------------------
(***************************************************************************)
(* database_pool and database_transaction: threads take a connection of    *)
(* the pool for a transaction and give it back when the transaction is     *)
(* destroyed.                                                              *)
(*                                                                         *)
(* The destructor of a database_transaction gives the connection back in   *)
(* its body and only then destroys its pqxx::work, so for a moment another *)
(* thread can be given a connection whose work is still open.  pqxx throws *)
(* when a second work is opened on a connection, and the constructor is    *)
(* noexcept: the process terminates.  A committed work is over already.    *)
(***************************************************************************)
EXTENDS Integers

CONSTANTS
  Threads,          \* who calls create_transaction
  MinConnections,   \* min_connections
  NoConn

Ids == 0 .. MinConnections - 1

ASSUME PoolAssumption == /\ MinConnections \in Nat \ {0}
                         /\ NoConn \notin Ids

VARIABLES
  available,    \* the flag of each entry of _connections
  at,           \* thread -> where it is
  lease,        \* thread -> _connection_id of its transaction
  works,        \* connections with an open pqxx::work
  terminated    \* std::terminate was called

vars == <<available, at, lease, works, terminated>>

Places == {"outside", "acquiring", "granted", "working", "committed",
           "rolling_back",  \* connection given back, the work not yet destroyed
           "finishing"}     \* connection given back, the work committed before

Holding == {"granted", "working", "committed"}

Init == /\ available = [i \in Ids |-> TRUE]
        /\ at = [t \in Threads |-> "outside"]
        /\ lease = [t \in Threads |-> NoConn]
        /\ works = {}
        /\ terminated = FALSE

TypeOK == /\ available \in [Ids -> BOOLEAN]
          /\ at \in [Threads -> Places]
          /\ lease \in [Threads -> Ids \cup {NoConn}]
          /\ works \in SUBSET Ids
          /\ terminated \in BOOLEAN

Goto(t, from, to) == ~terminated /\ at[t] = from /\ at' = [at EXCEPT ![t] = to]

Available == {i \in Ids : available[i]}

CreateTransaction(t) ==
  Goto(t, "outside", "acquiring") /\ UNCHANGED <<available, lease, works, terminated>>

\* Mutant of Scan: an entry is taken whatever its flag says.
ScanAnyFlag(t) ==
  /\ Goto(t, "acquiring", "granted")
  /\ lease' = [lease EXCEPT ![t] = MinConnections - 1]
  /\ available' = [i \in Ids |-> FALSE]
  /\ UNCHANGED <<works, terminated>>

\* One pass over _connections under the mutex, when some entry is available.
\* The loop does not stop at it: it marks every available entry as in use and
\* keeps the last one.  When none is available the thread sleeps and tries again.
Scan(t) ==
  /\ Goto(t, "acquiring", "granted")
  /\ \E last \in Available :
       /\ \A i \in Available : i <= last
       /\ lease' = [lease EXCEPT ![t] = last]
  /\ available' = [i \in Ids |-> FALSE]
  /\ UNCHANGED <<works, terminated>>

\* The constructor of database_transaction opens a work on the connection.
OpenWork(t) ==
  /\ IF lease[t] \in works
       THEN /\ ~terminated /\ at[t] = "granted"
            /\ terminated' = TRUE
            /\ UNCHANGED <<at, works>>
       ELSE /\ Goto(t, "granted", "working")
            /\ works' = works \cup {lease[t]}
            /\ UNCHANGED terminated
  /\ UNCHANGED <<available, lease>>

\* Mutant of Commit: the connection is given back here already.
CommitReleases(t) == /\ Goto(t, "working", "committed")
                     /\ works' = works \ {lease[t]}
                     /\ available' = [available EXCEPT ![lease[t]] = TRUE]
                     /\ UNCHANGED <<lease, terminated>>

Commit(t) == /\ Goto(t, "working", "committed")
             /\ works' = works \ {lease[t]}
             /\ UNCHANGED <<available, lease, terminated>>

\* Mutant of Release: the destructor does not give the connection back.
ReleaseForgotten(t) ==
  /\ Goto(t, "working", "rolling_back") \/ Goto(t, "committed", "finishing")
  /\ UNCHANGED <<available, lease, works, terminated>>

\* The body of ~database_transaction: release_connection, which throws if the
\* entry is available already.
Release(t) ==
  /\ Goto(t, "working", "rolling_back") \/ Goto(t, "committed", "finishing")
  /\ available' = [available EXCEPT ![lease[t]] = TRUE]
  /\ UNCHANGED <<lease, works, terminated>>

\* The members of the transaction: an uncommitted work is rolled back here.
DestroyWork(t) ==
  /\ \/ /\ Goto(t, "rolling_back", "outside")
        /\ works' = works \ {lease[t]}
     \/ /\ Goto(t, "finishing", "outside")
        /\ UNCHANGED works
  /\ lease' = [lease EXCEPT ![t] = NoConn]
  /\ UNCHANGED <<available, terminated>>

\* The steps of a thread that is inside of create_transaction or has its
\* transaction.  Committing is up to the handler.
Continue(t) == Scan(t) \/ OpenWork(t) \/ Release(t) \/ DestroyWork(t)

Next == \E t \in Threads : CreateTransaction(t) \/ Commit(t) \/ Continue(t)

\* Threads run, and a handler does not keep its transaction for ever.
Fairness == \A t \in Threads : WF_vars(Continue(t))

Spec == Init /\ [][Next]_vars /\ Fairness

-----------------------------------------------------------------------------
\* No two transactions have the same connection.
NoSharedLease ==
  \A t, u \in Threads :
    at[t] \in Holding /\ at[u] \in Holding /\ lease[t] = lease[u] => t = u

\* release_connection never finds its entry available already: it would throw
\* out of a destructor.
ReleaseNeverThrows ==
  \A t \in Threads : at[t] \in Holding => lease[t] \in Ids /\ ~available[lease[t]]

\* Though all but one of the connections are lost to the pool at the first
\* transaction, one is always left, free or in use.
OneLeft ==
  \/ Available # {}
  \/ \E t \in Threads : at[t] \in Holding

\* While threads wait for a connection, some thread gets one.
SomeoneServed ==
  (\E t \in Threads : at[t] = "acquiring")
    ~> (terminated \/ \E t \in Threads : at[t] = "granted")
=============================================================================
