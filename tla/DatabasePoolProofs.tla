-------------------------- MODULE DatabasePoolProofs --------------------------
(***************************************************************************)
(* DatabasePool for any number of threads and connections: a connection is *)
(* leased once at a time, giving it back never throws, and one connection  *)
(* is always left.  With a single thread, the way the server runs, no work *)
(* is ever opened on a connection that still has one.                      *)
(***************************************************************************)
EXTENDS DatabasePool, TLAPS

LeaseInv == TypeOK /\ NoSharedLease /\ ReleaseNeverThrows

\* At start-up every connection is free.
LEMMA LeaseInit == Init => LeaseInv
BY DEF Init, LeaseInv, TypeOK, NoSharedLease, ReleaseNeverThrows, Places, Holding

(***************************************************************************)
(* Scan is the only step that leases, and it marks every entry; Release is *)
(* the only one that clears a mark, and who holds the lease of another     *)
(* entry is not touched by it.                                             *)
(***************************************************************************)
LEMMA LeaseStep == LeaseInv /\ [Next]_vars => LeaseInv'
<1> SUFFICES ASSUME LeaseInv, [Next]_vars PROVE LeaseInv'
  OBVIOUS
<1> USE DEF LeaseInv, TypeOK, NoSharedLease, ReleaseNeverThrows, Places, Holding, Goto
<1>1. ASSUME NEW t \in Threads, CreateTransaction(t) PROVE LeaseInv'
  BY <1>1 DEF CreateTransaction
<1>2. ASSUME NEW t \in Threads, Scan(t) PROVE LeaseInv'
  BY <1>2 DEF Scan, Available
<1>3. ASSUME NEW t \in Threads, OpenWork(t) PROVE LeaseInv'
  BY <1>3 DEF OpenWork
<1>4. ASSUME NEW t \in Threads, Commit(t) PROVE LeaseInv'
  BY <1>4 DEF Commit
<1>5. ASSUME NEW t \in Threads, Release(t) PROVE LeaseInv'
  BY <1>5 DEF Release
<1>6. ASSUME NEW t \in Threads, DestroyWork(t) PROVE LeaseInv'
  BY <1>6 DEF DestroyWork
<1>7. CASE UNCHANGED vars
  BY <1>7 DEF vars
<1> QED
  BY <1>1, <1>2, <1>3, <1>4, <1>5, <1>6, <1>7 DEF Next, Continue

\* The invariant holds for good.
LEMMA LeaseInvariant == Spec => []LeaseInv
<1> QED
  BY LeaseInit, LeaseStep, PTL DEF Spec

\* No two transactions ever have the same connection, whatever the threads do
\* and though create_transaction marks more entries than it hands out.
THEOREM LeasesExclusive == Spec => []NoSharedLease
<1>1. LeaseInv => NoSharedLease
  BY DEF LeaseInv
<1> QED
  BY <1>1, LeaseInvariant, PTL

\* ~database_transaction never throws out of release_connection.
THEOREM ReleaseSafe == Spec => []ReleaseNeverThrows
<1>1. LeaseInv => ReleaseNeverThrows
  BY DEF LeaseInv
<1> QED
  BY <1>1, LeaseInvariant, PTL

-----------------------------------------------------------------------------
(***************************************************************************)
(* Who takes the last connection holds it, and who gives up its hold makes *)
(* its entry available.                                                    *)
(***************************************************************************)
LEMMA OneLeftStep == LeaseInv /\ OneLeft /\ [Next]_vars => OneLeft'
<1> SUFFICES ASSUME LeaseInv, OneLeft, [Next]_vars PROVE OneLeft'
  OBVIOUS
<1> USE DEF LeaseInv, TypeOK, Places, Holding, Goto
<1>1. ASSUME NEW t \in Threads, Scan(t) PROVE OneLeft'
  <2>1. at'[t] = "granted"
    BY <1>1 DEF Scan
  <2> QED
    BY <2>1 DEF OneLeft
<1>2. ASSUME NEW t \in Threads, Release(t) PROVE OneLeft'
  <2>1. lease[t] \in Ids
    BY <1>2 DEF Release, ReleaseNeverThrows
  <2>2. available'[lease[t]]
    BY <1>2, <2>1 DEF Release
  <2> QED
    BY <2>1, <2>2 DEF OneLeft, Available
<1>3. ASSUME NEW t \in Threads,
             CreateTransaction(t) \/ OpenWork(t) \/ Commit(t) \/ DestroyWork(t)
      PROVE  OneLeft'
  <2>1. available' = available
    BY <1>3 DEF CreateTransaction, OpenWork, Commit, DestroyWork
  <2>2. ASSUME NEW u \in Threads, at[u] \in Holding PROVE at'[u] \in Holding
    BY <1>3, <2>2 DEF CreateTransaction, OpenWork, Commit, DestroyWork
  <2> QED
    BY <2>1, <2>2 DEF OneLeft, Available
<1>4. CASE UNCHANGED vars
  BY <1>4 DEF vars, OneLeft, Available
<1> QED
  BY <1>1, <1>2, <1>3, <1>4 DEF Next, Continue

\* The pool is never without a connection: one is free or in use, though the scan
\* marks every free entry and hands out one.
THEOREM OneIsLeft == Spec => []OneLeft
<1>1. Init => OneLeft
  BY PoolAssumption DEF Init, OneLeft, Available, Ids
<1> QED
  BY <1>1, OneLeftStep, LeaseInvariant, PTL DEF Spec

-----------------------------------------------------------------------------
\* An open work belongs to the transaction of some thread.
WorksOwned == \A i \in works : \E t \in Threads :
                at[t] \in {"working", "rolling_back"} /\ lease[t] = i

\* With one thread an open work is always that thread's own.
LEMMA WorksStep == LeaseInv /\ WorksOwned /\ [Next]_vars => WorksOwned'
<1> SUFFICES ASSUME LeaseInv, WorksOwned, [Next]_vars PROVE WorksOwned'
  OBVIOUS
<1> USE DEF LeaseInv, TypeOK, WorksOwned, Places, Holding, Goto
<1>1. ASSUME NEW t \in Threads, CreateTransaction(t) PROVE WorksOwned'
  BY <1>1 DEF CreateTransaction
<1>2. ASSUME NEW t \in Threads, Scan(t) PROVE WorksOwned'
  BY <1>2 DEF Scan
<1>3. ASSUME NEW t \in Threads, OpenWork(t) PROVE WorksOwned'
  BY <1>3 DEF OpenWork
<1>4. ASSUME NEW t \in Threads, Commit(t) PROVE WorksOwned'
  BY <1>4 DEF Commit
<1>5. ASSUME NEW t \in Threads, Release(t) PROVE WorksOwned'
  BY <1>5 DEF Release
<1>6. ASSUME NEW t \in Threads, DestroyWork(t) PROVE WorksOwned'
  BY <1>6 DEF DestroyWork
<1>7. CASE UNCHANGED vars
  BY <1>7 DEF vars
<1> QED
  BY <1>1, <1>2, <1>3, <1>4, <1>5, <1>6, <1>7 DEF Next, Continue

\* With one thread, as in the server, where only the websocket thread uses the
\* pool, giving the connection back before the work is destroyed is harmless:
\* nobody can open a second work on it in between.
THEOREM OneThreadNeverTerminates ==
  ASSUME \A t, u \in Threads : t = u
  PROVE  Spec => []~terminated
<1> DEFINE Inv == LeaseInv /\ WorksOwned /\ ~terminated
<1>1. Init => Inv
  BY LeaseInit DEF Init, WorksOwned
<1>2. Inv /\ [Next]_vars => Inv'
  <2> SUFFICES ASSUME Inv, [Next]_vars PROVE ~terminated'
    BY LeaseStep, WorksStep
  <2>1. ASSUME NEW t \in Threads, OpenWork(t) PROVE ~terminated'
    <3>1. CASE lease[t] \in works
      <4>1. at[t] = "granted"
        BY <2>1, <3>1 DEF OpenWork
      <4>2. PICK u \in Threads : at[u] \in {"working", "rolling_back"}
        BY <3>1 DEF WorksOwned
      <4> QED
        BY <4>1, <4>2
    <3>2. CASE lease[t] \notin works
      BY <2>1, <3>2 DEF OpenWork
    <3> QED
      BY <3>1, <3>2
  <2>2. ASSUME NEW t \in Threads,
               CreateTransaction(t) \/ Scan(t) \/ Commit(t) \/ Release(t) \/ DestroyWork(t)
        PROVE  ~terminated'
    BY <2>2 DEF CreateTransaction, Scan, Commit, Release, DestroyWork
  <2>3. CASE UNCHANGED vars
    BY <2>3 DEF vars
  <2> QED
    BY <2>1, <2>2, <2>3 DEF Next, Continue
<1> QED
  BY <1>1, <1>2, PTL DEF Spec
=============================================================================
