------------------------------ MODULE RootLeases ------------------------------
(***************************************************************************)
(* The filesystem coordinator (services/native/                            *)
(* library_filesystem_coordinator.py): per library root a reader count, a  *)
(* writer flag, the number of writers that wait and the futures of the     *)
(* coroutines that are parked.  A writer announces itself on all its roots *)
(* and takes them in order; a reader takes all its roots or none.          *)
(*                                                                         *)
(* A step is what one coroutine does between two awaits.  read_sync, which *)
(* no service calls, is left out; revisions are in LibraryScan.            *)
(***************************************************************************)
EXTENDS Integers, FiniteSets

CONSTANTS
  Roots,    \* library roots, in the order in which they are taken
  Clients,  \* coroutines: the scan, the publishers, recovery, undo
  MaxAsks   \* bound: leases asked for in a behaviour

ASSUME RootsAssumption == Roots \subseteq Nat
ASSUME ClientsAssumption == IsFiniteSet(Clients)
ASSUME AsksAssumption == MaxAsks \in Nat

VARIABLES
  readers,         \* readers[r]
  writerActive,    \* writer_active
  waitingWriters,  \* waiting_writers
  waiters,         \* _async_waiters: whose future is parked at r
  woken,           \* clients whose future has a result they have not seen
  client,          \* client[c]: what c asked for and how far it is
  asks

leases == <<readers, writerActive, waitingWriters>>
vars == <<readers, writerActive, waitingWriters, waiters, woken, client, asks>>

\* A parked client waits at one root; a parked writer keeps what it already has.
ClientStates == [place: {"idle", "parked", "inside"}, mode: {"read", "write"},
                 roots: SUBSET Roots, held: SUBSET Roots, at: SUBSET Roots]
Idle == [place |-> "idle", mode |-> "read", roots |-> {}, held |-> {}, at |-> {}]

TypeOK ==
  /\ readers \in [Roots -> Nat]
  /\ writerActive \in [Roots -> BOOLEAN]
  /\ waitingWriters \in [Roots -> Nat]
  /\ waiters \in [Roots -> SUBSET Clients]
  /\ woken \in SUBSET Clients
  /\ client \in [Clients -> ClientStates]
  /\ asks \in Nat

Init ==
  /\ readers = [r \in Roots |-> 0]
  /\ writerActive = [r \in Roots |-> FALSE]
  /\ waitingWriters = [r \in Roots |-> 0]
  /\ waiters = [r \in Roots |-> {}]
  /\ woken = {}
  /\ client = [c \in Clients |-> Idle]
  /\ asks = 0
-----------------------------------------------------------------------------
\* acquire_read_or_wait and acquire_registered_write_or_wait take the root at once ...
CanReadBarging(r) == ~writerActive[r]
CanRead(r) == ~writerActive[r] /\ waitingWriters[r] = 0
CanWriteOverReaders(r) == ~writerActive[r]
CanWrite(r) == ~writerActive[r] /\ readers[r] = 0

\* The first root that blocks, if one does, and what is taken in order before it.
First(blocked) == {r \in blocked: \A q \in blocked: r <= q}
BeforeAny(R, blocked) == R \ blocked
Before(R, blocked) == {r \in R: \A b \in blocked: r < b}

\* ... or park the caller's future there.  Roots in quiet lose their waiters, who wake.
ParkAndWake(c, at, quiet) ==
  /\ waiters' = [r \in Roots |-> (IF r \in quiet THEN {} ELSE waiters[r] \ {c})
                                   \union (IF r \in at THEN {c} ELSE {})]
  /\ woken' = (woken \union UNION {waiters[r]: r \in quiet}) \ {c}

\* read_many: all roots, or it gives back what it has and parks at the root that blocks.
AttemptReadKeeping(c, R) ==
  LET blocked == {r \in R: ~CanRead(r)}
      got == Before(R, blocked)
      at == First(blocked)
  IN  /\ readers' = [r \in Roots |-> IF r \in got THEN readers[r] + 1 ELSE readers[r]]
      /\ client' = [client EXCEPT ![c] =
           [place |-> IF blocked = {} THEN "inside" ELSE "parked", mode |-> "read",
            roots |-> R, held |-> IF blocked = {} THEN R ELSE {}, at |-> at]]
      /\ ParkAndWake(c, at, {})
      /\ UNCHANGED <<writerActive, waitingWriters>>
AttemptRead(c, R) ==
  LET blocked == {r \in R: ~CanRead(r)}
      at == First(blocked)
      got == IF blocked = {} THEN R ELSE {}
  IN  /\ readers' = [r \in Roots |-> IF r \in got THEN readers[r] + 1 ELSE readers[r]]
      /\ client' = [client EXCEPT ![c] =
           [place |-> IF blocked = {} THEN "inside" ELSE "parked", mode |-> "read",
            roots |-> R, held |-> got, at |-> at]]
      /\ ParkAndWake(c, at, {r \in Before(R, blocked) \ got: readers[r] = 0})
      /\ UNCHANGED <<writerActive, waitingWriters>>

\* write_many past its registration; held is what it has, waiting counts it on the rest.
AttemptWrite(c, R, held, waiting) ==
  LET blocked == {r \in R \ held: ~CanWrite(r)}
      at == First(blocked)
      got == Before(R \ held, blocked)
  IN  /\ writerActive' = [r \in Roots |-> writerActive[r] \/ r \in got]
      /\ waitingWriters' = [r \in Roots |-> IF r \in got THEN waiting[r] - 1 ELSE waiting[r]]
      /\ client' = [client EXCEPT ![c] =
           [place |-> IF blocked = {} THEN "inside" ELSE "parked", mode |-> "write",
            roots |-> R, held |-> held \union got, at |-> at]]
      /\ ParkAndWake(c, at, {})
      /\ UNCHANGED readers

AskRead(c, R) ==
  /\ client[c].place = "idle" /\ R # {}
  /\ asks < MaxAsks /\ asks' = asks + 1
  /\ AttemptRead(c, R)

\* Every root learns of the writer before the first is taken (F-150).
AskWriteOneByOne(c, R) ==
  /\ client[c].place = "idle" /\ R # {}
  /\ asks < MaxAsks /\ asks' = asks + 1
  /\ AttemptWrite(c, R, {},
       [r \in Roots |-> IF r \in R /\ \A q \in R: ~CanWrite(q) => r <= q
                        THEN waitingWriters[r] + 1 ELSE waitingWriters[r]])
AskWrite(c, R) ==
  /\ client[c].place = "idle" /\ R # {}
  /\ asks < MaxAsks /\ asks' = asks + 1
  /\ AttemptWrite(c, R, {},
       [r \in Roots |-> IF r \in R THEN waitingWriters[r] + 1 ELSE waitingWriters[r]])

\* The future has its result, and the coroutine tries again.
Retry(c) ==
  /\ client[c].place = "parked" /\ c \in woken
  /\ \/ /\ client[c].mode = "read"
        /\ AttemptRead(c, client[c].roots)
     \/ /\ client[c].mode = "write"
        /\ AttemptWrite(c, client[c].roots, client[c].held, waitingWriters)
  /\ UNCHANGED asks

\* release_read on each root; the last reader wakes whoever is parked.
LeaveRead(c) ==
  /\ client[c].place = "inside" /\ client[c].mode = "read"
  /\ readers' = [r \in Roots |-> IF r \in client[c].roots THEN readers[r] - 1 ELSE readers[r]]
  /\ client' = [client EXCEPT ![c] = Idle]
  /\ ParkAndWake(c, {}, {r \in client[c].roots: readers[r] = 1})
  /\ UNCHANGED <<writerActive, waitingWriters, asks>>

\* release_write on each root.
LeaveWrite(c) ==
  /\ client[c].place = "inside" /\ client[c].mode = "write"
  /\ writerActive' = [r \in Roots |-> writerActive[r] /\ r \notin client[c].roots]
  /\ client' = [client EXCEPT ![c] = Idle]
  /\ ParkAndWake(c, {}, client[c].roots)
  /\ UNCHANGED <<readers, waitingWriters, asks>>

\* The task is cancelled while it is parked, also after its future got its result.
CancelRead(c) ==
  /\ client[c].place = "parked" /\ client[c].mode = "read"
  /\ client' = [client EXCEPT ![c] = Idle]
  /\ ParkAndWake(c, {}, {})
  /\ UNCHANGED <<leases, asks>>

\* unregister_write_waiter on the roots it does not have, release_write on the others.
CancelWriteSilently(c) ==
  /\ client[c].place = "parked" /\ client[c].mode = "write"
  /\ LET rest == client[c].roots \ client[c].held IN
     /\ writerActive' = [r \in Roots |-> writerActive[r] /\ r \notin client[c].held]
     /\ waitingWriters' = [r \in Roots |-> IF r \in rest THEN waitingWriters[r] - 1
                                           ELSE waitingWriters[r]]
     /\ ParkAndWake(c, {}, client[c].held)
  /\ client' = [client EXCEPT ![c] = Idle]
  /\ UNCHANGED <<readers, asks>>
CancelWrite(c) ==
  /\ client[c].place = "parked" /\ client[c].mode = "write"
  /\ LET rest == client[c].roots \ client[c].held IN
     /\ writerActive' = [r \in Roots |-> writerActive[r] /\ r \notin client[c].held]
     /\ waitingWriters' = [r \in Roots |-> IF r \in rest THEN waitingWriters[r] - 1
                                           ELSE waitingWriters[r]]
     /\ ParkAndWake(c, {}, client[c].held \union {r \in rest: waitingWriters[r] = 1})
  /\ client' = [client EXCEPT ![c] = Idle]
  /\ UNCHANGED <<readers, asks>>
-----------------------------------------------------------------------------
Next == \E c \in Clients:
  \/ \E R \in SUBSET Roots: AskRead(c, R) \/ AskWrite(c, R)
  \/ Retry(c) \/ LeaveRead(c) \/ LeaveWrite(c) \/ CancelRead(c) \/ CancelWrite(c)

Spec == Init /\ [][Next]_vars

\* The event loop resumes a coroutine whose future has a result, and the work done
\* under a lease ends.  Nobody has to ask or to be cancelled.
FairSpec ==
  Spec /\ \A c \in Clients: WF_vars(Retry(c)) /\ WF_vars(LeaveRead(c)) /\ WF_vars(LeaveWrite(c))
-----------------------------------------------------------------------------
Inside(c) == client[c].place = "inside"
Parked(c) == client[c].place = "parked"
Writes(c) == client[c].mode = "write"
ReadingIn(r) == {c \in Clients: Inside(c) /\ ~Writes(c) /\ r \in client[c].roots}
WritingIn(r) == {c \in Clients: Writes(c) /\ r \in client[c].held}
WaitingFor(r) == {c \in Clients: Parked(c) /\ Writes(c) /\ r \in client[c].roots \ client[c].held}

\* The leases that are out are those of SharedLeases: readers share, a writer is alone.
Shared == INSTANCE SharedLeases WITH
  holds <- [c \in Clients |-> IF Inside(c) THEN client[c].roots ELSE {}],
  mode <- [c \in Clients |-> IF Inside(c) THEN client[c].mode ELSE "none"]
LeasesShared == Shared!Spec

\* Whatever is cancelled, and when: the counters are the leases that are out and the
\* writers that wait, so nothing leaks ("_acquire_without_leaking_on_cancel").
CountsExact == \A r \in Roots:
  /\ readers[r] = Cardinality(ReadingIn(r))
  /\ waitingWriters[r] = Cardinality(WaitingFor(r))
  /\ writerActive[r] <=> WritingIn(r) # {}

\* No wake-up is lost: a parked client that has not been woken is registered at the root
\* it waits for, and that root still blocks it.
NoLostWakeup == \A c \in Clients: Parked(c) /\ c \notin woken =>
  \E r \in client[c].at:
    /\ c \in waiters[r]
    /\ IF Writes(c) THEN ~CanWrite(r) ELSE ~CanRead(r)

\* A reader never overtakes a writer that is queued, on whichever of its roots ("so a
\* reader for a later root cannot overtake a writer still queued on an earlier one").
NoOvertaking == [][\A c \in Clients, r \in Roots:
  c \in ReadingIn(r)' \ ReadingIn(r) => WaitingFor(r) = {}]_vars

\* Nobody waits for ever: leases on several roots do not deadlock.
Served == \A c \in Clients: Parked(c) ~> ~Parked(c)
=============================================================================
