--------------------------- MODULE RootLeases_proof ---------------------------
(***************************************************************************)
(* Proofs about RootLeases, for any roots, any finite set of clients and   *)
(* any bound.  The counters are what the code decides by; the proofs tie   *)
(* them to the clients that hold or wait, so that exclusion, the order of  *)
(* readers and writers, and the wake-ups follow from what is counted.      *)
(***************************************************************************)
EXTENDS RootLeases, FiniteSetTheorems, WellFoundedInduction, TLAPS

-----------------------------------------------------------------------------
(* Counting, and the least of some roots.                                   *)

\* Sets that differ in c only.
LEMMA CountOf ==
  ASSUME NEW S, NEW T, NEW c, IsFiniteSet(S), T \ {c} = S \ {c}
  PROVE  /\ IsFiniteSet(T) /\ Cardinality(S) \in Nat /\ Cardinality(T) \in Nat
         /\ Cardinality(T) = Cardinality(S) + (IF c \in T THEN 1 ELSE 0)
                                            - (IF c \in S THEN 1 ELSE 0)
  <1> DEFINE B == S \ {c}
  <1>1. /\ IsFiniteSet(B)
        /\ Cardinality(B) = IF c \in S THEN Cardinality(S) - 1 ELSE Cardinality(S)
    BY FS_RemoveElement
  <1>2. /\ IsFiniteSet(B \union {c})
        /\ Cardinality(B \union {c}) = Cardinality(B) + 1
    <2>1. c \notin B
      OBVIOUS
    <2> HIDE DEF B
    <2> QED
      BY <1>1, <2>1, FS_AddElement
  <1>3. T = B \/ T = B \union {c}
    OBVIOUS
  <1>4. c \in T <=> T = B \union {c}
    OBVIOUS
  <1>5. IsFiniteSet(T)
    BY <1>1, <1>2, <1>3
  <1>6. Cardinality(S) \in Nat /\ Cardinality(B) \in Nat /\ Cardinality(T) \in Nat
    BY <1>1, <1>5, FS_CardinalityType
  <1>7. CASE c \in T
    <2>1. T = B \union {c}
      BY <1>4, <1>7
    <2> HIDE DEF B
    <2>2. Cardinality(T) = Cardinality(B) + 1
      BY <1>2, <2>1
    <2> QED
      BY <1>1, <1>5, <1>6, <1>7, <2>2
  <1>8. CASE c \notin T
    <2>1. T = B
      BY <1>3, <1>4, <1>8
    <2> HIDE DEF B
    <2> QED
      BY <1>1, <1>5, <1>6, <1>8, <2>1
  <1> QED
    BY <1>7, <1>8

LEMMA LeastRoot ==
  ASSUME NEW B \in SUBSET Nat, B # {}
  PROVE  \E m \in B: \A n \in B: m <= n
  <1>1. \E m \in B: \A n \in B: ~(<<n, m>> \in OpToRel(<, Nat))
    BY NatLessThanWellFounded, WFMin
  <1>2. PICK m \in B: \A n \in B: ~(<<n, m>> \in OpToRel(<, Nat))
    BY <1>1
  <1>3. \A n \in B: m <= n
    <2> TAKE n \in B
    <2>1. n \in Nat /\ m \in Nat
      OBVIOUS
    <2>2. ~(n < m)
      BY <1>2, <2>1 DEF OpToRel
    <2> QED
      BY <2>1, <2>2
  <1> QED
    BY <1>3

\* The root at which a client parks is the first of those that block it.
LEMMA FirstBlocks ==
  ASSUME NEW B \in SUBSET Roots, NEW R \in SUBSET Roots
  PROVE  /\ First(B) \subseteq B
         /\ B # {} => First(B) # {}
         /\ Before(R, B) \subseteq R /\ Before(R, B) \intersect B = {}
         /\ B = {} => Before(R, B) = R
  <1>1. B \in SUBSET Nat
    BY RootsAssumption
  <1>2. B # {} => First(B) # {}
    BY <1>1, LeastRoot DEF First
  <1>3. Before(R, B) \intersect B = {}
    <2> SUFFICES ASSUME NEW r \in Before(R, B), r \in B PROVE FALSE
      OBVIOUS
    <2>1. r \in Nat /\ r < r
      BY <1>1 DEF Before
    <2> QED
      BY <2>1
  <1> QED
    BY <1>2, <1>3 DEF First, Before

-----------------------------------------------------------------------------
(* The inductive invariant.                                                 *)

\* A lease covers all of what was asked for, and only a writer holds roots while it waits.
Shape == \A c \in Clients:
  /\ client[c].place = "idle" => client[c] = Idle
  /\ client[c].place # "idle" => client[c].roots # {}
  /\ Inside(c) => client[c].held = client[c].roots
  /\ client[c].held \subseteq client[c].roots
  /\ Parked(c) /\ ~Writes(c) => client[c].held = {}

\* A writer is alone on each root it has, also on those it has taken while it waits.
Alone == \A r \in Roots: writerActive[r] =>
  /\ ReadingIn(r) = {}
  /\ \A c, d \in WritingIn(r): c = d

IInv == TypeOK /\ Shape /\ CountsExact /\ Alone

\* What a client that is at n contributes to the counters.
ReadsAt(n, r) == n.place = "inside" /\ n.mode # "write" /\ r \in n.roots
HoldsAt(n, r) == n.mode = "write" /\ r \in n.held
WaitsAt(n, r) == n.place = "parked" /\ n.mode = "write" /\ r \in n.roots \ n.held

-----------------------------------------------------------------------------
(* A step of one client changes its own place in the sets that are counted. *)

LEMMA OnlyOne ==
  ASSUME TypeOK, NEW c \in Clients, NEW n \in ClientStates,
         client' = [client EXCEPT ![c] = n], NEW r \in Roots
  PROVE  /\ ReadingIn(r)' \ {c} = ReadingIn(r) \ {c}
         /\ WritingIn(r)' \ {c} = WritingIn(r) \ {c}
         /\ WaitingFor(r)' \ {c} = WaitingFor(r) \ {c}
         /\ c \in ReadingIn(r)' <=> ReadsAt(n, r)
         /\ c \in WritingIn(r)' <=> HoldsAt(n, r)
         /\ c \in WaitingFor(r)' <=> WaitsAt(n, r)
         /\ c \in ReadingIn(r) <=> ReadsAt(client[c], r)
         /\ c \in WritingIn(r) <=> HoldsAt(client[c], r)
         /\ c \in WaitingFor(r) <=> WaitsAt(client[c], r)
  <1>1. client'[c] = n /\ \A d \in Clients \ {c}: client'[d] = client[d]
    BY DEF TypeOK
  <1> QED
    BY <1>1 DEF ReadingIn, WritingIn, WaitingFor, Inside, Parked, Writes,
                ReadsAt, HoldsAt, WaitsAt

LEMMA Finite ==
  ASSUME NEW r
  PROVE  IsFiniteSet(ReadingIn(r)) /\ IsFiniteSet(WaitingFor(r))
  BY ClientsAssumption, FS_Subset DEF ReadingIn, WaitingFor

LEMMA Counted ==
  ASSUME TypeOK, CountsExact, NEW c \in Clients, NEW n \in ClientStates,
         client' = [client EXCEPT ![c] = n], NEW r \in Roots
  PROVE  /\ Cardinality(ReadingIn(r)') = readers[r] + (IF ReadsAt(n, r) THEN 1 ELSE 0)
                                             - (IF ReadsAt(client[c], r) THEN 1 ELSE 0)
         /\ Cardinality(WaitingFor(r)') = waitingWriters[r] + (IF WaitsAt(n, r) THEN 1 ELSE 0)
                                             - (IF WaitsAt(client[c], r) THEN 1 ELSE 0)
         /\ Cardinality(ReadingIn(r)') \in Nat /\ Cardinality(WaitingFor(r)') \in Nat
  <1>1. Cardinality(ReadingIn(r)) = readers[r] /\ Cardinality(WaitingFor(r)) = waitingWriters[r]
    BY DEF CountsExact
  <1>a. \A S, T: IsFiniteSet(S) /\ T \ {c} = S \ {c} =>
          /\ Cardinality(T) \in Nat
          /\ Cardinality(T) = Cardinality(S) + (IF c \in T THEN 1 ELSE 0)
                                             - (IF c \in S THEN 1 ELSE 0)
    BY CountOf
  <1>b. /\ IsFiniteSet(ReadingIn(r)) /\ ReadingIn(r)' \ {c} = ReadingIn(r) \ {c}
        /\ IsFiniteSet(WaitingFor(r)) /\ WaitingFor(r)' \ {c} = WaitingFor(r) \ {c}
    BY OnlyOne, Finite
  <1>2. /\ Cardinality(ReadingIn(r)') \in Nat
        /\ Cardinality(ReadingIn(r)') = Cardinality(ReadingIn(r))
             + (IF c \in ReadingIn(r)' THEN 1 ELSE 0) - (IF c \in ReadingIn(r) THEN 1 ELSE 0)
    BY <1>a, <1>b
  <1>3. /\ Cardinality(WaitingFor(r)') \in Nat
        /\ Cardinality(WaitingFor(r)') = Cardinality(WaitingFor(r))
             + (IF c \in WaitingFor(r)' THEN 1 ELSE 0) - (IF c \in WaitingFor(r) THEN 1 ELSE 0)
    BY <1>a, <1>b
  <1>4. /\ c \in ReadingIn(r)' <=> ReadsAt(n, r)
        /\ c \in WaitingFor(r)' <=> WaitsAt(n, r)
        /\ c \in ReadingIn(r) <=> ReadsAt(client[c], r)
        /\ c \in WaitingFor(r) <=> WaitsAt(client[c], r)
    BY OnlyOne
  <1> QED
    BY <1>1, <1>2, <1>3, <1>4

\* A root on which nothing is counted is empty.
LEMMA NobodyThere ==
  ASSUME TypeOK, CountsExact, NEW r \in Roots
  PROVE  /\ readers[r] = 0 => ReadingIn(r) = {}
         /\ waitingWriters[r] = 0 => WaitingFor(r) = {}
         /\ ~writerActive[r] => WritingIn(r) = {}
  BY Finite, FS_EmptySet DEF CountsExact

\* The counters take account of c's step to n, which takes only what it may.
Accounted(c, n) == \A r \in Roots:
  /\ readers'[r] = readers[r] + (IF ReadsAt(n, r) THEN 1 ELSE 0)
                              - (IF ReadsAt(client[c], r) THEN 1 ELSE 0)
  /\ waitingWriters'[r] = waitingWriters[r] + (IF WaitsAt(n, r) THEN 1 ELSE 0)
                              - (IF WaitsAt(client[c], r) THEN 1 ELSE 0)
  /\ writerActive'[r] <=> HoldsAt(n, r) \/ (writerActive[r] /\ ~HoldsAt(client[c], r))
  /\ HoldsAt(n, r) => HoldsAt(client[c], r) \/ CanWrite(r)
  /\ ReadsAt(n, r) => ReadsAt(client[c], r) \/ CanRead(r)

\* The counters and the exclusion survive a step that counts what it does and takes only
\* what CanRead and CanWrite allow.
LEMMA Preserved ==
  ASSUME TypeOK, CountsExact, Alone, NEW c \in Clients, NEW n \in ClientStates,
         client' = [client EXCEPT ![c] = n], Accounted(c, n)
  PROVE  /\ CountsExact' /\ Alone'
         /\ \A r \in Roots: readers'[r] \in Nat /\ waitingWriters'[r] \in Nat
  <1> SUFFICES ASSUME NEW r \in Roots
               PROVE  /\ readers'[r] = Cardinality(ReadingIn(r)')
                      /\ waitingWriters'[r] = Cardinality(WaitingFor(r)')
                      /\ writerActive'[r] <=> WritingIn(r)' # {}
                      /\ writerActive'[r] => ReadingIn(r)' = {}
                      /\ writerActive'[r] => \A d, e \in WritingIn(r)': d = e
                      /\ Cardinality(ReadingIn(r)') \in Nat /\ Cardinality(WaitingFor(r)') \in Nat
    BY DEF CountsExact, Alone
  <1> USE DEF Accounted
  <1>1. /\ readers'[r] = Cardinality(ReadingIn(r)')
        /\ waitingWriters'[r] = Cardinality(WaitingFor(r)')
        /\ Cardinality(ReadingIn(r)') \in Nat /\ Cardinality(WaitingFor(r)') \in Nat
    BY Counted
  <1>2. /\ writerActive[r] <=> WritingIn(r) # {}
        /\ writerActive[r] => ReadingIn(r) = {} /\ \A d, e \in WritingIn(r): d = e
    BY DEF CountsExact, Alone
  <1>3. ~(ReadsAt(n, r) /\ HoldsAt(n, r))
    BY DEF ReadsAt, HoldsAt
  <1>o. /\ ReadingIn(r)' \ {c} = ReadingIn(r) \ {c}
        /\ WritingIn(r)' \ {c} = WritingIn(r) \ {c}
        /\ c \in ReadingIn(r)' <=> ReadsAt(n, r)
        /\ c \in WritingIn(r)' <=> HoldsAt(n, r)
        /\ c \in WritingIn(r) <=> HoldsAt(client[c], r)
        /\ c \in ReadingIn(r) <=> ReadsAt(client[c], r)
    BY OnlyOne
  <1>4. CASE HoldsAt(n, r)
    <2>1. WritingIn(r) \subseteq {c} /\ ReadingIn(r) = {}
      <3>1. CASE HoldsAt(client[c], r)
        BY <1>2, <3>1, <1>o
      <3>2. CASE CanWrite(r)
        BY <3>2, NobodyThere DEF CanWrite
      <3> QED
        BY <1>4, <3>1, <3>2
    <2>2. WritingIn(r)' = {c} /\ ReadingIn(r)' = {}
      BY <1>3, <1>4, <1>o, <2>1
    <2>3. writerActive'[r]
      BY <1>4
    <2> QED
      BY <1>1, <2>2, <2>3
  <1>5. CASE ~HoldsAt(n, r)
    <2>1. WritingIn(r)' = WritingIn(r) \ {c}
      BY <1>5, <1>o
    <2>2. writerActive'[r] <=> writerActive[r] /\ ~HoldsAt(client[c], r)
      BY <1>5
    <2>3. writerActive'[r] <=> WritingIn(r)' # {}
      BY <1>2, <2>1, <2>2, <1>o
    <2>4. writerActive'[r] => ReadingIn(r)' = {}
      <3>1. writerActive'[r] => ~ReadsAt(n, r)
        BY <1>2, <2>2, <1>o DEF CanRead
      <3> QED
        BY <1>2, <2>2, <3>1, <1>o
    <2> QED
      BY <1>1, <1>2, <2>1, <2>2, <2>3, <2>4
  <1> QED
    BY <1>4, <1>5

LEMMA ParkTypes ==
  ASSUME TypeOK, NEW c \in Clients, NEW at \in SUBSET Roots, NEW quiet \in SUBSET Roots,
         ParkAndWake(c, at, quiet)
  PROVE  waiters' \in [Roots -> SUBSET Clients] /\ woken' \in SUBSET Clients
  BY DEF TypeOK, ParkAndWake

\* What Shape says of one client.
Shaped(n) ==
  /\ n.place = "idle" => n = Idle
  /\ n.place # "idle" => n.roots # {}
  /\ n.place = "inside" => n.held = n.roots
  /\ n.held \subseteq n.roots
  /\ n.place = "parked" /\ n.mode # "write" => n.held = {}

LEMMA ShapeOf ==
  ASSUME TypeOK, Shape, NEW c \in Clients, NEW n \in ClientStates, Shaped(n),
         client' = [client EXCEPT ![c] = n]
  PROVE  Shape' /\ client' \in [Clients -> ClientStates]
  <1>1. client'[c] = n /\ \A d \in Clients \ {c}: client'[d] = client[d]
    BY DEF TypeOK
  <1>2. client' \in [Clients -> ClientStates]
    BY DEF TypeOK
  <1> QED
    BY <1>1, <1>2 DEF Shape, Shaped, Inside, Parked, Writes

-----------------------------------------------------------------------------
(* Each action preserves it.                                                *)

LEMMA InitHolds == Init => IInv
  <1> SUFFICES ASSUME Init PROVE IInv
    OBVIOUS
  <1>1. TypeOK /\ Shape
    BY AsksAssumption DEF Init, TypeOK, Shape, ClientStates, Idle, Inside, Parked, Writes
  <1>2. \A r \in Roots: ReadingIn(r) = {} /\ WritingIn(r) = {} /\ WaitingFor(r) = {}
    BY DEF Init, ReadingIn, WritingIn, WaitingFor, Inside, Parked, Writes, Idle
  <1>3. CountsExact /\ Alone
    BY <1>2, FS_EmptySet DEF Init, CountsExact, Alone
  <1> QED
    BY <1>1, <1>3 DEF IInv

\* read_many, at once or after a wake-up.
LEMMA ReadKeeps ==
  ASSUME IInv, NEW c \in Clients, NEW R \in SUBSET Roots, R # {}, asks' \in Nat,
         client[c].place # "inside", client[c].mode = "read",
         AttemptRead(c, R)
  PROVE  IInv'
  <1> DEFINE blocked == {r \in R: ~CanRead(r)}
             at == First(blocked)
             got == IF blocked = {} THEN R ELSE {}
             n == [place |-> IF blocked = {} THEN "inside" ELSE "parked", mode |-> "read",
                   roots |-> R, held |-> got, at |-> at]
  <1>1. at \in SUBSET Roots /\ got \in SUBSET Roots
    BY FirstBlocks
  <1>2. n \in ClientStates /\ Shaped(n)
    BY <1>1 DEF ClientStates, Shaped
  <1>3. client' = [client EXCEPT ![c] = n]
    BY DEF AttemptRead
  <1>4. \A r \in Roots:
          /\ ~ReadsAt(client[c], r) /\ ~HoldsAt(client[c], r) /\ ~WaitsAt(client[c], r)
          /\ ~HoldsAt(n, r) /\ ~WaitsAt(n, r)
          /\ ReadsAt(n, r) <=> r \in got
    BY DEF ReadsAt, HoldsAt, WaitsAt
  <1>5. \A r \in Roots: r \in got => CanRead(r)
    OBVIOUS
  <1>6. /\ readers' = [r \in Roots |-> IF r \in got THEN readers[r] + 1 ELSE readers[r]]
        /\ writerActive' = writerActive /\ waitingWriters' = waitingWriters
        /\ waiters' \in [Roots -> SUBSET Clients] /\ woken' \in SUBSET Clients
    <2>1. {r \in Before(R, blocked) \ got: readers[r] = 0} \in SUBSET Roots
      BY DEF Before
    <2> QED
      BY <1>1, <2>1, ParkTypes DEF AttemptRead, IInv
  <1> HIDE DEF n, got, at, blocked
  <1>7. CountsExact' /\ Alone' /\ \A r \in Roots: readers'[r] \in Nat /\ waitingWriters'[r] \in Nat
    <2>1. Accounted(c, n)
      BY <1>4, <1>5, <1>6 DEF IInv, TypeOK, Accounted
    <2> QED
      BY <1>2, <1>3, <2>1, Preserved DEF IInv
  <1>8. Shape' /\ client' \in [Clients -> ClientStates]
    BY <1>2, <1>3, ShapeOf DEF IInv
  <1> QED
    BY <1>6, <1>7, <1>8 DEF IInv, TypeOK

\* write_many past its registration; waiting is what the registration left.
LEMMA WriteKeeps ==
  ASSUME IInv, NEW c \in Clients, NEW R \in SUBSET Roots, R # {}, asks' \in Nat,
         client[c].place # "inside",
         client[c].held \subseteq R, client[c].mode = "read" => client[c].held = {},
         NEW waiting \in [Roots -> Nat],
         \A r \in Roots: waiting[r] = waitingWriters[r]
                           + (IF r \in R \ client[c].held THEN 1 ELSE 0)
                           - (IF WaitsAt(client[c], r) THEN 1 ELSE 0),
         AttemptWrite(c, R, client[c].held, waiting)
  PROVE  IInv'
  <1> DEFINE held == client[c].held
             blocked == {r \in R \ held: ~CanWrite(r)}
             at == First(blocked)
             got == Before(R \ held, blocked)
             n == [place |-> IF blocked = {} THEN "inside" ELSE "parked", mode |-> "write",
                   roots |-> R, held |-> held \union got, at |-> at]
  <1>1. /\ at \in SUBSET Roots /\ got \in SUBSET (R \ held) /\ got \intersect blocked = {}
        /\ blocked = {} => got = R \ held
    <2>1. blocked \in SUBSET Roots /\ R \ held \in SUBSET Roots
      OBVIOUS
    <2> HIDE DEF blocked
    <2> QED
      BY ZenonT(60), <2>1, FirstBlocks
  <1>2. n \in ClientStates /\ Shaped(n)
    BY <1>1 DEF ClientStates, Shaped
  <1>3. client' = [client EXCEPT ![c] = n]
    BY DEF AttemptWrite
  <1>4. \A r \in Roots:
          /\ ~ReadsAt(client[c], r) /\ ~ReadsAt(n, r)
          /\ HoldsAt(client[c], r) <=> r \in held
          /\ HoldsAt(n, r) <=> r \in held \union got
          /\ WaitsAt(n, r) <=> r \in (R \ held) \ got
    BY <1>1 DEF ReadsAt, HoldsAt, WaitsAt, IInv, TypeOK, ClientStates
  <1>5. \A r \in got: CanWrite(r)
    BY <1>1
  <1>6. /\ readers' = readers
        /\ writerActive' = [r \in Roots |-> writerActive[r] \/ r \in got]
        /\ waitingWriters' = [r \in Roots |-> IF r \in got THEN waiting[r] - 1 ELSE waiting[r]]
        /\ waiters' \in [Roots -> SUBSET Clients] /\ woken' \in SUBSET Clients
    BY <1>1, ParkTypes DEF AttemptWrite, IInv
  <1>7. \A r \in Roots: r \in held => writerActive[r]
    <2>1. \A r \in Roots: r \in held => c \in WritingIn(r)
      BY DEF WritingIn, Writes, IInv, TypeOK, ClientStates
    <2> QED
      BY <2>1 DEF IInv, CountsExact
  <1>8. got \subseteq R \ held
    BY <1>1
  <1> HIDE DEF n, got, at, blocked, held
  <1>9. Accounted(c, n)
    <2> SUFFICES ASSUME NEW r \in Roots
                 PROVE  /\ readers'[r] = readers[r] + (IF ReadsAt(n, r) THEN 1 ELSE 0)
                                             - (IF ReadsAt(client[c], r) THEN 1 ELSE 0)
                        /\ waitingWriters'[r] = waitingWriters[r] + (IF WaitsAt(n, r) THEN 1 ELSE 0)
                                             - (IF WaitsAt(client[c], r) THEN 1 ELSE 0)
                        /\ writerActive'[r] <=>
                             HoldsAt(n, r) \/ (writerActive[r] /\ ~HoldsAt(client[c], r))
                        /\ HoldsAt(n, r) => HoldsAt(client[c], r) \/ CanWrite(r)
                        /\ ReadsAt(n, r) => ReadsAt(client[c], r) \/ CanRead(r)
      BY DEF Accounted
    <2>1. waitingWriters[r] \in Nat /\ readers[r] \in Nat
      BY DEF IInv, TypeOK
    <2>2. waiting[r] = waitingWriters[r] + (IF r \in R \ held THEN 1 ELSE 0)
                                         - (IF WaitsAt(client[c], r) THEN 1 ELSE 0)
      BY DEF held
    <2>3. waitingWriters'[r] = waitingWriters[r] + (IF WaitsAt(n, r) THEN 1 ELSE 0)
                                       - (IF WaitsAt(client[c], r) THEN 1 ELSE 0)
      BY <1>4, <1>6, <1>8, <2>1, <2>2
    <2>4. writerActive'[r] <=> HoldsAt(n, r) \/ (writerActive[r] /\ ~HoldsAt(client[c], r))
      BY <1>4, <1>6, <1>7
    <2> QED
      BY <1>4, <1>5, <1>6, <2>1, <2>3, <2>4
  <1>10. CountsExact' /\ Alone' /\ \A r \in Roots: readers'[r] \in Nat /\ waitingWriters'[r] \in Nat
    <2>1. TypeOK /\ CountsExact /\ Alone
      BY DEF IInv
    <2> QED
      BY <1>2, <1>3, <1>9, <2>1, Preserved
  <1>11. Shape' /\ client' \in [Clients -> ClientStates]
    BY <1>2, <1>3, ShapeOf DEF IInv
  <1> QED
    BY <1>6, <1>10, <1>11 DEF IInv, TypeOK

\* The four ways in which a client is idle again.
LEMMA IdleKeeps ==
  ASSUME IInv, NEW c \in Clients, client' = [client EXCEPT ![c] = Idle],
         Accounted(c, Idle), asks' \in Nat,
         /\ readers' \in [Roots -> Int] /\ writerActive' \in [Roots -> BOOLEAN]
         /\ waitingWriters' \in [Roots -> Int],
         NEW quiet \in SUBSET Roots, ParkAndWake(c, {}, quiet)
  PROVE  IInv'
  <1>1. Idle \in ClientStates /\ Shaped(Idle)
    BY DEF Idle, ClientStates, Shaped
  <1>2. waiters' \in [Roots -> SUBSET Clients] /\ woken' \in SUBSET Clients
    BY ParkTypes DEF IInv
  <1>3. TypeOK /\ CountsExact /\ Alone /\ Shape
    BY DEF IInv
  <1>4. CountsExact' /\ Alone' /\ \A r \in Roots: readers'[r] \in Nat /\ waitingWriters'[r] \in Nat
    BY <1>1, <1>3, Preserved
  <1>5. Shape' /\ client' \in [Clients -> ClientStates]
    BY <1>1, <1>3, ShapeOf
  <1> QED
    BY <1>2, <1>4, <1>5 DEF IInv, TypeOK

LEMMA LeavingKeeps ==
  ASSUME IInv, NEW c \in Clients, LeaveRead(c) \/ LeaveWrite(c) \/ CancelRead(c) \/ CancelWrite(c)
  PROVE  IInv'
  <1>1. /\ client[c] \in ClientStates /\ asks \in Nat
        /\ \A r \in Roots: readers[r] \in Nat /\ waitingWriters[r] \in Nat /\ writerActive[r] \in BOOLEAN
        /\ Inside(c) => client[c].held = client[c].roots
        /\ client[c].held \subseteq client[c].roots
    BY DEF IInv, TypeOK, Shape
  <1>2. \A r \in Roots: ~ReadsAt(Idle, r) /\ ~HoldsAt(Idle, r) /\ ~WaitsAt(Idle, r)
    BY DEF Idle, ReadsAt, HoldsAt, WaitsAt
  <1>3. CASE LeaveRead(c)
    <2>1. \A r \in Roots: /\ ReadsAt(client[c], r) <=> r \in client[c].roots
                          /\ ~HoldsAt(client[c], r) /\ ~WaitsAt(client[c], r)
      BY <1>3 DEF LeaveRead, ReadsAt, HoldsAt, WaitsAt
    <2>2. Accounted(c, Idle)
      BY <1>1, <1>2, <1>3, <2>1 DEF Accounted, LeaveRead
    <2>3. {r \in client[c].roots: readers[r] = 1} \in SUBSET Roots
      BY <1>1 DEF ClientStates
    <2>4. /\ readers' \in [Roots -> Int] /\ writerActive' \in [Roots -> BOOLEAN]
          /\ waitingWriters' \in [Roots -> Int] /\ asks' \in Nat
      BY <1>1, <1>3 DEF LeaveRead, IInv, TypeOK
    <2> QED
      BY <1>3, <2>2, <2>3, <2>4, IdleKeeps DEF LeaveRead
  <1>4. CASE LeaveWrite(c)
    <2>1. \A r \in Roots: /\ HoldsAt(client[c], r) <=> r \in client[c].roots
                          /\ ~ReadsAt(client[c], r) /\ ~WaitsAt(client[c], r)
      BY <1>1, <1>4 DEF LeaveWrite, ReadsAt, HoldsAt, WaitsAt, Inside
    <2>a. \A r \in Roots: writerActive'[r] <=> writerActive[r] /\ r \notin client[c].roots
      BY <1>4, Zenon DEF LeaveWrite
    <2>b. readers' = readers /\ waitingWriters' = waitingWriters
      BY <1>4 DEF LeaveWrite
    <2>2. Accounted(c, Idle)
      BY <1>1, <1>2, <2>1, <2>a, <2>b DEF Accounted
    <2>3. client[c].roots \in SUBSET Roots
      BY <1>1 DEF ClientStates
    <2>4. /\ readers' \in [Roots -> Int] /\ writerActive' \in [Roots -> BOOLEAN]
          /\ waitingWriters' \in [Roots -> Int] /\ asks' \in Nat
      BY <1>1, <1>4 DEF LeaveWrite, IInv, TypeOK
    <2> QED
      BY <1>4, <2>2, <2>3, <2>4, IdleKeeps DEF LeaveWrite
  <1>5. CASE CancelRead(c)
    <2>1. \A r \in Roots: ~ReadsAt(client[c], r) /\ ~HoldsAt(client[c], r) /\ ~WaitsAt(client[c], r)
      BY <1>5 DEF CancelRead, ReadsAt, HoldsAt, WaitsAt
    <2>2. Accounted(c, Idle)
      BY <1>1, <1>2, <1>5, <2>1 DEF Accounted, CancelRead, leases
    <2>3. /\ readers' \in [Roots -> Int] /\ writerActive' \in [Roots -> BOOLEAN]
          /\ waitingWriters' \in [Roots -> Int] /\ asks' \in Nat
      BY <1>1, <1>5 DEF CancelRead, leases, IInv, TypeOK
    <2> QED
      BY <1>5, <2>2, <2>3, IdleKeeps DEF CancelRead
  <1>6. CASE CancelWrite(c)
    <2> DEFINE rest == client[c].roots \ client[c].held
    <2>1. \A r \in Roots: /\ HoldsAt(client[c], r) <=> r \in client[c].held
                          /\ WaitsAt(client[c], r) <=> r \in rest
                          /\ ~ReadsAt(client[c], r)
      BY <1>6 DEF CancelWrite, ReadsAt, HoldsAt, WaitsAt
    <2>a. \A r \in Roots: writerActive'[r] <=> writerActive[r] /\ r \notin client[c].held
      BY <1>6, Zenon DEF CancelWrite
    <2>b. /\ readers' = readers
          /\ \A r \in Roots: waitingWriters'[r] = IF r \in rest THEN waitingWriters[r] - 1
                                                  ELSE waitingWriters[r]
      BY <1>6 DEF CancelWrite
    <2>2. Accounted(c, Idle)
      BY <1>1, <1>2, <2>1, <2>a, <2>b DEF Accounted
    <2>3. client[c].held \union {r \in rest: waitingWriters[r] = 1} \in SUBSET Roots
      BY <1>1 DEF ClientStates
    <2>4. /\ readers' \in [Roots -> Int] /\ writerActive' \in [Roots -> BOOLEAN]
          /\ waitingWriters' \in [Roots -> Int] /\ asks' \in Nat
      BY <1>1, <1>6 DEF CancelWrite, IInv, TypeOK
    <2> QED
      BY <1>6, <2>2, <2>3, <2>4, IdleKeeps DEF CancelWrite
  <1> QED
    BY <1>3, <1>4, <1>5, <1>6

\* What a client that parked asked for, and what it may ask for again.
LEMMA AskingKeeps ==
  ASSUME IInv, NEW c \in Clients,
         Retry(c) \/ \E R \in SUBSET Roots: AskRead(c, R) \/ AskWrite(c, R)
  PROVE  IInv'
  <1>1. /\ client[c] \in ClientStates /\ asks \in Nat
        /\ waitingWriters \in [Roots -> Nat]
        /\ client[c].place = "idle" => client[c] = Idle
        /\ client[c].place # "idle" => client[c].roots # {}
        /\ client[c].held \subseteq client[c].roots
        /\ client[c].place = "parked" /\ client[c].mode # "write" => client[c].held = {}
    BY DEF IInv, TypeOK, Shape, Parked, Writes
  <1>2. ASSUME NEW R \in SUBSET Roots, AskRead(c, R) PROVE IInv'
    BY <1>1, <1>2, ReadKeeps DEF AskRead, Idle
  <1>3. ASSUME NEW R \in SUBSET Roots, AskWrite(c, R) PROVE IInv'
    <2> DEFINE waiting == [r \in Roots |-> IF r \in R THEN waitingWriters[r] + 1
                                           ELSE waitingWriters[r]]
    <2>1. client[c] = Idle /\ asks' \in Nat /\ R # {}
      BY <1>1, <1>3 DEF AskWrite
    <2>2. /\ client[c].held = {} /\ client[c].held \subseteq R /\ client[c].mode = "read"
          /\ client[c].place # "inside"
      BY <2>1 DEF Idle
    <2>3. waiting \in [Roots -> Nat]
      BY <1>1
    <2>4. \A r \in Roots: waiting[r] = waitingWriters[r]
                           + (IF r \in R \ client[c].held THEN 1 ELSE 0)
                           - (IF WaitsAt(client[c], r) THEN 1 ELSE 0)
      BY <1>1, <2>1, <2>2 DEF WaitsAt, Idle
    <2>5. AttemptWrite(c, R, client[c].held, waiting)
      BY <1>3, <2>2 DEF AskWrite
    <2> HIDE DEF waiting
    <2> QED
      BY <2>1, <2>2, <2>3, <2>4, <2>5, WriteKeeps
  <1>4. CASE Retry(c)
    <2> DEFINE R == client[c].roots
    <2>1. asks' \in Nat /\ R \in SUBSET Roots /\ R # {} /\ client[c].place = "parked"
      BY <1>1, <1>4 DEF Retry, ClientStates
    <2>2. CASE client[c].mode = "read" /\ AttemptRead(c, R)
      BY <2>1, <2>2, ReadKeeps
    <2>3. CASE client[c].mode = "write" /\ AttemptWrite(c, R, client[c].held, waitingWriters)
      <3>1. \A r \in Roots: waitingWriters[r] = waitingWriters[r]
                           + (IF r \in R \ client[c].held THEN 1 ELSE 0)
                           - (IF WaitsAt(client[c], r) THEN 1 ELSE 0)
        BY <1>1, <2>1, <2>3 DEF WaitsAt
      <3> HIDE DEF R
      <3> QED
        BY <1>1, <2>1, <2>3, <3>1, WriteKeeps DEF R
    <2> QED
      BY <1>4, <2>2, <2>3 DEF Retry
  <1> QED
    BY <1>2, <1>3, <1>4

LEMMA NextKeeps == IInv /\ [Next]_vars => IInv'
  <1> SUFFICES ASSUME IInv, [Next]_vars PROVE IInv'
    OBVIOUS
  <1>1. CASE Next
    BY <1>1, AskingKeeps, LeavingKeeps DEF Next
  <1>2. CASE UNCHANGED vars
    <2>1. \A r: /\ ReadingIn(r)' = ReadingIn(r) /\ WritingIn(r)' = WritingIn(r)
               /\ WaitingFor(r)' = WaitingFor(r)
      BY <1>2 DEF vars, ReadingIn, WritingIn, WaitingFor, Inside, Parked, Writes
    <2>2. CountsExact' /\ Alone'
      BY <1>2, <2>1 DEF vars, IInv, CountsExact, Alone
    <2> QED
      BY <1>2, <2>2 DEF vars, IInv, TypeOK, Shape, Inside, Parked, Writes
  <1> QED
    BY <1>1, <1>2

LEMMA Invariant == Spec => []IInv
  BY InitHolds, NextKeeps, PTL DEF Spec

\* Whatever fails or is cancelled, every variable keeps its type; no counter goes below zero
\* (release_read, release_write, unregister_write_waiter).
THEOREM LeasesTyped == Spec => []TypeOK
  BY Invariant, PTL DEF IInv

\* The counters are the leases that are out and the writers that wait.
THEOREM CountersExact == Spec => []CountsExact
  BY Invariant, PTL DEF IInv

-----------------------------------------------------------------------------
(* What a step may do to the leases.                                        *)

\* A client that tries gets in or parks; a reader that gets in has found its roots free.
LEMMA Entering ==
  ASSUME IInv, NEW c \in Clients, NEW R \in SUBSET Roots, R # {}, client[c].place # "inside",
         AttemptRead(c, R)
  PROVE  /\ client'[c].place \in {"inside", "parked"} /\ client'[c].mode = "read"
         /\ client'[c].roots = R
         /\ \A d \in Clients \ {c}: client'[d] = client[d]
         /\ client'[c].place = "inside" => \A r \in R: CanRead(r)
  <1>1. client \in [Clients -> ClientStates]
    BY DEF IInv, TypeOK
  <1> QED
    BY <1>1 DEF AttemptRead

LEMMA EnteringWrite ==
  ASSUME IInv, NEW c \in Clients, NEW R, NEW held, NEW waiting,
         AttemptWrite(c, R, held, waiting)
  PROVE  /\ client'[c].place \in {"inside", "parked"} /\ client'[c].mode = "write"
         /\ client'[c].roots = R
         /\ \A d \in Clients \ {c}: client'[d] = client[d]
  <1>1. client \in [Clients -> ClientStates]
    BY DEF IInv, TypeOK
  <1> QED
    BY <1>1 DEF AttemptWrite

\* What each step does to the clients.
LEMMA Moves ==
  ASSUME IInv, Next
  PROVE  \E c \in Clients:
           /\ \A d \in Clients \ {c}: client'[d] = client[d]
           /\ \/ /\ client[c].place # "inside" /\ client'[c].place \in {"inside", "parked"}
                 /\ client'[c].roots # {} /\ client'[c].mode \in {"read", "write"}
                 /\ client'[c].place = "inside" /\ client'[c].mode = "read" =>
                      \A r \in client'[c].roots: CanRead(r)
              \/ client'[c] = Idle
  <1>1. PICK c \in Clients:
          \/ \E R \in SUBSET Roots: AskRead(c, R) \/ AskWrite(c, R)
          \/ Retry(c) \/ LeaveRead(c) \/ LeaveWrite(c) \/ CancelRead(c) \/ CancelWrite(c)
    BY DEF Next
  <1>2. /\ client \in [Clients -> ClientStates]
        /\ client[c].place # "idle" => client[c].roots # {}
        /\ client[c].roots \in SUBSET Roots
    BY DEF IInv, TypeOK, Shape, ClientStates
  <1> DEFINE Step ==
           /\ \A d \in Clients \ {c}: client'[d] = client[d]
           /\ \/ /\ client[c].place # "inside" /\ client'[c].place \in {"inside", "parked"}
                 /\ client'[c].roots # {} /\ client'[c].mode \in {"read", "write"}
                 /\ client'[c].place = "inside" /\ client'[c].mode = "read" =>
                      \A r \in client'[c].roots: CanRead(r)
              \/ client'[c] = Idle
  <1>3. ASSUME NEW R \in SUBSET Roots, AskRead(c, R) PROVE Step
    BY <1>3, Entering DEF AskRead
  <1>4. ASSUME NEW R \in SUBSET Roots, AskWrite(c, R) PROVE Step
    BY <1>4, EnteringWrite DEF AskWrite
  <1>5. CASE Retry(c)
    <2>1. CASE AttemptRead(c, client[c].roots)
      BY <1>2, <1>5, <2>1, Entering DEF Retry
    <2>2. CASE AttemptWrite(c, client[c].roots, client[c].held, waitingWriters)
      BY <1>2, <1>5, <2>2, EnteringWrite DEF Retry
    <2> QED
      BY <1>5, <2>1, <2>2 DEF Retry
  <1>6. CASE LeaveRead(c) \/ LeaveWrite(c) \/ CancelRead(c) \/ CancelWrite(c)
    BY <1>2, <1>6 DEF LeaveRead, LeaveWrite, CancelRead, CancelWrite
  <1> QED
    BY <1>1, <1>3, <1>4, <1>5, <1>6

LEMMA Overtakes ==
  ASSUME IInv, [Next]_vars, NEW c \in Clients, NEW r \in Roots, c \in ReadingIn(r)' \ ReadingIn(r)
  PROVE  WaitingFor(r) = {}
  <1>1. CASE UNCHANGED vars
    BY <1>1 DEF vars, ReadingIn, Inside, Writes
  <1>2. CASE Next
    <2>1. /\ client'[c].place = "inside" /\ client'[c].mode # "write" /\ r \in client'[c].roots
          /\ client'[c] # client[c]
      BY DEF ReadingIn, Inside, Writes
    <2>2. CanRead(r)
      BY <1>2, <2>1, Moves DEF Idle
    <2>3. waitingWriters[r] = 0
      BY <2>2 DEF CanRead
    <2> QED
      BY <2>3, NobodyThere DEF IInv
  <1> QED
    BY <1>1, <1>2

\* No reader gets in at a root at which a writer is queued ("a reader for a later root
\* cannot overtake a writer still queued on an earlier one").
THEOREM NobodyOvertakes == Spec => NoOvertaking
  <1>1. IInv /\ [Next]_vars => [\A c \in Clients, r \in Roots:
          c \in ReadingIn(r)' \ ReadingIn(r) => WaitingFor(r) = {}]_vars
    BY Overtakes
  <1> QED
    BY <1>1, Invariant, PTL DEF Spec, NoOvertaking

-----------------------------------------------------------------------------
(* The leases are those of SharedLeases.                                    *)

Holds == [c \in Clients |-> IF Inside(c) THEN client[c].roots ELSE {}]
Mode == [c \in Clients |-> IF Inside(c) THEN client[c].mode ELSE "none"]

\* Two clients that are in share a root only to read it.
Separate == \A c, d \in Clients:
  /\ c # d /\ Inside(c) /\ Inside(d)
  /\ client[c].roots \intersect client[d].roots # {}
  => client[c].mode = "read" /\ client[d].mode = "read"

LEMMA Sharing == IInv => Separate
  <1> SUFFICES ASSUME IInv, NEW c \in Clients, NEW d \in Clients, c # d, Inside(c), Inside(d),
                      client[c].roots \intersect client[d].roots # {}
               PROVE  client[c].mode = "read" /\ client[d].mode = "read"
    BY DEF Separate
  <1>1. PICK r \in Roots: r \in client[c].roots /\ r \in client[d].roots
    BY DEF IInv, TypeOK, ClientStates
  <1>2. client[c].held = client[c].roots /\ client[d].held = client[d].roots
    BY DEF IInv, Shape
  <1>3. /\ Writes(c) => c \in WritingIn(r)
        /\ Writes(d) => d \in WritingIn(r)
        /\ ~Writes(c) => c \in ReadingIn(r)
        /\ ~Writes(d) => d \in ReadingIn(r)
    BY <1>1, <1>2 DEF WritingIn, ReadingIn
  <1>4. writerActive[r] <=> WritingIn(r) # {}
    BY DEF IInv, CountsExact
  <1>5. ~Writes(c) /\ ~Writes(d)
    BY <1>3, <1>4 DEF IInv, Alone
  <1> QED
    BY <1>5 DEF Writes, IInv, TypeOK, ClientStates

LEMMA StepShares ==
  ASSUME IInv, IInv', [Next]_vars
  PROVE  Shared!Next \/ (Holds' = Holds /\ Mode' = Mode)
  <1>0. Separate'
    BY Sharing, PTL
  <1>1. CASE UNCHANGED vars
    BY <1>1 DEF vars, Holds, Mode, Inside
  <1>2. CASE Next
    <2>1. PICK c \in Clients:
           /\ \A d \in Clients \ {c}: client'[d] = client[d]
           /\ \/ /\ client[c].place # "inside" /\ client'[c].place \in {"inside", "parked"}
                 /\ client'[c].roots # {} /\ client'[c].mode \in {"read", "write"}
              \/ client'[c] = Idle
      BY <1>2, Moves
    <2>2. /\ \A d \in Clients \ {c}: Holds'[d] = Holds[d] /\ Mode'[d] = Mode[d]
          /\ Holds'[c] = IF client'[c].place = "inside" THEN client'[c].roots ELSE {}
          /\ Mode'[c] = IF client'[c].place = "inside" THEN client'[c].mode ELSE "none"
          /\ Holds[c] = IF client[c].place = "inside" THEN client[c].roots ELSE {}
          /\ Mode[c] = IF client[c].place = "inside" THEN client[c].mode ELSE "none"
      BY <2>1 DEF Holds, Mode, Inside
    <2>3. /\ Holds' = [Holds EXCEPT ![c] = Holds'[c]]
          /\ Mode' = [Mode EXCEPT ![c] = Mode'[c]]
      BY <2>2 DEF Holds, Mode
    <2>4. CASE client'[c].place # "inside" /\ client[c].place # "inside"
      <3>1. Holds'[c] = Holds[c] /\ Mode'[c] = Mode[c]
        BY <2>2, <2>4
      <3> QED
        BY <2>3, <3>1 DEF Holds, Mode
    <2>5. CASE client'[c] = Idle /\ client[c].place = "inside"
      <3>1. client[c].mode \in {"read", "write"}
        BY DEF IInv, TypeOK, ClientStates
      <3>2. Holds'[c] = {} /\ Mode'[c] = "none" /\ Mode[c] # "none"
        BY <2>2, <2>5, <3>1 DEF Idle
      <3>3. Shared!Drop(c)
        BY <2>3, <3>2 DEF Shared!Drop, Holds, Mode
      <3> QED
        BY <3>3 DEF Shared!Next
    <2>6. CASE client'[c].place = "inside"
      <3>1. client[c].place # "inside"
        BY <2>1, <2>6 DEF Idle
      <3>2. PICK m \in {"read", "write"}: m = client'[c].mode
        BY <2>1, <2>6 DEF Idle
      <3>7. PICK R \in SUBSET Roots: R = client'[c].roots /\ R # {}
        BY <2>1, <2>6 DEF Idle, IInv, TypeOK, ClientStates
      <3>3. \A d \in Clients \ {c}: Holds[d] \intersect R # {} => m = "read" /\ Mode[d] = "read"
        <4> SUFFICES ASSUME NEW d \in Clients \ {c}, Holds[d] \intersect R # {}
                     PROVE  m = "read" /\ Mode[d] = "read"
          OBVIOUS
        <4>1. Inside(d) /\ Holds[d] = client[d].roots /\ Mode[d] = client[d].mode
          BY DEF Holds, Mode
        <4>2. /\ Inside(d)' /\ Inside(c)' /\ client'[d] = client[d]
              /\ client'[c].roots \intersect client'[d].roots # {}
          BY <2>1, <2>6, <3>7, <4>1 DEF Inside
        <4>3. client'[c].mode = "read" /\ client'[d].mode = "read"
          BY <1>0, <4>2 DEF Separate
        <4> QED
          BY <3>2, <4>1, <4>2, <4>3
      <3>4. Holds'[c] = R /\ Mode'[c] = m /\ Mode[c] = "none"
        BY <2>2, <2>6, <3>1, <3>2, <3>7
      <3>5. Shared!Take(c, m, R)
        BY <2>3, <3>3, <3>4, <3>7 DEF Shared!Take, Shared!Compatible, Holds, Mode
      <3> QED
        BY <3>5 DEF Shared!Next
    <2> QED
      BY <2>1, <2>4, <2>5, <2>6 DEF Idle
  <1> QED
    BY <1>1, <1>2

\* The coordinator implements SharedLeases: a lease covers its roots as a whole, readers
\* share, and a writer is alone on each of its roots.
THEOREM SharesAndExcludes == Spec => LeasesShared
  <1>1. Init => Shared!Init
    BY DEF Init, Shared!Init, Inside, Idle
  <1>2. IInv /\ IInv' /\ [Next]_vars => [Shared!Next]_<<Holds, Mode>>
    BY StepShares
  <1>3. IInv /\ IInv' /\ [Next]_vars => [Shared!Next]_<<
          [c \in Clients |-> IF Inside(c) THEN client[c].roots ELSE {}],
          [c \in Clients |-> IF Inside(c) THEN client[c].mode ELSE "none"]>>
    BY <1>2 DEF Holds, Mode
  <1> QED
    BY <1>1, <1>3, Invariant, PTL DEF Spec, LeasesShared, Shared!Spec

-----------------------------------------------------------------------------
(* No wake-up is lost.                                                      *)

\* A root that stops to block somebody wakes whoever is parked there, and who parks does so
\* at a root that blocks.
LEMMA Waking ==
  ASSUME IInv, NoLostWakeup, NEW c \in Clients,
         NEW at \in SUBSET Roots, NEW quiet \in SUBSET Roots, ParkAndWake(c, at, quiet),
         \A d \in Clients \ {c}: client'[d] = client[d],
         \A r \in Roots \ quiet: /\ ~CanRead(r) => ~CanRead(r)'
                                 /\ ~CanWrite(r) => ~CanWrite(r)',
         client'[c].place = "parked" =>
           /\ client'[c].at = at
           /\ \E r \in at: IF client'[c].mode = "write" THEN ~CanWrite(r)' ELSE ~CanRead(r)'
  PROVE  NoLostWakeup'
  <1> SUFFICES ASSUME NEW d \in Clients, client'[d].place = "parked", d \notin woken'
               PROVE  \E r \in client'[d].at:
                        /\ d \in waiters'[r]
                        /\ IF client'[d].mode = "write" THEN ~CanWrite(r)' ELSE ~CanRead(r)'
    BY DEF NoLostWakeup, Parked, Writes
  <1>1. waiters' = [r \in Roots |-> (IF r \in quiet THEN {} ELSE waiters[r] \ {c})
                                      \union (IF r \in at THEN {c} ELSE {})]
    BY DEF ParkAndWake
  <1>2. woken' = (woken \union UNION {waiters[r]: r \in quiet}) \ {c}
    BY DEF ParkAndWake
  <1>3. CASE d = c
    BY <1>1, <1>3
  <1>4. CASE d # c
    <2>1. client'[d] = client[d] /\ d \notin woken /\ \A r \in quiet: d \notin waiters[r]
      BY <1>2, <1>4
    <2>2. PICK r \in client[d].at:
            /\ d \in waiters[r]
            /\ IF client[d].mode = "write" THEN ~CanWrite(r) ELSE ~CanRead(r)
      BY <2>1 DEF NoLostWakeup, Parked, Writes
    <2>3. r \in Roots /\ r \notin quiet
      BY <2>1, <2>2 DEF IInv, TypeOK, ClientStates
    <2>4. d \in waiters'[r]
      BY <1>1, <1>4, <2>2, <2>3
    <2>5. IF client'[d].mode = "write" THEN ~CanWrite(r)' ELSE ~CanRead(r)'
      BY <2>1, <2>2, <2>3
    <2> QED
      BY <2>1, <2>2, <2>4, <2>5
  <1> QED
    BY <1>3, <1>4

LEMMA ReadWakes ==
  ASSUME IInv, NoLostWakeup, NEW c \in Clients, NEW R \in SUBSET Roots, AttemptRead(c, R)
  PROVE  NoLostWakeup'
  <1> DEFINE blocked == {r \in R: ~CanRead(r)}
             at == First(blocked)
             got == IF blocked = {} THEN R ELSE {}
             quiet == {r \in Before(R, blocked) \ got: readers[r] = 0}
  <1>1. at \in SUBSET Roots /\ quiet \in SUBSET Roots /\ at \subseteq blocked
        /\ (blocked # {} => at # {})
    <2>1. blocked \in SUBSET Roots
      OBVIOUS
    <2> HIDE DEF blocked
    <2> QED
      BY <2>1, FirstBlocks
  <1>2. /\ readers \in [Roots -> Nat] /\ client \in [Clients -> ClientStates]
    BY DEF IInv, TypeOK
  <1>3. /\ readers' = [r \in Roots |-> IF r \in got THEN readers[r] + 1 ELSE readers[r]]
        /\ writerActive' = writerActive /\ waitingWriters' = waitingWriters
        /\ ParkAndWake(c, at, quiet)
        /\ client' = [client EXCEPT ![c] =
             [place |-> IF blocked = {} THEN "inside" ELSE "parked", mode |-> "read",
              roots |-> R, held |-> got, at |-> at]]
    BY DEF AttemptRead
  <1>4. \A r \in blocked: ~CanRead(r)
    OBVIOUS
  <1> HIDE DEF blocked, at, got, quiet
  <1>5. \A r \in Roots: /\ ~CanRead(r) => ~CanRead(r)'
                        /\ ~CanWrite(r) => ~CanWrite(r)'
    BY <1>2, <1>3 DEF CanRead, CanWrite
  <1>6. client'[c].place = "parked" =>
           /\ client'[c].at = at
           /\ \E r \in at: IF client'[c].mode = "write" THEN ~CanWrite(r)' ELSE ~CanRead(r)'
    <2>1. client'[c].at = at /\ client'[c].mode = "read"
          /\ (client'[c].place = "parked" => blocked # {})
      BY <1>2, <1>3
    <2> QED
      BY <1>1, <1>4, <1>5, <2>1
  <1>7. \A d \in Clients \ {c}: client'[d] = client[d]
    BY <1>2, <1>3
  <1> QED
    BY <1>1, <1>3, <1>5, <1>6, <1>7, Waking

LEMMA WriteWakes ==
  ASSUME IInv, NoLostWakeup, NEW c \in Clients, NEW R \in SUBSET Roots, NEW held,
         NEW waiting \in [Roots -> Nat], \A r \in Roots: waiting[r] >= waitingWriters[r],
         AttemptWrite(c, R, held, waiting)
  PROVE  NoLostWakeup'
  <1> DEFINE blocked == {r \in R \ held: ~CanWrite(r)}
             at == First(blocked)
             got == Before(R \ held, blocked)
  <1>1. at \in SUBSET Roots /\ at \subseteq blocked /\ (blocked # {} => at # {})
        /\ got \intersect blocked = {} /\ blocked \in SUBSET Roots
    <2>1. blocked \in SUBSET Roots /\ R \ held \in SUBSET Roots
      OBVIOUS
    <2> HIDE DEF blocked
    <2> QED
      BY <2>1, FirstBlocks
  <1>2. /\ waitingWriters \in [Roots -> Nat] /\ client \in [Clients -> ClientStates]
    BY DEF IInv, TypeOK
  <1>3. /\ readers' = readers /\ ParkAndWake(c, at, {})
        /\ waitingWriters' = [r \in Roots |-> IF r \in got THEN waiting[r] - 1 ELSE waiting[r]]
        /\ client' = [client EXCEPT ![c] =
             [place |-> IF blocked = {} THEN "inside" ELSE "parked", mode |-> "write",
              roots |-> R, held |-> held \union got, at |-> at]]
    BY DEF AttemptWrite
  <1>4. \A r \in Roots: writerActive'[r] <=> writerActive[r] \/ r \in got
    BY ZenonT(30) DEF AttemptWrite
  <1>5. \A r \in blocked: ~CanWrite(r)
    OBVIOUS
  <1> HIDE DEF blocked, at, got
  <1>6. \A r \in Roots: /\ ~CanRead(r) => ~CanRead(r)'
                        /\ ~CanWrite(r) => ~CanWrite(r)'
    <2> TAKE r \in Roots
    <2>1. waiting[r] \in Nat /\ waitingWriters[r] \in Nat /\ waiting[r] >= waitingWriters[r]
      BY <1>2
    <2>2. CASE r \in got
      BY <1>4, <2>2 DEF CanRead, CanWrite
    <2>3. CASE r \notin got
      <3>1. waitingWriters'[r] = 0 => waitingWriters[r] = 0
        BY <1>3, <2>1, <2>3
      <3> QED
        BY <1>3, <1>4, <2>3, <3>1 DEF CanRead, CanWrite
    <2> QED
      BY <2>2, <2>3
  <1>7. client'[c].place = "parked" =>
           /\ client'[c].at = at
           /\ \E r \in at: IF client'[c].mode = "write" THEN ~CanWrite(r)' ELSE ~CanRead(r)'
    <2>1. client'[c].at = at /\ client'[c].mode = "write"
          /\ (client'[c].place = "parked" => blocked # {})
      BY <1>2, <1>3
    <2> QED
      BY <1>1, <1>5, <1>6, <2>1
  <1>8. \A d \in Clients \ {c}: client'[d] = client[d]
    BY <1>2, <1>3
  <1> QED
    BY <1>1, <1>3, <1>6, <1>7, <1>8, Waking

\* Who leaves or is cancelled wakes those whom it kept waiting.
LEMMA LeavingWakes ==
  ASSUME IInv, NoLostWakeup, NEW c \in Clients,
         LeaveRead(c) \/ LeaveWrite(c) \/ CancelRead(c) \/ CancelWrite(c)
  PROVE  NoLostWakeup'
  <1>1. /\ client \in [Clients -> ClientStates]
        /\ readers \in [Roots -> Nat] /\ waitingWriters \in [Roots -> Nat]
        /\ client[c].roots \in SUBSET Roots /\ client[c].held \in SUBSET Roots
    BY DEF IInv, TypeOK, ClientStates
  <1>2. client'[c] = Idle /\ \A d \in Clients \ {c}: client'[d] = client[d]
    BY <1>1 DEF LeaveRead, LeaveWrite, CancelRead, CancelWrite
  <1>3. ASSUME NEW quiet \in SUBSET Roots, ParkAndWake(c, {}, quiet),
               \A r \in Roots \ quiet: /\ ~CanRead(r) => ~CanRead(r)'
                                       /\ ~CanWrite(r) => ~CanWrite(r)'
        PROVE  NoLostWakeup'
    BY <1>2, <1>3, Waking DEF Idle
  <1>4. CASE LeaveRead(c)
    <2> DEFINE quiet == {r \in client[c].roots: readers[r] = 1}
    <2>1. quiet \in SUBSET Roots
      BY <1>1
    <2>2. /\ readers' = [r \in Roots |-> IF r \in client[c].roots THEN readers[r] - 1
                                         ELSE readers[r]]
          /\ writerActive' = writerActive /\ waitingWriters' = waitingWriters
          /\ ParkAndWake(c, {}, quiet)
      BY <1>4 DEF LeaveRead
    <2>3. \A r \in Roots \ quiet: (~CanRead(r) => ~CanRead(r)') /\ (~CanWrite(r) => ~CanWrite(r)')
      BY <1>1, <2>2 DEF CanRead, CanWrite
    <2> HIDE DEF quiet
    <2> QED
      BY <1>3, <2>1, <2>2, <2>3
  <1>5. CASE LeaveWrite(c)
    <2>1. /\ readers' = readers /\ waitingWriters' = waitingWriters
          /\ ParkAndWake(c, {}, client[c].roots)
      BY <1>5 DEF LeaveWrite
    <2>2. \A r \in Roots \ client[c].roots: writerActive'[r] <=> writerActive[r]
      BY <1>5, Zenon DEF LeaveWrite
    <2>3. \A r \in Roots \ client[c].roots:
            (~CanRead(r) => ~CanRead(r)') /\ (~CanWrite(r) => ~CanWrite(r)')
      BY <2>1, <2>2 DEF CanRead, CanWrite
    <2> QED
      BY <1>1, <1>3, <2>1, <2>3
  <1>6. CASE CancelRead(c)
    <2>1. ParkAndWake(c, {}, {}) /\ leases' = leases
      BY <1>6 DEF CancelRead
    <2>2. \A r \in Roots: (~CanRead(r) => ~CanRead(r)') /\ (~CanWrite(r) => ~CanWrite(r)')
      BY <2>1 DEF CanRead, CanWrite, leases
    <2> QED
      BY <1>3, <2>1, <2>2
  <1>7. CASE CancelWrite(c)
    <2> DEFINE held == client[c].held
               rest == client[c].roots \ held
               quiet == held \union {r \in rest: waitingWriters[r] = 1}
    <2>1. quiet \in SUBSET Roots
      BY <1>1
    <2>2. /\ readers' = readers /\ ParkAndWake(c, {}, quiet)
          /\ waitingWriters' = [r \in Roots |-> IF r \in rest THEN waitingWriters[r] - 1
                                                ELSE waitingWriters[r]]
      BY <1>7 DEF CancelWrite
    <2>3. \A r \in Roots: writerActive'[r] <=> writerActive[r] /\ r \notin held
      BY <1>7, Zenon DEF CancelWrite
    <2>4. \A r \in Roots \ quiet: (~CanRead(r) => ~CanRead(r)') /\ (~CanWrite(r) => ~CanWrite(r)')
      <3> TAKE r \in Roots \ quiet
      <3>1. r \notin held /\ (r \in rest => waitingWriters[r] # 1)
        OBVIOUS
      <3>2. waitingWriters'[r] = 0 => waitingWriters[r] = 0
        BY <1>1, <2>2, <3>1
      <3> QED
        BY <2>2, <2>3, <3>1, <3>2 DEF CanRead, CanWrite
    <2> HIDE DEF quiet
    <2> QED
      BY <1>3, <2>1, <2>2, <2>4
  <1> QED
    BY <1>4, <1>5, <1>6, <1>7

LEMMA StepWakes == IInv /\ NoLostWakeup /\ [Next]_vars => NoLostWakeup'
  <1> SUFFICES ASSUME IInv, NoLostWakeup, [Next]_vars PROVE NoLostWakeup'
    OBVIOUS
  <1>1. CASE UNCHANGED vars
    BY <1>1 DEF vars, NoLostWakeup, Parked, Writes, CanRead, CanWrite
  <1>2. CASE Next
    <2>1. PICK c \in Clients:
            \/ \E R \in SUBSET Roots: AskRead(c, R) \/ AskWrite(c, R)
            \/ Retry(c) \/ LeaveRead(c) \/ LeaveWrite(c) \/ CancelRead(c) \/ CancelWrite(c)
      BY <1>2 DEF Next
    <2>2. waitingWriters \in [Roots -> Nat] /\ client[c].roots \in SUBSET Roots
      BY DEF IInv, TypeOK, ClientStates
    <2>3. ASSUME NEW R \in SUBSET Roots, AskRead(c, R) PROVE NoLostWakeup'
      BY <2>3, ReadWakes DEF AskRead
    <2>4. ASSUME NEW R \in SUBSET Roots, AskWrite(c, R) PROVE NoLostWakeup'
      <3> DEFINE waiting == [r \in Roots |-> IF r \in R THEN waitingWriters[r] + 1
                                             ELSE waitingWriters[r]]
      <3>1. waiting \in [Roots -> Nat] /\ \A r \in Roots: waiting[r] >= waitingWriters[r]
        BY <2>2
      <3>2. AttemptWrite(c, R, {}, waiting)
        BY <2>4 DEF AskWrite
      <3> HIDE DEF waiting
      <3> QED
        BY <3>1, <3>2, WriteWakes
    <2>5. CASE Retry(c)
      <3>1. CASE AttemptRead(c, client[c].roots)
        BY <2>2, <3>1, ReadWakes
      <3>2. CASE AttemptWrite(c, client[c].roots, client[c].held, waitingWriters)
        <4>1. \A r \in Roots: waitingWriters[r] >= waitingWriters[r]
          BY <2>2
        <4> QED
          BY <2>2, <3>2, <4>1, WriteWakes
      <3> QED
        BY <2>5, <3>1, <3>2 DEF Retry
    <2> QED
      BY <2>1, <2>3, <2>4, <2>5, LeavingWakes
  <1> QED
    BY <1>1, <1>2

\* A client that is parked and was not woken is parked at a root that blocks it: a release
\* and a cancel wake everybody whom they unblock.
THEOREM WakeupsArrive == Spec => []NoLostWakeup
  <1>1. Init => NoLostWakeup
    BY DEF Init, NoLostWakeup, Parked, Idle
  <1> QED
    BY <1>1, StepWakes, Invariant, PTL DEF Spec
=============================================================================
