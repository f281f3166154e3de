----------------------- MODULE SynchroSchedulerProofs -----------------------
(* Proofs about SynchroScheduler, for every machine (every set of threads, *)
(* call graph that is a tree, bound): its type invariant; the shape of the *)
(* call stack, from which follow that no chip is re-entered, that a save   *)
(* runs one chip at a time, that every parent is restored and that _active *)
(* is true; the list of threads, from which follow unique IDs and clocks   *)
(* that do not wrap; and how far the chips are apart.                      *)
EXTENDS SynchroScheduler, FiniteSetTheorems, SequenceTheorems, WellFoundedInduction, TLAPS

-----------------------------------------------------------------------------
(* Finite sets of integers, which minimum(), maximum() and uniqueID() rest *)
(* on.                                                                     *)

\* Every nonempty set of natural numbers has a least element.
LEMMA NatMin ==
  ASSUME NEW S \in SUBSET Nat, S # {}
  PROVE  \E m \in S : \A n \in S : m <= n
<1>1. PICK m \in S : \A n \in S : <<n, m>> \notin OpToRel(<, Nat)
  BY NatLessThanWellFounded, WFMin
<1>2. \A n \in S : ~(n < m)
  BY <1>1 DEF OpToRel
<1> QED BY <1>2

\* A nonempty finite set of integers has a least element: what minimum() returns.
\* By infinite descent on the cardinality of a set without one.
THEOREM FiniteMin ==
  ASSUME NEW S \in SUBSET Int, IsFiniteSet(S), S # {}
  PROVE  \E m \in S : \A n \in S : m <= n
<1> DEFINE HasMin(T) == \E m \in T : \A n \in T : m <= n
           Bad == {T \in SUBSET S : T # {} /\ ~HasMin(T)}
           Sizes == {k \in Nat : \E T \in Bad : k = Cardinality(T)}
<1>1. SUFFICES ASSUME Sizes # {} PROVE FALSE
  <2>1. SUFFICES ASSUME ~HasMin(S) PROVE Sizes # {}
    BY DEF HasMin
  <2>2. S \in Bad
    BY <2>1
  <2>3. Cardinality(S) \in Sizes
    BY <2>2, FS_CardinalityType
  <2> QED BY <2>3
<1>2. PICK k \in Sizes : \A j \in Sizes : k <= j
  BY <1>1, NatMin
<1>3. PICK T \in Bad : k = Cardinality(T)
  BY <1>2
<1>4. T \subseteq Int /\ T # {} /\ ~HasMin(T) /\ IsFiniteSet(T) /\ k \in Nat
  BY <1>2, <1>3, FS_Subset
<1>5. PICK x \in T : TRUE
  BY <1>4
<1> DEFINE R == T \ {x}
<1>6. IsFiniteSet(R) /\ Cardinality(R) = k - 1
  BY <1>3, <1>4, <1>5, FS_RemoveElement
<1>7. R # {}
  <2>1. SUFFICES ASSUME R = {} PROVE FALSE
    OBVIOUS
  <2>2. T = {x}
    BY <2>1, <1>5
  <2>3. HasMin(T)
    BY <2>2, <1>4
  <2> QED BY <2>3, <1>4
<1>8. HasMin(R)
  <2>1. SUFFICES ASSUME ~HasMin(R) PROVE FALSE
    OBVIOUS
  <2>2. R \in Bad
    BY <2>1, <1>3, <1>7
  <2>3. k - 1 \in Sizes
    BY <2>2, <1>6, FS_CardinalityType
  <2> QED BY <2>3, <1>2, <1>4
<1>9. PICK m \in R : \A n \in R : m <= n
  BY <1>8
<1>10. m \in Int /\ x \in Int
  BY <1>4, <1>5, <1>9
<1>11. \A n \in T : n = x \/ n \in R
  OBVIOUS
<1>12. CASE m <= x
  <2>1. \A n \in T : m <= n
    BY <1>9, <1>11, <1>12
  <2> QED BY <2>1, <1>9, <1>4
<1>13. CASE x < m
  <2>1. \A n \in T : x <= n
    BY <1>4, <1>9, <1>10, <1>11, <1>13
  <2> QED BY <2>1, <1>5, <1>4
<1> QED BY <1>10, <1>12, <1>13

\* The image of a finite set under a function is finite.
LEMMA FiniteImage ==
  ASSUME NEW S, IsFiniteSet(S), NEW f, DOMAIN f = S, f = [x \in S |-> f[x]]
  PROVE  IsFiniteSet({f[x] : x \in S}) /\ Cardinality({f[x] : x \in S}) <= Cardinality(S)
<1> DEFINE T == {f[x] : x \in S}
<1>1. f \in Surjection(S, T)
  BY DEF Surjection
<1> QED BY <1>1, FS_Surjection

\* A nonempty finite set of integers has a greatest element: maximum().
THEOREM FiniteMax ==
  ASSUME NEW S \in SUBSET Int, IsFiniteSet(S), S # {}
  PROVE  \E m \in S : \A n \in S : n <= m
<1> DEFINE f == [x \in S |-> 0 - x]
           N == {f[x] : x \in S}
<1>1. IsFiniteSet(N)
  BY FiniteImage
<1>2. N \in SUBSET Int /\ N # {}
  <2>1. \A x \in S : f[x] \in Int
    OBVIOUS
  <2>2. PICK x \in S : TRUE
    OBVIOUS
  <2> QED BY <2>1, <2>2
<1>3. PICK p \in N : \A n \in N : p <= n
  BY <1>1, <1>2, FiniteMin
<1>4. PICK m \in S : p = 0 - m
  BY <1>3
<1>5. \A n \in S : 0 - m <= 0 - n
  BY <1>3, <1>4
<1>6. \A n \in S : n <= m
  <2>1. TAKE n \in S
  <2>2. n \in Int /\ m \in Int
    OBVIOUS
  <2> QED BY <2>2, <1>5
<1> QED BY <1>6

\* The elements of a sequence form a finite set.
LEMMA FiniteRange ==
  ASSUME NEW S, NEW s \in Seq(S)
  PROVE  /\ {s[i] : i \in DOMAIN s} \subseteq S
         /\ IsFiniteSet({s[i] : i \in DOMAIN s})
<1>1. Len(s) \in Nat /\ DOMAIN s = 1..Len(s) /\ s \in [1..Len(s) -> S]
  OBVIOUS
<1>2. IsFiniteSet(DOMAIN s)
  BY <1>1, FS_Interval
<1>3. s = [i \in DOMAIN s |-> s[i]]
  BY <1>1
<1> QED BY <1>1, <1>2, <1>3, FiniteImage

\* Fewer than k numbers are in use below k: one is free, and there is a first
\* free one.  This is why the loop of uniqueID() ends, and where.
LEMMA FirstFree ==
  ASSUME NEW U, IsFiniteSet(U), NEW k \in Nat, Cardinality(U) <= k
  PROVE  \E n \in 0..k : n \notin U /\ \A m \in 0..(n - 1) : m \in U
<1> DEFINE Free == {n \in 0..k : n \notin U}
<1>1. Free # {}
  <2>1. SUFFICES ASSUME 0..k \subseteq U PROVE FALSE
    OBVIOUS
  <2>2. Cardinality(0..k) = k + 1
    BY FS_Interval
  <2>3. Cardinality(0..k) <= Cardinality(U)
    BY <2>1, FS_Subset
  <2>4. Cardinality(U) \in Nat
    BY FS_CardinalityType
  <2> QED BY <2>2, <2>3, <2>4
<1>2. Free \in SUBSET Nat
  OBVIOUS
<1>3. PICK n \in Free : \A m \in Free : n <= m
  BY <1>1, <1>2, NatMin
<1>4. \A m \in 0..(n - 1) : m \in U
  BY <1>3
<1> QED BY <1>3, <1>4

-----------------------------------------------------------------------------
(* What the operations on the stack return.                                *)

\* The top activation, when there is one.
LEMMA TopProps ==
  ASSUME stack \in Seq(Frame), stack # <<>>
  PROVE  Len(stack) \in Nat \ {0} /\ Len(stack) \in DOMAIN stack /\ Top \in Frame
<1>1. Len(stack) \in Nat \ {0}
  BY EmptySeq
<1>2. Len(stack) \in 1..Len(stack) /\ DOMAIN stack = 1..Len(stack)
  BY <1>1, LenProperties
<1> QED BY <1>1, <1>2, ElementOfSeq DEF Top

\* SetTop replaces the top activation and no other.
LEMMA SetTopProps ==
  ASSUME stack \in Seq(Frame), stack # <<>>, NEW f \in Frame
  PROVE  /\ SetTop(f) \in Seq(Frame)
         /\ Len(SetTop(f)) = Len(stack) /\ DOMAIN SetTop(f) = DOMAIN stack
         /\ \A i \in DOMAIN stack :
              SetTop(f)[i] = IF i = Len(stack) THEN f ELSE stack[i]
<1>1. Len(stack) \in 1..Len(stack) /\ DOMAIN stack = 1..Len(stack)
  BY TopProps, LenProperties
<1>2. /\ SetTop(f) \in Seq(Frame) /\ Len(SetTop(f)) = Len(stack)
      /\ \A i \in 1..Len(stack) :
           SetTop(f)[i] = IF i = Len(stack) THEN f ELSE stack[i]
  BY <1>1, ExceptSeq DEF SetTop
<1>3. DOMAIN SetTop(f) = 1..Len(stack)
  BY <1>2, LenProperties
<1> QED BY <1>1, <1>2, <1>3

\* Pop drops the top activation and keeps the others.
LEMMA PopProps ==
  ASSUME stack \in Seq(Frame), stack # <<>>
  PROVE  /\ Pop \in Seq(Frame)
         /\ Len(Pop) = Len(stack) - 1 /\ DOMAIN Pop = 1..(Len(stack) - 1)
         /\ \A i \in DOMAIN Pop : Pop[i] = stack[i] /\ i \in DOMAIN stack
<1>1. Len(stack) \in Nat \ {0} /\ DOMAIN stack = 1..Len(stack)
  BY TopProps, LenProperties
<1>2. \A i \in 1..(Len(stack) - 1) : stack[i] \in Frame
  BY <1>1, ElementOfSeq
<1> DEFINE n == Len(stack) - 1
<1>3. n \in Nat
  BY <1>1
<1>4. /\ Pop \in Seq(Frame)
      /\ Len(Pop) = IF 1 <= n THEN n - 1 + 1 ELSE 0
      /\ \A i \in 1..(n - 1 + 1) : Pop[i] = stack[1 + i - 1]
  BY <1>2, <1>3, SubSeqProperties DEF Pop
<1> HIDE DEF n
<1>5. /\ n - 1 + 1 = n /\ (IF 1 <= n THEN n - 1 + 1 ELSE 0) = n
      /\ \A i \in 1..n : 1 + i - 1 = i
  BY <1>3
<1>6. Len(Pop) = n /\ \A i \in 1..n : Pop[i] = stack[i]
  BY <1>4, <1>5
<1>7. DOMAIN Pop = 1..n
  BY <1>4, <1>6, LenProperties
<1>8. \A i \in 1..n : i \in 1..Len(stack)
  BY <1>1, <1>3 DEF n
<1> QED BY <1>1, <1>4, <1>6, <1>7, <1>8 DEF n

\* Append pushes an activation.
LEMMA PushProps ==
  ASSUME stack \in Seq(Frame), NEW f \in Frame
  PROVE  /\ Append(stack, f) \in Seq(Frame)
         /\ DOMAIN Append(stack, f) = 1..(Len(stack) + 1)
         /\ Append(stack, f)[Len(stack) + 1] = f
         /\ \A i \in DOMAIN stack : Append(stack, f)[i] = stack[i]
         /\ DOMAIN stack = 1..Len(stack) /\ Len(stack) \in Nat
<1>1. Len(stack) \in Nat /\ DOMAIN stack = 1..Len(stack)
  BY LenProperties
<1>2. /\ Append(stack, f) \in Seq(Frame) /\ Len(Append(stack, f)) = Len(stack) + 1
      /\ Append(stack, f)[Len(stack) + 1] = f
      /\ \A i \in 1..Len(stack) : Append(stack, f)[i] = stack[i]
  BY <1>1
<1> QED BY <1>1, <1>2, LenProperties

LEMMA ActivationProps ==
  ASSUME NEW t \in Thread
  PROVE  Activation(t) \in Frame /\ <<Activation(t)>> \in Seq(Frame)
<1>1. MaxWork \in Nat /\ <<>> \in Seq(Thread)
  BY ConstantAssumption, EmptySeq
<1>2. Activation(t) \in Frame
  BY <1>1 DEF Activation, Frame, Pointer
<1> QED BY <1>2

-----------------------------------------------------------------------------
(* What minimum(), maximum() and uniqueID() return.                        *)

LEMMA AppendedProps ==
  ASSUME TypeOK
  PROVE  Appended \subseteq Thread /\ IsFiniteSet(Appended) /\ Cardinality(Appended) \in Nat
<1>1. threads \in Seq(Thread)
  BY DEF TypeOK
<1>2. Appended \subseteq Thread /\ IsFiniteSet(Appended)
  BY <1>1, FiniteRange DEF Appended
<1> QED BY <1>2, FS_CardinalityType

LEMMA TimesProps ==
  ASSUME TypeOK
  PROVE  Times \in SUBSET Int /\ IsFiniteSet(Times)
<1>1. Appended \subseteq Thread /\ IsFiniteSet(Appended)
  BY AppendedProps
<1> DEFINE f == [u \in Appended |-> clock[u] - uniqueID[u]]
<1>2. IsFiniteSet({f[u] : u \in Appended})
  BY <1>1, FiniteImage
<1>3. Times = {f[u] : u \in Appended}
  BY DEF Times
<1>4. \A u \in Appended : clock[u] - uniqueID[u] \in Int
  BY <1>1 DEF TypeOK
<1> QED BY <1>2, <1>3, <1>4 DEF Times

\* minimum() is the time of some thread and of none behind it.
LEMMA MinimumProps ==
  ASSUME TypeOK, Appended # {}
  PROVE  Minimum \in Int /\ \A t \in Appended : Minimum <= clock[t] - uniqueID[t]
<1>1. Times # {}
  BY DEF Times
<1>2. \E m \in Times : \A n \in Times : m <= n
  BY <1>1, TimesProps, FiniteMin
<1>3. Minimum \in Times /\ \A n \in Times : Minimum <= n
  BY <1>2 DEF Minimum
<1>4. Minimum \in Int
  BY <1>3, TimesProps
<1> QED BY <1>3, <1>4 DEF Times

\* maximum() is not behind any thread, nor negative.
LEMMA MaximumProps ==
  ASSUME TypeOK
  PROVE  Maximum \in Nat
<1> DEFINE M == Times \cup {0}
<1>1. M \in SUBSET Int /\ IsFiniteSet(M) /\ M # {}
  BY TimesProps, FS_AddElement
<1>2. \E m \in M : \A n \in M : n <= m
  BY <1>1, FiniteMax
<1>3. Maximum \in M /\ \A n \in M : n <= Maximum
  BY <1>2 DEF Maximum
<1> QED BY <1>1, <1>3

\* The loop of uniqueID() finds the first number no appended thread has.
LEMMA NextUniqueIDProps ==
  ASSUME TypeOK
  PROVE  /\ NextUniqueID \in 0..Cardinality(Appended)
         /\ \A u \in Appended : uniqueID[u] # NextUniqueID
<1>1. IsFiniteSet(Appended) /\ Cardinality(Appended) \in Nat
  BY AppendedProps
<1> DEFINE f == [u \in Appended |-> uniqueID[u]]
           U == {f[u] : u \in Appended}
           k == Cardinality(Appended)
           P(n) == /\ \A u \in Appended : uniqueID[u] # n
                   /\ \A m \in 0..(n - 1) : \E u \in Appended : uniqueID[u] = m
<1>2. IsFiniteSet(U) /\ Cardinality(U) <= k
  BY <1>1, FiniteImage
<1>3. PICK n \in 0..k : n \notin U /\ \A m \in 0..(n - 1) : m \in U
  BY <1>1, <1>2, FirstFree
<1>4. P(n)
  BY <1>3
<1>5. NextUniqueID = CHOOSE i \in 0..k : P(i)
  BY DEF NextUniqueID
<1>6. NextUniqueID \in 0..k /\ P(NextUniqueID)
  BY <1>3, <1>4, <1>5
<1> QED BY <1>6

-----------------------------------------------------------------------------
(* Type correctness.                                                       *)

\* The fields of the top activation have their types.
LEMMA TopFields ==
  ASSUME stack \in Seq(Frame), stack # <<>>
  PROVE  /\ Top = [thread |-> Top.thread, work |-> Top.work, list |-> Top.list,
                   waiting |-> Top.waiting, saved |-> Top.saved, done |-> Top.done]
         /\ Top.thread \in Thread /\ Top.work \in 0..MaxWork /\ Top.list \in Seq(Thread)
         /\ Top.waiting \in BOOLEAN /\ Top.saved \in Pointer /\ Top.done \subseteq Thread
         /\ Top.waiting => Top.list # <<>>
         /\ Top.list # <<>> => /\ Head(Top.list) \in Thread
                               /\ Tail(Top.list) \in Seq(Thread)
<1>1. Top \in Frame
  BY TopProps
<1>2. Top.list \in Seq(Thread)
  BY <1>1 DEF Frame
<1>3. Top.list # <<>> => Head(Top.list) \in Thread /\ Tail(Top.list) \in Seq(Thread)
  BY <1>2, HeadTailProperties
<1> QED BY <1>1, <1>3 DEF Frame

LEMMA CreateTypes ==
  ASSUME TypeOK, NEW t \in Thread, Create(t)
  PROVE  /\ handle' \in [Thread -> BOOLEAN] /\ parent' \in [Thread -> Pointer]
         /\ clock' \in [Thread -> Int] /\ uniqueID' \in [Thread -> Nat]
         /\ threads' \in Seq(Thread)
<1>1. NextUniqueID \in Nat /\ Maximum \in Nat
  BY NextUniqueIDProps, MaximumProps, AppendedProps
<1>2. AppendClock(NextUniqueID) \in Int
  BY <1>1 DEF AppendClock
<1>3. Append(threads, t) \in Seq(Thread)
  BY DEF TypeOK
<1>4. clock' \in [Thread -> Int] /\ uniqueID' \in [Thread -> Nat] /\ threads' \in Seq(Thread)
  <2>1. CASE t \in Appended
    <3>1. clock' = [clock EXCEPT ![t] = 0] /\ threads' = threads /\ uniqueID' = uniqueID
      BY <2>1 DEF Create
    <3> QED BY <3>1 DEF TypeOK
  <2>2. CASE t \notin Appended
    <3>1. /\ uniqueID' = [uniqueID EXCEPT ![t] = NextUniqueID]
          /\ clock' = [clock EXCEPT ![t] = AppendClock(NextUniqueID)]
          /\ threads' = Append(threads, t)
      BY <2>2 DEF Create
    <3> QED BY <1>1, <1>2, <1>3, <3>1 DEF TypeOK
  <2> QED BY <2>1, <2>2
<1>5. handle' \in [Thread -> BOOLEAN]
  BY DEF TypeOK, Create
<1>6. parent' \in [Thread -> Pointer]
  <2>1. CASE handle[t]
    BY <2>1 DEF TypeOK, Create
  <2>2. CASE ~handle[t]
    <3>1. PICK p \in Garbage : parent' = [parent EXCEPT ![t] = p]
      BY <2>2 DEF Create
    <3> QED BY <3>1 DEF TypeOK, Pointer
  <2> QED BY <2>1, <2>2
<1> QED BY <1>4, <1>5, <1>6

LEMMA DestroyTypes ==
  ASSUME TypeOK, NEW t \in Thread, Destroy(t)
  PROVE  /\ handle' \in [Thread -> BOOLEAN] /\ parent' \in [Thread -> Pointer]
         /\ threads' \in Seq(Thread)
<1>1. ASSUME NEW i \in DOMAIN threads PROVE RemoveAt(i) \in Seq(Thread)
  <2>1. threads \in Seq(Thread) /\ Len(threads) \in Nat /\ i \in 1..Len(threads)
    BY LenProperties DEF TypeOK
  <2>2. \A j \in 1..Len(threads) : threads[j] \in Thread
    BY <2>1, ElementOfSeq
  <2> DEFINE n == Len(threads)
  <2> HIDE DEF n
  <2>7. n \in Nat /\ i \in 1..n
    BY <2>1 DEF n
  <2>3. (\A j \in 1..(i - 1) : j \in 1..n) /\ i - 1 \in Int /\ i + 1 \in Int
    BY <2>7
  <2>4. \A j \in (i + 1)..n : j \in 1..n
    BY <2>7
  <2>5. SubSeq(threads, 1, i - 1) \in Seq(Thread)
    BY <2>2, <2>3, SubSeqProperties DEF n
  <2>6. SubSeq(threads, i + 1, Len(threads)) \in Seq(Thread)
    BY <2>1, <2>2, <2>3, <2>4, SubSeqProperties DEF n
  <2> QED BY <2>5, <2>6, ConcatProperties DEF RemoveAt
<1>2. threads' \in Seq(Thread)
  BY <1>1 DEF Destroy, TypeOK
<1>3. handle' \in [Thread -> BOOLEAN] /\ parent' \in [Thread -> Pointer]
  BY DEF Destroy, TypeOK, Pointer
<1> QED BY <1>2, <1>3

LEMMA TypeInit == Init => TypeOK
<1> SUFFICES ASSUME Init PROVE TypeOK
  OBVIOUS
<1>1. <<>> \in Seq(Thread) /\ <<>> \in Seq(Frame)
  BY EmptySeq
<1>2. 0 \in 0..(Lines - 1) /\ 0 \in 0..MaxSaves
  BY ConstantAssumption
<1>3. host \in Hosts /\ mode \in Modes /\ event \in Events
  BY DEF Init, Hosts, Modes, Events
<1>4. threads \in Seq(Thread) /\ queue \in Seq(Thread) /\ stack \in Seq(Frame)
  BY <1>1 DEF Init
<1>5. uniqueID \in [Thread -> Nat] /\ clock \in [Thread -> Int]
  BY DEF Init
<1>6. handle \in [Thread -> BOOLEAN] /\ active \in [Thread -> BOOLEAN] /\ rendered \in BOOLEAN
  BY DEF Init
<1>7. parent \in [Thread -> Pointer]
  BY DEF Init, Pointer
<1>8. line \in 0..(Lines - 1) /\ saves \in 0..MaxSaves
  BY <1>2 DEF Init
<1> QED BY <1>3, <1>4, <1>5, <1>6, <1>7, <1>8 DEF TypeOK

\* The calls of the host and of the scheduler.
LEMMA TypeHost ==
  ASSUME TypeOK, Host
  PROVE  TypeOK'
<1> USE DEF TypeOK, Hosts, Modes, Events, hostVars, threadVars, videoVars
<1>1. ASSUME Load PROVE TypeOK'
  BY <1>1, EmptySeq DEF Load
<1>2. ASSUME PowerOn PROVE TypeOK'
  BY <1>2, ConstantAssumption DEF PowerOn
<1>3. ASSUME PowerThread PROVE TypeOK'
  <2>1. Head(queue) \in Thread /\ Tail(queue) \in Seq(Thread)
    BY <1>3, HeadTailProperties DEF PowerThread
  <2>2. Create(Head(queue))
    BY <1>3 DEF PowerThread
  <2>3. /\ handle' \in [Thread -> BOOLEAN] /\ parent' \in [Thread -> Pointer]
        /\ clock' \in [Thread -> Int] /\ uniqueID' \in [Thread -> Nat]
        /\ threads' \in Seq(Thread)
    BY <2>1, <2>2, CreateTypes
  <2> QED BY <1>3, <2>1, <2>3 DEF PowerThread
<1>4. ASSUME SchedulerPower PROVE TypeOK'
  BY <1>4, ConstantAssumption DEF SchedulerPower
<1>5. ASSUME NEW t \in Thread, Connect(t) PROVE TypeOK'
  <2>1. /\ handle' \in [Thread -> BOOLEAN] /\ parent' \in [Thread -> Pointer]
        /\ clock' \in [Thread -> Int] /\ uniqueID' \in [Thread -> Nat]
        /\ threads' \in Seq(Thread)
    BY <1>5, CreateTypes DEF Connect
  <2> QED BY <1>5, <2>1 DEF Connect
<1>6. ASSUME NEW t \in Thread, Disconnect(t) PROVE TypeOK'
  <2>1. /\ handle' \in [Thread -> BOOLEAN] /\ parent' \in [Thread -> Pointer]
        /\ threads' \in Seq(Thread)
    BY <1>6, DestroyTypes DEF Disconnect
  <2> QED BY <1>6, <2>1 DEF Disconnect
<1>7. ASSUME Unload PROVE TypeOK'
  BY <1>7 DEF Unload
<1>8. ASSUME NEW t \in Thread, UnloadThread(t) PROVE TypeOK'
  <2>1. /\ handle' \in [Thread -> BOOLEAN] /\ parent' \in [Thread -> Pointer]
        /\ threads' \in Seq(Thread)
    BY <1>8, DestroyTypes DEF UnloadThread
  <2> QED BY <1>8, <2>1 DEF UnloadThread
<1>9. ASSUME Unloaded PROVE TypeOK'
  BY <1>9 DEF Unloaded
<1>10. ASSUME EnterRun PROVE TypeOK'
  BY <1>10 DEF EnterRun
<1>11. ASSUME EnterSynchronize PROVE TypeOK'
  BY <1>11, ConstantAssumption DEF EnterSynchronize
<1>12. ASSUME PrimaryMain PROVE TypeOK'
  <2>1. <<Activation(Primary)>> \in Seq(Frame) /\ <<>> \in Seq(Thread)
    BY ConstantAssumption, ActivationProps, EmptySeq
  <2> QED BY <1>12, <2>1 DEF PrimaryMain
<1>13. ASSUME Exit PROVE TypeOK'
  <2>1. ASSUME NEW t \in Thread, t \in Appended PROVE Normalized(t) \in Int
    BY <2>1, MinimumProps DEF Normalized
  <2>2. clock' \in [Thread -> Int]
    BY <1>13, <2>1 DEF Exit
  <2> QED BY <1>13, <2>2 DEF Exit
<1>14. ASSUME PrimarySaved PROVE TypeOK'
  BY <1>14 DEF PrimarySaved
<1>15. ASSUME OtherMain PROVE TypeOK'
  <2>1. Head(queue) \in Thread /\ Tail(queue) \in Seq(Thread)
    BY <1>15, HeadTailProperties DEF OtherMain
  <2>2. <<Activation(Head(queue))>> \in Seq(Frame)
    BY <2>1, ActivationProps
  <2> QED BY <1>15, <2>1, <2>2 DEF OtherMain
<1>16. ASSUME Saved PROVE TypeOK'
  BY <1>16 DEF Saved
<1> QED BY <1>1, <1>2, <1>3, <1>4, <1>5, <1>6, <1>7, <1>8, <1>9, <1>10, <1>11, <1>12,
           <1>13, <1>14, <1>15, <1>16, ConstantAssumption DEF Host

\* The steps of the chips.
LEMMA TypeChip ==
  ASSUME TypeOK, NEW t \in Thread,
         \/ Step(t) \/ Synchronize(t) \/ Yield(t) \/ Wait(t)
         \/ CatchUp(t) \/ Resume(t) \/ Return(t)
  PROVE  TypeOK'
<1>1. stack # <<>> /\ stack \in Seq(Frame)
  BY DEF TypeOK, Step, Synchronize, Call, Yield, Wait, CatchUp, Resume, Return, Running
<1>2. UNCHANGED <<hostVars, uniqueID, handle>>
  BY DEF Step, Synchronize, Call, Yield, Wait, CatchUp, Resume, Return, threadVars
<1>3. ASSUME stack' \in Seq(Frame), clock' \in [Thread -> Int],
             parent' \in [Thread -> Pointer], active' \in [Thread -> BOOLEAN],
             line' \in 0..(Lines - 1), rendered' \in BOOLEAN
      PROVE  TypeOK'
  BY <1>2, <1>3 DEF TypeOK, hostVars
<1>4. /\ Top = [thread |-> Top.thread, work |-> Top.work, list |-> Top.list,
                waiting |-> Top.waiting, saved |-> Top.saved, done |-> Top.done]
      /\ Top.thread \in Thread /\ Top.work \in 0..MaxWork /\ Top.list \in Seq(Thread)
      /\ Top.waiting \in BOOLEAN /\ Top.saved \in Pointer /\ Top.done \subseteq Thread
      /\ Top.waiting => Top.list # <<>>
      /\ Top.list # <<>> => Head(Top.list) \in Thread /\ Tail(Top.list) \in Seq(Thread)
  BY <1>1, TopFields
<1>5. CASE Step(t)
  <2>1. PICK n \in 1..(MaxWork - Top.work) :
          /\ clock' = [clock EXCEPT ![t] = @ + n]
          /\ stack' = SetTop([Top EXCEPT !.work = @ + n, !.done = {}])
    BY <1>5 DEF Step
  <2>2. Top.work + n \in 0..MaxWork /\ n \in Int
    BY <1>4, ConstantAssumption
  <2>3. [Top EXCEPT !.work = @ + n, !.done = {}] \in Frame
    BY <1>4, <2>2 DEF Frame
  <2>4. stack' \in Seq(Frame)
    BY <1>1, <2>1, <2>3, SetTopProps
  <2>5. clock' \in [Thread -> Int]
    BY <2>1, <2>2 DEF TypeOK
  <2> QED BY <1>3, <1>5, <2>4, <2>5 DEF Step, TypeOK, videoVars
<1>6. CASE Synchronize(t)
  <2>1. PICK l \in Seq(Thread) : Call(t, l)
    BY <1>6, ConstantAssumption DEF Synchronize, TypeOK
  <2>2. [Top EXCEPT !.list = l, !.done = {}] \in Frame
    BY <1>4, <2>1 DEF Frame, Call
  <2>3. stack' \in Seq(Frame)
    BY <1>1, <2>1, <2>2, SetTopProps DEF Call
  <2> QED BY <1>3, <2>1, <2>3 DEF Call, TypeOK, threadVars, videoVars
<1>7. CASE Yield(t)
  <2>1. [Top EXCEPT !.list = Tail(@), !.done = @ \cup {Head(Top.list)}] \in Frame
    BY <1>4, <1>7 DEF Frame, Yield
  <2>2. stack' \in Seq(Frame)
    BY <1>1, <1>7, <2>1, SetTopProps DEF Yield
  <2> QED BY <1>3, <1>7, <2>2 DEF Yield, TypeOK, threadVars, videoVars
<1>8. CASE Wait(t)
  <2> DEFINE u == Head(Top.list)
  <2>1. u \in Thread
    BY <1>4, <1>8 DEF Wait
  <2>2. parent[u] \in Pointer
    BY <2>1 DEF TypeOK
  <2>3. [Top EXCEPT !.waiting = TRUE, !.saved = parent[u]] \in Frame
    BY <1>4, <1>8, <2>2 DEF Frame, Wait
  <2>4. stack' \in Seq(Frame)
    BY <1>1, <1>8, <2>3, SetTopProps DEF Wait
  <2>5. parent' \in [Thread -> Pointer]
    BY <1>8 DEF Wait, TypeOK, Pointer
  <2> QED BY <1>3, <1>8, <2>4, <2>5 DEF Wait, TypeOK, videoVars
<1>9. CASE CatchUp(t)
  <2>1. Head(Top.list) \in Thread
    BY <1>4, <1>9 DEF CatchUp
  <2>2. stack' \in Seq(Frame)
    BY <1>1, <1>9, <2>1, ActivationProps, PushProps DEF CatchUp
  <2>3. active' \in [Thread -> BOOLEAN]
    BY <1>9 DEF CatchUp, TypeOK
  <2> QED BY <1>3, <1>9, <2>2, <2>3 DEF CatchUp, TypeOK, videoVars
<1>10. CASE Resume(t)
  <2>1. Top.list # <<>>
    BY <1>4, <1>10 DEF Resume
  <2>2. [Top EXCEPT !.list = Tail(@), !.waiting = FALSE, !.saved = Null,
                    !.done = @ \cup {Head(Top.list)}] \in Frame
    BY <1>4, <2>1 DEF Frame, Pointer
  <2>3. stack' \in Seq(Frame)
    BY <1>1, <1>10, <2>2, SetTopProps DEF Resume
  <2>4. parent' \in [Thread -> Pointer]
    BY <1>4, <1>10 DEF Resume, Restored, TypeOK
  <2> QED BY <1>3, <1>10, <2>3, <2>4 DEF Resume, TypeOK, videoVars
<1>11. CASE Return(t)
  <2>1. stack' \in Seq(Frame)
    BY <1>1, <1>11, PopProps DEF Return
  <2>2. active' \in [Thread -> BOOLEAN]
    BY <1>11 DEF Return, ActiveAfter, TypeOK
  <2>3. NextLine \in 0..(Lines - 1)
    BY ConstantAssumption DEF NextLine, TypeOK
  <2>4. line' \in 0..(Lines - 1) /\ rendered' \in BOOLEAN
    BY <1>11, <2>3 DEF Return, TypeOK, videoVars
  <2> QED BY <1>3, <1>11, <2>1, <2>2, <2>4 DEF Return, TypeOK
<1> QED BY <1>5, <1>6, <1>7, <1>8, <1>9, <1>10, <1>11

LEMMA TypeNext == TypeOK /\ [Next]_vars => TypeOK'
<1> SUFFICES ASSUME TypeOK, [Next]_vars PROVE TypeOK'
  OBVIOUS
<1>1. CASE Host
  BY <1>1, TypeHost
<1>2. CASE Chip
  BY <1>2, TypeChip DEF Chip
<1>3. CASE UNCHANGED vars
  BY <1>3 DEF TypeOK, vars, hostVars, threadVars, videoVars
<1> QED BY <1>1, <1>2, <1>3 DEF Next

\* The fields keep their types: what "uint" and "uintmax" promise for the
\* counters, and that stepping, calling and saving stay within the bounds.
THEOREM TypeCorrect == Spec => []TypeOK
BY TypeInit, TypeNext, PTL DEF Spec

-----------------------------------------------------------------------------
(* The call stack.                                                         *)

\* The thread that the i-th activation is catching up, while it is waiting.
Awaited(i) == Head(stack[i].list)
WaitedFor(t) == \E i \in DOMAIN stack : stack[i].waiting /\ Awaited(i) = t

\* What the parent field of a thread nobody waits for may hold.
AtRest(t, p) == p \in Garbage \/ (p = Null /\ ~handle[t])

\* Chips run only inside Scheduler::enter.
StackInEnter == stack # <<>> => host \in {"run", "savePrimary", "saveOthers"}

\* An activation above the bottom was called by the one below, which waits for it.
Nested ==
  \A i \in DOMAIN stack : i > 1 => stack[i - 1].waiting /\ Awaited(i - 1) = stack[i].thread

\* A thread that is waited for knows by whom, and is further from the primary.
Waits ==
  \A i \in DOMAIN stack : stack[i].waiting =>
    /\ parent[Awaited(i)] = stack[i].thread
    /\ ~Synchronizing => Awaited(i) = stack[i].thread \/ Down(stack[i].thread, Awaited(i))

\* The stack is a path from the primary; while auxiliary threads are run to
\* their safe points it is one of them.
Depth ==
  IF Synchronizing THEN Len(stack) <= 1
  ELSE \A i \in DOMAIN stack : Level[stack[i].thread] = i - 1

\* The targets still to handle are neighbours in the call graph, or the
\* broadcasting thread itself.
Targets ==
  \A i \in DOMAIN stack : \A k \in DOMAIN stack[i].list :
    \/ Target(stack[i].thread, stack[i].list[k])
    \/ stack[i].list[k] = stack[i].thread /\ stack[i].thread \in Broadcast

\* The parent of a thread is on the stack or is what it was before the call.
Parents ==
  /\ \A i \in DOMAIN stack : stack[i].waiting => AtRest(Awaited(i), stack[i].saved)
  /\ \A t \in Thread : AtRest(t, parent[t]) \/ WaitedFor(t)

StackInv == StackInEnter /\ Nested /\ Waits /\ Depth /\ Targets /\ Parents

\* The facts about the top activation that every step of a chip needs.
LEMMA RunningProps ==
  ASSUME TypeOK, NEW t \in Thread, Running(t)
  PROVE  /\ stack \in Seq(Frame) /\ stack # <<>>
         /\ Len(stack) \in Nat \ {0} /\ DOMAIN stack = 1..Len(stack)
         /\ Top = stack[Len(stack)] /\ Top.thread = t /\ Top \in Frame
         /\ Top.waiting \in BOOLEAN /\ Top.list \in Seq(Thread)
         /\ Top.waiting => Top.list # <<>>
         /\ Top.list # <<>> => Head(Top.list) = Awaited(Len(stack))
                               /\ Head(Top.list) \in Thread
<1>1. stack \in Seq(Frame) /\ stack # <<>> /\ Top.thread = t
  BY DEF TypeOK, Running
<1>2. Len(stack) \in Nat \ {0} /\ Top \in Frame /\ DOMAIN stack = 1..Len(stack)
  BY <1>1, TopProps, LenProperties
<1> QED BY <1>1, <1>2, TopFields DEF Top, Awaited

\* A target of the top activation is a neighbour of its chip.
LEMMA TargetProps ==
  ASSUME TypeOK, StackInv, NEW t \in Thread, Running(t), Top.list # <<>>
  PROVE  LET u == Head(Top.list) IN
           Down(t, u) \/ Up(t, u) \/ (u = t /\ t \in Broadcast)
<1> DEFINE u == Head(Top.list)
<1>1. /\ Len(stack) \in DOMAIN stack /\ Top = stack[Len(stack)] /\ Top.thread = t
      /\ Top.list \in Seq(Thread) /\ u \in Thread
  BY RunningProps
<1>2. 1 \in DOMAIN Top.list /\ u = Top.list[1]
  BY <1>1, LenProperties, EmptySeq
<1>3. Target(t, u) \/ (u = t /\ t \in Broadcast)
  BY <1>1, <1>2 DEF StackInv, Targets
<1> QED BY <1>1, <1>3, TreeAssumption

\* Nobody further down the stack waits for a target below the top one: it is
\* one level deeper than they are.
LEMMA NotAwaited ==
  ASSUME TypeOK, StackInv, NEW t \in Thread, Running(t), Top.list # <<>>,
         ~Synchronizing => Head(Top.list) = t \/ Down(t, Head(Top.list))
  PROVE  \A i \in DOMAIN stack : i # Len(stack) => Awaited(i) # Head(Top.list)
<1> DEFINE u == Head(Top.list)
<1>1. /\ Len(stack) \in Nat \ {0} /\ DOMAIN stack = 1..Len(stack)
      /\ Top = stack[Len(stack)] /\ Top.thread = t /\ u \in Thread
  BY RunningProps
<1>2. CASE Synchronizing
  BY <1>1, <1>2 DEF StackInv, Depth
<1>3. CASE ~Synchronizing
  <2>1. SUFFICES ASSUME NEW i \in DOMAIN stack, i # Len(stack), Awaited(i) = u
                 PROVE  FALSE
    OBVIOUS
  <2>2. i + 1 \in DOMAIN stack /\ i + 1 > 1 /\ i + 1 - 1 = i /\ i < Len(stack)
    BY <1>1, <2>1
  <2>3. stack[i + 1].thread = u
    BY <2>1, <2>2 DEF StackInv, Nested
  <2>4. Level[u] = i
    BY <1>3, <2>2, <2>3 DEF StackInv, Depth
  <2>5. Level[t] = Len(stack) - 1
    BY <1>1, <1>3 DEF StackInv, Depth
  <2>6. CASE Down(t, u)
    BY <1>1, <2>2, <2>4, <2>5, <2>6 DEF Down
  <2>7. CASE u = t
    <3>1. ~Down(t, t) /\ ~Up(t, t)
      BY ConstantAssumption DEF Down, Up
    <3>2. t = Primary
      BY <2>7, <3>1, TargetProps, ConstantAssumption
    <3> QED BY <1>1, <2>2, <2>4, <2>7, <3>2, TreeAssumption
  <2> QED BY <1>3, <2>6, <2>7
<1> QED BY <1>2, <1>3

\* Why the parent test suffices: a target towards the primary is the caller
\* itself, because a chip has one neighbour above it.
LEMMA WaitsBelow ==
  ASSUME TypeOK, StackInv, NEW t \in Thread, Running(t), Top.list # <<>>,
         ~YieldsBack(t, Head(Top.list)), ~Synchronizing
  PROVE  Head(Top.list) = t \/ Down(t, Head(Top.list))
<1> DEFINE u == Head(Top.list)
<1>1. /\ Len(stack) \in Nat \ {0} /\ DOMAIN stack = 1..Len(stack)
      /\ Top = stack[Len(stack)] /\ Top.thread = t /\ u \in Thread
      /\ \A i \in DOMAIN stack : stack[i] \in Frame
  BY RunningProps, ElementOfSeq
<1>2. SUFFICES ASSUME Up(t, u) PROVE FALSE
  BY TargetProps
<1>3. Level[t] = Len(stack) - 1
  BY <1>1 DEF StackInv, Depth
<1>4. Len(stack) > 1
  BY <1>1, <1>2, <1>3, ConstantAssumption DEF Up
<1> DEFINE i == Len(stack) - 1
           v == stack[i].thread
<1>5. i \in DOMAIN stack /\ i + 1 = Len(stack) /\ v \in Thread
  BY <1>1, <1>4 DEF Frame
<1>6. stack[i].waiting /\ Awaited(i) = t
  BY <1>1, <1>4 DEF StackInv, Nested
<1>7. parent[t] = v /\ (t = v \/ Down(v, t))
  BY <1>5, <1>6 DEF StackInv, Waits
<1>8. Level[v] = i - 1
  BY <1>5 DEF StackInv, Depth
<1>9. t # v
  BY <1>1, <1>3, <1>8, <1>5
<1>10. u = v
  BY <1>1, <1>2, <1>5, <1>7, <1>9, TreeAssumption
<1>11. parent[t] # Null
  BY <1>5, <1>7, ConstantAssumption
<1> QED BY <1>7, <1>10, <1>11 DEF YieldsBack

LEMMA StackInit == Init => StackInv
<1> SUFFICES ASSUME Init PROVE StackInv
  OBVIOUS
<1>1. stack = <<>> /\ DOMAIN stack = {} /\ Len(stack) = 0
  BY EmptySeq DEF Init
<1>2. Parents
  BY <1>1 DEF Init, Parents, AtRest
<1> QED BY <1>1, <1>2 DEF StackInv, StackInEnter, Nested, Waits, Depth, Targets

\* The host acts on an empty stack, and pushes at most one activation on it.
LEMMA HostStack ==
  ASSUME TypeOK, StackInv, Host
  PROVE  /\ stack = <<>>
         /\ \/ stack' = <<>>
            \/ /\ \E t \in Thread : /\ stack' = <<Activation(t)>>
                                    /\ t = Primary \/ mode' = "SynchronizeAuxiliary"
               /\ host' \in {"run", "savePrimary", "saveOthers"}
<1> USE DEF StackInv, StackInEnter
<1>1. CASE Load
  BY <1>1 DEF Load
<1>2. CASE PowerOn
  BY <1>2 DEF PowerOn
<1>3. CASE PowerThread
  BY <1>3 DEF PowerThread
<1>4. CASE SchedulerPower
  BY <1>4 DEF SchedulerPower
<1>5. CASE \E t \in Transient : UnloadThread(t)
  BY <1>5 DEF UnloadThread
<1>6. CASE \E t \in Hotplug : Connect(t) \/ Disconnect(t)
  BY <1>6 DEF Connect, Disconnect
<1>7. CASE Unload \/ Unloaded
  BY <1>7 DEF Unload, Unloaded
<1>8. CASE EnterRun \/ EnterSynchronize
  BY <1>8 DEF EnterRun, EnterSynchronize
<1>9. CASE PrimaryMain
  <2>1. Primary \in Thread
    BY ConstantAssumption
  <2>2. host' = host /\ (stack' = <<>> \/ stack' = <<Activation(Primary)>>)
    BY <1>9 DEF PrimaryMain
  <2> QED BY <1>9, <2>1, <2>2 DEF PrimaryMain
<1>10. CASE Exit \/ PrimarySaved \/ Saved
  BY <1>10 DEF Exit, PrimarySaved, Saved
<1>11. CASE OtherMain
  <2>1. Head(queue) \in Thread
    BY <1>11, HeadTailProperties DEF OtherMain, TypeOK
  <2>2. CASE Head(queue) = Primary
    BY <1>11, <2>2 DEF OtherMain
  <2>3. CASE Head(queue) # Primary
    <3>1. /\ mode' = "SynchronizeAuxiliary" /\ stack' = <<Activation(Head(queue))>>
          /\ host' \in {"saveOthers"} /\ stack = <<>>
      BY <1>11, <2>3 DEF OtherMain
    <3> QED BY <2>1, <3>1
  <2> QED BY <2>2, <2>3
<1> QED BY <1>1, <1>2, <1>3, <1>4, <1>5, <1>6, <1>7, <1>8, <1>9, <1>10, <1>11 DEF Host

\* A new handle is at rest; a freed one too; the others stay so.
LEMMA HostParents ==
  ASSUME TypeOK, StackInv, Host
  PROVE  \A t \in Thread : AtRest(t, parent[t])'
<1>1. stack = <<>> /\ DOMAIN stack = {}
  BY HostStack, EmptySeq
<1>2. \A t \in Thread : AtRest(t, parent[t])
  BY <1>1 DEF StackInv, Parents, WaitedFor
<1>3. ASSUME NEW t \in Thread, Create(t)
      PROVE  \A u \in Thread : AtRest(u, parent[u])'
  <2>1. handle' = [handle EXCEPT ![t] = TRUE]
    BY <1>3 DEF Create
  <2>2. CASE handle[t]
    <3>1. parent' = parent /\ \A u \in Thread : handle'[u] <=> handle[u]
      BY <1>3, <2>1, <2>2 DEF Create, TypeOK
    <3> QED BY <1>2, <3>1 DEF AtRest
  <2>3. CASE ~handle[t]
    <3>1. PICK p \in Garbage : parent' = [parent EXCEPT ![t] = p]
      BY <1>3, <2>3 DEF Create
    <3>2. \A u \in Thread : u # t => parent'[u] = parent[u] /\ handle'[u] = handle[u]
      BY <2>1, <3>1 DEF TypeOK
    <3>3. parent'[t] \in Garbage
      BY <3>1 DEF TypeOK
    <3> QED BY <1>2, <3>2, <3>3 DEF AtRest
  <2> QED BY <2>2, <2>3
<1>4. ASSUME NEW t \in Thread, Destroy(t)
      PROVE  \A u \in Thread : AtRest(u, parent[u])'
  <2>1. \A u \in Thread : u # t => parent'[u] = parent[u] /\ handle'[u] = handle[u]
    BY <1>4 DEF Destroy, TypeOK
  <2>2. parent'[t] = Null /\ ~handle'[t]
    BY <1>4 DEF Destroy, TypeOK
  <2> QED BY <1>2, <2>1, <2>2 DEF AtRest
<1>5. ASSUME UNCHANGED <<handle, parent>>
      PROVE  \A u \in Thread : AtRest(u, parent[u])'
  BY <1>2, <1>5 DEF AtRest
<1>6. ASSUME PowerThread PROVE \A u \in Thread : AtRest(u, parent[u])'
  <2>1. Head(queue) \in Thread /\ Create(Head(queue))
    BY <1>6, HeadTailProperties DEF PowerThread, TypeOK
  <2> QED BY <1>3, <2>1
<1>7. CASE \E t \in Hotplug : Connect(t) \/ Disconnect(t)
  BY <1>3, <1>4, <1>7, ConstantAssumption DEF Connect, Disconnect
<1>8. CASE \E t \in Transient : UnloadThread(t)
  BY <1>4, <1>8, ConstantAssumption DEF UnloadThread
<1>9. CASE Load \/ PowerOn \/ SchedulerPower \/ Unload \/ Unloaded
  BY <1>5, <1>9 DEF Load, PowerOn, SchedulerPower, Unload, Unloaded, threadVars
<1>10. CASE EnterRun \/ EnterSynchronize \/ PrimaryMain \/ Exit
  BY <1>5, <1>10 DEF EnterRun, EnterSynchronize, PrimaryMain, Exit, threadVars
<1>11. CASE PrimarySaved \/ OtherMain \/ Saved
  BY <1>5, <1>11 DEF PrimarySaved, OtherMain, Saved, threadVars
<1> QED BY <1>6, <1>7, <1>8, <1>9, <1>10, <1>11 DEF Host

LEMMA StackHost ==
  ASSUME TypeOK, StackInv, Host
  PROVE  StackInv'
<1>1. \A t \in Thread : AtRest(t, parent[t])'
  BY HostParents
<1>2. CASE stack' = <<>>
  <2>1. DOMAIN stack' = {} /\ Len(stack') = 0
    BY <1>2, EmptySeq
  <2>2. Nested' /\ Waits' /\ Depth' /\ Targets' /\ Parents'
    BY <1>1, <2>1 DEF Nested, Waits, Depth, Targets, Parents
  <2> QED BY <1>2, <2>2 DEF StackInv, StackInEnter
<1>3. CASE stack' # <<>>
  <2>1. host' \in {"run", "savePrimary", "saveOthers"}
    BY <1>3, HostStack
  <2>2. PICK t \in Thread : /\ stack' = <<Activation(t)>>
                            /\ t = Primary \/ mode' = "SynchronizeAuxiliary"
    BY <1>3, HostStack
  <2>3. DOMAIN stack' = {1} /\ Len(stack') = 1 /\ stack'[1] = Activation(t)
    BY <2>2
  <2>4. stack'[1].thread = t /\ stack'[1].list = <<>> /\ ~stack'[1].waiting
    BY <2>3 DEF Activation
  <2>5. Depth'
    BY <2>2, <2>3, <2>4, TreeAssumption DEF Depth, Synchronizing
  <2>6. Nested' /\ Waits' /\ Parents'
    BY <1>1, <2>3, <2>4 DEF Nested, Waits, Parents
  <2>7. Targets'
    BY <2>3, <2>4, EmptySeq DEF Targets
  <2> QED BY <2>1, <2>5, <2>6, <2>7 DEF StackInv, StackInEnter
<1> QED BY <1>2, <1>3

\* A step that replaces the top activation by another one of the same chip
\* keeps the nesting; the other activations are as they were.
LEMMA TopChange ==
  ASSUME TypeOK, StackInv, NEW t \in Thread, Running(t), NEW f \in Frame, f.thread = t,
         stack' = SetTop(f), UNCHANGED <<host, mode, handle>>
  PROVE  /\ StackInEnter' /\ Depth' /\ Nested'
         /\ Len(stack') = Len(stack) /\ DOMAIN stack' = DOMAIN stack
         /\ stack'[Len(stack)] = f
         /\ \A i \in DOMAIN stack : i # Len(stack) => stack'[i] = stack[i]
         /\ \A i \in DOMAIN stack : stack'[i].thread = stack[i].thread
<1>1. /\ Len(stack) \in Nat \ {0} /\ DOMAIN stack = 1..Len(stack)
      /\ stack[Len(stack)].thread = t /\ stack \in Seq(Frame) /\ stack # <<>>
  BY RunningProps
<1>2. /\ Len(stack') = Len(stack) /\ DOMAIN stack' = DOMAIN stack
      /\ stack'[Len(stack)] = f
      /\ \A i \in DOMAIN stack : i # Len(stack) => stack'[i] = stack[i]
  BY <1>1, SetTopProps
<1>3. \A i \in DOMAIN stack : stack'[i].thread = stack[i].thread
  BY <1>1, <1>2
<1>4. StackInEnter'
  BY <1>1 DEF StackInv, StackInEnter
<1>5. Depth'
  BY <1>2, <1>3 DEF StackInv, Depth, Synchronizing
<1>6. Nested'
  <2>1. SUFFICES ASSUME NEW i \in DOMAIN stack, i > 1
                 PROVE  stack'[i - 1].waiting /\ Head(stack'[i - 1].list) = stack'[i].thread
    BY <1>2 DEF Nested, Awaited
  <2>2. i - 1 \in DOMAIN stack /\ i - 1 # Len(stack)
    BY <1>1, <2>1
  <2>3. stack[i - 1].waiting /\ Head(stack[i - 1].list) = stack[i].thread
    BY <2>1 DEF StackInv, Nested, Awaited
  <2> QED BY <1>2, <1>3, <2>2, <2>3
<1> QED BY <1>2, <1>3, <1>4, <1>5, <1>6

\* Step and Synchronize: nobody waits before or after, at the top.
LEMMA StackNotWaiting ==
  ASSUME TypeOK, StackInv, NEW t \in Thread, Running(t), NEW f \in Frame, f.thread = t,
         stack' = SetTop(f), UNCHANGED <<host, mode, handle, parent>>,
         ~Top.waiting, ~f.waiting,
         \A k \in DOMAIN f.list : Target(t, f.list[k]) \/ (f.list[k] = t /\ t \in Broadcast)
  PROVE  StackInv'
<1>1. /\ StackInEnter' /\ Depth' /\ Nested'
      /\ Len(stack') = Len(stack) /\ DOMAIN stack' = DOMAIN stack
      /\ stack'[Len(stack)] = f
      /\ \A i \in DOMAIN stack : i # Len(stack) => stack'[i] = stack[i]
  BY TopChange
<1>2. Top = stack[Len(stack)]
  BY RunningProps
<1>3. \A i \in DOMAIN stack : /\ stack'[i].waiting <=> stack[i].waiting
                              /\ stack[i].waiting => stack'[i] = stack[i]
  BY <1>1, <1>2
<1>4. Waits'
  BY <1>1, <1>3 DEF StackInv, Waits, Awaited, Synchronizing
<1>5. Targets'
  <2>1. \A i \in DOMAIN stack : i # Len(stack) =>
          \A k \in DOMAIN stack'[i].list :
            \/ Target(stack'[i].thread, stack'[i].list[k])
            \/ stack'[i].list[k] = stack'[i].thread /\ stack'[i].thread \in Broadcast
    BY <1>1 DEF StackInv, Targets
  <2>2. \A k \in DOMAIN stack'[Len(stack)].list :
          LET g == stack'[Len(stack)] IN
            Target(g.thread, g.list[k]) \/ (g.list[k] = g.thread /\ g.thread \in Broadcast)
    BY <1>1
  <2> QED BY <1>1, <2>1, <2>2 DEF Targets
<1>6. Parents'
  <2>1. \A i \in DOMAIN stack' : stack'[i].waiting => AtRest(Awaited(i), stack[i].saved)'
    BY <1>1, <1>3 DEF StackInv, Parents, Awaited, AtRest
  <2>2. \A u \in Thread : WaitedFor(u) => WaitedFor(u)'
    BY <1>1, <1>3 DEF WaitedFor, Awaited
  <2>3. \A u \in Thread : AtRest(u, parent[u])' \/ WaitedFor(u)'
    BY <2>2 DEF StackInv, Parents, AtRest
  <2> QED BY <2>1, <2>3 DEF Parents
<1> QED BY <1>1, <1>4, <1>5, <1>6 DEF StackInv

LEMMA StackStep ==
  ASSUME TypeOK, TypeOK', StackInv, NEW t \in Thread, Step(t)
  PROVE  StackInv'
<1>1. Running(t) /\ Top.list = <<>>
  BY DEF Step
<1>2. Top \in Frame /\ Top.thread = t /\ Top.work \in 0..MaxWork /\ ~Top.waiting
  BY <1>1, RunningProps, TopFields
<1>3. PICK n \in 1..(MaxWork - Top.work) :
        stack' = SetTop([Top EXCEPT !.work = @ + n, !.done = {}])
  BY DEF Step
<1> DEFINE f == [Top EXCEPT !.work = @ + n, !.done = {}]
<1>4. Top.work + n \in 0..MaxWork
  BY <1>2, <1>3, ConstantAssumption
<1>5. f \in Frame /\ f.thread = t /\ ~f.waiting /\ f.list = <<>>
  BY <1>1, <1>2, <1>4 DEF Frame
<1>6. \A k \in DOMAIN f.list : Target(t, f.list[k]) \/ (f.list[k] = t /\ t \in Broadcast)
  BY <1>5, EmptySeq
<1>7. UNCHANGED <<host, mode, handle, parent>>
  BY DEF Step, hostVars
<1> HIDE DEF f
<1> QED BY <1>1, <1>2, <1>3, <1>5, <1>6, <1>7, StackNotWaiting DEF f

LEMMA StackCall ==
  ASSUME TypeOK, StackInv, NEW t \in Thread, Synchronize(t)
  PROVE  StackInv'
<1>1. PICK l \in Seq(Thread) : Call(t, l) /\ (l \in Lists[t] \/ (t \in Broadcast /\ l = threads))
  BY ConstantAssumption DEF Synchronize, TypeOK
<1>2. Running(t) /\ Top.list = <<>> /\ l # <<>>
  BY <1>1 DEF Call
<1>3. Top \in Frame /\ Top.thread = t /\ ~Top.waiting
  BY <1>2, RunningProps
<1> DEFINE f == [Top EXCEPT !.list = l, !.done = {}]
<1>4. f \in Frame /\ f.thread = t /\ ~f.waiting /\ f.list = l
  BY <1>1, <1>3 DEF Frame
<1>5. \A k \in DOMAIN l : Target(t, l[k]) \/ (l[k] = t /\ t \in Broadcast)
  BY <1>1 DEF Target
<1>6. stack' = SetTop(f) /\ UNCHANGED <<host, mode, handle, parent>>
  BY <1>1 DEF Call, hostVars, threadVars
<1> HIDE DEF f
<1> QED BY <1>2, <1>3, <1>4, <1>5, <1>6, StackNotWaiting

\* Dropping the head of a list keeps Targets.
LEMMA TailTargets ==
  ASSUME TypeOK, StackInv, NEW t \in Thread, Running(t), Top.list # <<>>
  PROVE  \A k \in DOMAIN Tail(Top.list) :
           \/ Target(t, Tail(Top.list)[k])
           \/ Tail(Top.list)[k] = t /\ t \in Broadcast
<1>1. /\ Len(stack) \in DOMAIN stack /\ Top = stack[Len(stack)] /\ Top.thread = t
      /\ Top.list \in Seq(Thread)
  BY RunningProps
<1>2. /\ Len(Top.list) \in Nat /\ DOMAIN Top.list = 1..Len(Top.list)
      /\ DOMAIN Tail(Top.list) = 1..(Len(Top.list) - 1)
      /\ \A k \in 1..(Len(Top.list) - 1) : Tail(Top.list)[k] = Top.list[k + 1]
  BY <1>1, HeadTailProperties, LenProperties
<1>3. ASSUME NEW k \in DOMAIN Tail(Top.list)
      PROVE  k + 1 \in DOMAIN Top.list /\ Tail(Top.list)[k] = Top.list[k + 1]
  BY <1>2
<1>4. \A k \in DOMAIN Top.list :
        Target(t, Top.list[k]) \/ (Top.list[k] = t /\ t \in Broadcast)
  BY <1>1 DEF StackInv, Targets
<1> QED BY <1>3, <1>4

LEMMA StackYield ==
  ASSUME TypeOK, StackInv, NEW t \in Thread, Yield(t)
  PROVE  StackInv'
<1>1. Running(t) /\ Top.list # <<>> /\ ~Top.waiting
  BY DEF Yield
<1>2. Top \in Frame /\ Top.thread = t /\ Head(Top.list) \in Thread /\ Tail(Top.list) \in Seq(Thread)
  BY <1>1, RunningProps, TopFields
<1> DEFINE f == [Top EXCEPT !.list = Tail(@), !.done = @ \cup {Head(Top.list)}]
<1>3. f \in Frame /\ f.thread = t /\ ~f.waiting /\ f.list = Tail(Top.list)
  BY <1>1, <1>2 DEF Frame
<1>4. stack' = SetTop(f) /\ UNCHANGED <<host, mode, handle, parent>>
  BY DEF Yield, hostVars, threadVars
<1>5. \A k \in DOMAIN f.list : Target(t, f.list[k]) \/ (f.list[k] = t /\ t \in Broadcast)
  BY <1>1, <1>3, TailTargets
<1> HIDE DEF f
<1> QED BY <1>1, <1>3, <1>4, <1>5, StackNotWaiting

LEMMA StackWait ==
  ASSUME TypeOK, StackInv, NEW t \in Thread, Wait(t)
  PROVE  StackInv'
<1> DEFINE u == Head(Top.list)
           f == [Top EXCEPT !.waiting = TRUE, !.saved = parent[u]]
<1>1. Running(t) /\ Top.list # <<>> /\ ~Top.waiting /\ ~YieldsBack(t, u)
  BY DEF Wait
<1>2. /\ Top \in Frame /\ Top.thread = t /\ u \in Thread
      /\ Top = stack[Len(stack)] /\ Len(stack) \in DOMAIN stack
  BY <1>1, RunningProps
<1>3. /\ f \in Frame /\ f.thread = t /\ f.waiting /\ f.list = Top.list
      /\ f.saved = parent[u]
  BY <1>1, <1>2 DEF Frame, TypeOK
<1>4. stack' = SetTop(f) /\ UNCHANGED <<host, mode, handle>>
  BY DEF Wait, hostVars
<1>5. parent'[u] = t /\ \A x \in Thread : x # u => parent'[x] = parent[x]
  BY <1>2 DEF Wait, TypeOK
<1>6. ~Synchronizing => u = t \/ Down(t, u)
  BY <1>1, WaitsBelow
<1>7. \A i \in DOMAIN stack : i # Len(stack) => Awaited(i) # u
  BY <1>1, <1>6, NotAwaited
<1> HIDE DEF f
<1>8. /\ StackInEnter' /\ Depth' /\ Nested'
      /\ Len(stack') = Len(stack) /\ DOMAIN stack' = DOMAIN stack
      /\ stack'[Len(stack)] = f
      /\ \A i \in DOMAIN stack : i # Len(stack) => stack'[i] = stack[i]
  BY <1>1, <1>3, <1>4, TopChange
<1>9. \A i \in DOMAIN stack : i # Len(stack) /\ stack[i].waiting => Awaited(i) \in Thread
  <2>1. \A i \in DOMAIN stack : stack[i] \in Frame
    BY ElementOfSeq, LenProperties DEF TypeOK
  <2> QED BY <2>1, HeadTailProperties DEF Frame, Awaited
<1>10. Waits'
  <2>1. SUFFICES ASSUME NEW i \in DOMAIN stack, stack'[i].waiting
                 PROVE  LET a == Head(stack'[i].list) IN
                          /\ parent'[a] = stack'[i].thread
                          /\ ~Synchronizing => a = stack'[i].thread \/ Down(stack'[i].thread, a)
    BY <1>4, <1>8 DEF Waits, Awaited, Synchronizing
  <2>2. CASE i = Len(stack)
    BY <1>3, <1>5, <1>6, <1>8, <2>2
  <2>3. CASE i # Len(stack)
    <3>1. stack'[i] = stack[i] /\ stack[i].waiting /\ Awaited(i) # u /\ Awaited(i) \in Thread
      BY <1>7, <1>8, <1>9, <2>1, <2>3
    <3> QED BY <1>5, <3>1 DEF StackInv, Waits, Awaited
  <2> QED BY <2>2, <2>3
<1>11. Targets'
  BY <1>2, <1>3, <1>8 DEF StackInv, Targets
<1>12. AtRest(u, parent[u])
  <2>1. ~WaitedFor(u)
    BY <1>1, <1>2, <1>7 DEF WaitedFor
  <2> QED BY <1>2, <2>1 DEF StackInv, Parents
<1>13. Parents'
  <2>1. SUFFICES /\ \A i \in DOMAIN stack : stack'[i].waiting =>
                      AtRest(Head(stack'[i].list), stack'[i].saved)
                 /\ \A x \in Thread : AtRest(x, parent'[x]) \/ WaitedFor(x)'
    BY <1>4, <1>8 DEF Parents, Awaited, AtRest
  <2>2. ASSUME NEW i \in DOMAIN stack, stack'[i].waiting
        PROVE  AtRest(Head(stack'[i].list), stack'[i].saved)
    <3>1. CASE i = Len(stack)
      BY <1>3, <1>8, <1>12, <3>1
    <3>2. CASE i # Len(stack)
      BY <1>8, <2>2, <3>2 DEF StackInv, Parents, Awaited
    <3> QED BY <3>1, <3>2
  <2>3. ASSUME NEW x \in Thread PROVE AtRest(x, parent'[x]) \/ WaitedFor(x)'
    <3>1. CASE x = u
      BY <1>2, <1>3, <1>8, <3>1 DEF WaitedFor, Awaited
    <3>2. CASE x # u /\ WaitedFor(x)
      <4>1. PICK i \in DOMAIN stack : stack[i].waiting /\ Awaited(i) = x
        BY <3>2 DEF WaitedFor
      <4>2. i # Len(stack)
        BY <1>1, <1>2, <4>1
      <4> QED BY <1>8, <4>1, <4>2 DEF WaitedFor, Awaited
    <3>3. CASE x # u /\ ~WaitedFor(x)
      BY <1>5, <3>3 DEF StackInv, Parents
    <3> QED BY <3>1, <3>2, <3>3
  <2> QED BY <2>1, <2>2, <2>3
<1> QED BY <1>8, <1>10, <1>11, <1>13 DEF StackInv

LEMMA StackResume ==
  ASSUME TypeOK, StackInv, NEW t \in Thread, Resume(t)
  PROVE  StackInv'
<1> DEFINE u == Head(Top.list)
           f == [Top EXCEPT !.list = Tail(@), !.waiting = FALSE,
                            !.saved = Null, !.done = @ \cup {u}]
<1>1. Running(t) /\ Top.waiting
  BY DEF Resume
<1>2. /\ Top \in Frame /\ Top.thread = t /\ Top.list # <<>> /\ u \in Thread
      /\ Tail(Top.list) \in Seq(Thread)
      /\ Top = stack[Len(stack)] /\ Len(stack) \in DOMAIN stack
      /\ u = Awaited(Len(stack))
  BY <1>1, RunningProps, TopFields
<1>3. f \in Frame /\ f.thread = t /\ ~f.waiting /\ f.list = Tail(Top.list)
  BY <1>1, <1>2 DEF Frame, Pointer
<1>4. stack' = SetTop(f) /\ UNCHANGED <<host, mode, handle>>
  BY DEF Resume, hostVars
<1>5. parent'[u] = Top.saved /\ \A x \in Thread : x # u => parent'[x] = parent[x]
  BY <1>2 DEF Resume, Restored, TypeOK
<1>6. ~Synchronizing => u = t \/ Down(t, u)
  BY <1>1, <1>2 DEF StackInv, Waits
<1>7. \A i \in DOMAIN stack : i # Len(stack) => Awaited(i) # u
  BY <1>1, <1>2, <1>6, NotAwaited
<1> HIDE DEF f
<1>8. /\ StackInEnter' /\ Depth' /\ Nested'
      /\ Len(stack') = Len(stack) /\ DOMAIN stack' = DOMAIN stack
      /\ stack'[Len(stack)] = f
      /\ \A i \in DOMAIN stack : i # Len(stack) => stack'[i] = stack[i]
  BY <1>1, <1>3, <1>4, TopChange
<1>9. \A i \in DOMAIN stack : stack'[i].waiting =>
        i # Len(stack) /\ stack'[i] = stack[i] /\ Awaited(i) # u
  BY <1>3, <1>7, <1>8
<1>10. \A i \in DOMAIN stack : stack[i].waiting => Awaited(i) \in Thread
  <2>1. \A i \in DOMAIN stack : stack[i] \in Frame
    BY ElementOfSeq, LenProperties DEF TypeOK
  <2> QED BY <2>1, HeadTailProperties DEF Frame, Awaited
<1>11. Waits'
  <2>1. SUFFICES ASSUME NEW i \in DOMAIN stack, stack'[i].waiting
                 PROVE  LET a == Head(stack'[i].list) IN
                          /\ parent'[a] = stack'[i].thread
                          /\ ~Synchronizing => a = stack'[i].thread \/ Down(stack'[i].thread, a)
    BY <1>4, <1>8 DEF Waits, Awaited, Synchronizing
  <2>2. stack'[i] = stack[i] /\ stack[i].waiting /\ Awaited(i) # u /\ Awaited(i) \in Thread
    BY <1>9, <1>10, <2>1
  <2> QED BY <1>5, <2>2 DEF StackInv, Waits, Awaited
<1>12. Targets'
  <2>1. \A k \in DOMAIN f.list : Target(t, f.list[k]) \/ (f.list[k] = t /\ t \in Broadcast)
    BY <1>1, <1>2, <1>3, TailTargets
  <2>2. \A i \in DOMAIN stack : i # Len(stack) =>
          \A k \in DOMAIN stack'[i].list :
            \/ Target(stack'[i].thread, stack'[i].list[k])
            \/ stack'[i].list[k] = stack'[i].thread /\ stack'[i].thread \in Broadcast
    BY <1>8 DEF StackInv, Targets
  <2>3. \A k \in DOMAIN stack'[Len(stack)].list :
          LET g == stack'[Len(stack)] IN
            Target(g.thread, g.list[k]) \/ (g.list[k] = g.thread /\ g.thread \in Broadcast)
    BY <1>3, <1>8, <2>1
  <2> QED BY <1>8, <2>2, <2>3 DEF Targets
<1>13. Parents'
  <2>1. SUFFICES /\ \A i \in DOMAIN stack : stack'[i].waiting =>
                      AtRest(Head(stack'[i].list), stack'[i].saved)
                 /\ \A x \in Thread : AtRest(x, parent'[x]) \/ WaitedFor(x)'
    BY <1>4, <1>8 DEF Parents, Awaited, AtRest
  <2>2. \A i \in DOMAIN stack : stack'[i].waiting =>
          AtRest(Head(stack'[i].list), stack'[i].saved)
    BY <1>9 DEF StackInv, Parents, Awaited
  <2>3. ASSUME NEW x \in Thread PROVE AtRest(x, parent'[x]) \/ WaitedFor(x)'
    <3>1. CASE x = u
      BY <1>1, <1>2, <1>5, <3>1 DEF StackInv, Parents
    <3>2. CASE x # u /\ WaitedFor(x)
      <4>1. PICK i \in DOMAIN stack : stack[i].waiting /\ Awaited(i) = x
        BY <3>2 DEF WaitedFor
      <4>2. i # Len(stack)
        BY <1>2, <3>2, <4>1
      <4> QED BY <1>8, <4>1, <4>2 DEF WaitedFor, Awaited
    <3>3. CASE x # u /\ ~WaitedFor(x)
      BY <1>5, <3>3 DEF StackInv, Parents
    <3> QED BY <3>1, <3>2, <3>3
  <2> QED BY <2>1, <2>2, <2>3
<1> QED BY <1>8, <1>11, <1>12, <1>13 DEF StackInv

LEMMA StackCatchUp ==
  ASSUME TypeOK, StackInv, NEW t \in Thread, CatchUp(t)
  PROVE  StackInv'
<1> DEFINE u == Head(Top.list)
           n == Len(stack)
<1>1. Running(t) /\ Top.waiting /\ MustCatchUp(t, u)
  BY DEF CatchUp
<1>2. /\ stack \in Seq(Frame) /\ n \in Nat \ {0} /\ n \in DOMAIN stack
      /\ Top = stack[n] /\ Top.thread = t /\ u \in Thread
      /\ u = Awaited(n) /\ stack[n].waiting
  BY <1>1, RunningProps
<1>3. ~Synchronizing /\ u # t
  BY <1>1 DEF MustCatchUp, TypeOK
<1>4. Down(t, u)
  BY <1>2, <1>3 DEF StackInv, Waits
<1>5. stack' = Append(stack, Activation(u)) /\ UNCHANGED <<host, mode, handle, parent>>
  BY DEF CatchUp, hostVars
<1> HIDE DEF u
<1>6. /\ DOMAIN stack' = 1..(n + 1) /\ DOMAIN stack = 1..n
      /\ stack'[n + 1] = Activation(u)
      /\ \A i \in DOMAIN stack : stack'[i] = stack[i]
  BY <1>2, <1>5, ActivationProps, PushProps
<1> HIDE DEF n
<1>7. /\ stack'[n + 1].thread = u /\ stack'[n + 1].list = <<>> /\ ~stack'[n + 1].waiting
      /\ n + 1 - 1 = n
      /\ \A i \in DOMAIN stack' : i = n + 1 \/ i \in DOMAIN stack
      /\ \A i \in DOMAIN stack : i \in DOMAIN stack' /\ (i > 1 => i - 1 \in DOMAIN stack)
  BY <1>2, <1>6 DEF Activation
<1>8. StackInEnter'
  BY <1>2, <1>5 DEF StackInv, StackInEnter, n
<1>9. Nested'
  <2>1. SUFFICES ASSUME NEW i \in DOMAIN stack', i > 1
                 PROVE  stack'[i - 1].waiting /\ Head(stack'[i - 1].list) = stack'[i].thread
    BY DEF Nested, Awaited
  <2>2. CASE i = n + 1
    BY <1>2, <1>6, <1>7, <2>2 DEF Awaited
  <2>3. CASE i \in DOMAIN stack
    <3>1. stack[i - 1].waiting /\ Awaited(i - 1) = stack[i].thread
      BY <2>1, <2>3 DEF StackInv, Nested
    <3> QED BY <1>6, <1>7, <2>1, <2>3, <3>1 DEF Awaited
  <2> QED BY <1>7, <2>2, <2>3
<1>10. Waits'
  BY <1>5, <1>6, <1>7 DEF StackInv, Waits, Awaited, Synchronizing
<1>11. Depth'
  <2>1. Level[t] = n - 1 /\ \A i \in DOMAIN stack : Level[stack[i].thread] = i - 1
    BY <1>2, <1>3 DEF StackInv, Depth
  <2>2. Level[u] = n
    BY <1>2, <1>4, <2>1 DEF Down
  <2>3. ASSUME NEW i \in DOMAIN stack' PROVE Level[stack'[i].thread] = i - 1
    <3>1. CASE i = n + 1
      BY <1>2, <1>7, <2>2, <3>1 DEF n
    <3>2. CASE i \in DOMAIN stack
      BY <1>6, <2>1, <3>2
    <3> QED BY <1>7, <3>1, <3>2
  <2> QED BY <1>3, <1>5, <2>3 DEF Depth, Synchronizing
<1>12. Targets'
  BY <1>6, <1>7, EmptySeq DEF StackInv, Targets
<1>13. Parents'
  <2>1. \A i \in DOMAIN stack' : stack'[i].waiting => AtRest(Awaited(i), stack[i].saved)'
    BY <1>5, <1>6, <1>7 DEF StackInv, Parents, Awaited, AtRest
  <2>2. \A x \in Thread : WaitedFor(x) => WaitedFor(x)'
    BY <1>6, <1>7 DEF WaitedFor, Awaited
  <2>3. \A x \in Thread : AtRest(x, parent[x])' \/ WaitedFor(x)'
    BY <1>5, <2>2 DEF StackInv, Parents, AtRest
  <2> QED BY <2>1, <2>3 DEF Parents
<1> QED BY <1>8, <1>9, <1>10, <1>11, <1>12, <1>13 DEF StackInv

LEMMA StackReturn ==
  ASSUME TypeOK, StackInv, NEW t \in Thread, Return(t)
  PROVE  StackInv'
<1> DEFINE n == Len(stack)
<1>1. Running(t) /\ Top.list = <<>> /\ stack' = Pop
  BY DEF Return
<1>2. /\ stack \in Seq(Frame) /\ stack # <<>> /\ n \in Nat \ {0} /\ n \in DOMAIN stack
      /\ DOMAIN stack = 1..n /\ Top = stack[n] /\ ~stack[n].waiting
  BY <1>1, RunningProps
<1>3. /\ Len(stack') = n - 1 /\ DOMAIN stack' = 1..(n - 1)
      /\ \A i \in DOMAIN stack' : stack'[i] = stack[i] /\ i \in DOMAIN stack
  BY <1>1, <1>2, PopProps
<1>4. UNCHANGED <<host, mode, handle, parent>>
  BY DEF Return, hostVars
<1> HIDE DEF n
<1>5. \A i \in DOMAIN stack' : i > 1 => i - 1 \in DOMAIN stack'
  BY <1>2, <1>3
<1>6. \A i \in DOMAIN stack : stack[i].waiting => i \in DOMAIN stack'
  BY <1>2, <1>3
<1>7. StackInEnter'
  BY <1>2, <1>4 DEF StackInv, StackInEnter
<1>8. Nested'
  BY <1>3, <1>5 DEF StackInv, Nested, Awaited
<1>9. Waits'
  BY <1>3, <1>4 DEF StackInv, Waits, Awaited, Synchronizing
<1>10. Depth'
  BY <1>2, <1>3, <1>4 DEF StackInv, Depth, Synchronizing, n
<1>11. Targets'
  BY <1>3 DEF StackInv, Targets
<1>12. Parents'
  <2>1. \A i \in DOMAIN stack' : stack'[i].waiting => AtRest(Awaited(i), stack[i].saved)'
    BY <1>3, <1>4 DEF StackInv, Parents, Awaited, AtRest
  <2>2. \A x \in Thread : WaitedFor(x) => WaitedFor(x)'
    BY <1>3, <1>6 DEF WaitedFor, Awaited
  <2>3. \A x \in Thread : AtRest(x, parent[x])' \/ WaitedFor(x)'
    BY <1>4, <2>2 DEF StackInv, Parents, AtRest
  <2> QED BY <2>1, <2>3 DEF Parents
<1> QED BY <1>7, <1>8, <1>9, <1>10, <1>11, <1>12 DEF StackInv

LEMMA StackNext == TypeOK /\ TypeOK' /\ StackInv /\ [Next]_vars => StackInv'
<1> SUFFICES ASSUME TypeOK, TypeOK', StackInv, [Next]_vars PROVE StackInv'
  OBVIOUS
<1>1. CASE Host
  BY <1>1, StackHost
<1>2. CASE Chip
  BY <1>2, StackStep, StackCall, StackYield, StackWait, StackCatchUp, StackResume,
     StackReturn DEF Chip
<1>3. CASE UNCHANGED vars
  <2>1. UNCHANGED <<host, mode, handle, parent, stack>>
    BY <1>3 DEF vars, hostVars, threadVars
  <2> QED BY <2>1 DEF StackInv, StackInEnter, Nested, Waits, Depth, Targets, Parents,
                      Awaited, WaitedFor, AtRest, Synchronizing
<1> QED BY <1>1, <1>2, <1>3 DEF Next

\* The shape of the call stack holds in every reachable state.
THEOREM StackCorrect == Spec => []StackInv
<1>1. Init /\ TypeOK => StackInv
  BY StackInit
<1> QED BY <1>1, TypeInit, TypeNext, StackNext, TypeCorrect, PTL DEF Spec

\* No thread occurs twice on a stack whose levels count up from the primary.
LEMMA StackNoReentry == TypeOK /\ StackInv => NoReentry
<1>1. SUFFICES ASSUME TypeOK, StackInv, NEW i \in DOMAIN stack, NEW j \in DOMAIN stack,
                      stack[i].thread = stack[j].thread
               PROVE  i = j
  BY DEF NoReentry
<1>2. Len(stack) \in Nat /\ i \in 1..Len(stack) /\ j \in 1..Len(stack)
  BY LenProperties DEF TypeOK
<1>3. CASE Synchronizing
  <2>1. Len(stack) <= 1
    BY <1>1, <1>3 DEF StackInv, Depth
  <2>2. i = 1 /\ j = 1
    BY <1>2, <2>1
  <2> QED BY <2>2
<1>4. CASE ~Synchronizing
  BY <1>1, <1>2, <1>4 DEF StackInv, Depth
<1> QED BY <1>3, <1>4

\* The parent test of Thread::synchronize keeps every main() from being entered
\* again while an earlier call of it is on the stack: the stack is a path
\* from the primary, on which every level occurs once.
THEOREM NeverReentered == Spec => []NoReentry
<1>1. TypeOK /\ StackInv => NoReentry
  BY StackNoReentry
<1> QED BY <1>1, TypeCorrect, StackCorrect, PTL

\* The mode that main() of an auxiliary thread finds during a save, although
\* enter() sets it again for each of them and never resets it.
SavingMode == host = "saveOthers" /\ stack # <<>> => Synchronizing

LEMMA ModeNext ==
  ASSUME TypeOK, SavingMode, [Next]_vars
  PROVE  SavingMode'
<1> USE DEF SavingMode, Synchronizing
<1>1. CASE Load \/ PowerOn \/ PowerThread \/ SchedulerPower
  BY <1>1 DEF Load, PowerOn, PowerThread, SchedulerPower
<1>2. CASE Unload \/ Unloaded \/ \E t \in Transient : UnloadThread(t)
  BY <1>2 DEF Unload, Unloaded, UnloadThread
<1>3. CASE \E t \in Hotplug : Connect(t) \/ Disconnect(t)
  BY <1>3 DEF Connect, Disconnect
<1>4. CASE EnterRun \/ EnterSynchronize \/ PrimaryMain \/ Exit
  BY <1>4 DEF EnterRun, EnterSynchronize, PrimaryMain, Exit
<1>5. CASE PrimarySaved \/ Saved
  BY <1>5 DEF PrimarySaved, Saved
<1>6. CASE OtherMain
  BY <1>6 DEF OtherMain
<1>7. CASE Chip
  <2>1. stack # <<>> /\ UNCHANGED <<host, mode>>
    BY <1>7 DEF Chip, Step, Synchronize, Call, Yield, Wait, CatchUp, Resume, Return, Running,
                hostVars
  <2> QED BY <2>1
<1>8. CASE UNCHANGED vars
  BY <1>8 DEF vars, hostVars
<1> QED
  BY <1>1, <1>2, <1>3, <1>4, <1>5, <1>6, <1>7, <1>8 DEF Next, Host

\* While Scheduler::enter(Synchronize) runs the auxiliary threads to their safe
\* points, no chip runs another one.
THEOREM SavesAlone == Spec => []SavesRunAlone
<1>1. Init => SavingMode
  BY DEF Init, SavingMode
<1>2. TypeOK /\ SavingMode /\ [Next]_vars => SavingMode'
  BY ModeNext
<1>3. TypeOK /\ StackInv /\ SavingMode => SavesRunAlone
  BY EmptySeq DEF StackInv, Depth, SavingMode, SavesRunAlone
<1> QED BY <1>1, <1>2, <1>3, TypeCorrect, StackCorrect, PTL DEF Spec

\* Every synchronize() gives its target back the parent it found: between two
\* calls of main() by the scheduler no thread remembers a caller.
THEOREM ParentsAreRestored == Spec => []ParentsRestored
<1>1. StackInv => ParentsRestored
  BY EmptySeq DEF StackInv, Parents, AtRest, WaitedFor, ParentsRestored
<1> QED BY <1>1, StackCorrect, PTL

-----------------------------------------------------------------------------
(* The list of threads: unique IDs.                                        *)

\* Every thread of the list has a handle.
Handles == \A t \in Appended : handle[t]

\* The places of the list, and what is at them.
LEMMA ListProps ==
  ASSUME TypeOK
  PROVE  /\ Len(threads) \in Nat /\ DOMAIN threads = 1..Len(threads)
         /\ \A i \in DOMAIN threads : threads[i] \in Appended /\ threads[i] \in Thread
<1>1. threads \in Seq(Thread)
  BY DEF TypeOK
<1>2. Len(threads) \in Nat /\ DOMAIN threads = 1..Len(threads)
  BY <1>1, LenProperties
<1>3. \A i \in DOMAIN threads : threads[i] \in Thread
  BY <1>1, <1>2, ElementOfSeq
<1> QED BY <1>2, <1>3 DEF Appended

\* A thread that is not in the list leaves an ID free below the number of threads.
LEMMA NextUniqueIDBound ==
  ASSUME TypeOK, NEW t \in Thread, t \notin Appended
  PROVE  NextUniqueID \in Nat /\ NextUniqueID < Cardinality(Thread)
<1>1. /\ Appended \subseteq Thread /\ IsFiniteSet(Thread)
      /\ Cardinality(Appended) \in Nat /\ NextUniqueID \in 0..Cardinality(Appended)
  BY AppendedProps, NextUniqueIDProps, ConstantAssumption
<1>2. Cardinality(Thread) \in Nat /\ Cardinality(Appended) <= Cardinality(Thread)
  BY <1>1, FS_Subset, FS_CardinalityType
<1>3. Cardinality(Appended) # Cardinality(Thread)
  BY <1>1, FS_Subset
<1> QED BY <1>1, <1>2, <1>3

\* create() appends a thread under the first free ID, or leaves the list alone.
LEMMA CreateList ==
  ASSUME TypeOK, UniqueIDs, Handles, NEW t \in Thread, Create(t)
  PROVE  UniqueIDs' /\ Handles' /\ Appended' = Appended \cup {t}
<1>1. \A u \in Thread : handle'[u] <=> (handle[u] \/ u = t)
  BY DEF Create, TypeOK
<1>2. CASE t \in Appended
  <2>1. threads' = threads /\ uniqueID' = uniqueID
    BY <1>2 DEF Create
  <2>2. Appended' = Appended
    BY <2>1 DEF Appended
  <2> QED BY <1>1, <1>2, <2>1, <2>2, AppendedProps DEF UniqueIDs, Handles
<1>3. CASE t \notin Appended
  <2> DEFINE n == Len(threads)
             id == NextUniqueID
  <2>1. threads' = Append(threads, t) /\ uniqueID' = [uniqueID EXCEPT ![t] = id]
    BY <1>3 DEF Create
  <2>2. /\ n \in Nat /\ DOMAIN threads = 1..n /\ threads \in Seq(Thread)
        /\ \A i \in 1..n : threads[i] \in Thread /\ threads[i] \in Appended /\ threads[i] # t
    BY <1>3, ListProps DEF TypeOK
  <2>3. /\ DOMAIN threads' = 1..(n + 1) /\ threads'[n + 1] = t
        /\ \A i \in 1..n : threads'[i] = threads[i]
    BY <2>1, <2>2
  <2>4. \A i \in 1..(n + 1) : i = n + 1 \/ i \in 1..n
    BY <2>2
  <2> HIDE DEF n
  <2>5. /\ uniqueID'[t] = id
        /\ \A i \in 1..n : uniqueID'[threads'[i]] = uniqueID[threads[i]]
    BY <2>1, <2>2, <2>3 DEF TypeOK
  <2>6. id < Cardinality(Thread) /\ \A i \in 1..n : uniqueID[threads[i]] # id
    BY <1>3, <2>2, NextUniqueIDBound, NextUniqueIDProps
  <2> HIDE DEF id
  <2>7. UniqueIDs'
    BY <2>2, <2>3, <2>4, <2>5, <2>6 DEF UniqueIDs
  <2>8. Appended' = Appended \cup {t}
    BY <2>2, <2>3, <2>4 DEF Appended
  <2>9. Handles'
    BY <1>1, <2>8, AppendedProps DEF Handles
  <2> QED BY <2>7, <2>8, <2>9
<1> QED BY <1>2, <1>3

\* Taking out one place keeps the order of the others.
LEMMA RemoveAtProps ==
  ASSUME TypeOK, NEW i \in DOMAIN threads
  PROVE  /\ DOMAIN RemoveAt(i) = 1..(Len(threads) - 1)
         /\ \A k \in DOMAIN RemoveAt(i) :
              RemoveAt(i)[k] = threads[IF k < i THEN k ELSE k + 1]
<1> DEFINE n == Len(threads)
           s == SubSeq(threads, 1, i - 1)
           r == SubSeq(threads, i + 1, n)
<1>1. n \in Nat /\ i \in 1..n /\ \A j \in 1..n : threads[j] \in Thread
  BY ListProps
<1> HIDE DEF n
<1>2. /\ s \in Seq(Thread) /\ Len(s) = i - 1
      /\ \A k \in 1..(i - 1) : s[k] = threads[k]
  <2>1. (\A j \in 1..(i - 1) : j \in 1..n) /\ i - 1 \in Int
    BY <1>1
  <2>2. /\ s \in Seq(Thread)
        /\ Len(s) = IF 1 <= i - 1 THEN i - 1 - 1 + 1 ELSE 0
        /\ \A k \in 1..(i - 1 - 1 + 1) : s[k] = threads[1 + k - 1]
    BY <1>1, <2>1, SubSeqProperties
  <2> HIDE DEF s
  <2> QED BY <1>1, <2>2
<1>3. /\ r \in Seq(Thread) /\ Len(r) = n - i
      /\ \A k \in 1..(n - i) : r[k] = threads[i + k]
  <2>1. (\A j \in (i + 1)..n : j \in 1..n) /\ i + 1 \in Int
    BY <1>1
  <2>2. /\ r \in Seq(Thread)
        /\ Len(r) = IF i + 1 <= n THEN n - (i + 1) + 1 ELSE 0
        /\ \A k \in 1..(n - (i + 1) + 1) : r[k] = threads[i + 1 + k - 1]
    BY <1>1, <2>1, SubSeqProperties
  <2> HIDE DEF r
  <2>3. n - (i + 1) + 1 = n - i /\ \A k \in 1..(n - i) : i + 1 + k - 1 = i + k
    BY <1>1
  <2> QED BY <1>1, <2>2, <2>3
<1>4. RemoveAt(i) = s \o r
  BY DEF RemoveAt, n
<1> HIDE DEF s, r
<1>5. /\ Len(s \o r) = i - 1 + n - i /\ s \o r \in Seq(Thread)
      /\ \A k \in 1..(i - 1 + n - i) :
           (s \o r)[k] = IF k <= i - 1 THEN s[k] ELSE r[k - (i - 1)]
  BY <1>1, <1>2, <1>3, ConcatProperties
<1>6. i - 1 + n - i = n - 1
  BY <1>1
<1>7. DOMAIN (s \o r) = 1..(n - 1)
  BY <1>5, <1>6, LenProperties
<1>8. ASSUME NEW k \in 1..(n - 1)
      PROVE  (s \o r)[k] = threads[IF k < i THEN k ELSE k + 1]
  <2>1. CASE k < i
    <3>1. k <= i - 1 /\ k \in 1..(i - 1)
      BY <1>1, <2>1
    <3> QED BY <1>2, <1>5, <1>6, <2>1, <3>1
  <2>2. CASE ~(k < i)
    <3>1. ~(k <= i - 1) /\ k - (i - 1) \in 1..(n - i) /\ i + (k - (i - 1)) = k + 1
      BY <1>1, <2>2
    <3> QED BY <1>3, <1>5, <1>6, <2>2, <3>1
  <2> QED BY <2>1, <2>2
<1> QED BY <1>4, <1>7, <1>8 DEF n

\* destroy() takes the thread out of the list, at its only place.
LEMMA DestroyList ==
  ASSUME TypeOK, UniqueIDs, Handles, NEW t \in Thread, Destroy(t), UNCHANGED uniqueID
  PROVE  UniqueIDs' /\ Handles' /\ Appended' \subseteq Appended
<1>1. \A u \in Thread : u # t => (handle'[u] <=> handle[u])
  BY DEF Destroy, TypeOK
<1>2. CASE t \notin Appended
  <2>1. threads' = threads
    BY <1>2 DEF Destroy, Appended
  <2>2. Appended' = Appended
    BY <2>1 DEF Appended
  <2> QED BY <1>1, <1>2, <2>1, <2>2, AppendedProps DEF UniqueIDs, Handles
<1>3. CASE t \in Appended
  <2>1. PICK i \in DOMAIN threads : threads[i] = t /\ threads' = RemoveAt(i)
    BY <1>3 DEF Destroy
  <2> DEFINE n == Len(threads)
             f(k) == IF k < i THEN k ELSE k + 1
  <2>2. /\ n \in Nat /\ i \in 1..n /\ DOMAIN threads = 1..n
        /\ \A j \in 1..n : threads[j] \in Appended /\ threads[j] \in Thread
    BY ListProps
  <2>3. DOMAIN threads' = 1..(n - 1) /\ \A k \in 1..(n - 1) : threads'[k] = threads[f(k)]
    BY <2>1, RemoveAtProps
  <2> HIDE DEF n
  <2>4. /\ \A k \in 1..(n - 1) : f(k) \in 1..n /\ f(k) # i
        /\ \A k, l \in 1..(n - 1) : f(k) = f(l) => k = l
    BY <2>2
  <2> HIDE DEF f
  <2>5. UniqueIDs'
    BY <2>2, <2>3, <2>4 DEF UniqueIDs
  <2>6. \A k \in 1..(n - 1) : threads'[k] \in Appended /\ threads'[k] # t
    BY <2>1, <2>2, <2>3, <2>4 DEF UniqueIDs
  <2>7. \A u \in Appended' : u \in Appended /\ u # t
    BY <2>3, <2>6 DEF Appended
  <2> QED BY <1>1, <2>5, <2>7, AppendedProps DEF Handles
<1> QED BY <1>2, <1>3

LEMMA ListNext ==
  ASSUME TypeOK, UniqueIDs, Handles, [Next]_vars
  PROVE  UniqueIDs' /\ Handles'
<1>1. ASSUME UNCHANGED <<threads, uniqueID, handle>> PROVE UniqueIDs' /\ Handles'
  BY <1>1 DEF UniqueIDs, Handles, Appended
<1>2. CASE Load
  <2>1. DOMAIN threads' = {}
    BY <1>2, EmptySeq DEF Load
  <2> QED BY <2>1 DEF UniqueIDs, Handles, Appended
<1>3. CASE PowerThread
  <2>1. Head(queue) \in Thread /\ Create(Head(queue))
    BY <1>3, HeadTailProperties DEF PowerThread, TypeOK
  <2> QED BY <2>1, CreateList
<1>4. CASE \E t \in Hotplug : Connect(t)
  BY <1>4, CreateList, ConstantAssumption DEF Connect
<1>5. CASE \E t \in Hotplug : Disconnect(t)
  BY <1>5, DestroyList, ConstantAssumption DEF Disconnect
<1>6. CASE \E t \in Transient : UnloadThread(t)
  BY <1>6, DestroyList, ConstantAssumption DEF UnloadThread
<1>7. CASE PowerOn \/ SchedulerPower \/ Unload \/ Unloaded
  BY <1>1, <1>7 DEF PowerOn, SchedulerPower, Unload, Unloaded, threadVars
<1>8. CASE EnterRun \/ EnterSynchronize \/ PrimaryMain \/ Exit
  BY <1>1, <1>8 DEF EnterRun, EnterSynchronize, PrimaryMain, Exit, threadVars
<1>9. CASE PrimarySaved \/ OtherMain \/ Saved
  BY <1>1, <1>9 DEF PrimarySaved, OtherMain, Saved, threadVars
<1>10. CASE Chip
  BY <1>1, <1>10 DEF Chip, Step, Synchronize, Call, Yield, Wait, CatchUp, Resume, Return,
                     hostVars, threadVars
<1>11. CASE UNCHANGED vars
  BY <1>1, <1>11 DEF vars, hostVars, threadVars
<1> QED BY <1>2, <1>3, <1>4, <1>5, <1>6, <1>7, <1>8, <1>9, <1>10, <1>11 DEF Next, Host

LEMMA ListInit == Init => UniqueIDs /\ Handles
BY EmptySeq DEF Init, UniqueIDs, Handles, Appended

\* The IDs that break ties between clocks stay unique, and below the number of
\* threads, through any sequence of power cycles and plugging: uniqueID() finds
\* the first free one, and the list holds no thread twice.
THEOREM IDsAreUnique == Spec => []UniqueIDs
<1>1. Spec => [](UniqueIDs /\ Handles)
  BY ListInit, ListNext, TypeCorrect, PTL DEF Spec
<1> QED BY <1>1, PTL

-----------------------------------------------------------------------------
(* Clocks against IDs.                                                     *)

\* append() puts a thread at the time of the one furthest ahead, its ID added.
LEMMA CreateClock ==
  ASSUME TypeOK, NEW t \in Thread, t \notin Appended, Create(t)
  PROVE  /\ clock'[t] >= uniqueID'[t]
         /\ \A u \in Thread : u # t => clock'[u] = clock[u] /\ uniqueID'[u] = uniqueID[u]
<1>1. /\ uniqueID' = [uniqueID EXCEPT ![t] = NextUniqueID]
      /\ clock' = [clock EXCEPT ![t] = AppendClock(NextUniqueID)]
  BY DEF Create
<1>2. NextUniqueID \in Nat /\ Maximum \in Nat
  BY NextUniqueIDProps, MaximumProps, AppendedProps
<1>3. AppendClock(NextUniqueID) >= NextUniqueID
  BY <1>2 DEF AppendClock
<1> QED BY <1>1, <1>3 DEF TypeOK

LEMMA ClockNext ==
  ASSUME TypeOK, StackInv, UniqueIDs, Handles, NoUnderflow, [Next]_vars
  PROVE  NoUnderflow'
<1>1. Appended \subseteq Thread
  BY AppendedProps
<1>2. ASSUME UNCHANGED <<threads, uniqueID, clock>>, host # "powering"
      PROVE  NoUnderflow'
  BY <1>2 DEF NoUnderflow, Appended
<1>3. CASE Load
  <2>1. DOMAIN threads' = {}
    BY <1>3, EmptySeq DEF Load
  <2> QED BY <2>1 DEF NoUnderflow, Appended
<1>4. CASE PowerOn \/ PowerThread
  BY <1>4 DEF PowerOn, PowerThread, NoUnderflow
<1>5. CASE SchedulerPower
  <2>1. threads' = threads /\ uniqueID' = uniqueID
        /\ \A t \in Appended : clock'[t] = uniqueID[t]
    BY <1>1, <1>5 DEF SchedulerPower
  <2>2. Appended' = Appended /\ \A t \in Appended : uniqueID[t] \in Nat
    BY <1>1, <2>1 DEF Appended, TypeOK
  <2> QED BY <2>1, <2>2 DEF NoUnderflow
<1>6. ASSUME NEW t \in Thread, Connect(t) PROVE NoUnderflow'
  <2>1. Create(t) /\ ~handle[t] /\ host # "powering"
    BY <1>6 DEF Connect
  <2>2. t \notin Appended
    BY <2>1 DEF Handles
  <2>3. Appended' = Appended \cup {t}
    BY <2>1, CreateList
  <2>4. /\ clock'[t] >= uniqueID'[t]
        /\ \A u \in Appended : clock'[u] = clock[u] /\ uniqueID'[u] = uniqueID[u]
    BY <1>1, <2>1, <2>2, CreateClock
  <2> QED BY <2>1, <2>3, <2>4 DEF NoUnderflow
<1>7. ASSUME NEW t \in Thread, Disconnect(t) \/ UnloadThread(t) PROVE NoUnderflow'
  <2>1. Destroy(t) /\ host # "powering" /\ UNCHANGED <<uniqueID, clock>>
    BY <1>7 DEF Disconnect, UnloadThread
  <2>2. Appended' \subseteq Appended
    BY <2>1, DestroyList
  <2> QED BY <2>1, <2>2 DEF NoUnderflow
<1>8. CASE Exit
  <2>1. /\ threads' = threads /\ uniqueID' = uniqueID /\ host # "powering"
        /\ \A t \in Appended : clock'[t] = clock[t] - Minimum
    BY <1>1, <1>8 DEF Exit, Normalized
  <2>2. Appended' = Appended
    BY <2>1 DEF Appended
  <2>3. ASSUME NEW t \in Appended PROVE clock'[t] >= uniqueID[t]
    <3>1. Minimum \in Int /\ Minimum <= clock[t] - uniqueID[t]
      BY <2>3, MinimumProps
    <3> QED BY <1>1, <2>1, <2>3, <3>1 DEF TypeOK
  <2> QED BY <2>1, <2>2, <2>3 DEF NoUnderflow
<1>9. CASE Unload \/ Unloaded
  BY <1>2, <1>9 DEF Unload, Unloaded, threadVars
<1>10. CASE EnterRun \/ EnterSynchronize \/ PrimaryMain
  BY <1>2, <1>10 DEF EnterRun, EnterSynchronize, PrimaryMain, threadVars
<1>11. CASE PrimarySaved \/ OtherMain \/ Saved
  BY <1>2, <1>11 DEF PrimarySaved, OtherMain, Saved, threadVars
<1>12. CASE Chip
  <2>1. host # "powering"
    BY <1>12 DEF StackInv, StackInEnter, Chip, Step, Synchronize, Call, Yield, Wait, CatchUp,
                 Resume, Return, Running
  <2>2. ASSUME NEW t \in Thread, Step(t) PROVE NoUnderflow'
    <3>1. PICK n \in 1..(MaxWork - Top.work) : clock' = [clock EXCEPT ![t] = @ + n]
      BY <2>2 DEF Step
    <3>2. threads' = threads /\ uniqueID' = uniqueID
      BY <2>2 DEF Step, hostVars
    <3>3. Top.work \in Int /\ MaxWork \in Int
      BY <2>2, RunningProps, TopFields, ConstantAssumption DEF Step
    <3>4. \A u \in Thread : clock'[u] >= clock[u]
      BY <3>1, <3>3 DEF TypeOK
    <3>5. clock' \in [Thread -> Int]
      BY <3>1, <3>3 DEF TypeOK
    <3> QED BY <1>1, <2>1, <3>2, <3>4, <3>5 DEF NoUnderflow, Appended, TypeOK
  <2>3. ASSUME NEW t \in Thread, Synchronize(t) \/ Yield(t) \/ Wait(t) \/ CatchUp(t)
                                 \/ Resume(t) \/ Return(t)
        PROVE  NoUnderflow'
    BY <1>2, <2>1, <2>3 DEF Synchronize, Call, Yield, Wait, CatchUp, Resume, Return,
                             hostVars, threadVars
  <2> QED BY <1>12, <2>2, <2>3 DEF Chip
<1>13. CASE UNCHANGED vars
  BY <1>13 DEF vars, hostVars, threadVars, NoUnderflow, Appended
<1> QED BY <1>3, <1>4, <1>5, <1>6, <1>7, <1>8, <1>9, <1>10, <1>11, <1>12, <1>13,
           ConstantAssumption DEF Next, Host

\* No subtraction of minimum() and maximum() wraps around, however threads were
\* created, stepped and reset: outside System::power, no clock falls below its
\* thread's ID.
THEOREM ClocksAboveIDs == Spec => []NoUnderflow
<1>1. Init => NoUnderflow
  BY EmptySeq DEF Init, NoUnderflow, Appended
<1>2. Spec => [](UniqueIDs /\ Handles)
  BY ListInit, ListNext, TypeCorrect, PTL DEF Spec
<1> QED BY <1>1, <1>2, ClockNext, TypeCorrect, StackCorrect, PTL DEF Spec

-----------------------------------------------------------------------------
(* _active.                                                                *)

\* Only CatchUp and Return change which activations there are, and only Step the
\* clocks that one has stepped.
LEMMA SameActivations ==
  ASSUME TypeOK, NEW t \in Thread,
         Step(t) \/ Synchronize(t) \/ Yield(t) \/ Wait(t) \/ Resume(t)
  PROVE  /\ DOMAIN stack' = DOMAIN stack
         /\ \A i \in DOMAIN stack : stack'[i].thread = stack[i].thread
         /\ Step(t) \/ \A i \in DOMAIN stack : stack'[i].work = stack[i].work
<1>1. Running(t)
  BY DEF Step, Synchronize, Call, Yield, Wait, Resume
<1>2. /\ stack \in Seq(Frame) /\ stack # <<>> /\ Top = stack[Len(stack)]
      /\ Len(stack) \in Nat \ {0} /\ DOMAIN stack = 1..Len(stack) /\ Top.thread = t
  BY <1>1, RunningProps
<1> DEFINE Same(f) == /\ stack' = [stack EXCEPT ![Len(stack)] = f]
                      /\ f.thread = t /\ (Step(t) \/ f.work = Top.work)
<1>3. \E f : Same(f)
  <2> USE <1>2 DEF SetTop
  <2>1. CASE Step(t)
    <3>1. PICK n : stack' = SetTop([Top EXCEPT !.work = @ + n, !.done = {}])
      BY <2>1 DEF Step
    <3>2. Same([Top EXCEPT !.work = @ + n, !.done = {}])
      BY <2>1, <3>1, TopFields
    <3> QED BY <3>2
  <2>2. CASE Synchronize(t)
    <3>1. PICK l : Call(t, l)
      BY <2>2 DEF Synchronize
    <3>2. Same([Top EXCEPT !.list = l, !.done = {}])
      BY <3>1, TopFields DEF Call
    <3> QED BY <3>2
  <2>3. CASE Yield(t)
    <3>1. Same([Top EXCEPT !.list = Tail(@), !.done = @ \cup {Head(Top.list)}])
      BY <2>3, TopFields DEF Yield
    <3> QED BY <3>1
  <2>4. CASE Wait(t)
    <3>1. Same([Top EXCEPT !.waiting = TRUE, !.saved = parent[Head(Top.list)]])
      BY <2>4, TopFields DEF Wait
    <3> QED BY <3>1
  <2>5. CASE Resume(t)
    <3>1. Same([Top EXCEPT !.list = Tail(@), !.waiting = FALSE, !.saved = Null,
                           !.done = @ \cup {Head(Top.list)}])
      BY <2>5, TopFields DEF Resume
    <3> QED BY <3>1
  <2> QED BY <2>1, <2>2, <2>3, <2>4, <2>5
<1> HIDE DEF Same
<1>4. PICK f : Same(f)
  BY <1>3
<1> QED BY <1>2, <1>4 DEF Same

LEMMA ActiveNext ==
  ASSUME TypeOK, StackInv, ActiveIsNested, [Next]_vars
  PROVE  ActiveIsNested'
<1>1. NoReentry
  BY StackNoReentry
<1>2. ASSUME Host PROVE ActiveIsNested'
  <2>1. /\ stack = <<>>
        /\ stack' = <<>> \/ \E t \in Thread : stack' = <<Activation(t)>>
    BY <1>2, HostStack
  <2>2. /\ ~\E i \in DOMAIN stack : i > 1
        /\ ~\E i \in DOMAIN stack' : i > 1
    BY <2>1, EmptySeq
  <2>3. \A t \in Thread \ Hotplug : active'[t] <=> active[t]
    <3>1. CASE \E t \in Hotplug : Connect(t)
      BY <3>1, ConstantAssumption DEF Connect, TypeOK
    <3>2. CASE ~\E t \in Hotplug : Connect(t)
      BY <1>2, <3>2 DEF Host, Load, PowerOn, PowerThread, SchedulerPower, Unload, Unloaded,
           UnloadThread, Disconnect, EnterRun, EnterSynchronize, PrimaryMain, Exit,
           PrimarySaved, OtherMain, Saved, threadVars
    <3> QED BY <3>1, <3>2
  <2> QED BY <2>2, <2>3 DEF ActiveIsNested
<1>3. ASSUME active' = active, DOMAIN stack' = DOMAIN stack,
             \A i \in DOMAIN stack : stack'[i].thread = stack[i].thread
      PROVE  ActiveIsNested'
  BY <1>3 DEF ActiveIsNested
<1>4. ASSUME NEW t \in Thread, Step(t) \/ Synchronize(t) \/ Yield(t) \/ Wait(t) \/ Resume(t)
      PROVE  ActiveIsNested'
  <2>1. active' = active
    BY <1>4 DEF Step, Synchronize, Call, Yield, Wait, Resume, threadVars
  <2> QED BY <1>3, <1>4, <2>1, SameActivations
<1>5. ASSUME NEW t \in Thread, CatchUp(t) PROVE ActiveIsNested'
  <2> DEFINE u == Head(Top.list)
             n == Len(stack)
  <2>1. /\ stack \in Seq(Frame) /\ n \in Nat \ {0} /\ DOMAIN stack = 1..n /\ u \in Thread
    BY <1>5, RunningProps DEF CatchUp
  <2>2. active' = [active EXCEPT ![u] = TRUE] /\ stack' = Append(stack, Activation(u))
    BY <1>5 DEF CatchUp
  <2> HIDE DEF u
  <2>3. /\ DOMAIN stack' = 1..(n + 1) /\ stack'[n + 1].thread = u
        /\ \A i \in 1..n : stack'[i] = stack[i]
    BY <2>1, <2>2, ActivationProps, PushProps DEF Activation
  <2> HIDE DEF n
  <2>4. /\ \A i \in 1..(n + 1) : i = n + 1 \/ i \in 1..n
        /\ n + 1 > 1 /\ n + 1 \in 1..(n + 1) /\ \A i \in 1..n : i \in 1..(n + 1)
    BY <2>1
  <2>5. \A x \in Thread : active'[x] <=> (active[x] \/ x = u)
    BY <2>1, <2>2 DEF TypeOK
  <2> QED BY <2>1, <2>3, <2>4, <2>5 DEF ActiveIsNested
<1>6. ASSUME NEW t \in Thread, Return(t) PROVE ActiveIsNested'
  <2> DEFINE n == Len(stack)
  <2>1. /\ stack \in Seq(Frame) /\ stack # <<>> /\ n \in Nat \ {0} /\ DOMAIN stack = 1..n
        /\ stack[n].thread = t
    BY <1>6, RunningProps DEF Return
  <2>2. /\ DOMAIN stack' = 1..(n - 1)
        /\ \A i \in DOMAIN stack' : stack'[i] = stack[i] /\ i \in DOMAIN stack
    BY <1>6, <2>1, PopProps DEF Return
  <2>3. active' = IF n > 1 THEN [active EXCEPT ![t] = FALSE] ELSE active
    BY <1>6 DEF Return, ActiveAfter
  <2> HIDE DEF n
  <2>4. \A i \in 1..n : i = n \/ i \in 1..(n - 1)
    BY <2>1
  <2>5. \A i \in 1..(n - 1) : stack[i].thread # t
    <3>1. \A i \in 1..(n - 1) : i \in 1..n /\ i # n /\ n \in 1..n
      BY <2>1
    <3> QED BY <1>1, <2>1, <3>1 DEF NoReentry
  <2>6. SUFFICES ASSUME NEW x \in Thread \ Hotplug
                 PROVE  active'[x] <=> \E i \in DOMAIN stack' : i > 1 /\ stack'[i].thread = x
    BY DEF ActiveIsNested
  <2>7. active[x] <=> \E i \in DOMAIN stack : i > 1 /\ stack[i].thread = x
    BY DEF ActiveIsNested
  <2>8. CASE x = t
    <3>1. ~\E i \in DOMAIN stack' : i > 1 /\ stack'[i].thread = x
      BY <2>2, <2>5, <2>8
    <3>2. ~active'[x]
      <4>1. CASE n > 1
        BY <2>3, <2>8, <4>1 DEF TypeOK
      <4>2. CASE ~(n > 1)
        BY <2>1, <2>3, <2>7, <4>2
      <4> QED BY <4>1, <4>2
    <3> QED BY <3>1, <3>2
  <2>9. CASE x # t
    <3>1. active'[x] <=> active[x]
      BY <2>3, <2>9 DEF TypeOK
    <3>2. \A i \in DOMAIN stack : i > 1 /\ stack[i].thread = x => i \in DOMAIN stack'
      BY <2>1, <2>2, <2>4, <2>9
    <3> QED BY <2>2, <2>7, <3>1, <3>2
  <2> QED BY <2>8, <2>9
<1>7. CASE UNCHANGED vars
  BY <1>7 DEF vars, threadVars, ActiveIsNested
<1> QED BY <1>2, <1>4, <1>5, <1>6, <1>7 DEF Next, Chip

\* _active, which VDP::DMA::poll reads, is set for exactly the chips that are
\* being caught up, of those that exist as long as the system.
THEOREM ActiveIsTrue == Spec => []ActiveIsNested
<1>1. Init => ActiveIsNested
  BY EmptySeq DEF Init, ActiveIsNested
<1> QED BY <1>1, ActiveNext, TypeCorrect, StackCorrect, PTL DEF Spec

-----------------------------------------------------------------------------
(* Being caught up.                                                        *)

\* A chip that yields was called by the one that it yields to, unless malloc left
\* a pointer to a live handle in its own.
LEMMA YieldsToCaller ==
  ASSUME TypeOK, StackInv, Garbage \cap Thread = {}, NEW t \in Thread, Running(t),
         Top.list # <<>>, ~Top.waiting, YieldsBack(t, Head(Top.list)), ~Synchronizing
  PROVE  Len(stack) > 1 /\ Head(Top.list) = stack[Len(stack) - 1].thread
<1> DEFINE u == Head(Top.list)
           n == Len(stack)
<1>1. /\ n \in Nat \ {0} /\ DOMAIN stack = 1..n /\ Top = stack[n] /\ Top.thread = t
      /\ u \in Thread /\ parent[t] = u
  BY RunningProps DEF YieldsBack
<1>2. ~AtRest(t, parent[t])
  BY <1>1, ConstantAssumption DEF AtRest
<1>3. PICK i \in DOMAIN stack : stack[i].waiting /\ Awaited(i) = t
  BY <1>2 DEF StackInv, Parents, WaitedFor
<1>4. u = stack[i].thread /\ (t = u \/ Down(u, t))
  BY <1>1, <1>3 DEF StackInv, Waits
<1>5. Level[t] = n - 1 /\ Level[u] = i - 1
  BY <1>1, <1>4 DEF StackInv, Depth
<1>6. i # n /\ i \in 1..n
  BY <1>1, <1>3
<1> HIDE DEF u, n
<1>7. Down(u, t)
  BY <1>1, <1>4, <1>5, <1>6
<1>8. n - 1 = i - 1 + 1
  BY <1>5, <1>7 DEF Down
<1>9. n > 1 /\ i = n - 1
  BY <1>1, <1>6, <1>8
<1> QED BY <1>4, <1>9 DEF u, n

\* What the i-th activation has handled is caught up, apart from its caller.
Handled(i) ==
  \A u \in stack[i].done : \/ i > 1 /\ u = stack[i - 1].thread
                           \/ clock[u] >= clock[stack[i].thread]

LEMMA CaughtUpNext ==
  ASSUME TypeOK, StackInv, CaughtUp, Garbage \cap Thread = {}, [Next]_vars
  PROVE  CaughtUp'
<1> USE DEF Synchronizing
<1>1. CaughtUp = (~Synchronizing => \A i \in DOMAIN stack : Handled(i))
  BY DEF CaughtUp, Handled
<1>2. ASSUME Host PROVE CaughtUp'
  <2>1. stack' = <<>> \/ \E t \in Thread : stack' = <<Activation(t)>>
    BY <1>2, HostStack
  <2>2. \A i \in DOMAIN stack' : stack'[i].done = {}
    BY <2>1, EmptySeq DEF Activation
  <2> QED BY <2>2 DEF CaughtUp
<1>3. ASSUME NEW t \in Thread, NEW f \in Frame, Running(t), f.thread = t, stack' = SetTop(f),
             mode' = mode, clock' = clock,
             ~Synchronizing =>
               \A u \in f.done : \/ Len(stack) > 1 /\ u = stack[Len(stack) - 1].thread
                                 \/ u \in Top.done
                                 \/ clock[u] >= clock[t]
      PROVE  CaughtUp'
  <2> DEFINE n == Len(stack)
  <2>1. /\ stack \in Seq(Frame) /\ stack # <<>> /\ n \in Nat \ {0} /\ DOMAIN stack = 1..n
        /\ Top = stack[n] /\ Top.thread = t
    BY <1>3, RunningProps
  <2>2. /\ DOMAIN stack' = 1..n
        /\ \A i \in 1..n : stack'[i] = IF i = n THEN f ELSE stack[i]
    BY <1>3, <2>1, SetTopProps
  <2> HIDE DEF n
  <2>3. SUFFICES ASSUME ~Synchronizing, NEW i \in 1..n, NEW u \in stack'[i].done
                 PROVE  \/ i > 1 /\ u = stack'[i - 1].thread
                        \/ clock[u] >= clock[stack'[i].thread]
    BY <1>3, <2>2 DEF CaughtUp
  <2>4. \A j \in 1..n : stack'[j].thread = stack[j].thread
    BY <1>3, <2>1, <2>2
  <2>5. i > 1 => i - 1 \in 1..n
    BY <2>1
  <2>6. Handled(i)
    BY <1>1, <2>1, <2>3
  <2>7. CASE i = n
    <3>1. (n > 1 /\ u = stack[n - 1].thread) \/ u \in stack[n].done \/ clock[u] >= clock[t]
      BY <1>3, <2>1, <2>2, <2>3, <2>7 DEF n
    <3> QED BY <2>1, <2>4, <2>5, <2>6, <2>7, <3>1 DEF Handled
  <2>8. CASE i # n
    <3>1. u \in stack[i].done
      BY <2>2, <2>3, <2>8
    <3> QED BY <2>4, <2>5, <2>6, <3>1 DEF Handled
  <2> QED BY <2>7, <2>8
<1>4. ASSUME NEW t \in Thread, Step(t) PROVE CaughtUp'
  <2> DEFINE n == Len(stack)
  <2>1. Running(t) /\ mode' = mode
    BY <1>4 DEF Step, hostVars
  <2>2. /\ stack \in Seq(Frame) /\ stack # <<>> /\ n \in Nat \ {0} /\ DOMAIN stack = 1..n
        /\ Top = stack[n] /\ Top.thread = t /\ Top.work \in Int
    BY <2>1, RunningProps, TopFields
  <2>3. PICK k \in 1..(MaxWork - Top.work) :
          /\ clock' = [clock EXCEPT ![t] = @ + k]
          /\ stack' = SetTop([Top EXCEPT !.work = @ + k, !.done = {}])
    BY <1>4 DEF Step
  <2>4. /\ DOMAIN stack' = 1..n
        /\ stack'[n].done = {}
        /\ \A i \in 1..n : i # n => stack'[i] = stack[i]
        /\ \A i \in 1..n : stack'[i].thread = stack[i].thread
    BY <2>2, <2>3, TopFields DEF SetTop
  <2> HIDE DEF n
  <2>5. SUFFICES ASSUME ~Synchronizing, NEW i \in 1..n, i # n, NEW u \in stack[i].done
                 PROVE  \/ i > 1 /\ u = stack[i - 1].thread
                        \/ clock'[u] >= clock'[stack[i].thread]
    <3>1. \A i \in 1..n : i > 1 => i - 1 \in 1..n
      BY <2>2
    <3> QED BY <2>1, <2>4, <3>1 DEF CaughtUp
  <2>6. stack[i].thread # t /\ stack[i].thread \in Thread /\ u \in Thread
    <3>1. n \in DOMAIN stack /\ stack[i] \in Frame
      BY <2>2, ElementOfSeq DEF n
    <3> QED BY <2>2, <2>5, <3>1, StackNoReentry DEF NoReentry, Frame
  <2>7. k \in Nat /\ clock'[stack[i].thread] = clock[stack[i].thread]
        /\ clock'[u] = IF u = t THEN clock[u] + k ELSE clock[u]
    <3>1. MaxWork - Top.work \in Int
      BY <2>2, ConstantAssumption
    <3> QED BY <2>3, <2>6, <3>1 DEF TypeOK
  <2>8. clock[u] \in Int /\ clock[stack[i].thread] \in Int
    BY <2>6 DEF TypeOK
  <2>9. Handled(i)
    BY <1>1, <2>2, <2>5
  <2> QED BY <2>5, <2>7, <2>8, <2>9 DEF Handled
<1>5. ASSUME NEW t \in Thread, Synchronize(t) PROVE CaughtUp'
  <2>1. PICK l \in Seq(Thread) : Call(t, l)
    BY <1>5, ConstantAssumption DEF Synchronize, TypeOK
  <2> DEFINE f == [Top EXCEPT !.list = l, !.done = {}]
  <2>2. Running(t) /\ Top.list = <<>> /\ stack' = SetTop(f) /\ mode' = mode /\ clock' = clock
    BY <2>1 DEF Call, hostVars, threadVars
  <2>3. f \in Frame /\ f.thread = t /\ f.done = {}
    BY <2>1, <2>2, RunningProps DEF Frame
  <2> HIDE DEF f
  <2> QED BY <1>3, <2>2, <2>3
<1>6. ASSUME NEW t \in Thread, Yield(t) PROVE CaughtUp'
  <2> DEFINE f == [Top EXCEPT !.list = Tail(@), !.done = @ \cup {Head(Top.list)}]
  <2>1. Running(t) /\ Top.list # <<>> /\ ~Top.waiting /\ YieldsBack(t, Head(Top.list))
        /\ stack' = SetTop(f) /\ mode' = mode /\ clock' = clock
    BY <1>6 DEF Yield, hostVars, threadVars
  <2>2. Top \in Frame /\ Top.thread = t /\ Head(Top.list) \in Thread
        /\ Tail(Top.list) \in Seq(Thread)
    BY <2>1, RunningProps, TopFields
  <2>3. f \in Frame /\ f.thread = t /\ f.done = Top.done \cup {Head(Top.list)}
    BY <2>1, <2>2 DEF Frame
  <2> HIDE DEF f
  <2>4. ~Synchronizing => Len(stack) > 1 /\ Head(Top.list) = stack[Len(stack) - 1].thread
    BY <2>1, YieldsToCaller
  <2> QED BY <1>3, <2>1, <2>3, <2>4
<1>7. ASSUME NEW t \in Thread, Wait(t) PROVE CaughtUp'
  <2> DEFINE f == [Top EXCEPT !.waiting = TRUE, !.saved = parent[Head(Top.list)]]
  <2>1. Running(t) /\ Top.list # <<>> /\ stack' = SetTop(f) /\ mode' = mode /\ clock' = clock
    BY <1>7 DEF Wait, hostVars
  <2>2. Top \in Frame /\ Top.thread = t /\ Head(Top.list) \in Thread
    BY <2>1, RunningProps, TopFields
  <2>3. f \in Frame /\ f.thread = t /\ f.done = Top.done
    BY <2>1, <2>2 DEF Frame, TypeOK
  <2> HIDE DEF f
  <2> QED BY <1>3, <2>1, <2>3
<1>8. ASSUME NEW t \in Thread, Resume(t) PROVE CaughtUp'
  <2> DEFINE f == [Top EXCEPT !.list = Tail(@), !.waiting = FALSE, !.saved = Null,
                              !.done = @ \cup {Head(Top.list)}]
  <2>1. Running(t) /\ Top.waiting /\ ~MustCatchUp(t, Head(Top.list))
        /\ stack' = SetTop(f) /\ mode' = mode /\ clock' = clock
    BY <1>8 DEF Resume, hostVars
  <2>2. Top \in Frame /\ Top.thread = t /\ Top.list # <<>> /\ Head(Top.list) \in Thread
        /\ Tail(Top.list) \in Seq(Thread)
    BY <2>1, RunningProps, TopFields
  <2>3. f \in Frame /\ f.thread = t /\ f.done = Top.done \cup {Head(Top.list)}
    BY <2>2 DEF Frame, Pointer
  <2> HIDE DEF f
  <2>4. ~Synchronizing => clock[Head(Top.list)] >= clock[t]
    BY <2>1, <2>2 DEF MustCatchUp, TypeOK
  <2> QED BY <1>3, <2>1, <2>3, <2>4
<1>9. ASSUME NEW t \in Thread, CatchUp(t) PROVE CaughtUp'
  <2> DEFINE u == Head(Top.list)
             n == Len(stack)
  <2>1. /\ stack \in Seq(Frame) /\ n \in Nat \ {0} /\ DOMAIN stack = 1..n /\ u \in Thread
    BY <1>9, RunningProps DEF CatchUp
  <2>2. stack' = Append(stack, Activation(u)) /\ mode' = mode /\ clock' = clock
    BY <1>9 DEF CatchUp, hostVars
  <2> HIDE DEF u
  <2>3. /\ DOMAIN stack' = 1..(n + 1) /\ stack'[n + 1].done = {}
        /\ \A i \in 1..n : stack'[i] = stack[i]
    BY <2>1, <2>2, ActivationProps, PushProps DEF Activation
  <2> HIDE DEF n
  <2>4. /\ \A i \in 1..(n + 1) : i = n + 1 \/ i \in 1..n
        /\ \A i \in 1..n : i > 1 => i - 1 \in 1..n
    BY <2>1
  <2> QED BY <2>1, <2>2, <2>3, <2>4 DEF CaughtUp
<1>10. ASSUME NEW t \in Thread, Return(t) PROVE CaughtUp'
  <2>1. stack \in Seq(Frame) /\ stack # <<>> /\ Len(stack) \in Nat \ {0} /\ stack' = Pop
        /\ mode' = mode /\ clock' = clock
    BY <1>10, RunningProps DEF Return, hostVars
  <2>2. DOMAIN stack' = 1..(Len(stack) - 1)
        /\ \A i \in DOMAIN stack' : stack'[i] = stack[i] /\ i \in DOMAIN stack
    BY <2>1, PopProps
  <2>3. \A i \in DOMAIN stack' : i > 1 => i - 1 \in DOMAIN stack'
    BY <2>1, <2>2
  <2> QED BY <2>1, <2>2, <2>3 DEF CaughtUp
<1>11. CASE UNCHANGED vars
  BY <1>11 DEF vars, hostVars, threadVars, CaughtUp
<1> QED BY <1>2, <1>4, <1>5, <1>6, <1>7, <1>8, <1>9, <1>10, <1>11 DEF Next, Chip

\* "ensure the specified thread(s) are caught up": when synchronize(u, ...) returns
\* to a chip that u is not waiting for, u has reached its time, and keeps ahead
\* whatever runs until the chip steps on, provided that no handle is created with
\* another live handle in its uninitialized parent field.
THEOREM SynchronizedAreCaughtUp ==
  ASSUME Garbage \cap Thread = {}
  PROVE  Spec => []CaughtUp
<1>1. Init => CaughtUp
  BY EmptySeq DEF Init, CaughtUp
<1>2. TypeOK /\ StackInv /\ CaughtUp /\ [Next]_vars => CaughtUp'
  BY CaughtUpNext
<1> QED BY <1>1, <1>2, TypeCorrect, StackCorrect, PTL DEF Spec

-----------------------------------------------------------------------------
(* How far a thread can be ahead of those that wait for it.                *)

\* What the first pictures may take, and with the saves since power-on.
Base == LET slack == {MaxWork - 1, Len(Boot) - 1} IN
        CHOOSE s \in slack : \A r \in slack : r <= s
Reach(k) == Base + k * MaxWork

LEMMA ReachProps ==
  /\ MaxWork \in Nat \ {0} /\ Base \in Nat /\ MaxWork - 1 <= Base /\ Len(Boot) - 1 <= Base
  /\ \A k \in Nat : /\ Reach(k) \in Nat /\ Base <= Reach(k) /\ MaxWork - 1 <= Reach(k)
                    /\ Reach(k + 1) = Reach(k) + MaxWork
<1>1. MaxWork \in Nat \ {0} /\ Len(Boot) \in Nat
  BY ConstantAssumption, LenProperties
<1> DEFINE slack == {MaxWork - 1, Len(Boot) - 1}
<1>2. \E s \in slack : \A r \in slack : r <= s
  <2>1. CASE MaxWork - 1 <= Len(Boot) - 1
    BY <1>1, <2>1
  <2>2. CASE ~(MaxWork - 1 <= Len(Boot) - 1)
    BY <1>1, <2>2
  <2> QED BY <2>1, <2>2
<1>3. Base \in slack /\ \A r \in slack : r <= Base
  BY <1>2 DEF Base
<1>4. Base \in Nat /\ MaxWork - 1 <= Base /\ Len(Boot) - 1 <= Base
  BY <1>1, <1>3
<1>5. ASSUME NEW k \in Nat
      PROVE  /\ Reach(k) \in Nat /\ Base <= Reach(k) /\ MaxWork - 1 <= Reach(k)
             /\ Reach(k + 1) = Reach(k) + MaxWork
  <2>1. k * MaxWork \in Nat
    BY <1>1
  <2>2. (k + 1) * MaxWork = k * MaxWork + MaxWork
    BY <1>1
  <2> QED BY <1>1, <1>4, <2>1, <2>2 DEF Reach
<1> QED BY <1>1, <1>4, <1>5

LEMMA LeadIsReach == Lead = Reach(saves)
BY DEF Lead, Base, Reach

\* The list holds what System::power creates, with IDs below their number.
BootThreads == {Boot[i] : i \in DOMAIN Boot}
Queued == {queue[i] : i \in DOMAIN queue}
Booted ==
  /\ Appended \subseteq BootThreads
  /\ \A t \in Appended : uniqueID[t] < Len(Boot)
  /\ host = "powering" => Queued \subseteq BootThreads

LEMMA BootIDs ==
  ASSUME TypeOK, Booted, NEW t \in BootThreads, t \notin Appended
  PROVE  NextUniqueID < Len(Boot)
<1>1. Boot \in Seq(Thread) /\ Len(Boot) \in Nat /\ DOMAIN Boot = 1..Len(Boot)
  BY ConstantAssumption, LenProperties
<1>2. IsFiniteSet(DOMAIN Boot) /\ Cardinality(DOMAIN Boot) = Len(Boot)
  BY <1>1, FS_Interval
<1>3. Boot = [i \in DOMAIN Boot |-> Boot[i]]
  BY <1>1
<1>4. IsFiniteSet(BootThreads) /\ Cardinality(BootThreads) <= Len(Boot)
  BY <1>2, <1>3, FiniteImage DEF BootThreads
<1>5. Cardinality(BootThreads) \in Nat /\ Cardinality(Appended) \in Nat
  BY <1>4, FS_CardinalityType, AppendedProps
<1>6. /\ Cardinality(Appended) <= Cardinality(BootThreads)
      /\ Cardinality(Appended) # Cardinality(BootThreads)
  BY <1>4, FS_Subset DEF Booted
<1> QED BY <1>1, <1>4, <1>5, <1>6, NextUniqueIDProps

LEMMA BootedNext ==
  ASSUME TypeOK, UniqueIDs, Handles, Booted, Hotplug = {}, [Next]_vars
  PROVE  Booted'
<1>1. ASSUME UNCHANGED <<threads, uniqueID>>, host' # "powering" PROVE Booted'
  BY <1>1 DEF Booted, Appended
<1>2. CASE Load
  <2>1. DOMAIN threads' = {} /\ host' # "powering"
    BY <1>2, EmptySeq DEF Load
  <2> QED BY <2>1 DEF Booted, Appended
<1>3. CASE PowerOn
  BY <1>3 DEF PowerOn, Booted, Appended, Queued, BootThreads, threadVars
<1>4. CASE PowerThread
  <2> DEFINE t == Head(queue)
  <2>1. /\ host' = host /\ host = "powering" /\ queue # <<>> /\ queue \in Seq(Thread)
        /\ queue' = Tail(queue) /\ Create(t)
    BY <1>4 DEF PowerThread, TypeOK
  <2>2. /\ Len(queue) \in Nat /\ DOMAIN queue = 1..Len(queue) /\ 1 \in DOMAIN queue
        /\ t = queue[1] /\ t \in Thread
        /\ DOMAIN queue' = 1..(Len(queue) - 1)
        /\ \A i \in 1..(Len(queue) - 1) : queue'[i] = queue[i + 1] /\ i + 1 \in DOMAIN queue
    BY <2>1, HeadTailProperties, LenProperties, EmptySeq
  <2>3. Queued' \subseteq Queued /\ t \in Queued
    BY <2>2 DEF Queued
  <2>4. t \in BootThreads
    BY <2>1, <2>3 DEF Booted
  <2> HIDE DEF t
  <2>5. Appended' = Appended \cup {t}
    BY <2>1, <2>2, CreateList
  <2>6. ASSUME NEW u \in Appended' PROVE uniqueID'[u] < Len(Boot)
    <3>1. CASE t \in Appended
      <4>1. uniqueID' = uniqueID
        BY <2>1, <3>1 DEF Create
      <4> QED BY <2>5, <2>6, <3>1, <4>1 DEF Booted
    <3>2. CASE t \notin Appended
      <4>1. uniqueID' = [uniqueID EXCEPT ![t] = NextUniqueID]
        BY <2>1, <3>2 DEF Create
      <4>2. NextUniqueID < Len(Boot)
        BY <2>4, <3>2, BootIDs
      <4>3. Appended \subseteq Thread
        BY AppendedProps
      <4> QED BY <2>2, <2>5, <2>6, <4>1, <4>2, <4>3 DEF Booted, TypeOK
    <3> QED BY <3>1, <3>2
  <2> QED BY <2>1, <2>3, <2>4, <2>5, <2>6 DEF Booted
<1>5. CASE \E t \in Transient : UnloadThread(t)
  <2>1. PICK t \in Thread : UnloadThread(t)
    BY <1>5, ConstantAssumption
  <2>2. Appended' \subseteq Appended
    BY <2>1, DestroyList DEF UnloadThread
  <2> QED BY <2>1, <2>2 DEF Booted, UnloadThread
<1>6. CASE SchedulerPower \/ Unload \/ Unloaded
  BY <1>1, <1>6 DEF SchedulerPower, Unload, Unloaded, threadVars
<1>7. CASE EnterRun \/ EnterSynchronize \/ PrimaryMain \/ Exit
  BY <1>1, <1>7 DEF EnterRun, EnterSynchronize, PrimaryMain, Exit, threadVars
<1>8. CASE PrimarySaved \/ OtherMain \/ Saved
  BY <1>1, <1>8 DEF PrimarySaved, OtherMain, Saved, threadVars
<1>9. CASE Chip
  <2>1. UNCHANGED <<hostVars, uniqueID>>
    BY <1>9 DEF Chip, Step, Synchronize, Call, Yield, Wait, CatchUp, Resume, Return, threadVars
  <2> QED BY <2>1 DEF hostVars, Booted, Appended, Queued
<1>10. CASE UNCHANGED vars
  BY <1>10 DEF vars, hostVars, threadVars, Booted, Appended, Queued
<1> QED BY <1>2, <1>3, <1>4, <1>5, <1>6, <1>7, <1>8, <1>9, <1>10 DEF Next, Host

\* Only saves run auxiliary threads.
RunMode == host \in {"run", "savePrimary"} => ~Synchronizing

LEMMA RunModeNext ==
  ASSUME RunMode, [Next]_vars
  PROVE  RunMode'
<1> USE DEF RunMode, Synchronizing
<1>1. CASE Load \/ PowerOn \/ PowerThread \/ SchedulerPower
  BY <1>1 DEF Load, PowerOn, PowerThread, SchedulerPower
<1>2. CASE Unload \/ Unloaded \/ \E t \in Transient : UnloadThread(t)
  BY <1>2 DEF Unload, Unloaded, UnloadThread
<1>3. CASE \E t \in Hotplug : Connect(t) \/ Disconnect(t)
  BY <1>3 DEF Connect, Disconnect
<1>4. CASE EnterRun \/ EnterSynchronize \/ PrimaryMain \/ Exit
  BY <1>4 DEF EnterRun, EnterSynchronize, PrimaryMain, Exit
<1>5. CASE PrimarySaved \/ Saved
  BY <1>5 DEF PrimarySaved, Saved
<1>6. CASE OtherMain
  BY <1>6 DEF OtherMain
<1>7. CASE Chip
  BY <1>7 DEF Chip, Step, Synchronize, Call, Yield, Wait, CatchUp, Resume, Return, hostVars
<1>8. CASE UNCHANGED vars
  BY <1>8 DEF vars, hostVars
<1> QED
  BY <1>1, <1>2, <1>3, <1>4, <1>5, <1>6, <1>7, <1>8 DEF Next, Host

\* A save runs each thread of the list once.
QueuedOnce ==
  /\ host # "powering" => \A i, j \in DOMAIN queue : queue[i] = queue[j] => i = j
  /\ host \in {"savePrimary", "saveOthers"} => saves > 0
  /\ host = "saveOthers" /\ stack # <<>> => stack[1].thread \notin Queued

\* What enter(Synchronize) takes from its queue is not in it any more.
LEMMA QueueHead ==
  ASSUME TypeOK, queue # <<>>, queue' = Tail(queue)
  PROVE  /\ Head(queue) \in Queued /\ Queued' \subseteq Queued
         /\ Queued \subseteq Queued' \cup {Head(queue)}
         /\ (\A i, j \in DOMAIN queue : queue[i] = queue[j] => i = j) =>
              /\ Head(queue) \notin Queued'
              /\ \A i, j \in DOMAIN queue' : queue'[i] = queue'[j] => i = j
<1> DEFINE n == Len(queue)
<1>1. /\ n \in Nat /\ DOMAIN queue = 1..n /\ 1 \in 1..n /\ Head(queue) = queue[1]
      /\ DOMAIN queue' = 1..(n - 1)
      /\ \A i \in 1..(n - 1) : queue'[i] = queue[i + 1]
  BY HeadTailProperties, LenProperties, EmptySeq DEF TypeOK
<1> HIDE DEF n
<1>2. /\ \A i \in 1..(n - 1) : i + 1 \in 1..n /\ i + 1 # 1
      /\ \A i \in 1..n : i = 1 \/ (i - 1 \in 1..(n - 1) /\ i - 1 + 1 = i)
      /\ \A i, j \in 1..(n - 1) : i + 1 = j + 1 => i = j
  BY <1>1
<1>3. Head(queue) \in Queued /\ Queued' \subseteq Queued
  BY <1>1, <1>2 DEF Queued
<1>4. ASSUME NEW u \in Queued PROVE u \in Queued' \cup {Head(queue)}
  <2>1. PICK i \in 1..n : u = queue[i]
    BY <1>1, <1>4 DEF Queued
  <2>2. CASE i = 1
    BY <1>1, <2>1, <2>2
  <2>3. CASE i # 1
    <3>1. i - 1 \in DOMAIN queue' /\ queue'[i - 1] = u
      BY <1>1, <1>2, <2>1, <2>3
    <3> QED BY <3>1 DEF Queued
  <2> QED BY <2>2, <2>3
<1>5. ASSUME \A i, j \in DOMAIN queue : queue[i] = queue[j] => i = j
      PROVE  /\ Head(queue) \notin Queued'
             /\ \A i, j \in DOMAIN queue' : queue'[i] = queue'[j] => i = j
  BY <1>1, <1>2, <1>5 DEF Queued
<1> QED BY <1>3, <1>4, <1>5

LEMMA QueueNext ==
  ASSUME TypeOK, StackInv, UniqueIDs, QueuedOnce, [Next]_vars
  PROVE  QueuedOnce'
<1> USE DEF QueuedOnce
<1>1. ASSUME UNCHANGED <<queue, saves>>, host # "powering", stack = <<>> /\ stack' = <<>>,
             host' \in {"savePrimary", "saveOthers"} => host \in {"savePrimary", "saveOthers"}
      PROVE  QueuedOnce'
  BY <1>1 DEF Queued
<1>2. DOMAIN <<>> = {}
  BY EmptySeq
<1>3. CASE Load \/ Unload \/ Unloaded
  BY <1>1, <1>3 DEF Load, Unload, Unloaded, StackInv, StackInEnter
<1>4. CASE PowerOn \/ PowerThread
  BY <1>4 DEF PowerOn, PowerThread
<1>5. CASE SchedulerPower
  BY <1>2, <1>5 DEF SchedulerPower
<1>6. CASE \E t \in Transient : UnloadThread(t)
  BY <1>1, <1>6 DEF UnloadThread, StackInv, StackInEnter
<1>7. CASE \E t \in Hotplug : Connect(t) \/ Disconnect(t)
  BY <1>1, <1>7 DEF Connect, Disconnect, StackInv, StackInEnter
<1>8. CASE EnterRun
  BY <1>1, <1>8 DEF EnterRun, StackInv, StackInEnter
<1>9. CASE EnterSynchronize
  BY <1>9 DEF EnterSynchronize, TypeOK
<1>10. CASE PrimaryMain
  <2>1. host' = host /\ saves' = saves /\ host \in {"run", "savePrimary"}
        /\ (queue' = threads \/ queue' = <<>>)
    BY <1>10 DEF PrimaryMain
  <2>2. \A i, j \in DOMAIN queue' : queue'[i] = queue'[j] => i = j
    BY <1>2, <2>1 DEF UniqueIDs
  <2> QED BY <2>1, <2>2
<1>11. CASE Exit
  BY <1>1, <1>11 DEF Exit
<1>12. CASE PrimarySaved
  BY <1>1, <1>12 DEF PrimarySaved
<1>13. CASE Saved
  BY <1>1, <1>13 DEF Saved
<1>14. CASE OtherMain
  <2>1. queue # <<>> /\ queue' = Tail(queue) /\ host = "saveOthers" /\ host' = host
        /\ saves' = saves
        /\ (stack' = <<>> \/ stack' = <<Activation(Head(queue))>>)
    BY <1>14 DEF OtherMain
  <2>2. stack' # <<>> => stack'[1].thread = Head(queue)
    BY <2>1 DEF Activation
  <2> QED BY <2>1, <2>2, QueueHead
<1>15. CASE Chip
  <2>1. PICK t \in Thread : \/ Step(t) \/ Synchronize(t) \/ Yield(t) \/ Wait(t)
                            \/ CatchUp(t) \/ Resume(t) \/ Return(t)
    BY <1>15 DEF Chip
  <2>2. UNCHANGED <<host, queue, saves>> /\ Running(t)
    BY <2>1 DEF Step, Synchronize, Call, Yield, Wait, CatchUp, Resume, Return, hostVars
  <2>3. stack # <<>> /\ stack \in Seq(Frame) /\ Len(stack) \in Nat \ {0}
        /\ DOMAIN stack = 1..Len(stack) /\ 1 \in DOMAIN stack
    BY <2>2, RunningProps
  <2>4. stack' # <<>> => stack'[1].thread = stack[1].thread
    <3>1. CASE CatchUp(t)
      <4>1. Head(Top.list) \in Thread /\ stack' = Append(stack, Activation(Head(Top.list)))
        BY <2>2, <3>1, RunningProps DEF CatchUp
      <4> QED BY <2>3, <4>1, ActivationProps, PushProps
    <3>2. CASE Return(t)
      <4>1. stack' = Pop
        BY <3>2 DEF Return
      <4>2. stack' # <<>> => 1 \in DOMAIN stack'
        BY <2>3, <4>1, PopProps, EmptySeq
      <4> QED BY <2>3, <4>1, <4>2, PopProps
    <3>3. CASE ~CatchUp(t) /\ ~Return(t)
      BY <2>1, <2>3, <3>3, SameActivations
    <3> QED BY <3>1, <3>2, <3>3
  <2> QED BY <2>2, <2>3, <2>4 DEF Queued
<1>16. CASE UNCHANGED vars
  BY <1>16 DEF vars, hostVars, Queued
<1> QED BY <1>3, <1>4, <1>5, <1>6, <1>7, <1>8, <1>9, <1>10, <1>11, <1>12, <1>13, <1>14,
           <1>15, <1>16 DEF Next, Host

\* A chip that is being caught up started behind its caller.
Catching ==
  ~Synchronizing =>
    \A i \in DOMAIN stack : i > 1 =>
      clock[stack[i].thread] < clock[stack[i - 1].thread] + stack[i].work

\* What u may be ahead: a save adds the main() that it runs of u, when it has run.
BeingSaved(u) == host = "saveOthers" /\ stack # <<>> /\ stack[1].thread = u
Awaiting(u) == host = "savePrimary" \/ (host = "saveOthers" /\ u \in Queued)
Allowed(u) == IF BeingSaved(u) THEN Reach(saves - 1) + stack[1].work
              ELSE IF Awaiting(u) THEN Reach(saves - 1) ELSE Reach(saves)

Leads == host # "powering" =>
           \A t, u \in Appended : Down(t, u) => clock[u] - clock[t] <= Allowed(u)

\* A chip has one neighbour towards the primary, which has none.
LEMMA DownProps ==
  /\ \A t, u, v \in Thread : Down(t, u) /\ Down(v, u) => t = v
  /\ \A t, u \in Thread : Down(t, u) => u # Primary /\ t # u
<1>1. \A t, u, v \in Thread : Down(t, u) /\ Down(v, u) => t = v
  BY TreeAssumption
<1>2. \A t, u \in Thread : Down(t, u) => u # Primary /\ t # u
  BY TreeAssumption, ConstantAssumption DEF Down
<1> QED BY <1>1, <1>2

LEMMA AllowedProps ==
  ASSUME TypeOK, QueuedOnce, NEW u \in Thread
  PROVE  /\ Allowed(u) \in Int
         /\ saves \in Nat /\ Reach(saves) \in Nat /\ MaxWork - 1 <= Reach(saves)
         /\ host \in {"savePrimary", "saveOthers"} =>
              /\ Reach(saves - 1) \in Nat /\ MaxWork - 1 <= Reach(saves - 1)
              /\ Reach(saves) = Reach(saves - 1) + MaxWork
         /\ host # "saveOthers" => MaxWork - 1 <= Allowed(u)
<1>1. saves \in Nat
  BY ConstantAssumption DEF TypeOK
<1>2. Reach(saves) \in Nat /\ MaxWork - 1 <= Reach(saves)
  BY <1>1, ReachProps, Zenon
<1>3. host \in {"savePrimary", "saveOthers"} =>
        /\ Reach(saves - 1) \in Nat /\ MaxWork - 1 <= Reach(saves - 1)
        /\ Reach(saves) = Reach(saves - 1) + MaxWork
  <2>1. SUFFICES ASSUME host \in {"savePrimary", "saveOthers"}
                 PROVE  /\ Reach(saves - 1) \in Nat /\ MaxWork - 1 <= Reach(saves - 1)
                        /\ Reach(saves) = Reach(saves - 1) + MaxWork
    OBVIOUS
  <2>2. saves - 1 \in Nat /\ saves - 1 + 1 = saves
    BY <1>1, <2>1 DEF QueuedOnce
  <2>3. /\ Reach(saves - 1) \in Nat /\ MaxWork - 1 <= Reach(saves - 1)
        /\ Reach(saves - 1 + 1) = Reach(saves - 1) + MaxWork
    BY <2>2, ReachProps, Zenon
  <2> QED BY <2>2, <2>3
<1>4. BeingSaved(u) => stack[1].work \in Nat
  <2>1. stack # <<>> => stack[1] \in Frame
    BY EmptySeq, LenProperties, ElementOfSeq DEF TypeOK
  <2> QED BY <2>1, ConstantAssumption DEF BeingSaved, Frame
<1>5. Allowed(u) \in Int
  BY <1>2, <1>3, <1>4 DEF Allowed, BeingSaved, Awaiting
<1>6. host # "saveOthers" => MaxWork - 1 <= Allowed(u)
  BY <1>2, <1>3 DEF Allowed, BeingSaved, Awaiting
<1> QED BY <1>1, <1>2, <1>3, <1>5, <1>6

LEMMA LeadStep ==
  ASSUME TypeOK, StackInv, SavingMode, RunMode, QueuedOnce, Catching, Leads,
         NEW t \in Thread, Step(t)
  PROVE  Catching' /\ Leads'
<1> DEFINE n == Len(stack)
<1>1. Running(t) /\ UNCHANGED <<host, threads, mode, queue, saves>>
  BY DEF Step, hostVars
<1>2. /\ stack \in Seq(Frame) /\ stack # <<>> /\ n \in Nat \ {0} /\ DOMAIN stack = 1..n
      /\ Top = stack[n] /\ Top.thread = t /\ Top.work \in 0..MaxWork
      /\ \A i \in 1..n : stack[i] \in Frame
  BY <1>1, RunningProps, TopFields, ElementOfSeq
<1>3. PICK k \in 1..(MaxWork - Top.work) :
        /\ clock' = [clock EXCEPT ![t] = @ + k]
        /\ stack' = SetTop([Top EXCEPT !.work = @ + k, !.done = {}])
  BY DEF Step
<1>4. k \in Nat \ {0} /\ Top.work + k <= MaxWork
  BY <1>2, ConstantAssumption
<1>5. /\ DOMAIN stack' = 1..n /\ stack'[n].work = stack[n].work + k
      /\ \A i \in 1..n : i # n => stack'[i] = stack[i]
      /\ \A i \in 1..n : stack'[i].thread = stack[i].thread
  BY <1>2, <1>3, TopFields DEF SetTop
<1> HIDE DEF n
<1>6. /\ \A u \in Thread : clock[u] \in Int /\ clock'[u] = IF u = t THEN clock[u] + k ELSE clock[u]
      /\ \A i \in 1..n : stack[i].thread \in Thread /\ stack[i].work \in Int
      /\ \A i \in 1..n : i > 1 => i - 1 \in 1..n /\ i - 1 # n
      /\ n \in 1..n
  <2>1. \A u \in Thread : clock[u] \in Int
    BY DEF TypeOK
  <2>2. \A u \in Thread : clock'[u] = IF u = t THEN clock[u] + k ELSE clock[u]
    BY <1>3, <1>4, <2>1 DEF TypeOK
  <2>3. \A i \in 1..n : stack[i].thread \in Thread /\ stack[i].work \in Int
    BY <1>2 DEF Frame
  <2> QED BY <1>2, <2>1, <2>2, <2>3
<1>7. \A i \in 1..n : stack[i].thread = t => i = n
  BY <1>2, <1>6, StackNoReentry DEF NoReentry
<1>8. Catching'
  <2>1. SUFFICES ASSUME ~Synchronizing, NEW i \in 1..n, i > 1
                 PROVE  clock'[stack[i].thread] < clock'[stack[i - 1].thread] + stack'[i].work
    BY <1>1, <1>5, <1>6 DEF Catching, Synchronizing
  <2>2. clock[stack[i].thread] < clock[stack[i - 1].thread] + stack[i].work
    BY <1>2, <2>1 DEF Catching
  <2>3. clock'[stack[i - 1].thread] = clock[stack[i - 1].thread]
    BY <1>6, <1>7, <2>1
  <2>4. CASE i = n
    BY <1>2, <1>4, <1>5, <1>6, <2>1, <2>2, <2>3, <2>4
  <2>5. CASE i # n
    BY <1>5, <1>6, <1>7, <2>1, <2>2, <2>3, <2>5
  <2> QED BY <2>4, <2>5
<1>9. Leads'
  <2>1. host # "powering" /\ host \in {"run", "savePrimary", "saveOthers"}
    BY <1>2 DEF StackInv, StackInEnter
  <2>2. Appended' = Appended /\ Queued' = Queued /\ Appended \subseteq Thread
    BY <1>1, AppendedProps DEF Appended, Queued
  <2>3. SUFFICES ASSUME NEW v \in Appended, NEW u \in Appended, Down(v, u)
                 PROVE  clock'[u] - clock'[v] <= Allowed(u)'
    BY <2>2 DEF Leads
  <2>4. clock[u] - clock[v] <= Allowed(u) /\ u \in Thread /\ v \in Thread /\ u # v
        /\ Allowed(u) \in Int
    BY <2>1, <2>2, <2>3, DownProps, AllowedProps DEF Leads
  <2>5. stack' # <<>> /\ 1 \in 1..n /\ stack'[1].thread = stack[1].thread
    BY <1>2, <1>5, <1>6, EmptySeq
  <2>6. BeingSaved(u)' = BeingSaved(u) /\ Awaiting(u)' = Awaiting(u)
    BY <1>1, <1>2, <2>2, <2>5 DEF BeingSaved, Awaiting
  <2>7. host = "saveOthers" => n = 1
    <3>1. host = "saveOthers" => Synchronizing
      BY <1>2 DEF SavingMode
    <3> QED BY <1>2, <3>1 DEF StackInv, Depth, n
  <2>8. CASE u # t
    <3>1. ~BeingSaved(u)
      BY <1>2, <2>7, <2>8 DEF BeingSaved
    <3>2. Allowed(u)' = Allowed(u)
      BY <1>1, <2>6, <3>1 DEF Allowed, Reach
    <3>3. clock'[u] = clock[u] /\ clock'[v] >= clock[v] /\ clock'[v] \in Int
          /\ clock[u] \in Int /\ clock[v] \in Int
      BY <1>4, <1>6, <2>4, <2>8
    <3> QED BY <2>4, <3>2, <3>3
  <2>9. CASE u = t /\ host = "saveOthers"
    <3>1. BeingSaved(u) /\ n = 1
      BY <1>2, <2>7, <2>9 DEF BeingSaved
    <3>2. Allowed(u) = Reach(saves - 1) + stack[1].work
      BY <3>1 DEF Allowed
    <3>3. Allowed(u)' = Reach(saves - 1) + stack'[1].work
      BY <1>1, <2>6, <3>1 DEF Allowed, Reach
    <3>4. stack'[1].work = stack[1].work + k /\ Reach(saves - 1) \in Int
          /\ stack[1].work \in Int
      BY <1>5, <1>6, <2>9, <3>1, AllowedProps
    <3>5. clock'[u] = clock[u] + k /\ clock'[v] = clock[v]
          /\ clock[u] \in Int /\ clock[v] \in Int
      BY <1>6, <2>4, <2>9
    <3> QED BY <1>4, <2>4, <3>2, <3>3, <3>4, <3>5
  <2>10. CASE u = t /\ host # "saveOthers"
    <3>1. ~Synchronizing
      BY <2>1, <2>10 DEF RunMode
    <3>2. Level[t] = n - 1
      BY <1>2, <1>6, <3>1 DEF StackInv, Depth
    <3>3. n > 1
      BY <1>2, <2>3, <2>4, <2>10, <3>2, ConstantAssumption DEF Down
    <3> DEFINE c == stack[n - 1].thread
    <3>4. c \in Thread /\ c # t /\ n - 1 \in 1..n
      BY <1>2, <1>6, <1>7, <3>3
    <3>5. stack[n - 1].waiting /\ Awaited(n - 1) = t
      BY <1>2, <1>6, <3>3 DEF StackInv, Nested
    <3>6. Down(c, t)
      BY <1>2, <3>1, <3>4, <3>5 DEF StackInv, Waits
    <3>7. c = v
      BY <2>3, <2>4, <2>10, <3>4, <3>6, DownProps
    <3>8. clock'[t] < clock'[v] + stack'[n].work
      <4>1. stack'[n].thread = t /\ stack'[n - 1].thread = v /\ n \in DOMAIN stack'
        BY <1>2, <1>5, <1>6, <3>4, <3>7
      <4>2. \A i \in DOMAIN stack' : i > 1 =>
              clock'[stack'[i].thread] < clock'[stack'[i - 1].thread] + stack'[i].work
        BY <1>1, <1>8, <3>1 DEF Catching, Synchronizing
      <4> QED BY <3>3, <4>1, <4>2
    <3>9. clock'[t] \in Int /\ clock'[v] \in Int /\ stack'[n].work <= MaxWork
          /\ stack'[n].work \in Int /\ MaxWork \in Int
      <4>1. clock'[t] \in Int /\ clock'[v] \in Int
        BY <1>4, <1>6, <2>4
      <4>2. stack'[n].work = Top.work + k /\ Top.work \in Int /\ MaxWork \in Int
        BY <1>2, <1>5, ConstantAssumption
      <4> QED BY <1>4, <4>1, <4>2
    <3>10. Allowed(u)' = Allowed(u) /\ MaxWork - 1 <= Allowed(u)
      <4>1. ~BeingSaved(u)
        BY <2>10 DEF BeingSaved
      <4>2. Allowed(u)' = Allowed(u)
        BY <1>1, <2>6, <4>1 DEF Allowed, Reach
      <4> QED BY <2>4, <2>10, <4>2, AllowedProps
    <3> QED BY <2>4, <2>10, <3>8, <3>9, <3>10
  <2> QED BY <2>8, <2>9, <2>10
<1> QED BY <1>8, <1>9

LEMMA LeadChip ==
  ASSUME TypeOK, TypeOK', StackInv, SavingMode, RunMode, QueuedOnce, QueuedOnce',
         Catching, Leads, Chip
  PROVE  Catching' /\ Leads'
<1>1. PICK t \in Thread : \/ Step(t) \/ Synchronize(t) \/ Yield(t) \/ Wait(t)
                          \/ CatchUp(t) \/ Resume(t) \/ Return(t)
  BY DEF Chip
<1>2. CASE Step(t)
  BY <1>2, LeadStep
<1> SUFFICES ASSUME ~Step(t) PROVE Catching' /\ Leads'
  BY <1>2
<1>3. UNCHANGED <<host, threads, mode, queue, saves, clock>> /\ Running(t)
  BY <1>1 DEF Synchronize, Call, Yield, Wait, CatchUp, Resume, Return, hostVars, threadVars
<1>4. /\ Appended' = Appended /\ Queued' = Queued /\ Synchronizing' = Synchronizing
      /\ Appended \subseteq Thread /\ host # "powering"
      /\ stack \in Seq(Frame) /\ stack # <<>> /\ Len(stack) \in Nat \ {0}
      /\ DOMAIN stack = 1..Len(stack) /\ 1 \in DOMAIN stack
      /\ Top = stack[Len(stack)] /\ Top.thread = t
  <2>1. stack # <<>> => host # "powering"
    BY DEF StackInv, StackInEnter
  <2> QED BY <1>3, <2>1, RunningProps, AppendedProps DEF Appended, Queued, Synchronizing
<1>5. ASSUME stack' # <<>>, stack'[1].thread = stack[1].thread, stack'[1].work = stack[1].work
      PROVE  Leads'
  <2>1. \A u \in Appended : Allowed(u)' = Allowed(u)
    BY <1>3, <1>4, <1>5 DEF Allowed, BeingSaved, Awaiting, Reach
  <2> QED BY <1>3, <1>4, <2>1 DEF Leads
<1>6. CASE Synchronize(t) \/ Yield(t) \/ Wait(t) \/ Resume(t)
  <2>1. /\ DOMAIN stack' = DOMAIN stack
        /\ \A i \in DOMAIN stack : /\ stack'[i].thread = stack[i].thread
                                   /\ stack'[i].work = stack[i].work
    BY <1>6, SameActivations
  <2>2. \A i \in DOMAIN stack : i > 1 => i - 1 \in DOMAIN stack
    BY <1>4
  <2>3. Catching'
    BY <1>3, <1>4, <2>1, <2>2 DEF Catching
  <2> QED BY <1>4, <1>5, <2>1, <2>3, EmptySeq
<1>7. CASE CatchUp(t)
  <2> DEFINE u == Head(Top.list)
             n == Len(stack)
  <2>1. u \in Thread /\ stack' = Append(stack, Activation(u)) /\ MustCatchUp(t, u)
    BY <1>3, <1>7, RunningProps DEF CatchUp
  <2> HIDE DEF u
  <2>2. /\ DOMAIN stack' = 1..(n + 1) /\ stack'[n + 1].thread = u /\ stack'[n + 1].work = 0
        /\ \A i \in 1..n : stack'[i] = stack[i]
    BY <1>4, <2>1, ActivationProps, PushProps DEF Activation
  <2>3. clock[u] < clock[t] /\ clock[u] \in Int /\ clock[t] \in Int
    BY <2>1 DEF MustCatchUp, TypeOK
  <2>4. stack[n].thread = t /\ DOMAIN stack = 1..n /\ n \in Nat \ {0}
    BY <1>4
  <2> HIDE DEF n
  <2>5. /\ \A i \in 1..(n + 1) : i = n + 1 \/ i \in 1..n
        /\ \A i \in 1..n : i > 1 => i - 1 \in 1..n
        /\ n + 1 - 1 = n /\ n \in 1..n /\ 1 \in 1..n
    BY <2>4
  <2>6. ASSUME ~Synchronizing, NEW i \in 1..(n + 1), i > 1
        PROVE  clock[stack'[i].thread] < clock[stack'[i - 1].thread] + stack'[i].work
    <3>1. CASE i = n + 1
      BY <2>2, <2>3, <2>4, <2>5, <3>1
    <3>2. CASE i \in 1..n
      BY <2>2, <2>4, <2>5, <2>6, <3>2 DEF Catching
    <3> QED BY <2>5, <3>1, <3>2
  <2>7. Catching'
    BY <1>3, <1>4, <2>2, <2>6 DEF Catching
  <2> QED BY <1>5, <2>2, <2>5, <2>7, EmptySeq
<1>8. CASE Return(t)
  <2> DEFINE n == Len(stack)
  <2>1. DOMAIN stack' = 1..(n - 1) /\ \A i \in DOMAIN stack' : stack'[i] = stack[i]
    BY <1>4, <1>8, PopProps DEF Return
  <2>2. \A i \in 1..(n - 1) : i \in 1..n /\ (i > 1 => i - 1 \in 1..(n - 1))
    BY <1>4
  <2>3. Catching'
    BY <1>3, <1>4, <2>1, <2>2 DEF Catching
  <2>4. CASE n > 1
    <3>1. 1 \in DOMAIN stack'
      BY <1>4, <2>1, <2>4
    <3> QED BY <1>5, <2>1, <2>3, <3>1, EmptySeq
  <2>5. CASE n = 1
    <3>1. stack' = <<>>
      BY <1>4, <1>8, <2>5, PopProps, EmptySeq DEF Return
    <3>2. stack[1].work \in 0..MaxWork
      BY <1>4, ElementOfSeq DEF Frame
    <3>3. ASSUME NEW u \in Appended PROVE Allowed(u) <= Allowed(u)' /\ Allowed(u)' \in Int
      <4>1. Allowed(u) \in Int /\ Allowed(u)' \in Int
        <5>1. Allowed(u) \in Int /\ Reach(saves) \in Nat /\ u \in Thread
          BY <1>4, <3>3, AllowedProps
        <5>2. host \in {"savePrimary", "saveOthers"} => Reach(saves - 1) \in Nat
          BY <5>1, AllowedProps
        <5>3. Allowed(u)' = IF Awaiting(u) THEN Reach(saves - 1) ELSE Reach(saves)
          BY <1>3, <1>4, <3>1 DEF Allowed, BeingSaved, Awaiting, Reach
        <5> QED BY <5>1, <5>2, <5>3 DEF Awaiting
      <4>2. CASE BeingSaved(u)
        <5>1. u \notin Queued /\ host = "saveOthers"
          BY <1>4, <4>2 DEF BeingSaved, QueuedOnce
        <5>2. Allowed(u)' = Reach(saves)
          BY <1>3, <1>4, <3>1, <5>1 DEF Allowed, BeingSaved, Awaiting, Reach
        <5>3. Allowed(u) = Reach(saves - 1) + stack[1].work
          BY <4>2 DEF Allowed
        <5>4. Reach(saves - 1) \in Int /\ Reach(saves) = Reach(saves - 1) + MaxWork
          BY <1>4, <3>3, <5>1, AllowedProps
        <5> QED BY <3>2, <4>1, <5>2, <5>3, <5>4, ConstantAssumption
      <4>3. CASE ~BeingSaved(u)
        <5>1. Allowed(u)' = Allowed(u)
          BY <1>3, <1>4, <3>1, <4>3 DEF Allowed, BeingSaved, Awaiting, Reach
        <5> QED BY <4>1, <5>1
      <4> QED BY <4>2, <4>3
    <3>4. Leads'
      <4>1. SUFFICES ASSUME NEW v \in Appended, NEW u \in Appended, Down(v, u)
                     PROVE  clock[u] - clock[v] <= Allowed(u)'
        BY <1>3, <1>4 DEF Leads
      <4>2. clock[u] - clock[v] <= Allowed(u) /\ clock[u] \in Int /\ clock[v] \in Int
            /\ Allowed(u) \in Int
        BY <1>4, <4>1, AllowedProps DEF Leads, TypeOK
      <4> QED BY <3>3, <4>1, <4>2
    <3> QED BY <2>3, <3>4
  <2> QED BY <1>4, <2>4, <2>5
<1> QED BY <1>1, <1>6, <1>7, <1>8

LEMMA LeadHost ==
  ASSUME TypeOK, StackInv, QueuedOnce, Booted, Catching, Leads, Hotplug = {}, Host
  PROVE  Catching' /\ Leads'
<1>1. Appended \subseteq Thread /\ IsFiniteSet(Appended)
  BY AppendedProps
<1>2. DOMAIN <<>> = {}
  BY EmptySeq
<1>3. stack = <<>> /\ (stack' = <<>> \/ \E t \in Thread : stack' = <<Activation(t)>>)
  <2>1. CASE OtherMain
    <3>1. stack = <<>> /\ (stack' = <<>> \/ stack' = <<Activation(Head(queue))>>)
          /\ queue # <<>>
      BY <2>1 DEF OtherMain
    <3>2. Head(queue) \in Thread
      BY <3>1, HeadTailProperties DEF TypeOK
    <3> QED BY <3>1, <3>2
  <2>2. CASE PrimaryMain
    <3>1. stack = <<>> /\ (stack' = <<>> \/ stack' = <<Activation(Primary)>>)
      BY <2>2 DEF PrimaryMain
    <3> QED BY <3>1, ConstantAssumption
  <2>3. CASE ~OtherMain /\ ~PrimaryMain
    BY <2>3 DEF Host, StackInv, StackInEnter, Load, PowerOn, PowerThread, SchedulerPower,
                Unload, Unloaded, UnloadThread, EnterRun, EnterSynchronize, Exit,
                PrimarySaved, Saved
  <2> QED BY <2>1, <2>2, <2>3
<1>4. Catching'
  <2>1. \A t \in Thread : DOMAIN <<Activation(t)>> = {1}
    OBVIOUS
  <2>2. DOMAIN stack' = {} \/ DOMAIN stack' = {1}
    BY <1>2, <1>3, <2>1
  <2> QED BY <2>2 DEF Catching
<1>5. /\ saves \in Nat /\ Reach(saves) \in Nat
      /\ \A u \in Appended : /\ u \in Thread /\ clock[u] \in Int /\ Allowed(u) \in Int
                             /\ ~BeingSaved(u)
                             /\ host \notin {"savePrimary", "saveOthers"} =>
                                  ~Awaiting(u) /\ Allowed(u) = Reach(saves)
  <2>1. Primary \in Thread
    BY ConstantAssumption
  <2>2. saves \in Nat /\ Reach(saves) \in Nat
    BY <2>1, AllowedProps
  <2>3. ASSUME NEW u \in Appended PROVE u \in Thread /\ clock[u] \in Int /\ Allowed(u) \in Int
    <3>1. u \in Thread
      BY <1>1
    <3> QED BY <3>1, AllowedProps DEF TypeOK
  <2> QED BY <1>3, <2>2, <2>3 DEF Allowed, BeingSaved, Awaiting
<1>6. host \in {"savePrimary", "saveOthers"} =>
        Reach(saves - 1) \in Nat /\ Reach(saves) = Reach(saves - 1) + MaxWork
  BY AllowedProps, ConstantAssumption
<1>7. MaxWork \in Nat
  BY ConstantAssumption
\* Nothing runs, and nobody may lead by less than before.
<1>8. ASSUME clock' = clock, Appended' \subseteq Appended, host # "powering",
             \A u \in Appended : u # Primary => Allowed(u)' \in Int /\ Allowed(u) <= Allowed(u)'
      PROVE  Leads'
  <2>1. SUFFICES ASSUME NEW t \in Appended, NEW u \in Appended, Down(t, u)
                 PROVE  clock[u] - clock[t] <= Allowed(u)'
    BY <1>8 DEF Leads
  <2>2. clock[u] - clock[t] <= Allowed(u) /\ u # Primary
    BY <1>5, <1>8, <2>1, DownProps DEF Leads
  <2> QED BY <1>5, <1>8, <2>1, <2>2
<1>9. CASE Load
  <2>1. DOMAIN threads' = {}
    BY <1>2, <1>9 DEF Load
  <2> QED BY <1>4, <2>1 DEF Leads, Appended
<1>10. CASE PowerOn \/ PowerThread
  BY <1>4, <1>10 DEF PowerOn, PowerThread, Leads
<1>11. CASE SchedulerPower
  <2>1. /\ threads' = threads /\ saves' = 0 /\ host' = "on"
        /\ \A t \in Appended : clock'[t] = uniqueID[t]
    BY <1>1, <1>11 DEF SchedulerPower
  <2>2. Appended' = Appended
    BY <2>1 DEF Appended
  <2>3. \A t \in Appended : uniqueID[t] \in Nat /\ uniqueID[t] < Len(Boot)
    BY <1>1 DEF Booted, TypeOK
  <2>4. \A u : Allowed(u)' = Reach(0)
    BY <2>1 DEF Allowed, BeingSaved, Awaiting, Reach
  <2>5. Reach(0) \in Nat /\ Base \in Nat /\ Base <= Reach(0)
    BY ReachProps
  <2>6. Len(Boot) - 1 <= Base /\ Len(Boot) \in Nat
    BY ReachProps, LenProperties, ConstantAssumption
  <2>7. ASSUME NEW t \in Appended, NEW u \in Appended
        PROVE  clock'[u] - clock'[t] <= Reach(0)
    BY <2>1, <2>3, <2>5, <2>6
  <2> QED BY <1>4, <2>2, <2>4, <2>7 DEF Leads
<1>12. CASE Unload \/ Unloaded \/ EnterRun
  <2>1. /\ UNCHANGED <<threads, clock, saves, stack>>
        /\ host \notin {"powering", "savePrimary", "saveOthers"}
        /\ host' \notin {"savePrimary", "saveOthers"}
    BY <1>12 DEF Unload, Unloaded, EnterRun, threadVars
  <2>2. \A u \in Appended : Allowed(u)' = Allowed(u)
    BY <1>5, <2>1 DEF Allowed, BeingSaved, Awaiting, Reach
  <2>3. Appended' = Appended
    BY <2>1 DEF Appended
  <2> QED BY <1>4, <1>5, <1>8, <2>1, <2>2, <2>3
<1>13. CASE \E t \in Transient : UnloadThread(t)
  <2>1. PICK t \in Thread : UnloadThread(t)
    BY <1>13, ConstantAssumption
  <2>2. UNCHANGED <<host, queue, saves, stack, clock>> /\ host = "unloading" /\ Destroy(t)
    BY <2>1 DEF UnloadThread
  <2>3. \A u \in Appended : Allowed(u)' = Allowed(u)
    BY <1>5, <2>2 DEF Allowed, BeingSaved, Awaiting, Reach
  <2>4. Appended' \subseteq Appended
    <3>1. CASE t \notin Appended /\ UNCHANGED threads
      BY <3>1 DEF Appended
    <3>2. CASE ~(t \notin Appended /\ UNCHANGED threads)
      <4>1. PICK i \in DOMAIN threads : threads' = RemoveAt(i)
        BY <2>2, <3>2 DEF Destroy
      <4>2. \A k \in DOMAIN threads' : \E j \in DOMAIN threads : threads'[k] = threads[j]
        <5>1. /\ DOMAIN threads' = 1..(Len(threads) - 1) /\ DOMAIN threads = 1..Len(threads)
              /\ Len(threads) \in Nat
              /\ \A k \in DOMAIN threads' : threads'[k] = threads[IF k < i THEN k ELSE k + 1]
          BY <4>1, RemoveAtProps, ListProps
        <5> QED BY <5>1
      <4> QED BY <4>2 DEF Appended
    <3> QED BY <3>1, <3>2
  <2> QED BY <1>4, <1>5, <1>8, <2>2, <2>3, <2>4
<1>14. CASE \E t \in Hotplug : Connect(t) \/ Disconnect(t)
  BY <1>14
<1>15. CASE EnterSynchronize
  <2>1. /\ UNCHANGED <<threads, clock, stack>> /\ saves' = saves + 1
        /\ host = "on" /\ host' = "savePrimary"
    BY <1>15 DEF EnterSynchronize, threadVars
  <2>2. saves' - 1 = saves
    BY <1>5, <2>1
  <2>3. \A u \in Appended : Allowed(u)' = Reach(saves)
    BY <1>3, <2>1, <2>2 DEF Allowed, BeingSaved, Awaiting, Reach
  <2>4. Appended' = Appended
    BY <2>1 DEF Appended
  <2> QED BY <1>4, <1>5, <1>8, <2>1, <2>3, <2>4
<1>16. CASE PrimaryMain
  <2>1. /\ UNCHANGED <<threads, clock, saves, host>> /\ host \in {"run", "savePrimary"}
    BY <1>16 DEF PrimaryMain, threadVars
  <2>2. \A u \in Appended : Allowed(u)' = Allowed(u)
    BY <2>1 DEF Allowed, BeingSaved, Awaiting, Reach
  <2>3. Appended' = Appended
    BY <2>1 DEF Appended
  <2> QED BY <1>4, <1>5, <1>8, <2>1, <2>2, <2>3
<1>17. CASE Exit
  <2>1. /\ UNCHANGED <<threads, saves, stack>> /\ host = "run" /\ host' = "on"
        /\ \A t \in Appended : clock'[t] = clock[t] - Minimum
    BY <1>1, <1>17 DEF Exit, Normalized
  <2>2. \A u \in Appended : Allowed(u)' = Allowed(u)
    BY <1>5, <2>1 DEF Allowed, BeingSaved, Awaiting, Reach
  <2>3. Appended' = Appended
    BY <2>1 DEF Appended
  <2>4. ASSUME NEW t \in Appended, NEW u \in Appended, Down(t, u)
        PROVE  clock'[u] - clock'[t] <= Allowed(u)'
    <3>1. clock[u] - clock[t] <= Allowed(u)
      BY <2>1, <2>4 DEF Leads
    <3>2. Minimum \in Int
      BY <1>1, <2>4, MinimumProps
    <3> QED BY <1>5, <2>1, <2>2, <3>1, <3>2
  <2> QED BY <1>4, <2>3, <2>4 DEF Leads
<1>18. CASE PrimarySaved
  <2>1. /\ UNCHANGED <<threads, clock, saves, stack, queue>>
        /\ host = "savePrimary" /\ host' = "saveOthers"
    BY <1>18 DEF PrimarySaved, threadVars
  <2>2. ASSUME NEW u \in Appended
        PROVE  Allowed(u)' \in Int /\ Allowed(u) <= Allowed(u)'
    <3>1. Allowed(u) = Reach(saves - 1)
      BY <1>3, <2>1 DEF Allowed, BeingSaved, Awaiting
    <3>2. Allowed(u)' = Reach(saves - 1) \/ Allowed(u)' = Reach(saves)
      BY <1>3, <2>1 DEF Allowed, BeingSaved, Awaiting, Reach
    <3> QED BY <1>6, <1>7, <2>1, <3>1, <3>2
  <2>3. Appended' = Appended
    BY <2>1 DEF Appended
  <2> QED BY <1>4, <1>8, <2>1, <2>2, <2>3
<1>19. CASE OtherMain
  <2> DEFINE h == Head(queue)
  <2>1. /\ UNCHANGED <<threads, clock, saves, host>> /\ host = "saveOthers"
        /\ queue # <<>> /\ queue' = Tail(queue)
        /\ stack' = IF h = Primary THEN <<>> ELSE <<Activation(h)>>
    BY <1>19 DEF OtherMain, threadVars
  <2>2. h \in Queued /\ Queued' \subseteq Queued /\ Queued \subseteq Queued' \cup {h}
        /\ h \notin Queued'
    BY <2>1, QueueHead DEF QueuedOnce
  <2>3. h # Primary => /\ stack' # <<>> /\ stack'[1].thread = h /\ stack'[1].work = 0
    BY <2>1, ActivationProps DEF Activation
  <2> HIDE DEF h
  <2>4. ASSUME NEW u \in Appended, u # Primary
        PROVE  Allowed(u)' = Allowed(u)
    <3>1. CASE u = h
      <4>1. Allowed(u) = Reach(saves - 1)
        BY <1>3, <2>1, <2>2, <3>1 DEF Allowed, BeingSaved, Awaiting
      <4>2. BeingSaved(u)'
        BY <2>1, <2>3, <2>4, <3>1 DEF BeingSaved
      <4>3. Allowed(u)' = Reach(saves - 1) + 0
        BY <2>1, <2>3, <2>4, <3>1, <4>2 DEF Allowed, Reach
      <4> QED BY <1>6, <2>1, <4>1, <4>3
    <3>2. CASE u # h
      <4>1. ~BeingSaved(u) /\ ~BeingSaved(u)'
        BY <1>3, <2>1, <2>3, <3>2 DEF BeingSaved
      <4>2. Awaiting(u)' = Awaiting(u)
        BY <2>1, <2>2, <3>2 DEF Awaiting
      <4> QED BY <2>1, <4>1, <4>2 DEF Allowed, Reach
    <3> QED BY <3>1, <3>2
  <2>5. Appended' = Appended
    BY <2>1 DEF Appended
  <2> QED BY <1>4, <1>5, <1>8, <2>1, <2>4, <2>5
<1>20. CASE Saved
  <2>1. /\ UNCHANGED <<threads, clock, saves, stack>> /\ queue = <<>>
        /\ host = "saveOthers" /\ host' = "on"
    BY <1>20 DEF Saved, threadVars
  <2>2. \A u \in Appended : Allowed(u)' = Allowed(u)
    BY <1>2, <1>3, <2>1 DEF Allowed, BeingSaved, Awaiting, Reach, Queued
  <2>3. Appended' = Appended
    BY <2>1 DEF Appended
  <2> QED BY <1>4, <1>5, <1>8, <2>1, <2>2, <2>3
<1> QED
  BY <1>9, <1>10, <1>11, <1>12, <1>13, <1>14, <1>15, <1>16, <1>17, <1>18, <1>19, <1>20 DEF Host

\* With nothing plugged while the system is on, a thread is at most one main()
\* ahead of the one that waits for it, and one more for each save since power-on.
THEOREM LeadIsBounded ==
  ASSUME Hotplug = {}
  PROVE  Spec => []BoundedLead
<1> DEFINE Inv == RunMode /\ QueuedOnce /\ Booted /\ Catching /\ Leads
<1>1. Init => Inv
  BY EmptySeq DEF Init, RunMode, QueuedOnce, Booted, Catching, Leads, Appended
<1>2. TypeOK /\ StackInv /\ SavingMode /\ UniqueIDs /\ Handles /\ Inv /\ TypeOK' /\ [Next]_vars
        => Inv'
  <2>1. SUFFICES ASSUME TypeOK, StackInv, SavingMode, UniqueIDs, Handles, Inv, TypeOK',
                        [Next]_vars
                 PROVE  Inv'
    OBVIOUS
  <2>2. RunMode' /\ QueuedOnce' /\ Booted'
    BY <2>1, RunModeNext, QueueNext, BootedNext
  <2>3. ASSUME Chip PROVE Catching' /\ Leads'
    BY <2>1, <2>2, <2>3, LeadChip
  <2>4. ASSUME Host PROVE Catching' /\ Leads'
    BY <2>1, <2>4, LeadHost
  <2>5. ASSUME UNCHANGED vars PROVE Catching' /\ Leads'
    BY <2>1, <2>5 DEF vars, hostVars, threadVars, Catching, Synchronizing, Leads, Appended,
                      Allowed, BeingSaved, Awaiting, Queued, Reach
  <2>6. Catching' /\ Leads'
    BY <2>1, <2>3, <2>4, <2>5 DEF Next
  <2> QED BY <2>2, <2>6
<1>3. TypeOK /\ QueuedOnce /\ StackInv /\ Inv => BoundedLead
  <2>1. SUFFICES ASSUME TypeOK, StackInv, Inv, host # "powering",
                        NEW t \in Appended, NEW u \in Appended, Down(t, u)
                 PROVE  clock[u] - clock[t] <= Reach(saves)
    BY LeadIsReach DEF BoundedLead
  <2>2. t \in Thread /\ u \in Thread
    BY <2>1, AppendedProps
  <2>3. clock[t] \in Int /\ clock[u] \in Int /\ clock[u] - clock[t] <= Allowed(u)
    BY <2>1, <2>2 DEF Leads, TypeOK
  <2>4. Allowed(u) \in Int /\ Reach(saves) \in Nat /\ MaxWork \in Nat
        /\ (host \in {"savePrimary", "saveOthers"} =>
              /\ Reach(saves - 1) \in Nat /\ Reach(saves) = Reach(saves - 1) + MaxWork)
    BY <2>1, <2>2, AllowedProps, ConstantAssumption
  <2>5. BeingSaved(u) => stack[1].work \in Int /\ stack[1].work <= MaxWork
    <3>1. stack # <<>> => stack[1] \in Frame
      BY <2>1, EmptySeq, LenProperties, ElementOfSeq DEF TypeOK
    <3> QED BY <2>4, <3>1 DEF BeingSaved, Frame
  <2>6. Allowed(u) <= Reach(saves)
    BY <2>4, <2>5 DEF Allowed, BeingSaved, Awaiting
  <2> QED BY <2>3, <2>4, <2>6
<1> HIDE DEF Inv
<1>4. Init => Handles /\ UniqueIDs
  BY ListInit
<1>5. TypeOK /\ UniqueIDs /\ Handles /\ [Next]_vars => UniqueIDs' /\ Handles'
  BY ListNext
<1>6. Init => SavingMode
  BY DEF Init, SavingMode
<1>7. TypeOK /\ SavingMode /\ [Next]_vars => SavingMode'
  BY ModeNext
<1>8. Inv => QueuedOnce
  BY DEF Inv
<1> QED BY <1>1, <1>2, <1>3, <1>4, <1>5, <1>6, <1>7, <1>8, TypeCorrect, StackCorrect, PTL DEF Spec
=============================================================================
