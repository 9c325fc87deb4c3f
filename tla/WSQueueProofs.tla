--------------------------- MODULE WSQueueProofs ---------------------------
(***************************************************************************)
(* The safety of the run queue, for any number of workers and threads and  *)
(* any size of the array, and that the array with its unlocked ends        *)
(* implements the atomic sequence RunQueue.                                *)
(***************************************************************************)
EXTENDS WSQueue, Sequences, TLAPS

(***************************************************************************)
(* The threads in the slots O of the array p and those in the hands h are  *)
(* all the threads, each of them once.                                     *)
(***************************************************************************)
Consistent(O, p, h) ==
    /\ \A i \in O : p[i] \in Threads
    /\ \A i, j \in O : p[i] = p[j] => i = j
    /\ \A i \in O, w \in Workers : p[i] \notin h[w]
    /\ \A v, w \in Workers : v # w => h[v] \cap h[w] = {}
    /\ \A th \in Threads : \/ \E w \in Workers : th \in h[w]
                           \/ \E i \in O : p[i] = th

\* Who holds the lock is where the program counters say.
LockOK == \A w \in Workers : pc[w] \in LockPCs <=> lock = w

EnqueuePCs == {"push_lock", "push_crit", "push_store", "push_publish",
               "put_lock", "put_crit", "pass_store", "pass_publish"}
\* An operation that enqueues has its thread in hand until it is published.
ArgOK == \A w \in Workers : pc[w] \in EnqueuePCs => arg[w] \in hand[w]

\* What the owner knows about top at each step: nobody else moves it.
OwnerOK ==
    /\ pc[Owner] \in {"push_lock", "push_crit"} => top = Size
    /\ pc[Owner] \in {"push_store", "push_publish"} =>
           idx[Owner] = top /\ top < Size
    /\ pc[Owner] = "push_publish" => ptr[top] = arg[Owner]
    /\ pc[Owner] = "pop_dec" => top >= 1
    /\ Popping \/ pc[Owner] = "pop_fast" => idx[Owner] = top /\ top < Size

\* What the holder of the lock knows about base: nobody else moves it.
HolderOK ==
    \A w \in Workers :
        /\ pc[w] \in {"take_read", "take_get", "take_undo"} =>
               base = idx[w] + 1 /\ idx[w] >= 0
        /\ pc[w] \in {"pass_store", "pass_publish"} => base >= 1
        /\ pc[w] = "pass_publish" => ptr[base - 1] = arg[w]

WindowOK == 0 <= Lo /\ Lo <= Hi /\ Hi <= Size

ContentsOK == Consistent(Occupied, ptr, hand)

Bounds == TypeOK /\ LockOK /\ ArgOK /\ OwnerOK /\ HolderOK /\ WindowOK

IInv == Bounds /\ ContentsOK

-----------------------------------------------------------------------------
(* How the contents change: four lemmas about Consistent                   *)

\* q holds, d slots higher, what p holds in the slots a .. b.
MovedBy(a, b, d, p, q) == \A i \in (a + d) .. (b + d) : q[i] = p[i - d]

\* From the slots O and hands h to the slots P and hands g: the thread in
\* slot k comes out of w's hand, or goes into it.
Inserted(O, P, p, h, g, k, w) ==
    /\ P = O \cup {k} /\ k \notin O
    /\ p[k] \in Threads /\ p[k] \in h[w] /\ g[w] = h[w] \ {p[k]}
    /\ \A v \in Workers : v # w => g[v] = h[v]

Removed(O, P, p, h, g, k, w) ==
    /\ P = O \ {k} /\ k \in O
    /\ g[w] = h[w] \cup {p[k]}
    /\ \A v \in Workers : v # w => g[v] = h[v]

\* Slots outside O do not matter.
LEMMA ConsistentFrame ==
    ASSUME NEW O, NEW p, NEW q, NEW h, Consistent(O, p, h),
           \A i \in O : q[i] = p[i]
    PROVE  Consistent(O, q, h)
BY DEF Consistent

\* memmove: every slot of the window moves by the same distance.
LEMMA ConsistentShift ==
    ASSUME NEW a \in Int, NEW b \in Int, NEW d \in Int, NEW p, NEW q, NEW h,
           Consistent(a .. b, p, h), MovedBy(a, b, d, p, q)
    PROVE  Consistent((a + d) .. (b + d), q, h)
<1> USE DEF MovedBy
<1>1. \A i \in (a + d) .. (b + d) : i - d \in a .. b
  OBVIOUS
<1>2. \A i \in a .. b : i + d \in (a + d) .. (b + d) /\ q[i + d] = p[i]
  OBVIOUS
<1>3. ASSUME NEW i \in (a + d) .. (b + d), NEW j \in (a + d) .. (b + d), q[i] = q[j]
      PROVE  i = j
  <2>1. p[i - d] = p[j - d]
    BY <1>3
  <2>2. i - d = j - d
    BY <1>1, <2>1 DEF Consistent
  <2> QED BY <2>2
<1> QED
  BY <1>1, <1>2, <1>3 DEF Consistent

LEMMA ConsistentInsert ==
    ASSUME NEW O, NEW P, NEW p, NEW h, NEW g, NEW k, NEW w \in Workers,
           Consistent(O, p, h), Inserted(O, P, p, h, g, k, w)
    PROVE  Consistent(P, p, g)
<1> USE DEF Inserted
<1>1. \A v \in Workers : g[v] = IF v = w THEN h[w] \ {p[k]} ELSE h[v]
  OBVIOUS
<1>2. \A i \in P : p[i] \in Threads
  BY DEF Consistent
<1>3. \A i, j \in P : p[i] = p[j] => i = j
  BY DEF Consistent
<1>4. ASSUME NEW i \in P, NEW v \in Workers PROVE p[i] \notin g[v]
  <2>1. CASE i = k
    BY <1>1, <2>1 DEF Consistent
  <2>2. CASE i \in O
    BY <1>1, <2>2 DEF Consistent
  <2> QED BY <2>1, <2>2
<1>5. \A u, v \in Workers : u # v => g[u] \cap g[v] = {}
  BY <1>1 DEF Consistent
<1>6. \A t \in Threads : \/ \E v \in Workers : t \in g[v]
                         \/ \E i \in P : p[i] = t
  BY <1>1 DEF Consistent
<1> HIDE DEF Inserted
<1> QED
  BY <1>2, <1>3, <1>4, <1>5, <1>6 DEF Consistent

LEMMA ConsistentRemove ==
    ASSUME NEW O, NEW P, NEW p, NEW h, NEW g, NEW k, NEW w \in Workers,
           Consistent(O, p, h), Removed(O, P, p, h, g, k, w)
    PROVE  Consistent(P, p, g)
<1> USE DEF Removed
<1>1. \A v \in Workers : g[v] = IF v = w THEN h[w] \cup {p[k]} ELSE h[v]
  OBVIOUS
<1>2. \A i \in P : p[i] \in Threads
  BY DEF Consistent
<1>3. \A i, j \in P : p[i] = p[j] => i = j
  BY DEF Consistent
<1>4. ASSUME NEW i \in P, NEW v \in Workers PROVE p[i] \notin g[v]
  <2>1. p[i] \notin h[v] /\ p[i] # p[k]
    BY DEF Consistent
  <2> QED BY <1>1, <2>1
<1>5. \A u, v \in Workers : u # v => g[u] \cap g[v] = {}
  BY <1>1 DEF Consistent
<1>6. \A t \in Threads : \/ \E v \in Workers : t \in g[v]
                         \/ \E i \in P : p[i] = t
  BY <1>1 DEF Consistent
<1> HIDE DEF Removed
<1> QED
  BY <1>2, <1>3, <1>4, <1>5, <1>6 DEF Consistent

THEOREM InitIInv == Init => IInv
<1> SUFFICES ASSUME Init PROVE IInv
  OBVIOUS
<1> USE OwnerAssumption, SizeAssumption, NullAssumption DEF Init
<1>1. Middle \in 1 .. Size
  BY DEF Middle
<1>2. ~Claiming /\ ~Stealing /\ ~Popping
  BY DEF Claiming, Stealing, Popping
<1>3. Occupied = {}
  BY <1>1, <1>2 DEF Occupied, Lo, Hi
<1>4. TypeOK
  <2>1. hand \in [Workers -> SUBSET Threads]
    OBVIOUS
  <2>2. top \in 0 .. Size /\ base \in 0 .. (Size + 1)
    BY <1>1
  <2>3. idx \in [Workers -> 0 .. Size]
    OBVIOUS
  <2>4. pc \in [Workers -> OwnerPCs \cup AnyPCs] /\ \A w \in Workers : pc[w] \in AnyPCs
    BY DEF AnyPCs
  <2> QED
    BY <2>1, <2>2, <2>3, <2>4 DEF TypeOK
<1>5. LockOK /\ ArgOK /\ OwnerOK /\ HolderOK
  BY <1>2 DEF LockOK, LockPCs, ArgOK, EnqueuePCs, OwnerOK, HolderOK
<1>6. WindowOK
  BY <1>1, <1>2 DEF WindowOK, Lo, Hi
<1>7. ContentsOK
  BY <1>3 DEF ContentsOK, Consistent
<1> QED
  BY <1>4, <1>5, <1>6, <1>7 DEF IInv, Bounds

-----------------------------------------------------------------------------
\* Only the holder of the lock moves base.
LEMMA OneHolder ==
    ASSUME LockOK, NEW w \in Workers, pc[w] \in LockPCs
    PROVE  \A v \in Workers : pc[v] \in LockPCs => v = w
BY DEF LockOK

\* A step that leaves top, base, the array and the hands alone, and claims or
\* gives up no slot, leaves the window and its contents alone.
LEMMA WindowFrame ==
    ASSUME IInv, UNCHANGED <<top, base, ptr, hand>>,
           Claiming' <=> Claiming, Stealing' <=> Stealing, Popping' <=> Popping,
           pc'[Owner] = "pop_fast" <=> pc[Owner] = "pop_fast"
    PROVE  WindowOK' /\ ContentsOK'
<1>1. Lo' = Lo /\ Hi' = Hi
  BY DEF Lo, Hi
<1>2. Occupied' = Occupied
  BY <1>1 DEF Occupied
<1> QED
  BY <1>1, <1>2 DEF IInv, Bounds, WindowOK, ContentsOK

(***************************************************************************)
(* The steps that only read, and those that only take the lock.            *)
(***************************************************************************)
QuietStep(w) ==
    \/ w = Owner /\ \E th \in Threads : PushBegin(th) \/ PutBegin(th)
    \/ w = Owner /\ (PushOverflow \/ PopLooksEmpty \/ PopBegin \/ PutOverflow)
    \/ TakeBegin(w) \/ TakeLooksEmpty(w) \/ TakeTry(w)

LockStep(w) ==
    \/ w = Owner /\ (PushLock \/ PopLock \/ PutLock)
    \/ TakeLock(w)
    \/ \E th \in Threads : PassBegin(w, th)

LEMMA QuietSteps == ASSUME IInv, NEW w \in Workers, QuietStep(w) PROVE IInv'
<1> USE OwnerAssumption, SizeAssumption, NullAssumption
    DEF IInv, Bounds, QuietStep, Goto, Return, Enqueueing, PushBegin, PutBegin,
        PushOverflow, PopLooksEmpty, PopBegin, PutOverflow, TakeBegin,
        TakeLooksEmpty, TakeTry
<1>1. TypeOK'
  <2>1. pc' \in [Workers -> OwnerPCs \cup AnyPCs]
        /\ \A v \in Workers \ {Owner} : pc'[v] \in AnyPCs
    BY DEF TypeOK, OwnerPCs, AnyPCs
  <2>2. idx' \in [Workers -> 0 .. Size]
    BY DEF TypeOK
  <2>3. arg' \in [Workers -> Threads \cup {NULL}]
    BY DEF TypeOK
  <2> QED
    BY <2>1, <2>2, <2>3 DEF TypeOK
<1>2. LockOK'
  BY DEF TypeOK, LockOK, LockPCs
<1>3. ArgOK'
  BY DEF TypeOK, ArgOK, EnqueuePCs
<1>4. OwnerOK'
  BY DEF TypeOK, OwnerOK, Popping
<1>5. HolderOK'
  BY DEF TypeOK, HolderOK
<1>6. (Claiming' <=> Claiming) /\ (Stealing' <=> Stealing) /\ (Popping' <=> Popping)
  BY DEF TypeOK, Claiming, Stealing, Popping
<1>7. pc'[Owner] = "pop_fast" <=> pc[Owner] = "pop_fast"
  BY DEF TypeOK
<1>8. WindowOK' /\ ContentsOK'
  BY <1>6, <1>7, WindowFrame
<1> QED
  BY <1>1, <1>2, <1>3, <1>4, <1>5, <1>8

LEMMA LockSteps == ASSUME IInv, NEW w \in Workers, LockStep(w) PROVE IInv'
<1> USE OwnerAssumption, SizeAssumption, NullAssumption
    DEF IInv, Bounds, LockStep, Goto, Acquire, Enqueueing, PushLock, PopLock,
        PutLock, TakeLock, PassBegin
<1>1. TypeOK'
  BY DEF TypeOK, OwnerPCs, AnyPCs
<1>2. LockOK'
  BY DEF TypeOK, LockOK, LockPCs
<1>3. ArgOK'
  BY DEF TypeOK, ArgOK, EnqueuePCs
<1>4. OwnerOK'
  BY DEF TypeOK, OwnerOK, Popping
<1>5. HolderOK'
  BY DEF TypeOK, HolderOK
<1>6. (Claiming' <=> Claiming) /\ (Stealing' <=> Stealing) /\ (Popping' <=> Popping)
  BY DEF TypeOK, Claiming, Stealing, Popping
<1>7. pc'[Owner] = "pop_fast" <=> pc[Owner] = "pop_fast"
  BY DEF TypeOK
<1>8. WindowOK' /\ ContentsOK'
  BY <1>6, <1>7, WindowFrame
<1> QED
  BY <1>1, <1>2, <1>3, <1>4, <1>5, <1>8

LEMMA ShiftedWindow ==
    ASSUME TypeOK, NEW d \in Int, 0 <= base + d, top + d <= Size
    PROVE  /\ Shifted(d) \in [Slots -> Threads \cup {NULL}]
           /\ MovedBy(base, top - 1, d, ptr, Shifted(d))
<1>1. \A i \in Slots : base + d <= i /\ i < top + d => i - d \in Slots
  BY SizeAssumption DEF TypeOK, Slots
<1>2. (base + d) .. (top - 1 + d) \subseteq Slots
  BY SizeAssumption DEF TypeOK, Slots
<1>3. \A i \in (base + d) .. (top - 1 + d) : base + d <= i /\ i < top + d
  BY DEF TypeOK
<1> QED
  BY <1>1, <1>2, <1>3 DEF Shifted, MovedBy, TypeOK

LEMMA PushStoreStep == IInv /\ PushStore => IInv'
<1> SUFFICES ASSUME IInv, PushStore PROVE IInv'
  OBVIOUS
<1> USE OwnerAssumption, SizeAssumption, NullAssumption DEF IInv, Bounds, PushStore, Goto
<1>1. TypeOK'
  BY DEF TypeOK, OwnerPCs, AnyPCs, OwnerOK, Slots, ArgOK, EnqueuePCs
<1>2. LockOK' /\ ArgOK'
  BY DEF TypeOK, LockOK, LockPCs, ArgOK, EnqueuePCs
<1>3. OwnerOK'
  BY DEF TypeOK, OwnerOK, Popping, Slots
<1>5. (Claiming' <=> Claiming) /\ (Stealing' <=> Stealing) /\ (Popping' <=> Popping)
  BY DEF TypeOK, Claiming, Stealing, Popping
<1>4. HolderOK'
  <2>1. ASSUME NEW w \in Workers, pc[w] = "pass_publish"
        PROVE  base <= top
    BY <2>1, OneHolder DEF LockPCs, Claiming, Popping, WindowOK, Lo, Hi, TypeOK
  <2> QED
    BY <2>1 DEF TypeOK, HolderOK, OwnerOK, Slots
<1>6. WindowOK'
  BY <1>5 DEF WindowOK, Lo, Hi
<1>7. Occupied' = Occupied
  BY <1>5 DEF Occupied, Lo, Hi
<1>8. ContentsOK'
  <2>1. \A i \in Occupied : ptr'[i] = ptr[i]
    BY DEF Occupied, Lo, Hi, OwnerOK, TypeOK, Popping, Slots, WindowOK
  <2> QED
  BY <1>7, <2>1, ConsistentFrame DEF ContentsOK
<1> QED
  BY <1>1, <1>2, <1>3, <1>4, <1>6, <1>8
LEMMA PushShiftStep == ASSUME IInv, PushShift PROVE IInv'
<1> USE OwnerAssumption, SizeAssumption, NullAssumption DEF IInv, Bounds, PushShift, Goto, MoveWindow, Release
<1> DEFINE offset == -((base + 1) \div 2)
<1>a. offset \in Int /\ 0 <= base + offset /\ offset < 0 /\ top = Size /\ base <= Size
  <2>1. ~Claiming /\ ~Popping /\ top = Size
    BY OneHolder DEF LockPCs, Claiming, Popping, OwnerOK
  <2> QED
    BY <2>1 DEF TypeOK, WindowOK, Lo, Hi
<1>b. ~Claiming /\ ~Stealing /\ ~Popping /\ ~Claiming' /\ ~Stealing' /\ ~Popping'
  BY OneHolder DEF LockPCs, Claiming, Stealing, Popping, TypeOK
<1>c. /\ top' = top + offset /\ base' = base + offset
      /\ ptr' = Shifted(offset) /\ idx' = [idx EXCEPT ![Owner] = top + offset]
  OBVIOUS
<1>d. /\ ptr' \in [Slots -> Threads \cup {NULL}]
      /\ MovedBy(base, top - 1, offset, ptr, ptr')
  <2> HIDE DEF offset
  <2> QED
    BY <1>a, <1>c, ShiftedWindow
<1>1. TypeOK'
  <2>1. top' \in 0 .. Size /\ base' \in 0 .. (Size + 1) /\ idx' \in [Workers -> 0 .. Size]
    <3> HIDE DEF offset
    <3> QED
      BY <1>a, <1>c DEF TypeOK
  <2>2. pc' \in [Workers -> OwnerPCs \cup AnyPCs]
        /\ \A v \in Workers \ {Owner} : pc'[v] \in AnyPCs
    BY DEF TypeOK, OwnerPCs, AnyPCs
  <2> QED
    BY <1>d, <2>1, <2>2 DEF TypeOK
<1>2. LockOK'
  BY DEF TypeOK, LockOK, LockPCs
<1>3. ArgOK'
  BY DEF TypeOK, ArgOK, EnqueuePCs
<1>4. OwnerOK'
  <2> HIDE DEF offset
  <2> QED
    BY <1>a, <1>b, <1>c DEF TypeOK, OwnerOK
<1>5. HolderOK'
  BY OneHolder DEF TypeOK, HolderOK, LockPCs
<1>6. WindowOK'
  <2> HIDE DEF offset
  <2> QED
    BY <1>a, <1>b, <1>c DEF TypeOK, WindowOK, Lo, Hi
<1>7. ContentsOK'
  <2> HIDE DEF offset
  <2>1. Occupied = base .. (top - 1) /\ pc'[Owner] # "pop_fast"
    BY <1>b DEF Occupied, Lo, Hi, TypeOK
  <2>2. Occupied' = (base + offset) .. (top - 1 + offset)
    <3>1. Occupied' = base' .. (top' - 1)
      BY <1>b, <2>1 DEF Occupied, Lo, Hi
    <3>2. top' - 1 = top - 1 + offset
      BY <1>a, <1>c DEF TypeOK
    <3> QED
      BY <1>c, <3>1, <3>2
  <2> QED
    BY <1>a, <1>d, <2>1, <2>2, ConsistentShift DEF ContentsOK, TypeOK
<1> QED
  BY <1>1, <1>2, <1>3, <1>4, <1>5, <1>6, <1>7

LEMMA PushPublishStep == ASSUME IInv, PushPublish PROVE IInv'
<1> USE OwnerAssumption, SizeAssumption, NullAssumption DEF IInv, Bounds, PushPublish, Return, Goto, Enqueued
<1>a. (Claiming' <=> Claiming) /\ (Stealing' <=> Stealing) /\ ~Popping /\ ~Popping'
  BY DEF TypeOK, Claiming, Stealing, Popping
<1>b. idx[Owner] = top /\ top < Size /\ ptr[top] = arg[Owner] /\ arg[Owner] \in hand[Owner]
  BY DEF OwnerOK, ArgOK, EnqueuePCs
<1>1. TypeOK'
  BY <1>b DEF TypeOK, OwnerPCs, AnyPCs
<1>2. LockOK'
  BY DEF TypeOK, LockOK, LockPCs
<1>3. ArgOK'
  BY <1>b DEF TypeOK, ArgOK, EnqueuePCs, ContentsOK, Consistent
<1>4. OwnerOK'
  BY DEF TypeOK, OwnerOK, Popping
<1>5. HolderOK'
  BY DEF TypeOK, HolderOK
<1>6. WindowOK'
  BY <1>a, <1>b DEF TypeOK, WindowOK, Lo, Hi
<1>7. ContentsOK'
  <2>1. Occupied' = Occupied \cup {top} /\ top \notin Occupied
    BY <1>a, <1>b DEF Occupied, Lo, Hi, TypeOK, WindowOK
  <2> QED
    <3>1. Inserted(Occupied, Occupied', ptr, hand, hand', top, Owner)
      BY <1>b, <2>1 DEF Inserted, TypeOK
    <3> QED
      BY <3>1, ConsistentInsert DEF ContentsOK
<1> QED
  BY <1>1, <1>2, <1>3, <1>4, <1>5, <1>6, <1>7

LEMMA PopDecrementStep == ASSUME IInv, PopDecrement PROVE IInv'
<1> USE OwnerAssumption, SizeAssumption, NullAssumption DEF IInv, Bounds, PopDecrement, Goto
<1>a. (Claiming' <=> Claiming) /\ (Stealing' <=> Stealing) /\ ~Popping /\ Popping'
  BY DEF TypeOK, Claiming, Stealing, Popping
<1>1. TypeOK'
  BY DEF TypeOK, OwnerPCs, AnyPCs, OwnerOK
<1>2. LockOK'
  BY DEF TypeOK, LockOK, LockPCs
<1>3. ArgOK'
  BY DEF TypeOK, ArgOK, EnqueuePCs
<1>4. OwnerOK'
  BY <1>a DEF TypeOK, OwnerOK
<1>5. HolderOK'
  BY DEF TypeOK, HolderOK
<1>6. WindowOK'
  BY <1>a DEF TypeOK, WindowOK, Lo, Hi
<1>7. ContentsOK'
  <2>1. Occupied' = Occupied
    BY <1>a DEF Occupied, Lo, Hi, TypeOK
  <2> QED
    BY <2>1 DEF ContentsOK
<1> QED
  BY <1>1, <1>2, <1>3, <1>4, <1>5, <1>6, <1>7

LEMMA PopReadBaseStep == ASSUME IInv, PopReadBase PROVE IInv'
<1> USE OwnerAssumption, SizeAssumption, NullAssumption DEF IInv, Bounds, PopReadBase, Goto
<1>a. (Claiming' <=> Claiming) /\ (Stealing' <=> Stealing) /\ Popping /\ idx[Owner] = top
  BY DEF TypeOK, Claiming, Stealing, Popping, OwnerOK
<1>1. TypeOK'
  BY DEF TypeOK, OwnerPCs, AnyPCs
<1>2. LockOK'
  BY DEF TypeOK, LockOK, LockPCs
<1>3. ArgOK'
  BY DEF TypeOK, ArgOK, EnqueuePCs
<1>4. OwnerOK'
  BY <1>a DEF TypeOK, OwnerOK, Popping
<1>5. HolderOK'
  BY DEF TypeOK, HolderOK
<1>6. WindowOK'
  BY <1>a DEF TypeOK, WindowOK, Lo, Hi, Popping
<1>7. ContentsOK'
  <2>1. Occupied' = Occupied
    BY <1>a DEF Occupied, Lo, Hi, TypeOK, Popping
  <2> QED
    BY <2>1 DEF ContentsOK
<1> QED
  BY <1>1, <1>2, <1>3, <1>4, <1>5, <1>6, <1>7

LEMMA PopFastStep == ASSUME IInv, PopFast PROVE IInv'
<1> USE OwnerAssumption, SizeAssumption, NullAssumption DEF IInv, Bounds, PopFast, Return, Goto, Dequeued
<1>a. (Claiming' <=> Claiming) /\ (Stealing' <=> Stealing) /\ ~Popping /\ ~Popping'
  BY DEF TypeOK, Claiming, Stealing, Popping
<1>b. idx[Owner] = top /\ top < Size
  BY DEF OwnerOK
<1>c. /\ top \in Occupied
      /\ Occupied' = Occupied \ {top}
      /\ ptr[top] \in Threads
  BY <1>a, <1>b DEF Occupied, Lo, Hi, TypeOK, WindowOK, ContentsOK, Consistent
<1>1. TypeOK'
  BY <1>b, <1>c DEF TypeOK, OwnerPCs, AnyPCs
<1>2. LockOK'
  BY DEF TypeOK, LockOK, LockPCs
<1>3. ArgOK'
  BY DEF TypeOK, ArgOK, EnqueuePCs
<1>4. OwnerOK'
  BY DEF TypeOK, OwnerOK, Popping
<1>5. HolderOK'
  BY DEF TypeOK, HolderOK
<1>6. WindowOK'
  BY <1>a DEF TypeOK, WindowOK, Lo, Hi
<1>7. ContentsOK'
  <2>1. Removed(Occupied, Occupied', ptr, hand, hand', top, Owner)
    BY <1>b, <1>c DEF Removed, TypeOK
  <2>2. Consistent(Occupied', ptr, hand')
    BY <2>1, ConsistentRemove DEF ContentsOK
  <2> QED
    BY <2>2 DEF ContentsOK
<1> QED
  BY <1>1, <1>2, <1>3, <1>4, <1>5, <1>6, <1>7

LEMMA PopLockedStep == ASSUME IInv, PopLocked PROVE IInv'
<1> USE OwnerAssumption, SizeAssumption, NullAssumption DEF IInv, Bounds, PopLocked, Return, Goto, Dequeued, Release
<1>a. ~Claiming /\ ~Stealing /\ ~Claiming' /\ ~Stealing' /\ Popping /\ ~Popping'
  BY OneHolder DEF LockPCs, TypeOK, Claiming, Stealing, Popping
<1>b. idx[Owner] = top /\ top < Size
  BY <1>a DEF OwnerOK
<1>c. /\ top \in Occupied
      /\ Occupied' = Occupied \ {top}
      /\ ptr[top] \in Threads
  BY <1>a, <1>b DEF Occupied, Lo, Hi, TypeOK, WindowOK, ContentsOK, Consistent
<1>d. \A i \in Occupied' : i \in Slots /\ ptr'[i] = ptr[i]
  BY <1>a, <1>b DEF Occupied, Lo, Hi, TypeOK, WindowOK, Slots
<1>1. TypeOK'
  BY <1>b, <1>c DEF TypeOK, OwnerPCs, AnyPCs, Slots
<1>2. LockOK'
  BY DEF TypeOK, LockOK, LockPCs
<1>3. ArgOK'
  BY DEF TypeOK, ArgOK, EnqueuePCs
<1>4. OwnerOK'
  BY DEF TypeOK, OwnerOK, Popping
<1>5. HolderOK'
  BY OneHolder DEF TypeOK, HolderOK, LockPCs
<1>6. WindowOK'
  BY <1>a, <1>b DEF TypeOK, WindowOK, Lo, Hi
<1>7. ContentsOK'
  <2>1. Removed(Occupied, Occupied', ptr, hand, hand', top, Owner)
    BY <1>b, <1>c DEF Removed, TypeOK
  <2>2. Consistent(Occupied', ptr, hand')
    BY <2>1, ConsistentRemove DEF ContentsOK
  <2> QED
    BY <1>d, <2>2, ConsistentFrame DEF ContentsOK
<1> QED
  BY <1>1, <1>2, <1>3, <1>4, <1>5, <1>6, <1>7

LEMMA PopResetStep == ASSUME IInv, PopReset PROVE IInv'
<1> USE OwnerAssumption, SizeAssumption, NullAssumption DEF IInv, Bounds, PopReset, Return, Goto, Release
<1>a. ~Claiming /\ ~Stealing /\ ~Claiming' /\ ~Stealing' /\ Popping /\ ~Popping'
  BY OneHolder DEF LockPCs, TypeOK, Claiming, Stealing, Popping
<1>b. idx[Owner] = top /\ Middle \in 1 .. Size
  BY <1>a DEF OwnerOK, Middle
<1>1. TypeOK'
  BY <1>b DEF TypeOK, OwnerPCs, AnyPCs
<1>2. LockOK'
  BY DEF TypeOK, LockOK, LockPCs
<1>3. ArgOK'
  BY DEF TypeOK, ArgOK, EnqueuePCs
<1>4. OwnerOK'
  BY DEF TypeOK, OwnerOK, Popping
<1>5. HolderOK'
  BY OneHolder DEF TypeOK, HolderOK, LockPCs
<1>6. WindowOK'
  BY <1>a, <1>b DEF WindowOK, Lo, Hi
<1>7. ContentsOK'
  <2>1. Occupied = {} /\ Occupied' = {}
    BY <1>a, <1>b DEF Occupied, Lo, Hi, TypeOK
  <2> QED
    BY <2>1 DEF ContentsOK
<1> QED
  BY <1>1, <1>2, <1>3, <1>4, <1>5, <1>6, <1>7

LEMMA PutStoreStep == ASSUME IInv, PutStore PROVE IInv'
<1> USE OwnerAssumption, SizeAssumption, NullAssumption DEF IInv, Bounds, PutStore, Return, Goto, Enqueued, Release
<1> DEFINE d == IF base = 0 THEN (Size - top + 1) \div 2 ELSE 0
           k == base + d - 1
<1>a. ~Claiming /\ ~Stealing /\ ~Popping /\ ~Claiming' /\ ~Stealing' /\ ~Popping'
  BY OneHolder DEF LockPCs, Claiming, Stealing, Popping, TypeOK
<1>b. d \in Int /\ 1 <= base + d /\ top + d <= Size /\ base <= top
  BY <1>a DEF TypeOK, WindowOK, Lo, Hi
<1>c. /\ top' = top + d /\ base' = k
      /\ ptr' = [Shifted(d) EXCEPT ![k] = arg[Owner]]
  OBVIOUS
<1>d. arg[Owner] \in Threads /\ arg[Owner] \in hand[Owner]
  BY DEF TypeOK, ArgOK, EnqueuePCs
<1> HIDE DEF d
<1>e. k \in Slots /\ k \in Int
  BY <1>b DEF TypeOK, Slots
<1>f. /\ Shifted(d) \in [Slots -> Threads \cup {NULL}]
      /\ MovedBy(base, top - 1, d, ptr, Shifted(d))
  <2>1. 0 <= base + d
    BY <1>b DEF TypeOK
  <2> QED
    BY <1>b, <2>1, ShiftedWindow
<1> HIDE DEF k
<1>g. /\ ptr' \in [Slots -> Threads \cup {NULL}] /\ ptr'[k] = arg[Owner]
      /\ \A i \in Slots : i # k => ptr'[i] = Shifted(d)[i]
  BY <1>c, <1>d, <1>e, <1>f
<1>1. TypeOK'
  <2>1. top' \in 0 .. Size /\ base' \in 0 .. (Size + 1)
    BY <1>b, <1>c DEF TypeOK, k
  <2>2. pc' \in [Workers -> OwnerPCs \cup AnyPCs]
        /\ \A v \in Workers \ {Owner} : pc'[v] \in AnyPCs
    BY DEF TypeOK, OwnerPCs, AnyPCs
  <2>3. arg' \in [Workers -> Threads \cup {NULL}] /\ hand' \in [Workers -> SUBSET Threads]
    BY DEF TypeOK
  <2>4. idx' \in [Workers -> 0 .. Size]
    BY DEF TypeOK
  <2> QED
    BY <1>g, <2>1, <2>2, <2>3, <2>4 DEF TypeOK
<1>2. LockOK'
  BY DEF TypeOK, LockOK, LockPCs
<1>3. ArgOK'
  BY <1>d DEF TypeOK, ArgOK, EnqueuePCs, ContentsOK, Consistent
<1>4. OwnerOK'
  BY DEF TypeOK, OwnerOK, Popping
<1>5. HolderOK'
  BY OneHolder DEF TypeOK, HolderOK, LockPCs
<1>6. WindowOK'
  BY <1>a, <1>b, <1>c DEF TypeOK, WindowOK, Lo, Hi, k
<1>7. ContentsOK'
  <2> DEFINE M == (base + d) .. (top - 1 + d)
  <2>1. Occupied = base .. (top - 1)
    BY <1>a DEF Occupied, Lo, Hi
  <2>2. Consistent(M, Shifted(d), hand)
    BY <1>b, <1>f, <2>1, ConsistentShift DEF ContentsOK, TypeOK
  <2>3. \A i \in M : i \in Slots /\ i # k
    BY <1>b DEF TypeOK, Slots, k
  <2>4. Consistent(M, ptr', hand)
    <3> HIDE DEF M
    <3> QED
      BY <1>g, <2>2, <2>3, ConsistentFrame
  <2>5. Occupied' = M \cup {k}
    <3>1. Occupied' = k .. (top' - 1)
      BY <1>a, <1>c DEF Occupied, Lo, Hi, TypeOK
    <3>2. k \in Int /\ top' - 1 = top - 1 + d /\ base + d = k + 1 /\ k <= top' - 1
      BY <1>b, <1>c DEF TypeOK, k
    <3> QED
      BY <3>1, <3>2, <1>b, <1>c DEF TypeOK
  <2>6. Inserted(M, Occupied', ptr', hand, hand', k, Owner)
    <3> HIDE DEF M
    <3> QED
      BY <1>d, <1>g, <2>3, <2>5 DEF Inserted, TypeOK
  <2> HIDE DEF M
  <2> QED
    BY <2>4, <2>6, ConsistentInsert DEF ContentsOK
<1> QED
  BY <1>1, <1>2, <1>3, <1>4, <1>5, <1>6, <1>7

LEMMA TakeIncrementStep == ASSUME IInv, NEW w \in Workers, TakeIncrement(w) PROVE IInv'
<1> USE OwnerAssumption, SizeAssumption, NullAssumption DEF IInv, Bounds, TakeIncrement, Goto
<1>a. ~Claiming /\ ~Stealing /\ Claiming' /\ ~Stealing' /\ (Popping' <=> Popping)
  BY OneHolder DEF LockPCs, Claiming, Stealing, Popping, TypeOK
<1>b. base \in 0 .. Size
  BY <1>a DEF TypeOK, WindowOK, Lo, Hi
<1>1. TypeOK'
  BY <1>b DEF TypeOK, OwnerPCs, AnyPCs
<1>2. LockOK'
  BY DEF TypeOK, LockOK, LockPCs
<1>3. ArgOK'
  BY DEF TypeOK, ArgOK, EnqueuePCs
<1>4. OwnerOK'
  BY DEF TypeOK, OwnerOK, Popping
<1>5. HolderOK'
  BY <1>b, OneHolder DEF TypeOK, HolderOK, LockPCs
<1>6. WindowOK'
  BY <1>a DEF TypeOK, WindowOK, Lo, Hi
<1>7. ContentsOK'
  <2>1. Occupied' = Occupied
    BY <1>a DEF Occupied, Lo, Hi, TypeOK
  <2> QED
    BY <2>1 DEF ContentsOK
<1> QED
  BY <1>1, <1>2, <1>3, <1>4, <1>5, <1>6, <1>7

LEMMA TakeReadTopStep == ASSUME IInv, NEW w \in Workers, TakeReadTop(w) PROVE IInv'
<1> USE OwnerAssumption, SizeAssumption, NullAssumption DEF IInv, Bounds, TakeReadTop, Goto
<1>a. Claiming /\ ~Stealing /\ (Popping' <=> Popping)
  BY OneHolder DEF LockPCs, Claiming, Stealing, Popping, TypeOK
<1>b. /\ Claiming' <=> ~(idx[w] < top)
      /\ Stealing' <=> idx[w] < top
  BY OneHolder DEF LockPCs, Claiming, Stealing, TypeOK
<1>c. base = idx[w] + 1
  BY DEF HolderOK
<1>1. TypeOK'
  BY DEF TypeOK, OwnerPCs, AnyPCs
<1>2. LockOK'
  BY DEF TypeOK, LockOK, LockPCs
<1>3. ArgOK'
  BY DEF TypeOK, ArgOK, EnqueuePCs
<1>4. OwnerOK'
  BY DEF TypeOK, OwnerOK, Popping
<1>5. HolderOK'
  BY DEF TypeOK, HolderOK
<1>6. WindowOK'
  BY <1>a, <1>b, <1>c DEF TypeOK, WindowOK, Lo, Hi
<1>7. ContentsOK'
  <2>1. Occupied' = Occupied
    BY <1>a, <1>b DEF Occupied, Lo, Hi, TypeOK
  <2> QED
    BY <2>1 DEF ContentsOK
<1> QED
  BY <1>1, <1>2, <1>3, <1>4, <1>5, <1>6, <1>7

LEMMA TakeGetStep == ASSUME IInv, NEW w \in Workers, TakeGet(w) PROVE IInv'
<1> USE OwnerAssumption, SizeAssumption, NullAssumption DEF IInv, Bounds, TakeGet, Return, Goto, Dequeued, Release
<1>a. ~Claiming /\ Stealing /\ ~Claiming' /\ ~Stealing' /\ (Popping' <=> Popping)
  BY OneHolder DEF LockPCs, Claiming, Stealing, Popping, TypeOK
<1>b. base = idx[w] + 1 /\ idx[w] \in 0 .. Size
  BY DEF HolderOK, TypeOK
<1>c. /\ idx[w] \in Occupied
      /\ Occupied' = Occupied \ {idx[w]}
      /\ ptr[idx[w]] \in Threads
  BY <1>a, <1>b DEF Occupied, Lo, Hi, TypeOK, WindowOK, ContentsOK, Consistent
<1>1. TypeOK'
  BY <1>c DEF TypeOK, OwnerPCs, AnyPCs
<1>2. LockOK'
  BY DEF TypeOK, LockOK, LockPCs
<1>3. ArgOK'
  BY DEF TypeOK, ArgOK, EnqueuePCs
<1>4. OwnerOK'
  BY DEF TypeOK, OwnerOK, Popping
<1>5. HolderOK'
  BY OneHolder DEF TypeOK, HolderOK, LockPCs
<1>6. WindowOK'
  BY <1>a DEF TypeOK, WindowOK, Lo, Hi
<1>7. ContentsOK'
  <2>1. Removed(Occupied, Occupied', ptr, hand, hand', idx[w], w)
    BY <1>c DEF Removed, TypeOK
  <2>2. Consistent(Occupied', ptr, hand')
    BY <2>1, ConsistentRemove DEF ContentsOK
  <2> QED
    BY <2>2 DEF ContentsOK
<1> QED
  BY <1>1, <1>2, <1>3, <1>4, <1>5, <1>6, <1>7

LEMMA TakeUndoStep == ASSUME IInv, NEW w \in Workers, TakeUndo(w) PROVE IInv'
<1> USE OwnerAssumption, SizeAssumption, NullAssumption DEF IInv, Bounds, TakeUndo, Return, Goto, Release
<1>a. Claiming /\ ~Stealing /\ ~Claiming' /\ ~Stealing' /\ (Popping' <=> Popping)
  BY OneHolder DEF LockPCs, Claiming, Stealing, Popping, TypeOK
<1>b. base = idx[w] + 1 /\ idx[w] \in 0 .. Size
  BY DEF HolderOK, TypeOK
<1>1. TypeOK'
  BY <1>b DEF TypeOK, OwnerPCs, AnyPCs
<1>2. LockOK'
  BY DEF TypeOK, LockOK, LockPCs
<1>3. ArgOK'
  BY DEF TypeOK, ArgOK, EnqueuePCs
<1>4. OwnerOK'
  BY DEF TypeOK, OwnerOK, Popping
<1>5. HolderOK'
  BY OneHolder DEF TypeOK, HolderOK, LockPCs
<1>6. WindowOK'
  BY <1>a, <1>b DEF TypeOK, WindowOK, Lo, Hi
<1>7. ContentsOK'
  <2>1. base' = base - 1
    BY <1>b
  <2>2. Occupied' = Occupied
    BY <1>a, <2>1 DEF Occupied, Lo, Hi, TypeOK
  <2> QED
    BY <2>2 DEF ContentsOK
<1> QED
  BY <1>1, <1>2, <1>3, <1>4, <1>5, <1>6, <1>7

LEMMA PassStoreStep == ASSUME IInv, NEW w \in Workers, PassStore(w) PROVE IInv'
<1> USE OwnerAssumption, SizeAssumption, NullAssumption DEF IInv, Bounds, PassStore, Goto
<1>a. ~Claiming /\ ~Stealing /\ ~Claiming' /\ ~Stealing' /\ (Popping' <=> Popping)
  BY OneHolder DEF LockPCs, Claiming, Stealing, Popping, TypeOK
<1>b. base - 1 \in Slots /\ arg[w] \in Threads /\ base <= Hi
  BY <1>a DEF TypeOK, HolderOK, WindowOK, ArgOK, EnqueuePCs, Lo, Hi, Slots, Popping, OwnerOK
<1>1. TypeOK'
  BY <1>b DEF TypeOK, OwnerPCs, AnyPCs
<1>2. LockOK'
  BY DEF TypeOK, LockOK, LockPCs
<1>3. ArgOK'
  BY DEF TypeOK, ArgOK, EnqueuePCs
<1>4. OwnerOK'
  <2>1. CASE w = Owner
    BY <2>1 DEF TypeOK, OwnerOK, Popping
  <2>2. CASE w # Owner
    BY <1>b, <2>2 DEF TypeOK, OwnerOK, Popping, Hi
  <2> QED BY <2>1, <2>2
<1>5. HolderOK'
  BY <1>b, OneHolder DEF TypeOK, HolderOK, LockPCs
<1>6. WindowOK'
  BY <1>a DEF TypeOK, WindowOK, Lo, Hi
<1>7. ContentsOK'
  <2>1. pc'[Owner] = "pop_fast" <=> pc[Owner] = "pop_fast"
    BY DEF TypeOK
  <2>2. Occupied' = Occupied
    BY <1>a, <2>1 DEF Occupied, Lo, Hi
  <2>3. \A i \in Occupied : ptr'[i] = ptr[i]
    BY <1>a, <1>b DEF Occupied, Lo, TypeOK
  <2> QED
    BY <2>2, <2>3, ConsistentFrame DEF ContentsOK
<1> QED
  BY <1>1, <1>2, <1>3, <1>4, <1>5, <1>6, <1>7

LEMMA PassPublishStep == ASSUME IInv, NEW w \in Workers, PassPublish(w) PROVE IInv'
<1> USE OwnerAssumption, SizeAssumption, NullAssumption DEF IInv, Bounds, PassPublish, Return, Goto, Enqueued, Release
<1>a. ~Claiming /\ ~Stealing /\ ~Claiming' /\ ~Stealing' /\ (Popping' <=> Popping)
  BY OneHolder DEF LockPCs, Claiming, Stealing, Popping, TypeOK
<1>b. base >= 1 /\ ptr[base - 1] = arg[w] /\ arg[w] \in hand[w] /\ arg[w] \in Threads
  BY DEF TypeOK, HolderOK, ArgOK, EnqueuePCs
<1>1. TypeOK'
  BY <1>b DEF TypeOK, OwnerPCs, AnyPCs
<1>2. LockOK'
  BY DEF TypeOK, LockOK, LockPCs
<1>3. ArgOK'
  BY <1>b DEF TypeOK, ArgOK, EnqueuePCs, ContentsOK, Consistent
<1>4. OwnerOK'
  BY DEF TypeOK, OwnerOK, Popping
<1>5. HolderOK'
  BY OneHolder DEF TypeOK, HolderOK, LockPCs
<1>6. WindowOK'
  BY <1>a, <1>b DEF TypeOK, WindowOK, Lo, Hi
<1>7. ContentsOK'
  <2>1. pc'[Owner] = "pop_fast" <=> pc[Owner] = "pop_fast"
    BY DEF TypeOK
  <2>2. Occupied' = Occupied \cup {base - 1} /\ base - 1 \notin Occupied
    BY <1>a, <1>b, <2>1 DEF Occupied, Lo, Hi, TypeOK, WindowOK
  <2>3. Inserted(Occupied, Occupied', ptr, hand, hand', base - 1, w)
    BY <1>b, <2>2 DEF Inserted, TypeOK
  <2> QED
    BY <2>3, ConsistentInsert DEF ContentsOK
<1> QED
  BY <1>1, <1>2, <1>3, <1>4, <1>5, <1>6, <1>7

-----------------------------------------------------------------------------
THEOREM NextIInv == IInv /\ [Next]_vars => IInv'
<1> SUFFICES ASSUME IInv, [Next]_vars PROVE IInv'
  OBVIOUS
<1>1. CASE UNCHANGED vars
  <2>1. Lo' = Lo /\ Hi' = Hi /\ Occupied' = Occupied
    BY <1>1 DEF vars, Lo, Hi, Occupied, Claiming, Stealing, Popping
  <2> QED
    BY <1>1, <2>1 DEF vars, IInv, Bounds, TypeOK, LockOK, ArgOK, OwnerOK, Popping,
                      HolderOK, WindowOK, ContentsOK
<1>2. CASE OwnerStep
  <2> USE OwnerAssumption
  <2>1. ASSUME NEW th \in Threads, PushBegin(th) \/ PutBegin(th) PROVE IInv'
    BY <2>1, QuietSteps DEF QuietStep
  <2>2. CASE PushOverflow \/ PopLooksEmpty \/ PopBegin \/ PutOverflow
    BY <2>2, QuietSteps DEF QuietStep
  <2>3. CASE PushLock \/ PopLock \/ PutLock
    BY <2>3, LockSteps DEF LockStep
  <2>4. CASE PushShift \/ PushStore \/ PushPublish
    BY <2>4, PushShiftStep, PushStoreStep, PushPublishStep
  <2>5. CASE PopDecrement \/ PopReadBase \/ PopFast \/ PopLocked \/ PopReset
    BY <2>5, PopDecrementStep, PopReadBaseStep, PopFastStep, PopLockedStep, PopResetStep
  <2>6. CASE PutStore
    BY <2>6, PutStoreStep
  <2> QED
    BY <1>2, <2>1, <2>2, <2>3, <2>4, <2>5, <2>6 DEF OwnerStep
<1>3. ASSUME NEW w \in Workers, TakeStep(w) PROVE IInv'
  <2>1. CASE TakeBegin(w) \/ TakeLooksEmpty(w) \/ TakeTry(w)
    BY <2>1, QuietSteps DEF QuietStep
  <2>2. CASE TakeLock(w)
    BY <2>2, LockSteps DEF LockStep
  <2>3. CASE TakeIncrement(w) \/ TakeReadTop(w) \/ TakeGet(w) \/ TakeUndo(w)
    BY <2>3, TakeIncrementStep, TakeReadTopStep, TakeGetStep, TakeUndoStep
  <2> QED
    BY <1>3, <2>1, <2>2, <2>3 DEF TakeStep
<1>4. ASSUME NEW w \in Workers, PassStep(w) PROVE IInv'
  <2>1. ASSUME NEW th \in Threads, PassBegin(w, th) PROVE IInv'
    BY <2>1, LockSteps DEF LockStep
  <2>2. CASE PassStore(w) \/ PassPublish(w)
    BY <2>2, PassStoreStep, PassPublishStep
  <2> QED
    BY <1>4, <2>1, <2>2 DEF PassStep
<1> QED
  BY <1>1, <1>2, <1>3, <1>4 DEF Next

(***************************************************************************)
(* The inductive invariant holds in every reachable state.                 *)
(***************************************************************************)
THEOREM Inductive == Spec => []IInv
<1> QED
  BY InitIInv, NextIInv, PTL DEF Spec

(***************************************************************************)
(* Type correctness.                                                       *)
(***************************************************************************)
THEOREM TypeCorrect == Spec => []TypeOK
<1>1. IInv => TypeOK
  BY DEF IInv, Bounds
<1> QED
  BY <1>1, Inductive, PTL

(***************************************************************************)
(* No thread that leaves the queue is handed out twice, whatever steps of  *)
(* push, pop, put, take and trypass interleave: the queue never gives two  *)
(* workers, or one worker twice, the same thread to run.                   *)
(***************************************************************************)
THEOREM NeverTwice == Spec => []NoThreadTwice
<1>1. IInv => NoThreadTwice
  BY DEF IInv, ContentsOK, Consistent, NoThreadTwice
<1> QED
  BY <1>1, Inductive, PTL

(***************************************************************************)
(* No thread that enters the queue is lost in it, wherever the window is   *)
(* moved and whichever of the owner and a thief wins a slot.               *)
(***************************************************************************)
THEOREM NeverLost == Spec => []NoThreadLost
<1>1. IInv => NoThreadLost
  BY DEF IInv, ContentsOK, Consistent, NoThreadLost
<1> QED
  BY <1>1, Inductive, PTL

(***************************************************************************)
(* Every access is within the array, and what an operation returns is a    *)
(* thread.                                                                 *)
(***************************************************************************)
THEOREM InBounds == Spec => []AccessInBounds
<1>1. ASSUME IInv PROVE AccessInBounds
  <2> USE <1>1, SizeAssumption, OwnerAssumption DEF IInv, Bounds
  <2>1. ASSUME NEW w \in Workers, pc[w] = "take_get"
        PROVE  base = idx[w] + 1 /\ idx[w] >= 0 /\ Stealing /\ ~Claiming
    BY <2>1, OneHolder DEF HolderOK, Stealing, Claiming, LockPCs
  <2>2. Occupied \subseteq Slots
    <3>1. CASE Stealing
      <4>1. base >= 1 /\ ~Claiming
        BY <3>1, <2>1 DEF Stealing, TypeOK
      <4> QED
        BY <3>1, <4>1 DEF Occupied, WindowOK, Lo, Hi, TypeOK, OwnerOK, Popping, Slots
    <3>2. CASE ~Stealing
      BY <3>2 DEF Occupied, WindowOK, Lo, Hi, TypeOK, OwnerOK, Popping, Slots
    <3> QED BY <3>1, <3>2
  <2>3. \A i \in Occupied : ptr[i] \in Threads
    BY DEF ContentsOK, Consistent
  <2>4. pc[Owner] \in {"push_store", "push_publish", "pop_fast"} => idx[Owner] \in Slots
    BY DEF OwnerOK, TypeOK, Slots
  <2>5. ASSUME NEW w \in Workers, pc[w] = "take_get" PROVE idx[w] \in Occupied
    BY <2>1, <2>5 DEF Occupied, WindowOK, Lo, Hi, TypeOK
  <2>6. ASSUME NEW w \in Workers, pc[w] \in {"pass_store", "pass_publish"}
        PROVE  base - 1 \in Slots
    <3>1. ~Claiming /\ base >= 1
      BY <2>6, OneHolder DEF HolderOK, Claiming, LockPCs
    <3> QED
      BY <3>1 DEF WindowOK, Lo, Hi, TypeOK, OwnerOK, Popping, Slots
  <2> QED
    BY <2>2, <2>3, <2>4, <2>5, <2>6 DEF AccessInBounds
<1> QED
  BY <1>1, Inductive, PTL

-----------------------------------------------------------------------------
\* The process stops where it aborts: with the owner inside its critical
\* section, and with a window from the first slot to the last.
FatalOK == fatal => /\ pc[Owner] \in {"push_crit", "put_crit"}
                    /\ base = 0 /\ top = Size

LEMMA NextFatalOK == IInv /\ FatalOK /\ [Next]_vars => FatalOK'
<1> SUFFICES ASSUME IInv, FatalOK, [Next]_vars PROVE FatalOK'
  OBVIOUS
<1> USE DEF FatalOK
<1>1. CASE UNCHANGED vars
  BY <1>1 DEF vars
<1>2. CASE OwnerStep
  <2>1. CASE PushOverflow
    BY <2>1 DEF PushOverflow, Goto, IInv, Bounds, OwnerOK
  <2>2. CASE PutOverflow
    BY <2>2 DEF PutOverflow, Goto
  <2>3. CASE ~PushOverflow /\ ~PutOverflow
    <3>1. ~fatal /\ fatal' = fatal
      BY <1>2, <2>3
         DEF OwnerStep, Goto, Return, PushBegin, PutBegin, PushLock, PushShift,
             PushStore, PushPublish, PopLooksEmpty, PopBegin, PopDecrement,
             PopReadBase, PopFast, PopLock, PopLocked, PopReset, PutLock, PutStore
    <3> QED BY <3>1
  <2> QED BY <2>1, <2>2, <2>3
<1>3. ASSUME NEW w \in Workers, TakeStep(w) \/ PassStep(w) PROVE FatalOK'
  <2>1. ~fatal /\ fatal' = fatal
    BY <1>3 DEF TakeStep, PassStep, Goto, Return, TakeBegin, TakeLooksEmpty,
                TakeTry, TakeLock, TakeIncrement, TakeReadTop, TakeGet, TakeUndo,
                PassBegin, PassStore, PassPublish
  <2> QED BY <2>1
<1> QED
  BY <1>1, <1>2, <1>3 DEF Next

(***************************************************************************)
(* push and put abort the process only when every slot of the array holds  *)
(* a thread: no drift of the window, and no thief, brings the overflow on  *)
(* any earlier.                                                            *)
(***************************************************************************)
THEOREM AbortsLate == Spec => []AbortsOnlyWhenFull
<1>1. Init => FatalOK
  BY DEF Init, FatalOK
<1>2. ASSUME IInv, FatalOK PROVE AbortsOnlyWhenFull
  <2> SUFFICES ASSUME fatal PROVE Hi - Lo = Size
    BY DEF AbortsOnlyWhenFull
  <2>1. ~Claiming /\ ~Popping
    BY <1>2, OneHolder, OwnerAssumption
       DEF FatalOK, IInv, Bounds, LockPCs, Claiming, Popping
  <2> QED
    BY <1>2, <2>1, SizeAssumption DEF FatalOK, Lo, Hi
<1> QED
  BY <1>1, <1>2, Inductive, NextFatalOK, PTL DEF Spec

-----------------------------------------------------------------------------
(* The slots l .. h - 1 of the array p as a sequence                       *)

Seqn(p, l, h) == [i \in 1 .. (h - l) |-> p[l + i - 1]]

LEMMA SeqnIsSeq ==
    ASSUME NEW p, NEW l \in Int, NEW h \in Int, l <= h,
           \A i \in l .. (h - 1) : p[i] \in Threads
    PROVE  Seqn(p, l, h) \in Seq(Threads) /\ Len(Seqn(p, l, h)) = h - l
<1>1. \A i \in 1 .. (h - l) : l + i - 1 \in l .. (h - 1)
  OBVIOUS
<1>2. Seqn(p, l, h) \in [1 .. (h - l) -> Threads] /\ h - l \in Nat
  BY <1>1 DEF Seqn
<1> QED BY <1>2

\* Only these slots matter.
LEMMA SeqnSame ==
    ASSUME NEW p, NEW q, NEW l \in Int, NEW h \in Int,
           \A i \in l .. (h - 1) : q[i] = p[i]
    PROVE  Seqn(q, l, h) = Seqn(p, l, h)
<1>1. \A i \in 1 .. (h - l) : l + i - 1 \in l .. (h - 1)
  OBVIOUS
<1> QED BY <1>1 DEF Seqn

\* Moving all of them does not.
LEMMA SeqnMoved ==
    ASSUME NEW p, NEW q, NEW l \in Int, NEW h \in Int, NEW d \in Int,
           MovedBy(l, h - 1, d, p, q)
    PROVE  Seqn(q, l + d, h + d) = Seqn(p, l, h)
<1>1. \A i \in 1 .. (h - l) : /\ (l + d) + i - 1 \in (l + d) .. ((h - 1) + d)
                              /\ ((l + d) + i - 1) - d = l + i - 1
  OBVIOUS
<1>2. (h + d) - (l + d) = h - l
  OBVIOUS
<1> QED BY <1>1, <1>2 DEF Seqn, MovedBy

\* One slot more or less at either end.
LEMMA SeqnAppend ==
    ASSUME NEW p, NEW l \in Int, NEW h \in Int, l <= h,
           \A i \in l .. h : p[i] \in Threads
    PROVE  Seqn(p, l, h + 1) = Append(Seqn(p, l, h), p[h])
<1>1. Seqn(p, l, h) \in Seq(Threads) /\ Len(Seqn(p, l, h)) = h - l
  BY SeqnIsSeq
<1>2. Seqn(p, l, h + 1) \in Seq(Threads) /\ Len(Seqn(p, l, h + 1)) = h + 1 - l
  BY SeqnIsSeq
<1>3. ASSUME NEW i \in 1 .. (h + 1 - l)
      PROVE  Seqn(p, l, h + 1)[i] = Append(Seqn(p, l, h), p[h])[i]
  <2>1. Seqn(p, l, h + 1)[i] = p[l + i - 1]
    BY DEF Seqn
  <2>2. CASE i = h + 1 - l
    BY <1>1, <2>1, <2>2
  <2>3. CASE i \in 1 .. (h - l)
    <3>1. Seqn(p, l, h)[i] = p[l + i - 1]
      BY <2>3 DEF Seqn
    <3>2. p[h] \in Threads /\ i \in 1 .. Len(Seqn(p, l, h))
      BY <1>1, <2>3
    <3>3. Append(Seqn(p, l, h), p[h])[i] = Seqn(p, l, h)[i]
      BY <1>1, <3>2
    <3> QED BY <2>1, <3>1, <3>3
  <2>4. i = h + 1 - l \/ i \in 1 .. (h - l)
    OBVIOUS
  <2> QED BY <2>2, <2>3, <2>4
<1> QED BY <1>1, <1>2, <1>3

LEMMA SeqnPop ==
    ASSUME NEW p, NEW l \in Int, NEW h \in Int, l < h,
           \A i \in l .. (h - 1) : p[i] \in Threads
    PROVE  /\ Seqn(p, l, h) # << >>
           /\ Seqn(p, l, h)[Len(Seqn(p, l, h))] = p[h - 1]
           /\ Seqn(p, l, h - 1) = SubSeq(Seqn(p, l, h), 1, Len(Seqn(p, l, h)) - 1)
<1> DEFINE s == Seqn(p, l, h)
<1>1. s \in Seq(Threads) /\ Len(s) = h - l /\ h - l \in Nat \ {0}
  BY SeqnIsSeq
<1>2. Seqn(p, l, h - 1) \in Seq(Threads) /\ Len(Seqn(p, l, h - 1)) = h - 1 - l
  BY SeqnIsSeq
<1>3. s[h - l] = p[h - 1]
  BY <1>1 DEF Seqn
<1>4. ASSUME NEW i \in 1 .. (h - 1 - l)
      PROVE  Seqn(p, l, h - 1)[i] = s[i]
  BY DEF Seqn
<1> HIDE DEF s
<1>5. SubSeq(s, 1, Len(s) - 1) = [i \in 1 .. (h - 1 - l) |-> s[i]]
  BY <1>1
<1>6. Seqn(p, l, h - 1) = SubSeq(s, 1, Len(s) - 1)
  BY <1>2, <1>4, <1>5
<1>7. s # << >>
  BY <1>1
<1> QED BY <1>1, <1>3, <1>6, <1>7 DEF s

LEMMA SeqnTake ==
    ASSUME NEW p, NEW l \in Int, NEW h \in Int, l < h,
           \A i \in l .. (h - 1) : p[i] \in Threads
    PROVE  /\ Seqn(p, l, h) # << >>
           /\ Head(Seqn(p, l, h)) = p[l]
           /\ Seqn(p, l + 1, h) = Tail(Seqn(p, l, h))
<1> DEFINE s == Seqn(p, l, h)
<1>1. s \in Seq(Threads) /\ Len(s) = h - l /\ h - l \in Nat \ {0}
  BY SeqnIsSeq
<1>2. Seqn(p, l + 1, h) \in Seq(Threads) /\ Len(Seqn(p, l + 1, h)) = h - l - 1
  BY SeqnIsSeq
<1>3. s[1] = p[l]
  BY <1>1 DEF Seqn
<1>4. ASSUME NEW i \in 1 .. (h - l - 1)
      PROVE  Seqn(p, l + 1, h)[i] = s[i + 1]
  BY DEF Seqn
<1> HIDE DEF s
<1>5. s # << >> /\ Tail(s) \in Seq(Threads) /\ Len(Tail(s)) = h - l - 1
  BY <1>1
<1>6. \A i \in 1 .. (h - l - 1) : Tail(s)[i] = s[i + 1]
  BY <1>1, <1>5
<1>7. Seqn(p, l + 1, h) = Tail(s)
  BY <1>2, <1>4, <1>5, <1>6
<1> QED BY <1>1, <1>3, <1>5, <1>7 DEF s

LEMMA SeqnPass ==
    ASSUME NEW p, NEW l \in Int, NEW h \in Int, l <= h,
           \A i \in (l - 1) .. (h - 1) : p[i] \in Threads
    PROVE  Seqn(p, l - 1, h) = <<p[l - 1]>> \o Seqn(p, l, h)
<1> DEFINE s == Seqn(p, l, h)
           r == Seqn(p, l - 1, h)
<1>1. s \in Seq(Threads) /\ Len(s) = h - l /\ h - l \in Nat
  BY SeqnIsSeq
<1>2. r \in Seq(Threads) /\ Len(r) = h - l + 1
  BY SeqnIsSeq
<1>3. r[1] = p[l - 1] /\ \A i \in 2 .. (h - l + 1) : r[i] = s[i - 1]
  BY <1>1 DEF Seqn
<1> HIDE DEF s, r
<1>4. p[l - 1] \in Threads
  OBVIOUS
<1>5. /\ <<p[l - 1]>> \o s \in Seq(Threads)
      /\ Len(<<p[l - 1]>> \o s) = h - l + 1
      /\ \A i \in 1 .. (h - l + 1) :
             (<<p[l - 1]>> \o s)[i] = IF i = 1 THEN p[l - 1] ELSE s[i - 1]
  BY <1>1, <1>4
<1>6. r = <<p[l - 1]>> \o s
  BY <1>2, <1>3, <1>5
<1> QED BY <1>6 DEF s, r

-----------------------------------------------------------------------------
(* The abstract state: the window, and what the workers have out           *)

\* What worker w has out: its hand, and the slot it has won.
OutOf(w) == IF pc[w] \in {"pop_fast", "take_get"} THEN hand[w] \cup {ptr[idx[w]]}
                                                  ELSE hand[w]

RQVars == <<Contents, Out>>

LEMMA ContentsIs == Contents = Seqn(ptr, Lo, Hi)
BY DEF Contents, Seqn

LEMMA OutIs == Out = [w \in Workers |-> OutOf(w)]
BY DEF Out, OutOf

\* The window is one of slots that hold threads; a slot that a thief has won
\* is below it, one that the owner has won is above.
LEMMA Window ==
    ASSUME IInv
    PROVE  /\ Lo \in Int /\ Hi \in Int /\ 0 <= Lo /\ Lo <= Hi /\ Hi <= Size
           /\ \A i \in Lo .. (Hi - 1) : ptr[i] \in Threads
           /\ \A w \in Workers : pc[w] = "take_get" => idx[w] = Lo - 1 /\ Lo = base
           /\ pc[Owner] = "pop_fast" => idx[Owner] = Hi /\ Hi = top
<1> USE OwnerAssumption, SizeAssumption DEF IInv, Bounds
<1>1. Lo \in Int /\ Hi \in Int
  BY DEF TypeOK, Lo, Hi
<1>2. ASSUME NEW w \in Workers, pc[w] = "take_get"
      PROVE  Stealing /\ ~Claiming /\ idx[w] = base - 1 /\ Lo = base
  BY <1>2, OneHolder DEF HolderOK, Stealing, Claiming, LockPCs, Lo, TypeOK
<1>3. pc[Owner] = "pop_fast" => idx[Owner] = Hi /\ Hi = top
  BY DEF OwnerOK, Popping, Hi
<1>4. Lo .. (Hi - 1) \subseteq Occupied
  <2>1. CASE Stealing
    BY <1>1, <1>2, <1>3, <2>1 DEF Stealing, Occupied, TypeOK
  <2>2. CASE ~Stealing
    BY <1>1, <1>3, <2>2 DEF Occupied, TypeOK
  <2> QED BY <2>1, <2>2
<1>5. \A i \in Lo .. (Hi - 1) : ptr[i] \in Threads
  BY <1>4 DEF ContentsOK, Consistent
<1> QED BY <1>1, <1>2, <1>3, <1>5 DEF WindowOK

\* A step that leaves the window and what is in it alone, ...
LEMMA ContentsSame ==
    ASSUME IInv, Lo' = Lo, Hi' = Hi, \A i \in Lo .. (Hi - 1) : ptr'[i] = ptr[i]
    PROVE  Contents' = Contents
<1>1. Contents' = Seqn(ptr', Lo', Hi')
  BY DEF Contents, Seqn
<1>2. Seqn(ptr', Lo, Hi) = Seqn(ptr, Lo, Hi)
  BY Window, SeqnSame
<1> QED BY <1>1, <1>2, ContentsIs

\* ... one that leaves alone what the workers have out, ...
LEMMA OutSame ==
    ASSUME \A w \in Workers : OutOf(w)' = OutOf(w)
    PROVE  Out' = Out
<1>1. Out' = [w \in Workers |-> OutOf(w)']
  BY DEF Out, OutOf
<1> QED BY <1>1, OutIs

\* ... and one that changes what one of them has.
LEMMA OutChanges ==
    ASSUME NEW w \in Workers, NEW S, OutOf(w)' = S,
           \A v \in Workers \ {w} : OutOf(v)' = OutOf(v)
    PROVE  Out' = [Out EXCEPT ![w] = S]
<1>1. Out' = [v \in Workers |-> OutOf(v)']
  BY DEF Out, OutOf
<1>2. \A v \in Workers : Out'[v] = [Out EXCEPT ![w] = S][v]
  BY <1>1, OutIs
<1>3. [Out EXCEPT ![w] = S] = [v \in Workers |-> [Out EXCEPT ![w] = S][v]]
  BY OutIs
<1> QED BY <1>1, <1>2, <1>3

\* Enqueueing and dequeueing at the two ends.
LEMMA IsPush ==
    ASSUME IInv, NEW th \in Threads, Lo' = Lo, Hi' = Hi + 1, ptr' = ptr, ptr[Hi] = th,
           th \in OutOf(Owner), OutOf(Owner)' = OutOf(Owner) \ {th},
           \A v \in Workers \ {Owner} : OutOf(v)' = OutOf(v)
    PROVE  RQ!Push(th)
<1> USE OwnerAssumption
<1>1. Contents' = Seqn(ptr', Lo', Hi')
  BY DEF Contents, Seqn
<1>2. \A i \in Lo .. Hi : ptr[i] \in Threads
  BY Window
<1>3. Contents' = Append(Contents, th)
  BY <1>1, <1>2, Window, SeqnAppend, ContentsIs
<1>4. Out' = [Out EXCEPT ![Owner] = @ \ {th}] /\ th \in Out[Owner]
  BY OutChanges, OutIs
<1> QED BY <1>3, <1>4 DEF RQ!Push, RQ!Insert

LEMMA IsPop ==
    ASSUME IInv, Lo' = Lo, Hi' = Hi - 1, Lo < Hi,
           \A i \in Lo .. (Hi - 2) : ptr'[i] = ptr[i],
           OutOf(Owner)' = OutOf(Owner) \cup {ptr[Hi - 1]},
           \A v \in Workers \ {Owner} : OutOf(v)' = OutOf(v)
    PROVE  RQ!Pop
<1> USE OwnerAssumption
<1>1. Contents' = Seqn(ptr', Lo', Hi')
  BY DEF Contents, Seqn
<1>2. Seqn(ptr', Lo, Hi - 1) = Seqn(ptr, Lo, Hi - 1)
  BY Window, SeqnSame
<1>3. /\ Contents # << >>
      /\ Contents[Len(Contents)] = ptr[Hi - 1]
      /\ Contents' = SubSeq(Contents, 1, Len(Contents) - 1)
  BY <1>1, <1>2, Window, SeqnPop, ContentsIs
<1>4. Out' = [Out EXCEPT ![Owner] = @ \cup {ptr[Hi - 1]}]
  BY OutChanges, OutIs
<1> QED BY <1>3, <1>4 DEF RQ!Pop, RQ!Remove

LEMMA IsTake ==
    ASSUME IInv, NEW w \in Workers, Lo' = Lo + 1, Hi' = Hi, Lo < Hi, ptr' = ptr,
           OutOf(w)' = OutOf(w) \cup {ptr[Lo]},
           \A v \in Workers \ {w} : OutOf(v)' = OutOf(v)
    PROVE  RQ!Take(w)
<1>1. Contents' = Seqn(ptr', Lo', Hi')
  BY DEF Contents, Seqn
<1>2. Contents # << >> /\ Head(Contents) = ptr[Lo] /\ Contents' = Tail(Contents)
  BY <1>1, Window, SeqnTake, ContentsIs
<1>3. Out' = [Out EXCEPT ![w] = @ \cup {ptr[Lo]}]
  BY OutChanges, OutIs
<1> QED BY <1>2, <1>3 DEF RQ!Take, RQ!Remove

\* The window may be moved first, by d slots.
LEMMA IsPass ==
    ASSUME IInv, NEW w \in Workers, NEW th \in Threads, NEW d \in Int,
           Lo' = Lo + d - 1, Hi' = Hi + d, MovedBy(Lo, Hi - 1, d, ptr, ptr'),
           ptr'[Lo'] = th,
           th \in OutOf(w), OutOf(w)' = OutOf(w) \ {th},
           \A v \in Workers \ {w} : OutOf(v)' = OutOf(v)
    PROVE  RQ!Pass(w, th)
<1>1. Contents' = Seqn(ptr', Lo', Hi')
  BY DEF Contents, Seqn
<1>2. Seqn(ptr', Lo + d, Hi + d) = Contents
  BY Window, SeqnMoved, ContentsIs
<1>3. \A i \in (Lo + d) .. (Hi + d - 1) : ptr'[i] \in Threads
  BY Window DEF MovedBy
<1>4. \A i \in (Lo + d - 1) .. (Hi + d - 1) : ptr'[i] \in Threads
  BY <1>3, Window
<1>5. Contents' = <<th>> \o Contents
  <2> DEFINE l == Lo + d
             h == Hi + d
  <2>1. /\ l \in Int /\ h \in Int /\ l <= h
        /\ Lo' = l - 1 /\ Hi' = h
        /\ \A i \in (l - 1) .. (h - 1) : ptr'[i] \in Threads
    BY <1>4, Window
  <2>2. Contents = Seqn(ptr', l, h)
    BY <1>2
  <2> HIDE DEF l, h
  <2>3. Seqn(ptr', l - 1, h) = <<ptr'[l - 1]>> \o Seqn(ptr', l, h)
    BY <2>1, SeqnPass
  <2> QED BY <1>1, <2>1, <2>2, <2>3
<1>6. Out' = [Out EXCEPT ![w] = @ \ {th}] /\ th \in Out[w]
  BY OutChanges, OutIs
<1> QED BY <1>5, <1>6 DEF RQ!Pass, RQ!Insert

-----------------------------------------------------------------------------
(* The steps that change nothing the specification sees                    *)

LEMMA Unseen ==
    ASSUME IInv, Lo' = Lo, Hi' = Hi, \A i \in Lo .. (Hi - 1) : ptr'[i] = ptr[i],
           \A w \in Workers : OutOf(w)' = OutOf(w)
    PROVE  UNCHANGED RQVars
BY ContentsSame, OutSame DEF RQVars

\* Nothing changes but the program counter of a worker w, and its locals, ...
LEMMA UnseenFrame ==
    ASSUME IInv, NEW w \in Workers, UNCHANGED <<top, base, ptr, hand>>,
           \A v \in Workers : v # w => pc'[v] = pc[v] /\ idx'[v] = idx[v],
           pc[w] \notin {"pop_fast", "take_get"}, pc'[w] \notin {"pop_fast", "take_get"},
           Claiming' <=> Claiming, Popping' <=> Popping
    PROVE  UNCHANGED RQVars
<1>1. Lo' = Lo /\ Hi' = Hi
  BY DEF Lo, Hi
<1>2. \A v \in Workers : OutOf(v)' = OutOf(v)
  BY DEF OutOf
<1> QED BY <1>1, <1>2, Unseen

LEMMA QuietUnseen ==
    ASSUME IInv, NEW w \in Workers, QuietStep(w) \/ LockStep(w)
    PROVE  UNCHANGED RQVars
<1> USE OwnerAssumption
    DEF IInv, Bounds, QuietStep, LockStep, Goto, Return, PushBegin, PutBegin,
        PushOverflow, PopLooksEmpty, PopBegin, PutOverflow, TakeBegin,
        TakeLooksEmpty, TakeTry, PushLock, PopLock, PutLock, TakeLock, PassBegin
<1>1. UNCHANGED <<top, base, ptr, hand>>
  OBVIOUS
<1>2. \A v \in Workers : v # w => pc'[v] = pc[v] /\ idx'[v] = idx[v]
  BY DEF TypeOK
<1>3. pc[w] \notin {"pop_fast", "take_get"} /\ pc'[w] \notin {"pop_fast", "take_get"}
  BY DEF TypeOK
<1>4. (Claiming' <=> Claiming) /\ (Popping' <=> Popping)
  BY DEF TypeOK, Claiming, Popping
<1> HIDE DEF IInv
<1> QED BY <1>1, <1>2, <1>3, <1>4, UnseenFrame

\* ... top goes down, but the owner has not yet won the slot, ...
LEMMA PopDecrementUnseen == ASSUME IInv, PopDecrement PROVE UNCHANGED RQVars
<1> USE OwnerAssumption DEF PopDecrement, Goto
<1>1. Lo' = Lo /\ Hi' = Hi
  BY DEF IInv, Bounds, TypeOK, Claiming, Popping, Lo, Hi
<1>2. \A v \in Workers : OutOf(v)' = OutOf(v)
  BY DEF IInv, Bounds, TypeOK, OutOf
<1> QED BY <1>1, <1>2, Unseen

\* ... base goes up and down again, but the thief has not won the slot, ...
LEMMA TakeClaimUnseen ==
    ASSUME IInv, NEW w \in Workers, TakeIncrement(w) \/ TakeUndo(w)
    PROVE  UNCHANGED RQVars
<1> USE OwnerAssumption
<1>1. (Popping' <=> Popping) /\ top' = top /\ ptr' = ptr
  BY DEF IInv, Bounds, TypeOK, Popping, TakeIncrement, TakeUndo, Return, Goto
<1>2. Lo' = Lo /\ Hi' = Hi
  <2>1. Hi' = Hi
    BY <1>1 DEF Hi
  <2>2. CASE TakeIncrement(w)
    <3>1. ~Claiming /\ Claiming' /\ base' = base + 1 /\ base \in Int
      BY <2>2, OneHolder
         DEF TakeIncrement, Goto, IInv, Bounds, TypeOK, Claiming, LockPCs
    <3> QED BY <2>1, <3>1 DEF Lo
  <2>3. CASE TakeUndo(w)
    <3>1. Claiming /\ ~Claiming' /\ base' = base - 1 /\ base \in Int
      BY <2>3, OneHolder
         DEF TakeUndo, Return, Goto, IInv, Bounds, TypeOK, HolderOK, Claiming, LockPCs
    <3> QED BY <2>1, <3>1 DEF Lo
  <2> QED BY <2>2, <2>3
<1>3. \A v \in Workers : OutOf(v)' = OutOf(v)
  BY DEF TakeIncrement, TakeUndo, Return, Goto, IInv, Bounds, TypeOK, OutOf
<1> QED BY <1>1, <1>2, <1>3, Unseen

\* ... or a slot outside of the window is written.
LEMMA StoreUnseen ==
    ASSUME IInv, NEW w \in Workers, (w = Owner /\ PushStore) \/ PassStore(w)
    PROVE  UNCHANGED RQVars
<1> USE OwnerAssumption
<1>1. /\ Claiming' <=> Claiming
      /\ Popping' <=> Popping
      /\ UNCHANGED <<top, base, hand, idx>>
      /\ pc' = [pc EXCEPT ![w] = pc'[w]]
      /\ pc[w] \notin {"pop_fast", "take_get"} /\ pc'[w] \notin {"pop_fast", "take_get"}
  BY DEF PushStore, PassStore, Goto, IInv, Bounds, TypeOK, Claiming, Popping
<1>2. Lo' = Lo /\ Hi' = Hi
  BY <1>1 DEF Lo, Hi
<1>3. CASE w = Owner /\ PushStore
  <2>1. idx[Owner] = Hi /\ ptr' = [ptr EXCEPT ![Hi] = arg[Owner]]
    BY <1>3 DEF PushStore, Goto, IInv, Bounds, OwnerOK, Popping, Hi
  <2>2. \A i \in Slots : i < Hi => ptr'[i] = ptr[i]
    BY <2>1, Window DEF IInv, Bounds, TypeOK, Slots
  <2>3. \A i \in Lo .. (Hi - 1) : ptr'[i] = ptr[i]
    BY <2>1, Window
  <2>4. \A v \in Workers : OutOf(v)' = OutOf(v)
    <3>1. \A v \in Workers : pc[v] = "take_get" => ptr'[idx[v]] = ptr[idx[v]]
      BY <2>1, Window
    <3>2. \A v \in Workers : pc[v] = "pop_fast" => v = Owner
      BY DEF IInv, Bounds, TypeOK, AnyPCs
    <3> QED BY <1>1, <1>3, <3>1, <3>2 DEF OutOf, IInv, Bounds, TypeOK
  <2> QED BY <1>2, <2>3, <2>4, Unseen
<1>4. CASE PassStore(w)
  <2>1. Lo = base /\ ptr' = [ptr EXCEPT ![Lo - 1] = arg[w]]
        /\ \A v \in Workers : pc[v] # "take_get"
    BY <1>4, OneHolder DEF PassStore, Goto, IInv, Bounds, Claiming, Lo, LockPCs
  <2>2. \A i \in Lo .. (Hi - 1) : ptr'[i] = ptr[i]
    BY <2>1, Window
  <2>3. \A v \in Workers : OutOf(v)' = OutOf(v)
    <3>1. pc[Owner] = "pop_fast" => ptr'[idx[Owner]] = ptr[idx[Owner]]
      BY <2>1, Window
    <3>2. \A v \in Workers : pc[v] = "pop_fast" => v = Owner
      BY DEF IInv, Bounds, TypeOK, AnyPCs
    <3>3. pc \in [Workers -> OwnerPCs \cup AnyPCs]
      BY DEF IInv, Bounds, TypeOK
    <3>4. ASSUME NEW v \in Workers
          PROVE  OutOf(v)' = OutOf(v)
      <4>1. CASE v = w
        BY <1>1, <3>3, <4>1 DEF OutOf
      <4>2. CASE v # w
        <5>1. pc'[v] = pc[v]
          BY <1>1, <3>3, <4>2
        <5>2. pc[v] = "pop_fast" => ptr'[idx[v]] = ptr[idx[v]]
          BY <3>1, <3>2
        <5> QED BY <1>1, <2>1, <5>1, <5>2 DEF OutOf
      <4> QED BY <4>1, <4>2
    <3> QED BY <3>4
  <2> QED BY <1>2, <2>2, <2>3, Unseen
<1> QED BY <1>3, <1>4

\* The window is moved to make room.
LEMMA PushShiftUnseen == ASSUME IInv, PushShift PROVE UNCHANGED RQVars
<1> USE OwnerAssumption, SizeAssumption DEF PushShift, MoveWindow, Goto
<1> DEFINE d == -((base + 1) \div 2)
<1>1. ~Claiming /\ ~Popping /\ ~Claiming' /\ ~Popping' /\ base <= Size /\ top = Size
  BY OneHolder
     DEF IInv, Bounds, TypeOK, WindowOK, OwnerOK, Lo, Hi, Claiming, Popping, LockPCs
<1>2. d \in Int /\ 0 <= base + d /\ d <= 0
  BY <1>1 DEF IInv, Bounds, TypeOK
<1>3. ptr' = Shifted(d) /\ top' = top + d /\ base' = base + d
  OBVIOUS
<1> HIDE DEF d
<1>4. Lo = base /\ Hi = top /\ Lo' = Lo + d /\ Hi' = Hi + d
  BY <1>1, <1>3 DEF Lo, Hi
<1>5. MovedBy(Lo, Hi - 1, d, ptr, ptr')
  BY <1>1, <1>2, <1>3, <1>4, ShiftedWindow DEF IInv, Bounds
<1>6. Contents' = Contents
  <2>1. Contents' = Seqn(ptr', Lo + d, Hi + d)
    BY <1>4 DEF Contents, Seqn
  <2> QED BY <1>2, <1>5, <2>1, Window, SeqnMoved, ContentsIs
<1>7. \A v \in Workers : OutOf(v)' = OutOf(v)
  <2>1. \A v \in Workers : pc[v] \notin {"pop_fast", "take_get"}
    BY OneHolder DEF IInv, Bounds, TypeOK, LockPCs, AnyPCs
  <2>2. \A v \in Workers : pc'[v] \notin {"pop_fast", "take_get"}
    BY <2>1 DEF IInv, Bounds, TypeOK
  <2> QED BY <2>1, <2>2 DEF OutOf
<1> QED BY <1>6, <1>7, OutSame DEF RQVars

\* After a pop that found the slot gone the queue is as empty as before.
LEMMA PopResetUnseen == ASSUME IInv, PopReset PROVE UNCHANGED RQVars
<1> USE OwnerAssumption, SizeAssumption DEF PopReset, Return, Goto
<1>1. ~Claiming /\ Popping /\ ~Claiming' /\ ~Popping' /\ idx[Owner] = top
  BY OneHolder DEF IInv, Bounds, TypeOK, OwnerOK, Claiming, Popping, LockPCs
<1>2. /\ Hi - Lo \in Int /\ Hi - Lo <= 0
      /\ Hi' - Lo' = 0
  BY <1>1 DEF IInv, Bounds, TypeOK, Lo, Hi, Middle
<1>3. Contents' = Contents
  <2>1. 1 .. (Hi - Lo) = {} /\ 1 .. (Hi' - Lo') = {}
    BY <1>2
  <2> QED BY <2>1 DEF Contents
<1>4. \A v \in Workers : OutOf(v)' = OutOf(v)
  BY DEF IInv, Bounds, TypeOK, OutOf
<1> QED BY <1>3, <1>4, OutSame DEF RQVars

-----------------------------------------------------------------------------
(* The step of each operation that takes effect                            *)

LEMMA PushPublishPushes == ASSUME IInv, PushPublish PROVE RQ!Push(arg[Owner])
<1> USE OwnerAssumption DEF PushPublish, Return, Goto, Enqueued
<1>1. /\ idx[Owner] = top /\ ptr[top] = arg[Owner]
      /\ arg[Owner] \in hand[Owner] /\ arg[Owner] \in Threads
  BY DEF IInv, Bounds, TypeOK, OwnerOK, ArgOK, EnqueuePCs
<1>2. Lo' = Lo /\ Hi = top /\ Hi' = Hi + 1
  BY <1>1 DEF IInv, Bounds, TypeOK, Claiming, Popping, Lo, Hi
<1>3. /\ OutOf(Owner) = hand[Owner]
      /\ OutOf(Owner)' = OutOf(Owner) \ {arg[Owner]}
      /\ \A v \in Workers \ {Owner} : OutOf(v)' = OutOf(v)
  BY DEF IInv, Bounds, TypeOK, OutOf
<1> QED BY <1>1, <1>2, <1>3, IsPush

LEMMA PopReadBasePops == ASSUME IInv, PopReadBase PROVE RQ!Pop \/ UNCHANGED RQVars
<1> USE OwnerAssumption DEF PopReadBase, Goto
<1>1. idx[Owner] = top /\ Popping /\ Hi = top + 1 /\ (Claiming' <=> Claiming)
  BY DEF IInv, Bounds, TypeOK, OwnerOK, Claiming, Popping, Hi
<1>2. CASE base + 1 < idx[Owner]
  <2>1. Lo' = Lo /\ Hi' = Hi - 1 /\ Lo < Hi
    BY <1>1, <1>2 DEF IInv, Bounds, TypeOK, Popping, Lo, Hi
  <2>2. /\ OutOf(Owner)' = OutOf(Owner) \cup {ptr[Hi - 1]}
        /\ \A v \in Workers \ {Owner} : OutOf(v)' = OutOf(v)
    BY <1>1, <1>2 DEF IInv, Bounds, TypeOK, OutOf
  <2> QED BY <2>1, <2>2, IsPop
<1>3. CASE ~(base + 1 < idx[Owner])
  <2>1. Popping'
    BY <1>3 DEF IInv, Bounds, TypeOK, Popping
  <2> QED BY <1>1, <1>3, <2>1, UnseenFrame DEF IInv, Bounds, TypeOK
<1> QED BY <1>2, <1>3

\* The owner has what it has won, and so has the thief.
LEMMA WonIsOut ==
    ASSUME IInv, NEW w \in Workers, (w = Owner /\ PopFast) \/ TakeGet(w)
    PROVE  UNCHANGED RQVars
<1> USE OwnerAssumption DEF PopFast, TakeGet, Return, Goto, Dequeued
<1>1. Lo' = Lo /\ Hi' = Hi
  BY OneHolder DEF IInv, Bounds, TypeOK, Claiming, Popping, LockPCs, Lo, Hi
<1>2. \A v \in Workers : OutOf(v)' = OutOf(v)
  BY DEF IInv, Bounds, TypeOK, OutOf
<1> QED BY <1>1, <1>2, Unseen

LEMMA PopLockedPops == ASSUME IInv, PopLocked PROVE RQ!Pop
<1> USE OwnerAssumption DEF PopLocked, Return, Goto, Dequeued
<1>1. ~Claiming /\ Popping /\ ~Claiming' /\ ~Popping' /\ idx[Owner] = top
  BY OneHolder DEF IInv, Bounds, TypeOK, OwnerOK, Claiming, Popping, LockPCs
<1>2. Lo' = Lo /\ Hi = top + 1 /\ Hi' = Hi - 1 /\ Lo < Hi
  BY <1>1 DEF IInv, Bounds, TypeOK, Lo, Hi
<1>3. \A i \in Lo .. (Hi - 2) : ptr'[i] = ptr[i]
  BY <1>1, <1>2, Window DEF IInv, Bounds, TypeOK, Slots
<1>4. \A v \in Workers : pc[v] \notin {"pop_fast", "take_get"}
  BY OneHolder DEF IInv, Bounds, TypeOK, LockPCs, AnyPCs
<1>5. /\ OutOf(Owner)' = OutOf(Owner) \cup {ptr[Hi - 1]}
      /\ \A v \in Workers \ {Owner} : OutOf(v)' = OutOf(v)
  BY <1>1, <1>2, <1>4 DEF IInv, Bounds, TypeOK, OutOf
<1> QED BY <1>2, <1>3, <1>5, IsPop

LEMMA TakeReadTopTakes ==
    ASSUME IInv, NEW w \in Workers, TakeReadTop(w)
    PROVE  RQ!Take(w) \/ UNCHANGED RQVars
<1> USE OwnerAssumption DEF TakeReadTop, Goto
<1>1. /\ Claiming /\ Lo = idx[w] /\ base = idx[w] + 1
      /\ Popping' <=> Popping
  BY DEF IInv, Bounds, TypeOK, HolderOK, Claiming, Popping, Lo
<1>2. CASE idx[w] < top
  <2>1. ~Claiming'
    BY <1>2, OneHolder DEF IInv, Bounds, TypeOK, Claiming, LockPCs
  <2>2. Lo' = Lo + 1 /\ Hi' = Hi /\ Lo < Hi
    BY <1>1, <1>2, <2>1 DEF IInv, Bounds, TypeOK, Lo, Hi
  <2>3. /\ OutOf(w)' = OutOf(w) \cup {ptr[Lo]}
        /\ \A v \in Workers \ {w} : OutOf(v)' = OutOf(v)
    BY <1>1, <1>2 DEF IInv, Bounds, TypeOK, OutOf
  <2> QED BY <2>2, <2>3, IsTake
<1>3. CASE ~(idx[w] < top)
  <2>1. Claiming'
    BY <1>3 DEF IInv, Bounds, TypeOK, Claiming
  <2> QED BY <1>1, <1>3, <2>1, UnseenFrame DEF IInv, Bounds, TypeOK
<1> QED BY <1>2, <1>3

LEMMA PassPublishPasses ==
    ASSUME IInv, NEW w \in Workers, PassPublish(w)
    PROVE  RQ!Pass(w, arg[w])
<1> USE OwnerAssumption DEF PassPublish, Return, Goto, Enqueued
<1>1. /\ ~Claiming /\ ~Claiming'
      /\ Popping' <=> Popping
      /\ ptr[base - 1] = arg[w] /\ arg[w] \in hand[w] /\ arg[w] \in Threads
      /\ \A v \in Workers : pc[v] # "take_get"
  BY OneHolder
     DEF IInv, Bounds, TypeOK, HolderOK, ArgOK, EnqueuePCs, Claiming, Popping, LockPCs
<1>2. Lo' = Lo + 0 - 1 /\ Hi' = Hi + 0 /\ ptr'[Lo'] = arg[w]
  BY <1>1 DEF IInv, Bounds, TypeOK, Lo, Hi
<1>3. MovedBy(Lo, Hi - 1, 0, ptr, ptr')
  BY Window DEF MovedBy
<1>4. /\ OutOf(w) = hand[w]
      /\ OutOf(w)' = OutOf(w) \ {arg[w]}
      /\ \A v \in Workers \ {w} : OutOf(v)' = OutOf(v)
  BY DEF IInv, Bounds, TypeOK, OutOf
<1> QED BY <1>1, <1>2, <1>3, <1>4, IsPass

LEMMA PutStorePasses == ASSUME IInv, PutStore PROVE RQ!Pass(Owner, arg[Owner])
<1> USE OwnerAssumption, SizeAssumption DEF PutStore, Return, Goto, Enqueued
<1> DEFINE d == IF base = 0 THEN (Size - top + 1) \div 2 ELSE 0
           k == base + d - 1
<1>1. /\ ~Claiming /\ ~Popping /\ ~Claiming' /\ ~Popping'
      /\ \A v \in Workers : pc[v] \notin {"pop_fast", "take_get"}
  BY OneHolder DEF IInv, Bounds, TypeOK, AnyPCs, Claiming, Popping, LockPCs
<1>2. d \in Int /\ 1 <= base + d /\ top + d <= Size /\ base <= top
  BY <1>1 DEF IInv, Bounds, TypeOK, WindowOK, Lo, Hi
<1>3. top' = top + d /\ base' = k /\ ptr' = [Shifted(d) EXCEPT ![k] = arg[Owner]]
  OBVIOUS
<1>4. arg[Owner] \in Threads /\ arg[Owner] \in hand[Owner]
  BY DEF IInv, Bounds, TypeOK, ArgOK, EnqueuePCs
<1> HIDE DEF d
<1>5. k \in Slots /\ k \in Int /\ k < base + d
  BY <1>2 DEF IInv, Bounds, TypeOK, Slots
<1>6. /\ Shifted(d) \in [Slots -> Threads \cup {NULL}]
      /\ MovedBy(base, top - 1, d, ptr, Shifted(d))
  <2>1. 0 <= base + d
    BY <1>2 DEF IInv, Bounds, TypeOK
  <2> QED BY <1>2, <2>1, ShiftedWindow DEF IInv, Bounds
<1>7. Lo = base /\ Hi = top /\ Lo' = Lo + d - 1 /\ Hi' = Hi + d /\ Lo' = k
  BY <1>1, <1>3 DEF Lo, Hi
<1> HIDE DEF k
<1>8. ptr'[k] = arg[Owner] /\ \A i \in Slots : i # k => ptr'[i] = Shifted(d)[i]
  BY <1>3, <1>5, <1>6
<1>9. MovedBy(Lo, Hi - 1, d, ptr, ptr')
  <2>1. \A i \in (base + d) .. (top - 1 + d) : i \in Slots /\ i # k
    BY <1>2, <1>5 DEF IInv, Bounds, TypeOK, Slots
  <2> QED BY <1>6, <1>7, <1>8, <2>1 DEF MovedBy
<1>10. /\ OutOf(Owner) = hand[Owner]
       /\ OutOf(Owner)' = OutOf(Owner) \ {arg[Owner]}
       /\ \A v \in Workers \ {Owner} : OutOf(v)' = OutOf(v)
  BY <1>1 DEF IInv, Bounds, TypeOK, OutOf
<1> QED BY <1>2, <1>4, <1>7, <1>8, <1>9, <1>10, IsPass

-----------------------------------------------------------------------------
LEMMA InitMaps == Init => RQ!Init
<1> SUFFICES ASSUME Init PROVE RQ!Init
  OBVIOUS
<1> USE OwnerAssumption, SizeAssumption DEF Init
<1>1. Hi - Lo = 0
  BY DEF Lo, Hi, Claiming, Popping, Middle
<1>2. Contents = << >>
  BY <1>1 DEF Contents
<1>3. Out = [w \in Workers |-> IF w = Owner THEN Threads ELSE {}]
  BY DEF Out
<1> QED BY <1>2, <1>3 DEF RQ!Init

LEMMA NextMaps == IInv /\ [Next]_vars => [RQ!Next]_RQ!vars
<1> SUFFICES ASSUME IInv, [Next]_vars PROVE RQ!Next \/ UNCHANGED RQVars
  BY DEF RQVars, RQ!vars
<1>1. CASE UNCHANGED vars
  <2>1. Contents' = Contents /\ Out' = Out
    BY <1>1 DEF vars, Contents, Out, Lo, Hi, Claiming, Popping
  <2> QED BY <2>1 DEF RQVars
<1>2. CASE OwnerStep
  <2> USE OwnerAssumption
  <2>1. ASSUME NEW th \in Threads, PushBegin(th) \/ PutBegin(th) PROVE UNCHANGED RQVars
    BY <2>1, QuietUnseen DEF QuietStep
  <2>2. CASE \/ PushOverflow \/ PopLooksEmpty \/ PopBegin \/ PutOverflow
             \/ PushLock \/ PopLock \/ PutLock
    BY <2>2, QuietUnseen DEF QuietStep, LockStep
  <2>3. CASE PushShift \/ PushStore \/ PopDecrement \/ PopFast \/ PopReset
    BY <2>3, PushShiftUnseen, StoreUnseen, PopDecrementUnseen, WonIsOut, PopResetUnseen
  <2>4. CASE PushPublish
    <3>1. arg[Owner] \in Threads
      BY <2>4 DEF PushPublish, Return, Goto, IInv, Bounds, TypeOK, ArgOK, EnqueuePCs
    <3> QED BY <2>4, <3>1, PushPublishPushes DEF RQ!Next
  <2>5. CASE PopReadBase \/ PopLocked
    BY <2>5, PopReadBasePops, PopLockedPops DEF RQ!Next
  <2>6. CASE PutStore
    <3>1. arg[Owner] \in Threads
      BY <2>6 DEF PutStore, Return, Goto, IInv, Bounds, TypeOK, ArgOK, EnqueuePCs
    <3> QED BY <2>6, <3>1, PutStorePasses DEF RQ!Next
  <2> QED BY <1>2, <2>1, <2>2, <2>3, <2>4, <2>5, <2>6 DEF OwnerStep
<1>3. ASSUME NEW w \in Workers, TakeStep(w) PROVE RQ!Next \/ UNCHANGED RQVars
  <2>1. CASE TakeBegin(w) \/ TakeLooksEmpty(w) \/ TakeTry(w) \/ TakeLock(w)
    BY <2>1, QuietUnseen DEF QuietStep, LockStep
  <2>2. CASE TakeIncrement(w) \/ TakeGet(w) \/ TakeUndo(w)
    BY <2>2, TakeClaimUnseen, WonIsOut
  <2>3. CASE TakeReadTop(w)
    BY <2>3, TakeReadTopTakes DEF RQ!Next
  <2> QED BY <1>3, <2>1, <2>2, <2>3 DEF TakeStep
<1>4. ASSUME NEW w \in Workers, PassStep(w) PROVE RQ!Next \/ UNCHANGED RQVars
  <2>1. ASSUME NEW th \in Threads, PassBegin(w, th) PROVE UNCHANGED RQVars
    BY <2>1, QuietUnseen DEF LockStep
  <2>2. CASE PassStore(w)
    BY <2>2, StoreUnseen
  <2>3. CASE PassPublish(w)
    <3>1. arg[w] \in Threads
      BY <2>3 DEF PassPublish, Return, Goto, IInv, Bounds, TypeOK, ArgOK, EnqueuePCs
    <3> QED BY <2>3, <3>1, PassPublishPasses DEF RQ!Next
  <2> QED BY <1>4, <2>1, <2>2, <2>3 DEF PassStep
<1> QED BY <1>1, <1>2, <1>3, <1>4 DEF Next

(***************************************************************************)
(* The run queue is linearizable: what push, pop, put, take and trypass do *)
(* with top, base and the array, mostly without the lock, is what the      *)
(* atomic operations of RunQueue do with a sequence.  The owner gets the   *)
(* newest thread, a thief the oldest.                                      *)
(***************************************************************************)
THEOREM Implements == Spec => ImplementsRunQueue
<1> QED BY InitMaps, NextMaps, Inductive, PTL DEF Spec, ImplementsRunQueue, RQ!Spec
=============================================================================
