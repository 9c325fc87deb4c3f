-------------------------- MODULE JoinCounterProofs --------------------------
(***************************************************************************)
(* The safety of the join counter, for any number of threads, workers and  *)
(* decrements, and any mix of threads that decrement, wait, do both or do  *)
(* neither.                                                                *)
(***************************************************************************)
EXTENDS JoinCounter, FiniteSetTheorems, WellFoundedInduction, TLAPS

\* The law of powers, which the provers do not have for a variable exponent.
\* It is the hypothesis of the theorems, and the only one.
PowerLaw == \A b \in Nat : 2^(b + 1) = 2 * 2^b

\* What is asked of calc_bits: the bits that it reserves for the number of
\* decrements can hold N, so that none of them spills into the waiters.
BitsSuffice == Unit \in Nat /\ N < Unit

ThreadPCs == {"idle", "wait_cas", "wait_block", "asleep", "dec_cas", "wake_dequeue"}

ShapeOK ==
    /\ \A th \in Threads : pc[th] \in ThreadPCs
    /\ batch \in [Threads -> Seq(Threads)]
    /\ todo \in [Threads -> SUBSET {"dec", "wait"}]

\* A thread that leaves a worker is asleep, and leaves one worker only.
LeavingOK ==
    \A w \in Workers :
        /\ pc[w] # "run" => leaving[w] # NULL
        /\ leaving[w] # NULL =>
               /\ pc[leaving[w]] = "asleep"
               /\ \A v \in Workers : leaving[v] = leaving[w] => v = w

\* So is a thread in the sleep queue: it is there once, and has left.
QueueOK ==
    \A i \in 1 .. Len(sleepq) :
        /\ pc[sleepq[i]] = "asleep"
        /\ \A j \in 1 .. Len(sleepq) : sleepq[j] = sleepq[i] => j = i
        /\ \A w \in Workers : leaving[w] # sleepq[i]

\* What a thread knows of its call, and of the state it has read.
CallsOK ==
    \A th \in Threads :
        /\ pc[th] \in {"dec_cas", "wake_dequeue"} => "dec" \in todo[th]
        /\ pc[th] = "wait_cas" => Decs(val[th]) # N
        /\ pc[th] = "dec_cas" => Decs(val[th]) < N

\* Nobody wakes before the last decrement, and nobody decrements after it.
WakingOK ==
    /\ Decs(state) <= N
    /\ Wakers # {} => Decs(state) = N

IInv ==
    /\ TypeOK /\ ShapeOK /\ LeavingOK /\ QueueOK /\ CallsOK /\ WakingOK
    /\ StateCounts /\ ReturnsWhenComplete

-----------------------------------------------------------------------------
(* calc_bits                                                               *)

LEMMA LeastElement ==
    ASSUME NEW T, T \subseteq Nat, T # {}
    PROVE  \E x \in T : \A y \in T : x <= y
<1> DEFINE R == OpToRel(<, Nat)
<1>1. IsWellFoundedOn(R, Nat)
  BY NatLessThanWellFounded
<1> HIDE DEF R
<1>2. PICK x \in T : \A y \in T : ~(<<y, x>> \in R)
  BY <1>1, WFMin
<1>3. \A y \in T : ~(y < x)
  BY <1>2 DEF R, OpToRel
<1> QED BY <1>3

LEMMA PowersGrow == ASSUME PowerLaw PROVE \A b \in Nat : 2^b \in Nat /\ b < 2^b
<1> DEFINE T == {b \in Nat : ~(2^b \in Nat /\ b < 2^b)}
<1>1. SUFFICES ASSUME T # {} PROVE FALSE
  OBVIOUS
<1>2. PICK x \in T : \A y \in T : x <= y
  BY <1>1, LeastElement
<1>3. CASE x = 0
  <2>1. 2^0 = 1
    OBVIOUS
  <2> QED BY <1>2, <1>3, <2>1
<1>4. CASE x # 0
  <2>1. PICK b \in Nat : x = b + 1 /\ b \notin T
    <3>1. x - 1 \in Nat /\ x = (x - 1) + 1 /\ x - 1 \notin T
      BY <1>2, <1>4
    <3> QED BY <3>1
  <2> DEFINE p == 2^b
             q == 2^x
  <2>2. p \in Nat /\ b < p /\ q = 2 * p
    BY <2>1 DEF PowerLaw
  <2> HIDE DEF p, q
  <2>3. q \in Nat /\ x < q
    BY <2>1, <2>2
  <2> QED BY <1>2, <2>3 DEF q
<1> QED BY <1>3, <1>4

(***************************************************************************)
(* calc_bits is right for every number: it finds enough bits, and no fewer *)
(* would do.                                                               *)
(***************************************************************************)
THEOREM CalcBitsRight ==
    ASSUME PowerLaw, NEW x \in Nat
    PROVE  /\ CalcBits(x) \in 0 .. x
           /\ 2^CalcBits(x) \in Nat /\ x < 2^CalcBits(x)
           /\ \A c \in 0 .. (CalcBits(x) - 1) : x >= 2^c
<1> DEFINE T == {b \in Nat : x < 2^b}
<1>1. T \subseteq Nat /\ x \in T
  BY PowersGrow
<1>2. PICK m \in T : \A y \in T : m <= y
  BY <1>1, LeastElement
<1>3. m \in 0 .. x /\ x < 2^m
  BY <1>1, <1>2
<1>4. ASSUME NEW c \in 0 .. (m - 1) PROVE x >= 2^c
  <2>1. c \in Nat /\ c \notin T
    BY <1>2, <1>3
  <2> DEFINE p == 2^c
  <2>2. p \in Nat /\ ~(x < p)
    BY <2>1, PowersGrow
  <2> HIDE DEF p
  <2>3. x >= p
    BY <2>2
  <2> QED BY <2>3 DEF p
<1>5. \E b \in 0 .. x : x < 2^b /\ \A c \in 0 .. (b - 1) : x >= 2^c
  BY <1>3, <1>4
<1>6. /\ CalcBits(x) \in 0 .. x /\ x < 2^CalcBits(x)
      /\ \A c \in 0 .. (CalcBits(x) - 1) : x >= 2^c
  BY <1>5 DEF CalcBits
<1> QED BY <1>6, PowersGrow

LEMMA EnoughBits == ASSUME PowerLaw PROVE BitsSuffice
BY CalcBitsRight, JoinCounterAssumption DEF BitsSuffice, Unit

-----------------------------------------------------------------------------
(* Arithmetic of the two numbers in one word                               *)

LEMMA DivMod ==
    ASSUME NEW u \in Nat \ {0}, NEW s \in Nat
    PROVE  s % u \in 0 .. (u - 1) /\ s \div u \in Nat /\ s = u * (s \div u) + (s % u)
OBVIOUS

LEMMA DivModUnique ==
    ASSUME NEW u \in Nat \ {0}, NEW q \in Nat, NEW r \in 0 .. (u - 1),
           NEW p \in Nat, NEW t \in 0 .. (u - 1), u * q + r = u * p + t
    PROVE  q = p /\ r = t
<1>1. CASE q < p
  <2>1. u * (p - q) >= u /\ u * (p - q) = u * p - u * q
    BY <1>1
  <2> QED BY <2>1
<1>2. CASE p < q
  <2>1. u * (q - p) >= u /\ u * (q - p) = u * q - u * p
    BY <1>2
  <2> QED BY <2>1
<1> QED BY <1>1, <1>2

\* One waiter more ...
LEMMA AddUnit ==
    ASSUME BitsSuffice, NEW s \in Nat
    PROVE  Decs(s + Unit) = Decs(s) /\ Announced(s + Unit) = Announced(s) + 1
<1> DEFINE q == s \div Unit
           r == s % Unit
           p == (s + Unit) \div Unit
           t == (s + Unit) % Unit
<1>1. Unit \in Nat \ {0} /\ s + Unit \in Nat
  BY JoinCounterAssumption DEF BitsSuffice
<1>2. q \in Nat /\ r \in 0 .. (Unit - 1) /\ s = Unit * q + r
  BY <1>1, DivMod
<1>3. p \in Nat /\ t \in 0 .. (Unit - 1) /\ s + Unit = Unit * p + t
  BY <1>1, DivMod
<1> HIDE DEF q, r, p, t
<1>4. Unit * (q + 1) + r = Unit * p + t
  <2>1. Unit * (q + 1) = Unit * q + Unit
    BY <1>1, <1>2
  <2> QED BY <1>1, <1>2, <1>3, <2>1
<1>5. q + 1 = p /\ r = t
  <2>1. q + 1 \in Nat
    BY <1>2
  <2> QED BY <1>1, <1>2, <1>3, <1>4, <2>1, DivModUnique
<1> QED BY <1>5 DEF Decs, Announced, q, r, p, t

\* ... and one decrement more, of the N that the bits can hold.
LEMMA AddOne ==
    ASSUME BitsSuffice, NEW s \in Nat, Decs(s) < N
    PROVE  Decs(s + 1) = Decs(s) + 1 /\ Announced(s + 1) = Announced(s)
<1> DEFINE q == s \div Unit
           r == s % Unit
           p == (s + 1) \div Unit
           t == (s + 1) % Unit
<1>1. Unit \in Nat \ {0} /\ s + 1 \in Nat /\ N \in Nat /\ N < Unit
  BY JoinCounterAssumption DEF BitsSuffice
<1>2. q \in Nat /\ r \in 0 .. (Unit - 1) /\ s = Unit * q + r /\ r < N
  BY <1>1, DivMod DEF Decs
<1>3. p \in Nat /\ t \in 0 .. (Unit - 1) /\ s + 1 = Unit * p + t
  BY <1>1, DivMod
<1> HIDE DEF q, r, p, t
<1>4. r + 1 \in 0 .. (Unit - 1) /\ Unit * q + (r + 1) = Unit * p + t
  BY <1>1, <1>2, <1>3
<1>5. q = p /\ r + 1 = t
  BY <1>1, <1>2, <1>3, <1>4, DivModUnique
<1> QED BY <1>5 DEF Decs, Announced, q, r, p, t

LEMMA DecsType ==
    ASSUME BitsSuffice, NEW s \in Nat
    PROVE  Decs(s) \in Nat /\ Announced(s) \in Nat
BY DivMod, JoinCounterAssumption DEF BitsSuffice, Decs, Announced

-----------------------------------------------------------------------------
(* The sets that are counted                                               *)

LEMMA SetsFinite ==
    /\ IsFiniteSet(Counted) /\ Cardinality(Counted) \in Nat
    /\ IsFiniteSet(Announcers) /\ Cardinality(Announcers) \in Nat
    /\ IsFiniteSet(Wakers) /\ Cardinality(Wakers) \in Nat
<1>1. Counted \subseteq Threads /\ Announcers \subseteq Threads /\ Wakers \subseteq Threads
  BY DEF Counted, Decrementers, Announcers, Wakers
<1> QED BY <1>1, BlockingAssumption, FS_Subset, FS_CardinalityType

LEMMA OneMore ==
    ASSUME NEW S, IsFiniteSet(S), NEW x, x \notin S, NEW T, T = S \cup {x}
    PROVE  Cardinality(T) = Cardinality(S) + 1
BY FS_AddElement

LEMMA OneLess ==
    ASSUME NEW S, IsFiniteSet(S), NEW x, x \in S, NEW T, T = S \ {x}
    PROVE  Cardinality(T) = Cardinality(S) - 1
BY FS_RemoveElement

LEMMA OneWaker ==
    ASSUME StateCounts, NEW x \in Wakers, NEW y \in Wakers
    PROVE  x = y
<1> SUFFICES ASSUME x # y PROVE FALSE
  OBVIOUS
<1>1. Cardinality({x}) = 1 /\ IsFiniteSet({x})
  BY FS_Singleton
<1>2. Cardinality({x} \cup {y}) = 2
  BY <1>1, OneMore
<1>3. Cardinality({x} \cup {y}) <= Cardinality(Wakers)
  <2>1. {x} \cup {y} \subseteq Wakers
    OBVIOUS
  <2> QED BY <2>1, SetsFinite, FS_Subset
<1> QED BY <1>2, <1>3, SetsFinite DEF StateCounts

\* A step that changes none of the counted sets, nor the state and the duty.
LEMMA CountsFrame ==
    ASSUME IInv, state' = state, Counted' = Counted, Announcers' = Announcers,
           Wakers' = Wakers, \A th \in Wakers : towake'[th] = towake[th]
    PROVE  WakingOK' /\ StateCounts'
BY DEF IInv, WakingOK, StateCounts

\* A thread that is done with waiting is so when the counter is complete.
LEMMA ReturnsFrame ==
    ASSUME IInv, program' = program, Decs(state)' = Decs(state),
           Cardinality(Counted)' = Cardinality(Counted),
           \A th \in Threads : batch'[th] # <<>> => batch[th] # <<>>,
           \A th \in Threads : "wait" \in todo[th] => "wait" \in todo'[th]
    PROVE  ReturnsWhenComplete'
BY DEF IInv, ReturnsWhenComplete

-----------------------------------------------------------------------------
THEOREM InitIInv == BitsSuffice /\ Init => IInv
<1> SUFFICES ASSUME BitsSuffice, Init PROVE IInv
  OBVIOUS
<1> USE BlockingAssumption, JoinCounterAssumption DEF Init, SwitchInit
<1>1. TypeOK
  <2>1. SwitchTypeOK
    BY DEF SwitchTypeOK
  <2>2. /\ val \in [Threads -> Nat] /\ towake \in [Threads -> Nat]
        /\ sleepq \in Seq(Threads)
        /\ \A th \in Threads : batch[th] \in Seq(Threads)
    OBVIOUS
  <2>3. pc \in [Agents -> {"idle", "wait_cas", "wait_block", "asleep", "dec_cas",
                           "wake_dequeue", "run", "swap", "callback"}]
    OBVIOUS
  <2> QED BY <2>1, <2>2, <2>3 DEF TypeOK
<1>2. \A th \in Threads : pc[th] = "idle"
  BY DEF Agents
<1>3. ShapeOK /\ LeavingOK /\ QueueOK /\ CallsOK
  BY <1>2 DEF ShapeOK, ThreadPCs, LeavingOK, QueueOK, CallsOK, Agents
<1>4. Decs(state) = 0 /\ Announced(state) = 0
  <2>1. 0 % Unit = 0 /\ 0 \div Unit = 0
    <3>1. Unit \in Nat \ {0} /\ Unit * 0 + 0 = 0
      BY DEF BitsSuffice
    <3>2. /\ 0 % Unit \in 0 .. (Unit - 1) /\ 0 \div Unit \in Nat
          /\ 0 = Unit * (0 \div Unit) + (0 % Unit)
      BY <3>1, DivMod
    <3> QED BY <3>1, <3>2, DivModUnique
  <2> QED BY <2>1 DEF Decs, Announced
<1>5. Counted = {} /\ Announcers = {} /\ Wakers = {}
  BY <1>2 DEF Counted, Decrementers, Announcers, Wakers
<1>6. Cardinality({}) = 0
  BY FS_EmptySet
<1>7. StateCounts /\ WakingOK
  BY <1>4, <1>5, <1>6 DEF StateCounts, WakingOK
<1>8. ReturnsWhenComplete
  BY DEF ReturnsWhenComplete
<1> QED BY <1>1, <1>3, <1>7, <1>8 DEF IInv

-----------------------------------------------------------------------------
(* The steps of the workers count nothing.                                 *)

LEMMA SwitchStep == ASSUME IInv, NEW w \in Workers, Switch(w) PROVE IInv'
<1> USE BlockingAssumption DEF Switch, Resume, SwapContext, Dispatch, counterVars
<1>1. /\ UNCHANGED counterVars /\ UNCHANGED leaving
      /\ \A th \in Threads : pc'[th] = pc[th]
      /\ \A v \in Workers : pc'[v] # "run" => pc[v] # "run"
  BY DEF IInv, TypeOK, Agents
<1>2. TypeOK'
  <2>1. pc' \in [Agents -> {"idle", "wait_cas", "wait_block", "asleep", "dec_cas",
                            "wake_dequeue", "run", "swap", "callback"}]
    BY DEF IInv, TypeOK, Agents
  <2>2. SwitchTypeOK'
    <3>1. CASE Resume(w)
      BY <3>1 DEF IInv, TypeOK, SwitchTypeOK
    <3>2. CASE SwapContext(w)
      BY <3>2 DEF IInv, TypeOK, SwitchTypeOK, LeavingOK
    <3> QED BY <3>1, <3>2
  <2> QED BY <1>1, <2>1, <2>2 DEF IInv, TypeOK
<1>3. ShapeOK' /\ LeavingOK' /\ QueueOK' /\ CallsOK'
  <2>1. ShapeOK'
    BY <1>1 DEF IInv, ShapeOK
  <2>2. LeavingOK'
    BY <1>1 DEF IInv, TypeOK, SwitchTypeOK, LeavingOK
  <2>3. QueueOK'
    BY <1>1 DEF IInv, TypeOK, QueueOK
  <2>4. CallsOK'
    BY <1>1 DEF IInv, CallsOK, Decs
  <2> QED BY <2>1, <2>2, <2>3, <2>4
<1>4. Counted' = Counted /\ Announcers' = Announcers /\ Wakers' = Wakers
  BY <1>1 DEF Counted, Decrementers, Announcers, Wakers
<1>5. WakingOK' /\ StateCounts'
  BY <1>1, <1>4, CountsFrame
<1>6. ReturnsWhenComplete'
  BY <1>1, <1>4, ReturnsFrame
<1> QED BY <1>2, <1>3, <1>5, <1>6 DEF IInv

LEMMA FinishStep ==
    ASSUME IInv, NEW w \in Workers, NEW th \in Threads, Finish(w, th)
    PROVE  IInv'
<1> USE BlockingAssumption DEF Finish, Dispatch, counterVars
<1>1. UNCHANGED <<counterVars, leaving, pc>>
  OBVIOUS
<1>2. TypeOK'
  <2>1. SwitchTypeOK'
    BY DEF IInv, TypeOK, SwitchTypeOK
  <2> QED BY <1>1, <2>1 DEF IInv, TypeOK
<1>3. ShapeOK' /\ LeavingOK' /\ QueueOK' /\ CallsOK'
  BY <1>1 DEF IInv, ShapeOK, LeavingOK, QueueOK, CallsOK, Decs
<1>4. Counted' = Counted /\ Announcers' = Announcers /\ Wakers' = Wakers
  BY <1>1 DEF Counted, Decrementers, Announcers, Wakers
<1>5. WakingOK' /\ StateCounts'
  BY <1>1, <1>4, CountsFrame
<1>6. ReturnsWhenComplete'
  BY <1>1, <1>4, ReturnsFrame
<1> QED BY <1>2, <1>3, <1>5, <1>6 DEF IInv

\* A waiter that leaves its worker still counts as one that is announced.
LEMMA WaitBlockStep ==
    ASSUME IInv, NEW w \in Workers, NEW th \in Threads, WaitBlock(w, th)
    PROVE  IInv'
<1> USE BlockingAssumption DEF WaitBlock, Block, Leave, Dispatch, counterVars
<1>1. /\ UNCHANGED counterVars
      /\ leaving' = [leaving EXCEPT ![w] = th]
      /\ pc' = [pc EXCEPT ![th] = "asleep", ![w] = "swap"]
      /\ pc[th] = "wait_block"
  OBVIOUS
<1>2. TypeOK'
  <2>1. pc' \in [Agents -> {"idle", "wait_cas", "wait_block", "asleep", "dec_cas",
                            "wake_dequeue", "run", "swap", "callback"}]
    BY <1>1 DEF IInv, TypeOK, Agents
  <2>2. SwitchTypeOK'
    BY <1>1 DEF IInv, TypeOK, SwitchTypeOK
  <2> QED BY <1>1, <2>1, <2>2 DEF IInv, TypeOK
<1>3. pc'[th] = "asleep" /\ \A x \in Threads : x # th => pc'[x] = pc[x]
  BY <1>1 DEF IInv, TypeOK, Agents
<1>4. ShapeOK'
  BY <1>1, <1>3 DEF IInv, ShapeOK, ThreadPCs
<1>5. LeavingOK'
  BY <1>1, <1>3 DEF IInv, TypeOK, SwitchTypeOK, Agents, LeavingOK
<1>6. QueueOK'
  <2>1. \A i \in 1 .. Len(sleepq) : sleepq[i] \in Threads /\ sleepq[i] # th
    BY <1>1 DEF IInv, TypeOK, QueueOK
  <2>2. \A i \in 1 .. Len(sleepq) : \A v \in Workers : leaving'[v] # sleepq[i]
    BY <1>1, <2>1 DEF IInv, TypeOK, SwitchTypeOK, QueueOK
  <2>3. sleepq' = sleepq
    BY <1>1
  <2> HIDE DEF WaitBlock, Block, Leave
  <2> QED BY <1>3, <2>1, <2>2, <2>3 DEF IInv, QueueOK
<1>7. CallsOK'
  BY <1>1, <1>3 DEF IInv, CallsOK, Decs
<1>8. Counted' = Counted /\ Announcers' = Announcers /\ Wakers' = Wakers
  BY <1>1, <1>3 DEF Counted, Decrementers, Announcers, Wakers
<1>9. WakingOK' /\ StateCounts'
  BY <1>1, <1>8, CountsFrame
<1>10. ReturnsWhenComplete'
  BY <1>1, <1>8, ReturnsFrame
<1> QED BY <1>2, <1>4, <1>5, <1>6, <1>7, <1>9, <1>10 DEF IInv

LEMMA EnqueueStep == ASSUME IInv, NEW w \in Workers, Enqueue(w) PROVE IInv'
<1> USE BlockingAssumption DEF Enqueue, Left, Goto, At
<1> DEFINE x == leaving[w]
<1>1. x \in Threads /\ pc[x] = "asleep" /\ \A v \in Workers : leaving[v] = x => v = w
  BY DEF IInv, TypeOK, SwitchTypeOK, LeavingOK
<1>2. /\ sleepq' = Append(sleepq, x)
      /\ leaving' = [leaving EXCEPT ![w] = NULL]
      /\ pc' = [pc EXCEPT ![w] = "run"]
      /\ UNCHANGED <<ready, this, saved, state, val, towake, batch, program, todo, fatal>>
  OBVIOUS
<1> HIDE DEF x, Enqueue
<1>3. \A th \in Threads : pc'[th] = pc[th]
  BY <1>2 DEF IInv, TypeOK, Agents
<1>4. TypeOK'
  <2>1. pc' \in [Agents -> {"idle", "wait_cas", "wait_block", "asleep", "dec_cas",
                            "wake_dequeue", "run", "swap", "callback"}]
    BY <1>2 DEF IInv, TypeOK, Agents
  <2>2. SwitchTypeOK'
    BY <1>2 DEF IInv, TypeOK, SwitchTypeOK
  <2>3. sleepq' \in Seq(Threads)
    BY <1>1, <1>2 DEF IInv, TypeOK
  <2> QED BY <1>2, <2>1, <2>2, <2>3 DEF IInv, TypeOK
<1>5. ShapeOK' /\ CallsOK'
  BY <1>2, <1>3 DEF IInv, ShapeOK, CallsOK, Decs
<1>6. LeavingOK'
  BY <1>2, <1>3 DEF IInv, TypeOK, SwitchTypeOK, Agents, LeavingOK
<1>7. QueueOK'
  <2>1. sleepq \in Seq(Threads) /\ Len(sleepq) \in Nat
    BY DEF IInv, TypeOK
  <2>2. /\ Len(sleepq') = Len(sleepq) + 1
        /\ \A i \in 1 .. Len(sleepq) : sleepq'[i] = sleepq[i]
        /\ sleepq'[Len(sleepq) + 1] = x
    BY <1>1, <1>2, <2>1
  <2>3. \A i \in 1 .. Len(sleepq) : sleepq[i] \in Threads /\ sleepq[i] # x
    BY <2>1 DEF IInv, QueueOK, x
  <2>4. \A v \in Workers : leaving'[v] # x /\ (leaving'[v] = leaving[v] \/ leaving'[v] = NULL)
    BY <1>1, <1>2 DEF IInv, TypeOK, SwitchTypeOK
  <2>5. ASSUME NEW i \in 1 .. (Len(sleepq) + 1)
        PROVE  /\ pc'[sleepq'[i]] = "asleep"
               /\ \A j \in 1 .. (Len(sleepq) + 1) : sleepq'[j] = sleepq'[i] => j = i
               /\ \A v \in Workers : leaving'[v] # sleepq'[i]
    <3>1. CASE i \in 1 .. Len(sleepq)
      <4>1. \A j \in 1 .. (Len(sleepq) + 1) : j \in 1 .. Len(sleepq) \/ j = Len(sleepq) + 1
        BY <2>1
      <4> QED BY <1>3, <2>2, <2>3, <2>4, <3>1, <4>1 DEF IInv, QueueOK
    <3>2. CASE i = Len(sleepq) + 1
      <4>1. \A j \in 1 .. (Len(sleepq) + 1) : j \in 1 .. Len(sleepq) \/ j = Len(sleepq) + 1
        BY <2>1
      <4> QED BY <1>1, <1>3, <2>2, <2>3, <2>4, <3>2, <4>1
    <3> QED BY <2>1, <3>1, <3>2
  <2> QED BY <2>2, <2>5 DEF QueueOK
<1>8. Counted' = Counted /\ Announcers' = Announcers /\ Wakers' = Wakers
  BY <1>2, <1>3 DEF Counted, Decrementers, Announcers, Wakers
<1>9. WakingOK' /\ StateCounts'
  BY <1>2, <1>8, CountsFrame
<1>10. ReturnsWhenComplete'
  BY <1>2, <1>8, ReturnsFrame
<1> QED BY <1>4, <1>5, <1>6, <1>7, <1>9, <1>10 DEF IInv

-----------------------------------------------------------------------------
(* The steps of the threads                                                *)

\* A thread that is not asleep goes on; the sleepers stay where they are.
LEMMA SleepersFrame ==
    ASSUME IInv, NEW th \in Threads, NEW to \in ThreadPCs, pc[th] # "asleep",
           pc' = [pc EXCEPT ![th] = to], UNCHANGED <<leaving, sleepq>>
    PROVE  /\ LeavingOK' /\ QueueOK'
           /\ pc'[th] = to /\ \A x \in Threads : x # th => pc'[x] = pc[x]
           /\ pc' \in [Agents -> {"idle", "wait_cas", "wait_block", "asleep", "dec_cas",
                                  "wake_dequeue", "run", "swap", "callback"}]
<1> USE BlockingAssumption
<1>1. /\ pc'[th] = to /\ \A x \in Agents : x # th => pc'[x] = pc[x]
      /\ pc' \in [Agents -> {"idle", "wait_cas", "wait_block", "asleep", "dec_cas",
                             "wake_dequeue", "run", "swap", "callback"}]
  BY DEF IInv, TypeOK, Agents, ThreadPCs
<1>2. LeavingOK'
  BY <1>1 DEF IInv, TypeOK, SwitchTypeOK, LeavingOK, Agents
<1>3. QueueOK'
  <2>1. \A i \in 1 .. Len(sleepq) : sleepq[i] \in Agents /\ sleepq[i] # th
    BY DEF IInv, TypeOK, QueueOK, Agents
  <2>2. sleepq' = sleepq /\ leaving' = leaving
    OBVIOUS
  <2> QED BY <1>1, <2>1, <2>2 DEF IInv, QueueOK
<1> QED BY <1>1, <1>2, <1>3 DEF Agents

\* Reading the state, and finding that it has changed, counts nothing.
ReadStep(th) == WaitRead(th) \/ WaitRetry(th) \/ DecRead(th) \/ DecRetry(th)

LEMMA ReadSteps ==
    ASSUME BitsSuffice, IInv, NEW th \in Threads, ReadStep(th)
    PROVE  IInv'
<1> USE DEF ReadStep, WaitRead, WaitRetry, DecRead, DecRetry, Goto, At
<1>1. PICK to \in {"idle", "wait_cas", "dec_cas"} :
          /\ pc' = [pc EXCEPT ![th] = to]
          /\ to = "wait_cas" => val' = [val EXCEPT ![th] = state] /\ Decs(state) # N
          /\ to = "dec_cas" => /\ val' = [val EXCEPT ![th] = state]
                               /\ Decs(state) < N /\ "dec" \in todo[th]
          /\ to = "idle" => val' = [val EXCEPT ![th] = 0]
  OBVIOUS
<1>2. /\ pc[th] \in {"idle", "wait_cas", "dec_cas"}
      /\ val' \in [Threads -> Nat]
      /\ UNCHANGED <<switchVars, state, sleepq, towake, batch, program, todo, fatal>>
  BY DEF IInv, TypeOK
<1> HIDE DEF ReadStep
<1>3. UNCHANGED <<ready, this, leaving, saved>>
  BY <1>2 DEF switchVars
<1>4. /\ LeavingOK' /\ QueueOK'
      /\ pc'[th] = to /\ \A x \in Threads : x # th => pc'[x] = pc[x]
      /\ pc' \in [Agents -> {"idle", "wait_cas", "wait_block", "asleep", "dec_cas",
                             "wake_dequeue", "run", "swap", "callback"}]
  BY <1>1, <1>2, <1>3, SleepersFrame DEF ThreadPCs
<1>5. TypeOK' /\ ShapeOK'
  BY <1>1, <1>2, <1>3, <1>4 DEF IInv, TypeOK, SwitchTypeOK, ShapeOK, ThreadPCs
<1>6. CallsOK'
  BY <1>1, <1>2, <1>4 DEF IInv, TypeOK, CallsOK, Decs
<1>7. Counted' = Counted /\ Announcers' = Announcers /\ Wakers' = Wakers
  BY <1>1, <1>2, <1>4 DEF Counted, Decrementers, Announcers, Wakers
<1>8. WakingOK' /\ StateCounts'
  BY <1>2, <1>7, CountsFrame
<1>9. ReturnsWhenComplete'
  BY <1>2, <1>7, ReturnsFrame DEF Decs
<1> QED BY <1>4, <1>5, <1>6, <1>8, <1>9 DEF IInv

LEMMA DecExcessStep == ASSUME IInv, NEW th \in Threads, DecExcess(th) PROVE IInv'
<1>1. UNCHANGED <<pc, ready, this, leaving, saved, state, sleepq, val, towake, batch,
                  program, todo>> /\ fatal' = TRUE
  BY DEF DecExcess, switchVars
<1>2. TypeOK' /\ ShapeOK' /\ LeavingOK' /\ QueueOK' /\ CallsOK'
  BY <1>1 DEF IInv, TypeOK, SwitchTypeOK, ShapeOK, LeavingOK, QueueOK, CallsOK, Decs
<1>3. Counted' = Counted /\ Announcers' = Announcers /\ Wakers' = Wakers
  BY <1>1 DEF Counted, Decrementers, Announcers, Wakers
<1>4. WakingOK' /\ StateCounts' /\ ReturnsWhenComplete'
  BY <1>1, <1>3, CountsFrame, ReturnsFrame DEF Decs
<1> QED BY <1>2, <1>4 DEF IInv

LEMMA WakePushStep == ASSUME IInv, NEW th \in Threads, WakePush(th) PROVE IInv'
<1> USE DEF WakePush
<1>1. /\ batch[th] \in Seq(Threads) /\ batch[th] # << >>
      /\ batch' = [batch EXCEPT ![th] = Tail(batch[th])]
      /\ ready' = ready \cup {Head(batch[th])}
      /\ UNCHANGED <<pc, this, leaving, saved, state, sleepq, val, towake, program,
                     todo, fatal>>
  BY DEF IInv, TypeOK
<1>2. Head(batch[th]) \in Threads /\ Tail(batch[th]) \in Seq(Threads)
  BY <1>1
<1>3. /\ batch' \in [Threads -> Seq(Threads)]
      /\ \A x \in Threads : batch'[x] # << >> => batch[x] # << >>
  BY <1>1, <1>2 DEF IInv, ShapeOK
<1>4. TypeOK' /\ ShapeOK'
  BY <1>1, <1>2, <1>3 DEF IInv, TypeOK, SwitchTypeOK, ShapeOK
<1>5. LeavingOK' /\ QueueOK' /\ CallsOK'
  BY <1>1 DEF IInv, LeavingOK, QueueOK, CallsOK, Decs
<1>6. Counted' = Counted /\ Announcers' = Announcers /\ Wakers' = Wakers
  BY <1>1 DEF Counted, Decrementers, Announcers, Wakers
<1>7. WakingOK' /\ StateCounts' /\ ReturnsWhenComplete'
  BY <1>1, <1>3, <1>6, CountsFrame, ReturnsFrame DEF Decs
<1> QED BY <1>4, <1>5, <1>7 DEF IInv

\* A wait returns: the counter is complete.
LEMMA WaitReturnStep == ASSUME IInv, NEW th \in Threads, WaitReturn(th) PROVE IInv'
<1> USE DEF WaitReturn, Returns, Goto, At
<1>1. /\ pc[th] = "idle" /\ pc' = [pc EXCEPT ![th] = "idle"]
      /\ todo[th] = {"wait"} /\ todo' = [todo EXCEPT ![th] = todo[th] \ {"wait"}]
      /\ Decs(state) = N
      /\ UNCHANGED <<ready, this, leaving, saved, state, sleepq, val, towake, batch,
                     program, fatal>>
  BY DEF switchVars
<1>2. /\ LeavingOK' /\ QueueOK'
      /\ pc'[th] = "idle" /\ \A x \in Threads : x # th => pc'[x] = pc[x]
      /\ pc' \in [Agents -> {"idle", "wait_cas", "wait_block", "asleep", "dec_cas",
                             "wake_dequeue", "run", "swap", "callback"}]
  BY <1>1, SleepersFrame DEF ThreadPCs
<1>3. /\ todo' \in [Threads -> SUBSET {"dec", "wait"}]
      /\ todo'[th] = {} /\ \A x \in Threads : x # th => todo'[x] = todo[x]
  BY <1>1 DEF IInv, ShapeOK
<1>4. TypeOK' /\ ShapeOK'
  BY <1>1, <1>2, <1>3 DEF IInv, TypeOK, SwitchTypeOK, ShapeOK, ThreadPCs
<1>5. CallsOK'
  BY <1>1, <1>2, <1>3 DEF IInv, CallsOK, Decs
<1>6. Counted' = Counted /\ Announcers' = Announcers /\ Wakers' = Wakers
  BY <1>1, <1>2, <1>3 DEF Counted, Decrementers, Announcers, Wakers
<1>7. WakingOK' /\ StateCounts'
  BY <1>1, <1>6, CountsFrame
<1>8. ReturnsWhenComplete'
  <2>1. Cardinality(Counted) = N
    BY <1>1 DEF IInv, StateCounts
  <2> QED BY <1>1, <1>6, <2>1, JoinCounterAssumption DEF IInv, ReturnsWhenComplete, Decs
<1> QED BY <1>2, <1>4, <1>5, <1>7, <1>8 DEF IInv

\* A waiter announces itself: it counts, whoever reads the state next.
LEMMA WaitAnnounceStep ==
    ASSUME BitsSuffice, IInv, NEW th \in Threads, WaitAnnounce(th)
    PROVE  IInv'
<1> USE JoinCounterAssumption DEF WaitAnnounce, Goto, At
<1>1. /\ pc[th] = "wait_cas" /\ pc' = [pc EXCEPT ![th] = "wait_block"]
      /\ state' = state + Unit /\ val' = [val EXCEPT ![th] = 0]
      /\ Decs(state) # N /\ state \in Nat
      /\ UNCHANGED <<ready, this, leaving, saved, sleepq, towake, batch, program, todo,
                     fatal>>
  BY DEF switchVars, IInv, TypeOK, CallsOK
<1>2. /\ LeavingOK' /\ QueueOK'
      /\ pc'[th] = "wait_block" /\ \A x \in Threads : x # th => pc'[x] = pc[x]
      /\ pc' \in [Agents -> {"idle", "wait_cas", "wait_block", "asleep", "dec_cas",
                             "wake_dequeue", "run", "swap", "callback"}]
  BY <1>1, SleepersFrame DEF ThreadPCs
<1>3. TypeOK' /\ ShapeOK'
  <2>1. state' \in Nat /\ val' \in [Threads -> Nat]
    BY <1>1 DEF IInv, TypeOK, BitsSuffice
  <2> QED BY <1>1, <1>2, <2>1 DEF IInv, TypeOK, SwitchTypeOK, ShapeOK, ThreadPCs
<1>4. CallsOK'
  BY <1>1, <1>2 DEF IInv, TypeOK, CallsOK, Decs
<1>5. Decs(state)' = Decs(state) /\ Announced(state)' = Announced(state) + 1
  BY <1>1, AddUnit DEF Decs, Announced
<1>6. Counted' = Counted /\ Wakers' = Wakers
  BY <1>1, <1>2 DEF Counted, Decrementers, Wakers
<1>7. Cardinality(Announcers)' = Cardinality(Announcers) + 1
  <2>1. Announcers' = Announcers \cup {th} /\ th \notin Announcers
    BY <1>1, <1>2 DEF Announcers
  <2> QED BY <2>1, SetsFinite, OneMore
<1>8. Decs(state) \in Nat /\ Decs(state) < N
  BY <1>1, DecsType DEF IInv, WakingOK
<1>9. WakingOK' /\ StateCounts'
  BY <1>5, <1>6, <1>7, <1>8 DEF IInv, WakingOK, StateCounts
<1>10. ReturnsWhenComplete'
  BY <1>1, <1>5, <1>6, ReturnsFrame
<1> QED BY <1>2, <1>3, <1>4, <1>9, <1>10 DEF IInv

\* A decrement that is not the last.
LEMMA DecNotLastStep ==
    ASSUME BitsSuffice, IInv, NEW th \in Threads, DecNotLast(th)
    PROVE  IInv'
<1> USE JoinCounterAssumption DEF DecNotLast, Returns, Goto, At
<1>1. /\ pc[th] = "dec_cas" /\ pc' = [pc EXCEPT ![th] = "idle"]
      /\ state' = state + 1 /\ val' = [val EXCEPT ![th] = 0]
      /\ Decs(state) < N - 1 /\ state \in Nat /\ Decs(state) \in Nat
      /\ "dec" \in todo[th] /\ todo' = [todo EXCEPT ![th] = todo[th] \ {"dec"}]
      /\ UNCHANGED <<ready, this, leaving, saved, sleepq, towake, batch, program, fatal>>
  BY DecsType DEF switchVars, IInv, TypeOK, CallsOK
<1>2. /\ LeavingOK' /\ QueueOK'
      /\ pc'[th] = "idle" /\ \A x \in Threads : x # th => pc'[x] = pc[x]
      /\ pc' \in [Agents -> {"idle", "wait_cas", "wait_block", "asleep", "dec_cas",
                             "wake_dequeue", "run", "swap", "callback"}]
  BY <1>1, SleepersFrame DEF ThreadPCs
<1>3. /\ todo' \in [Threads -> SUBSET {"dec", "wait"}]
      /\ todo'[th] = todo[th] \ {"dec"} /\ \A x \in Threads : x # th => todo'[x] = todo[x]
  BY <1>1 DEF IInv, ShapeOK
<1>4. TypeOK' /\ ShapeOK'
  <2>1. state' \in Nat /\ val' \in [Threads -> Nat]
    BY <1>1 DEF IInv, TypeOK
  <2>2. \A x \in Threads : todo'[x] \subseteq program[x]
    BY <1>1, <1>3 DEF IInv, TypeOK
  <2> QED BY <1>1, <1>2, <1>3, <2>1, <2>2
          DEF IInv, TypeOK, SwitchTypeOK, ShapeOK, ThreadPCs
<1>5. CallsOK'
  BY <1>1, <1>2, <1>3 DEF IInv, TypeOK, CallsOK, Decs
<1>6. Decs(state)' = Decs(state) + 1 /\ Announced(state)' = Announced(state)
  BY <1>1, AddOne DEF Decs, Announced
<1>7. Announcers' = Announcers /\ Wakers' = Wakers
  BY <1>1, <1>2 DEF Announcers, Wakers
<1>8. Cardinality(Counted)' = Cardinality(Counted) + 1
  <2>1. Counted' = Counted \cup {th} /\ th \notin Counted
    BY <1>1, <1>2, <1>3 DEF IInv, TypeOK, Counted, Decrementers
  <2> QED BY <2>1, SetsFinite, OneMore
<1>9. Wakers = {}
  BY <1>1 DEF IInv, WakingOK
<1>10. WakingOK' /\ StateCounts'
  BY <1>1, <1>6, <1>7, <1>8, <1>9 DEF IInv, WakingOK, StateCounts
<1>11. ReturnsWhenComplete'
  BY <1>1, <1>3, <1>8 DEF IInv, StateCounts, ReturnsWhenComplete
<1> QED BY <1>2, <1>4, <1>5, <1>10, <1>11 DEF IInv

\* The last decrement: the announced waiters become its thread's duty.
LEMMA DecLastStep ==
    ASSUME BitsSuffice, IInv, NEW th \in Threads, DecLast(th)
    PROVE  IInv'
<1> USE JoinCounterAssumption DEF DecLast, Goto, At
<1>1. /\ pc[th] = "dec_cas" /\ pc' = [pc EXCEPT ![th] = "wake_dequeue"]
      /\ state' = state + 1 /\ val' = [val EXCEPT ![th] = 0]
      /\ Decs(state) = N - 1 /\ state \in Nat /\ Announced(state) \in Nat
      /\ "dec" \in todo[th]
      /\ towake' = [towake EXCEPT ![th] = Announced(state)]
      /\ UNCHANGED <<ready, this, leaving, saved, sleepq, batch, program, todo, fatal>>
  BY DecsType DEF switchVars, IInv, TypeOK, CallsOK
<1>2. /\ LeavingOK' /\ QueueOK'
      /\ pc'[th] = "wake_dequeue" /\ \A x \in Threads : x # th => pc'[x] = pc[x]
      /\ pc' \in [Agents -> {"idle", "wait_cas", "wait_block", "asleep", "dec_cas",
                             "wake_dequeue", "run", "swap", "callback"}]
  BY <1>1, SleepersFrame DEF ThreadPCs
<1>3. TypeOK' /\ ShapeOK'
  <2>1. state' \in Nat /\ val' \in [Threads -> Nat] /\ towake' \in [Threads -> Nat]
    BY <1>1 DEF IInv, TypeOK
  <2> QED BY <1>1, <1>2, <2>1 DEF IInv, TypeOK, SwitchTypeOK, ShapeOK, ThreadPCs
<1>4. CallsOK'
  BY <1>1, <1>2 DEF IInv, TypeOK, CallsOK, Decs
<1>5. Decs(state)' = N
  BY <1>1, AddOne DEF Decs
<1>6. Announcers' = Announcers
  BY <1>1, <1>2 DEF Announcers
<1>7. Cardinality(Counted)' = Cardinality(Counted) + 1
  <2>1. Counted' = Counted \cup {th} /\ th \notin Counted
    BY <1>1, <1>2 DEF IInv, TypeOK, Counted, Decrementers
  <2> QED BY <2>1, SetsFinite, OneMore
<1>8. Wakers' = {th} /\ Cardinality(Wakers)' = 1
  <2>1. Wakers = {}
    BY <1>1 DEF IInv, WakingOK
  <2>2. Wakers' = {th}
    BY <1>1, <1>2, <2>1 DEF Wakers
  <2> QED BY <2>2, FS_Singleton
<1>9. towake'[th] = Cardinality(Announcers')
  BY <1>1, <1>6 DEF IInv, TypeOK, StateCounts
<1>10. WakingOK' /\ StateCounts'
  BY <1>1, <1>5, <1>7, <1>8, <1>9 DEF IInv, WakingOK, StateCounts
<1>11. ReturnsWhenComplete'
  BY <1>1, <1>5, <1>7, SetsFinite DEF IInv, StateCounts, ReturnsWhenComplete
<1> QED BY <1>2, <1>3, <1>4, <1>10, <1>11 DEF IInv

\* The last decrementer is done: it has woken everybody it owed that to.
LEMMA DecReturnStep == ASSUME IInv, NEW th \in Threads, DecReturn(th) PROVE IInv'
<1> USE DEF DecReturn, Returns, Goto, At
<1>1. /\ pc[th] = "wake_dequeue" /\ pc' = [pc EXCEPT ![th] = "idle"]
      /\ towake[th] = 0 /\ "dec" \in todo[th]
      /\ todo' = [todo EXCEPT ![th] = todo[th] \ {"dec"}]
      /\ UNCHANGED <<ready, this, leaving, saved, state, sleepq, val, towake, batch,
                     program, fatal>>
  BY DEF switchVars, IInv, CallsOK
<1>2. /\ LeavingOK' /\ QueueOK'
      /\ pc'[th] = "idle" /\ \A x \in Threads : x # th => pc'[x] = pc[x]
      /\ pc' \in [Agents -> {"idle", "wait_cas", "wait_block", "asleep", "dec_cas",
                             "wake_dequeue", "run", "swap", "callback"}]
  BY <1>1, SleepersFrame DEF ThreadPCs
<1>3. /\ todo' \in [Threads -> SUBSET {"dec", "wait"}]
      /\ todo'[th] = todo[th] \ {"dec"} /\ \A x \in Threads : x # th => todo'[x] = todo[x]
  BY <1>1 DEF IInv, ShapeOK
<1>4. TypeOK' /\ ShapeOK'
  <2>1. \A x \in Threads : todo'[x] \subseteq program[x]
    BY <1>1, <1>3 DEF IInv, TypeOK
  <2> QED BY <1>1, <1>2, <1>3, <2>1 DEF IInv, TypeOK, SwitchTypeOK, ShapeOK, ThreadPCs
<1>5. CallsOK'
  BY <1>1, <1>2, <1>3 DEF IInv, CallsOK, Decs
<1>6. Announcers' = Announcers /\ Counted' = Counted
  BY <1>1, <1>2, <1>3 DEF IInv, TypeOK, Announcers, Counted, Decrementers
<1>7. Wakers = {th} /\ Wakers' = {} /\ Cardinality(Wakers)' = 0
  <2>1. th \in Wakers /\ \A x \in Wakers : x = th
    BY <1>1, OneWaker DEF IInv, Wakers
  <2>2. Wakers' = {}
    BY <1>2, <2>1 DEF Wakers
  <2> QED BY <2>1, <2>2, FS_EmptySet
<1>8. Announcers = {}
  <2>1. Decs(state) = N
    BY <1>7 DEF IInv, WakingOK
  <2>2. CASE \E x \in Wakers : towake[x] = Cardinality(Announcers)
    BY <1>1, <1>7, <2>2, SetsFinite, FS_EmptySet
  <2> QED BY <2>1, <2>2 DEF IInv, StateCounts
<1>9. WakingOK' /\ StateCounts'
  BY <1>1, <1>6, <1>7, <1>8 DEF IInv, WakingOK, StateCounts, Decs, Announced
<1>10. ReturnsWhenComplete'
  BY <1>1, <1>3, <1>6, ReturnsFrame DEF Decs
<1> QED BY <1>2, <1>4, <1>5, <1>9, <1>10 DEF IInv

\* The last decrementer takes one sleeper out of the queue.
LEMMA WakeDequeueStep == ASSUME IInv, NEW th \in Threads, WakeDequeue(th) PROVE IInv'
<1> USE BlockingAssumption DEF WakeDequeue, At
<1> DEFINE x == Head(sleepq)
<1>1. /\ sleepq \in Seq(Threads) /\ sleepq # << >>
      /\ x = sleepq[1] /\ x \in Threads /\ 1 \in 1 .. Len(sleepq)
  BY DEF IInv, TypeOK
<1>2. pc[x] = "asleep" /\ \A w \in Workers : leaving[w] # x
  BY <1>1 DEF IInv, QueueOK
<1>3. /\ pc[th] = "wake_dequeue" /\ th # x
      /\ pc' = [pc EXCEPT ![x] = "idle"]
      /\ sleepq' = Tail(sleepq)
      /\ towake[th] > 0 /\ towake' = [towake EXCEPT ![th] = towake[th] - 1]
      /\ batch' = [batch EXCEPT ![th] = Append(batch[th], x)]
      /\ UNCHANGED <<ready, this, leaving, saved, state, val, program, todo, fatal>>
  BY <1>2 DEF switchVars
<1> HIDE DEF x, WakeDequeue
<1>4. /\ pc'[x] = "idle" /\ \A y \in Agents : y # x => pc'[y] = pc[y]
      /\ pc' \in [Agents -> {"idle", "wait_cas", "wait_block", "asleep", "dec_cas",
                             "wake_dequeue", "run", "swap", "callback"}]
  BY <1>1, <1>3 DEF IInv, TypeOK, Agents
<1>5. batch' \in [Threads -> Seq(Threads)] /\ towake' \in [Threads -> Nat]
  <2>1. Append(batch[th], x) \in Seq(Threads)
    BY <1>1 DEF IInv, TypeOK
  <2>2. towake[th] - 1 \in Nat
    BY <1>3 DEF IInv, TypeOK
  <2> QED BY <1>3, <2>1, <2>2 DEF IInv, TypeOK, ShapeOK
<1>6. TypeOK' /\ ShapeOK'
  <2>1. sleepq' \in Seq(Threads)
    BY <1>1, <1>3
  <2> QED BY <1>3, <1>4, <1>5, <2>1
          DEF IInv, TypeOK, SwitchTypeOK, ShapeOK, ThreadPCs, Agents
<1>7. LeavingOK'
  BY <1>2, <1>3, <1>4 DEF IInv, TypeOK, SwitchTypeOK, LeavingOK, Agents
<1>8. QueueOK'
  <2>1. /\ Len(sleepq') = Len(sleepq) - 1
        /\ \A i \in 1 .. Len(sleepq') : sleepq'[i] = sleepq[i + 1]
    BY <1>1, <1>3
  <2>2. \A i \in 1 .. Len(sleepq') : i + 1 \in 1 .. Len(sleepq) /\ i + 1 # 1
    BY <1>1, <2>1
  <2>3. ASSUME NEW i \in 1 .. Len(sleepq')
        PROVE  sleepq'[i] # x /\ sleepq'[i] \in Agents
    <3>1. /\ i + 1 \in 1 .. Len(sleepq) /\ i + 1 # 1 /\ sleepq'[i] = sleepq[i + 1]
          /\ sleepq[i + 1] \in Threads
      BY <1>1, <2>1, <2>2
    <3> QED BY <1>1, <3>1 DEF IInv, QueueOK, Agents
  <2>4. ASSUME NEW i \in 1 .. Len(sleepq'), NEW j \in 1 .. Len(sleepq'),
               sleepq'[j] = sleepq'[i]
        PROVE  j = i
    <3>1. i + 1 = j + 1
      BY <2>1, <2>2, <2>4 DEF IInv, QueueOK
    <3> QED BY <3>1
  <2>5. ASSUME NEW i \in 1 .. Len(sleepq')
        PROVE  /\ pc'[sleepq'[i]] = "asleep"
               /\ \A w \in Workers : leaving'[w] # sleepq'[i]
    <3>1. i + 1 \in 1 .. Len(sleepq) /\ sleepq'[i] = sleepq[i + 1]
      BY <2>1, <2>2
    <3>2. /\ pc[sleepq'[i]] = "asleep"
          /\ \A w \in Workers : leaving[w] # sleepq'[i]
      BY <3>1 DEF IInv, QueueOK
    <3> QED BY <1>3, <1>4, <2>3, <3>2
  <2> QED BY <2>4, <2>5 DEF QueueOK
<1>9. CallsOK'
  BY <1>3, <1>4 DEF IInv, CallsOK, Decs, Agents
<1>10. Counted' = Counted /\ Wakers' = Wakers /\ th \in Wakers
  BY <1>2, <1>3, <1>4 DEF Counted, Decrementers, Wakers, Agents
<1>11. Decs(state) = N
  BY <1>10 DEF IInv, WakingOK
<1>12. x \in Announcers /\ Cardinality(Announcers)' = Cardinality(Announcers) - 1
  <2>1. Announcers' = Announcers \ {x} /\ x \in Announcers
    BY <1>1, <1>2, <1>4 DEF Announcers, Agents
  <2> QED BY <2>1, SetsFinite, OneLess
<1>13. towake[th] = Cardinality(Announcers)
  <2>1. PICK y \in Wakers : towake[y] = Cardinality(Announcers)
    BY <1>11, <1>12 DEF IInv, StateCounts
  <2>2. y = th
    BY <1>10, OneWaker DEF IInv
  <2> QED BY <2>1, <2>2
<1>14. WakingOK' /\ StateCounts'
  <2>1. towake'[th] = Cardinality(Announcers)'
    BY <1>3, <1>12, <1>13 DEF IInv, TypeOK
  <2>2. Decs(state)' = Decs(state)
    BY <1>3 DEF Decs
  <2> QED BY <1>10, <1>11, <2>1, <2>2, JoinCounterAssumption
          DEF IInv, WakingOK, StateCounts
<1>15. ReturnsWhenComplete'
  BY <1>3, <1>10, <1>11 DEF IInv, ReturnsWhenComplete, Decs
<1> QED BY <1>6, <1>7, <1>8, <1>9, <1>14, <1>15 DEF IInv

-----------------------------------------------------------------------------
THEOREM NextIInv == BitsSuffice /\ IInv /\ [Next]_vars => IInv'
<1> SUFFICES ASSUME BitsSuffice, IInv, [Next]_vars PROVE IInv'
  OBVIOUS
<1>1. CASE UNCHANGED vars
  <2>1. UNCHANGED <<pc, ready, this, leaving, saved, state, sleepq, val, towake, batch,
                    program, todo, fatal>>
    BY <1>1 DEF vars, switchVars, counterVars
  <2>2. TypeOK' /\ ShapeOK' /\ LeavingOK' /\ QueueOK' /\ CallsOK'
    BY <2>1 DEF IInv, TypeOK, SwitchTypeOK, ShapeOK, LeavingOK, QueueOK, CallsOK, Decs
  <2>3. Counted' = Counted /\ Announcers' = Announcers /\ Wakers' = Wakers
    BY <2>1 DEF Counted, Decrementers, Announcers, Wakers
  <2>4. WakingOK' /\ StateCounts' /\ ReturnsWhenComplete'
    BY <2>1, <2>3, CountsFrame, ReturnsFrame DEF Decs
  <2> QED BY <2>2, <2>4 DEF IInv
<1>2. ASSUME NEW th \in Threads, ThreadStep(th) PROVE IInv'
  <2>1. CASE WaitRead(th) \/ WaitRetry(th) \/ DecRead(th) \/ DecRetry(th)
    BY <2>1, ReadSteps DEF ReadStep
  <2>2. CASE WaitReturn(th) \/ WaitAnnounce(th)
    BY <2>2, WaitReturnStep, WaitAnnounceStep
  <2>3. CASE DecExcess(th) \/ DecNotLast(th) \/ DecLast(th) \/ DecReturn(th)
    BY <2>3, DecExcessStep, DecNotLastStep, DecLastStep, DecReturnStep
  <2>4. CASE WakeDequeue(th) \/ WakePush(th)
    BY <2>4, WakeDequeueStep, WakePushStep
  <2> QED BY <1>2, <2>1, <2>2, <2>3, <2>4 DEF ThreadStep
<1>3. ASSUME NEW w \in Workers, WorkerStep(w) PROVE IInv'
  <2>1. CASE Switch(w) \/ Enqueue(w)
    BY <2>1, SwitchStep, EnqueueStep
  <2>2. ASSUME NEW th \in Threads, WaitBlock(w, th) \/ Finish(w, th) PROVE IInv'
    BY <2>2, WaitBlockStep, FinishStep
  <2> QED BY <1>3, <2>1, <2>2 DEF WorkerStep
<1> QED BY <1>1, <1>2, <1>3 DEF Next

(***************************************************************************)
(* The inductive invariant holds in every reachable state.                 *)
(***************************************************************************)
THEOREM Inductive == ASSUME PowerLaw PROVE Spec => []IInv
<1>1. Init => IInv
  BY InitIInv, EnoughBits
<1>2. IInv /\ [Next]_vars => IInv'
  BY NextIInv, EnoughBits
<1> QED BY <1>1, <1>2, PTL DEF Spec

(***************************************************************************)
(* Type correctness.                                                       *)
(***************************************************************************)
THEOREM TypeCorrect == ASSUME PowerLaw PROVE Spec => []TypeOK
<1>1. IInv => TypeOK
  BY DEF IInv
<1> QED BY <1>1, Inductive, PTL

(***************************************************************************)
(* The two numbers that share the word state stay right and apart, however *)
(* many threads announce themselves and decrement at once, and every       *)
(* waiter is counted before the last decrement or on the last              *)
(* decrementer's account after it.                                         *)
(***************************************************************************)
THEOREM CountsAreRight == ASSUME PowerLaw PROVE Spec => []StateCounts
<1>1. IInv => StateCounts
  BY DEF IInv
<1> QED BY <1>1, Inductive, PTL

(***************************************************************************)
(* Nobody returns from wait, or is woken, before the last decrement.       *)
(***************************************************************************)
THEOREM NobodyReturnsEarly == ASSUME PowerLaw PROVE Spec => []ReturnsWhenComplete
<1>1. IInv => ReturnsWhenComplete
  BY DEF IInv
<1> QED BY <1>1, Inductive, PTL
=============================================================================
