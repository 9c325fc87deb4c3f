--------------------------- MODULE BarrierProofs ---------------------------
(***************************************************************************)
(* The safety of the barrier.  For any number of threads that use it, and  *)
(* whatever number it is for: only whole groups pass.  When it is for      *)
(* exactly the threads that use it: the threads are in step, and a round   *)
(* begins only when the stack has been emptied of the one before.          *)
(***************************************************************************)
EXTENDS Barrier, FiniteSetTheorems, TLAPS

PopPCs == {"pop", "pop_next", "pop_cas"}
WakerPCs == PopPCs \cup {"push"}

-----------------------------------------------------------------------------
(* Whole groups, for any number of threads and any size of the barrier     *)

\* TypeOK, but for how often a thread may have passed.
PcTypes ==
    /\ pc \in [Agents -> ThreadPCs \cup WorkerPCs]
    /\ \A th \in Threads : pc[th] \in ThreadPCs
    /\ \A w \in Workers : pc[w] \in WorkerPCs

Types ==
    /\ SwitchTypeOK
    /\ n \in Sizes /\ n \in Nat \ {0}
    /\ PcTypes
    /\ state \in 0 .. n
    /\ top \in Threads \cup {NULL}
    /\ next \in [Threads -> Threads \cup {NULL}]
    /\ count \in [Threads -> 0 .. (n - 1)]
    /\ head \in [Agents -> Threads \cup {NULL}]
    /\ second \in [Threads -> Threads \cup {NULL}]
    /\ batch \in [Threads -> Seq(Threads)]
    /\ entered \in [Threads -> 0 .. Rounds]
    /\ passed \in [Threads -> Nat]
    /\ fatal \in BOOLEAN

\* What the local variables hold where they are used.
LocalsOK ==
    /\ \A th \in Threads : pc[th] = "cas" => entered[th] < Rounds
    /\ \A th \in Threads : pc[th] = "push" => count[th] = Len(batch[th])
    /\ \A th \in Threads : pc[th] \in {"pop_next", "pop_cas"} => head[th] \in Threads
    /\ \A w \in Workers : pc[w] # "run" => leaving[w] \in Threads

\* Between the last thread's CAS and its reset nobody can count itself.
ResetOK ==
    /\ \A th \in Threads : pc[th] = "reset" => state = n
    /\ \A a, b \in Threads : pc[a] = "reset" /\ pc[b] = "reset" => a = b

\* The returns that a thread still owes, itself and those it has to wake;
\* and the threads it has woken.
Owes(th) == pc[th] \in WakerPCs \cup {"reset"}
Owed == {t \in Threads \X (0 .. n - 1) : Owes(t[1]) /\ t[2] <= count[t[1]]}
Woken == {th \in Threads : pc[th] = "woken"}

\* How many threads of the group that is not complete have come.
Open == IF state = n THEN 0 ELSE state

GroupsOf(r) ==
    /\ Cardinality(Times(entered)) = n * r + Open
    /\ Cardinality(Times(passed)) + Cardinality(Owed) + Cardinality(Woken) <= n * r

Groups == \E r \in Nat : GroupsOf(r)

\* The sets that are counted are finite.
LEMMA FiniteTimes == \A f : IsFiniteSet(Times(f)) /\ Cardinality(Times(f)) \in Nat
<1>0. IsFiniteSet(1 .. Rounds) /\ IsFiniteSet(Threads)
  BY BarrierAssumption, BlockingAssumption, FS_Interval
<1>1. IsFiniteSet(Threads \X (1 .. Rounds))
  BY <1>0, FS_Product
<1>2. \A f : Times(f) \subseteq Threads \X (1 .. Rounds)
  BY DEF Times
<1> QED BY <1>1, <1>2, FS_Subset, FS_CardinalityType

LEMMA FiniteOwed ==
    ASSUME NEW m \in Nat, NEW S \in SUBSET (Threads \X (0 .. m - 1))
    PROVE  IsFiniteSet(S) /\ Cardinality(S) \in Nat
<1>0. IsFiniteSet(0 .. m - 1) /\ IsFiniteSet(Threads)
  BY BlockingAssumption, FS_Interval
<1>1. IsFiniteSet(Threads \X (0 .. m - 1))
  BY <1>0, FS_Product
<1> QED BY <1>1, FS_Subset, FS_CardinalityType

LEMMA FiniteThreads ==
    ASSUME NEW S \in SUBSET Threads
    PROVE  IsFiniteSet(S) /\ Cardinality(S) \in Nat
BY BlockingAssumption, FS_Subset, FS_CardinalityType

LEMMA SetsFinite ==
    ASSUME Types, Types'
    PROVE  /\ IsFiniteSet(Owed) /\ Cardinality(Owed) \in Nat
           /\ IsFiniteSet(Woken) /\ Cardinality(Woken) \in Nat
           /\ IsFiniteSet(Owed') /\ Cardinality(Owed') \in Nat
           /\ IsFiniteSet(Woken') /\ Cardinality(Woken') \in Nat
<1>1. n \in Nat /\ Owed \in SUBSET (Threads \X (0 .. n - 1))
  BY DEF Owed, Types
<1>2. n' \in Nat /\ Owed' \in SUBSET (Threads \X (0 .. n' - 1))
  BY DEF Owed, Types
<1>3. Woken \in SUBSET Threads /\ Woken' \in SUBSET Threads
  BY DEF Woken
<1> QED BY <1>1, <1>2, <1>3, FiniteOwed, FiniteThreads

\* Counting one more time of thread th.
LEMMA TimesMore ==
    ASSUME NEW f \in [Threads -> Nat], NEW th \in Threads
    PROVE  Cardinality(Times([f EXCEPT ![th] = @ + 1]))
             = Cardinality(Times(f)) + (IF f[th] < Rounds THEN 1 ELSE 0)
<1> DEFINE g == [f EXCEPT ![th] = @ + 1]
<1>0. Cardinality(Times(f)) \in Nat
  BY FiniteTimes
<1>1. CASE f[th] < Rounds
  <2>1. Times(g) = Times(f) \cup {<<th, f[th] + 1>>}
    BY <1>1, BarrierAssumption DEF Times
  <2>2. <<th, f[th] + 1>> \notin Times(f)
    BY DEF Times
  <2>3. Cardinality(Times(f) \cup {<<th, f[th] + 1>>}) = Cardinality(Times(f)) + 1
    BY <2>2, FiniteTimes, FS_AddElement
  <2> QED BY <1>0, <1>1, <2>1, <2>3
<1>2. CASE ~(f[th] < Rounds)
  <2>1. Times(g) = Times(f)
    BY <1>2, BarrierAssumption DEF Times
  <2> QED BY <1>0, <1>2, <2>1
<1> QED BY <1>1, <1>2

\* A step after which nobody owes more.
LEMMA GroupsFrame ==
    ASSUME Types, Types', Groups, UNCHANGED <<n, entered>>, Open' = Open,
           Cardinality(Times(passed')) + Cardinality(Owed') + Cardinality(Woken')
             <= Cardinality(Times(passed)) + Cardinality(Owed) + Cardinality(Woken)
    PROVE  Groups'
<1>1. PICK r \in Nat : GroupsOf(r)
  BY DEF Groups
<1>2. /\ Cardinality(Times(passed)) \in Nat /\ Cardinality(Times(passed')) \in Nat
      /\ Cardinality(Owed) \in Nat /\ Cardinality(Owed') \in Nat
      /\ Cardinality(Woken) \in Nat /\ Cardinality(Woken') \in Nat
  BY SetsFinite, FiniteTimes
<1>2a. n * r \in Nat
  BY DEF Types
<1>3. GroupsOf(r)'
  <2>1. Times(entered') = Times(entered) /\ n' * r = n * r
    OBVIOUS
  <2>2. /\ Cardinality(Times(entered')) = n' * r + Open'
        /\ Cardinality(Times(passed')) + Cardinality(Owed') + Cardinality(Woken') <= n' * r
    BY <1>1, <1>2, <1>2a, <2>1 DEF GroupsOf
  <2> QED BY <2>2 DEF GroupsOf
<1> QED BY <1>3 DEF Groups

-----------------------------------------------------------------------------
(* What the program counters and the local variables say                   *)

LocalInv == Types /\ LocalsOK /\ ResetOK

\* A step that moves one agent, and one that moves two.
LEMMA MovesOne ==
    ASSUME PcTypes, NEW a \in Agents, NEW to, pc' = [pc EXCEPT ![a] = to],
           a \in Threads => to \in ThreadPCs, a \in Workers => to \in WorkerPCs
    PROVE  PcTypes'
BY BlockingAssumption DEF PcTypes, Agents

LEMMA MovesTwo ==
    ASSUME PcTypes, NEW th \in Threads, NEW to \in ThreadPCs,
           NEW w \in Workers, NEW wto \in WorkerPCs,
           pc' = [pc EXCEPT ![th] = to, ![w] = wto]
    PROVE  PcTypes'
BY BlockingAssumption DEF PcTypes, Agents

LEMMA InitLocal == ASSUME Init PROVE LocalInv
<1> USE BlockingAssumption DEF Init, SwitchInit, Agents
<1>1. Types
  <2>1. PcTypes
    BY DEF PcTypes, ThreadPCs, WorkerPCs
  <2>2. SwitchTypeOK
    BY DEF SwitchTypeOK
  <2>3. n \in Sizes /\ n \in Nat \ {0}
    BY BarrierAssumption
  <2>4. state \in 0 .. n /\ count \in [Threads -> 0 .. (n - 1)]
    BY <2>3
  <2>5. entered \in [Threads -> 0 .. Rounds] /\ passed \in [Threads -> Nat]
    BY BarrierAssumption
  <2>6. batch \in [Threads -> Seq(Threads)]
    OBVIOUS
  <2> QED BY <2>1, <2>2, <2>3, <2>4, <2>5, <2>6 DEF Types
<1>2. LocalsOK
  BY DEF LocalsOK
<1>3. ResetOK
  BY DEF ResetOK
<1> QED BY <1>1, <1>2, <1>3 DEF LocalInv

LEMMA LocalStep == ASSUME LocalInv, [Next]_vars PROVE LocalInv'
<1> USE BlockingAssumption, BarrierAssumption
<1>0. Types /\ LocalsOK /\ ResetOK
  BY DEF LocalInv
<1> USE DEF Types, PcTypes, SwitchTypeOK, LocalsOK, ResetOK, Agents, ThreadPCs, WorkerPCs,
            Executes, At, Goto, switchVars, stackVars, clientVars
<1>1. ASSUME NEW th \in Threads, WaitRead(th), UNCHANGED n PROVE LocalInv'
  <2>1. Types'
    BY <1>0, <1>1, SMTT(30) DEF WaitRead
  <2>2. LocalsOK'
    BY <1>0, <1>1 DEF WaitRead
  <2>3. ResetOK'
    BY <1>0, <1>1 DEF WaitRead
  <2> QED BY <2>1, <2>2, <2>3 DEF LocalInv
<1>2. ASSUME NEW th \in Threads, WaitExcess(th), UNCHANGED n PROVE LocalInv'
  <2>1. Types'
    BY <1>0, <1>2 DEF WaitExcess
  <2>2. LocalsOK'
    BY <1>0, <1>2 DEF WaitExcess
  <2>3. ResetOK'
    BY <1>0, <1>2 DEF WaitExcess
  <2> QED BY <2>1, <2>2, <2>3 DEF LocalInv
<1>3. ASSUME NEW th \in Threads, WaitCount(th), UNCHANGED n PROVE LocalInv'
  <2>0. PcTypes'
    BY <1>0, <1>3 DEF WaitCount
  <2>1. Types'
    BY <1>0, <1>3, <2>0 DEF WaitCount
  <2>2. LocalsOK'
    BY <1>0, <1>3 DEF WaitCount
  <2>3. ResetOK'
    <3>1. \A t \in Threads : pc[t] # "reset"
      BY <1>0, <1>3 DEF WaitCount
    <3>2. \A t \in Threads : pc'[t] = "reset" => t = th /\ count[th] = n - 1
      BY <1>0, <1>3, <3>1 DEF WaitCount
    <3>3. state' = count[th] + 1
      BY <1>3 DEF WaitCount
    <3>4. n' = n /\ n \in Nat
      BY <1>0, <1>3
    <3> QED BY <3>2, <3>3, <3>4
  <2> QED BY <2>1, <2>2, <2>3 DEF LocalInv
<1>4. ASSUME NEW th \in Threads, WaitRetry(th), UNCHANGED n PROVE LocalInv'
  <2>1. Types'
    BY <1>0, <1>4 DEF WaitRetry
  <2>2. LocalsOK'
    BY <1>0, <1>4 DEF WaitRetry
  <2>3. ResetOK'
    BY <1>0, <1>4 DEF WaitRetry
  <2> QED BY <2>1, <2>2, <2>3 DEF LocalInv
<1>5. ASSUME NEW th \in Threads, Reset(th), UNCHANGED n PROVE LocalInv'
  <2>1. Types'
    BY <1>0, <1>5, SMTT(30) DEF Reset
  <2>2. LocalsOK'
    BY <1>0, <1>5 DEF Reset
  <2>3. ResetOK'
    BY <1>0, <1>5 DEF Reset
  <2> QED BY <2>1, <2>2, <2>3 DEF LocalInv
<1>6. ASSUME NEW th \in Threads, Return(th), UNCHANGED n PROVE LocalInv'
  <2>0a. pc' = [pc EXCEPT ![th] = "outside"]
    BY <1>6 DEF Return
  <2>0. PcTypes'
    BY <1>0, <2>0a
  <2>1. Types'
    BY <1>0, <1>6, <2>0 DEF Return
  <2>2. LocalsOK'
    BY <1>0, <1>6, SMTT(30) DEF Return
  <2>3. ResetOK'
    BY <1>0, <1>6 DEF Return
  <2> QED BY <2>1, <2>2, <2>3 DEF LocalInv
<1>7. ASSUME NEW th \in Threads, PopRead(th), UNCHANGED n PROVE LocalInv'
  <2>1. Types'
    BY <1>0, <1>7 DEF PopRead
  <2>2. LocalsOK'
    BY <1>0, <1>7 DEF PopRead
  <2>3. ResetOK'
    BY <1>0, <1>7 DEF PopRead
  <2> QED BY <2>1, <2>2, <2>3 DEF LocalInv
<1>8. ASSUME NEW th \in Threads, PopNext(th), UNCHANGED n PROVE LocalInv'
  <2>0. PcTypes'
    BY <1>0, <1>8 DEF PopNext
  <2>1. Types'
    BY <1>0, <1>8, <2>0, SMTT(30) DEF PopNext
  <2>2. LocalsOK'
    BY <1>0, <1>8 DEF PopNext
  <2>3. ResetOK'
    BY <1>0, <1>8 DEF PopNext
  <2> QED BY <2>1, <2>2, <2>3 DEF LocalInv
<1>9. ASSUME NEW th \in Threads, PopRetry(th), UNCHANGED n PROVE LocalInv'
  <2>1. Types'
    BY <1>0, <1>9 DEF PopRetry, PopDone
  <2>2. LocalsOK'
    BY <1>0, <1>9 DEF PopRetry, PopDone
  <2>3. ResetOK'
    BY <1>0, <1>9 DEF PopRetry, PopDone
  <2> QED BY <2>1, <2>2, <2>3 DEF LocalInv
<1>10. ASSUME NEW th \in Threads, WakeStart(th), UNCHANGED n PROVE LocalInv'
  <2>1. Types'
    BY <1>0, <1>10 DEF WakeStart
  <2>2. LocalsOK'
    BY <1>0, <1>10 DEF WakeStart
  <2>3. ResetOK'
    BY <1>0, <1>10 DEF WakeStart
  <2> QED BY <2>1, <2>2, <2>3 DEF LocalInv
<1>11. ASSUME NEW th \in Threads, Pop(th), UNCHANGED n PROVE LocalInv'
  <2>0. PcTypes'
    BY <1>0, <1>11 DEF Pop, PopDone, Linked
  <2>1. Types'
    BY <1>0, <1>11, <2>0, SMTT(30) DEF Pop, PopDone, Linked
  <2>2. LocalsOK'
    BY <1>0, <1>11 DEF Pop, PopDone, Linked
  <2>3. ResetOK'
    BY <1>0, <1>11 DEF Pop, PopDone, Linked
  <2> QED BY <2>1, <2>2, <2>3 DEF LocalInv
<1>12. ASSUME NEW th \in Threads, Wake(th), UNCHANGED n PROVE LocalInv'
  <2> DEFINE x == Head(batch[th])
  <2>a. x \in Threads /\ Tail(batch[th]) \in Seq(Threads) /\ pc[th] = "push"
        /\ Len(batch[th]) \in Nat \ {0} /\ Len(Tail(batch[th])) = Len(batch[th]) - 1
    BY <1>0, <1>12, SMTT(30) DEF Wake
  <2>b. /\ pc' = [pc EXCEPT ![x] = "woken"]
        /\ batch' = [batch EXCEPT ![th] = Tail(batch[th])]
        /\ count' = [count EXCEPT ![th] = count[th] - 1]
        /\ ready' = ready \cup {x}
        /\ UNCHANGED <<this, leaving, saved, state, top, next, head, second,
                       clientVars, fatal>>
    BY <1>12 DEF Wake
  <2> HIDE DEF x
  <2>c. count[th] = Len(batch[th])
    BY <1>0, <2>a
  <2>0. PcTypes'
    BY <1>0, <2>a, <2>b
  <2>1. Types'
    <3>0. SwitchTypeOK'
      BY <1>0, <2>a, <2>b
    <3>1. batch' \in [Threads -> Seq(Threads)]
      <4>1. batch \in [Threads -> Seq(Threads)]
        BY <1>0
      <4> QED BY <2>a, <2>b, <4>1
    <3>2. count' \in [Threads -> 0 .. (n' - 1)]
      <4>1. count[th] \in 0 .. (n - 1) /\ n \in Nat /\ n' = n
        BY <1>0, <1>12
      <4>2. count[th] - 1 \in 0 .. (n' - 1)
        BY <2>a, <2>c, <4>1
      <4> QED BY <1>0, <2>b, <4>1, <4>2
    <3> QED BY <1>0, <1>12, <2>b, <2>0, <3>0, <3>1, <3>2
  <2>2. LocalsOK'
    <3>1. \A w \in Workers : pc'[w] = pc[w]
      BY <1>0, <2>a, <2>b
    <3>2. \A t \in Threads :
              pc'[t] \in {"cas", "push", "pop_next", "pop_cas"} => pc'[t] = pc[t]
      BY <1>0, <2>a, <2>b
    <3>3. count'[th] = Len(batch'[th])
      BY <1>0, <2>a, <2>b, <2>c
    <3>4. \A t \in Threads : t # th => count'[t] = count[t] /\ batch'[t] = batch[t]
      BY <1>0, <2>b
    <3> QED BY <1>0, <2>b, <3>1, <3>2, <3>3, <3>4
  <2>3. ResetOK'
    BY <1>0, <1>12, <2>a, <2>b
  <2> QED BY <2>1, <2>2, <2>3 DEF LocalInv
<1>13. ASSUME NEW w \in Workers, Resume(w), UNCHANGED n,
              UNCHANGED <<state, count, stackVars, clientVars, fatal>>
      PROVE  LocalInv'
  <2>1. Types'
    BY <1>0, <1>13, SMTT(30) DEF Resume, Dispatch
  <2>2. LocalsOK'
    BY <1>0, <1>13 DEF Resume, Dispatch
  <2>3. ResetOK'
    BY <1>0, <1>13 DEF Resume, Dispatch
  <2> QED BY <2>1, <2>2, <2>3 DEF LocalInv
<1>14. ASSUME NEW w \in Workers, SwapContext(w), UNCHANGED n,
              UNCHANGED <<state, count, stackVars, clientVars, fatal>>
      PROVE  LocalInv'
  <2>1. Types'
    BY <1>0, <1>14 DEF SwapContext
  <2>2. LocalsOK'
    BY <1>0, <1>14 DEF SwapContext
  <2>3. ResetOK'
    BY <1>0, <1>14 DEF SwapContext
  <2> QED BY <2>1, <2>2, <2>3 DEF LocalInv
<1>15. ASSUME NEW w \in Workers, PushRead(w), UNCHANGED n
      PROVE  LocalInv'
  <2>1. Types'
    BY <1>0, <1>15 DEF PushRead
  <2>2. LocalsOK'
    BY <1>0, <1>15 DEF PushRead
  <2>3. ResetOK'
    BY <1>0, <1>15 DEF PushRead
  <2> QED BY <2>1, <2>2, <2>3 DEF LocalInv
<1>16. ASSUME NEW w \in Workers, PushPublish(w), UNCHANGED n
      PROVE  LocalInv'
  <2>1. Types'
    BY <1>0, <1>16 DEF PushPublish, Left
  <2>2. LocalsOK'
    BY <1>0, <1>16 DEF PushPublish, Left
  <2>3. ResetOK'
    BY <1>0, <1>16 DEF PushPublish, Left
  <2> QED BY <2>1, <2>2, <2>3 DEF LocalInv
<1>17. ASSUME NEW w \in Workers, PushRetry(w), UNCHANGED n
      PROVE  LocalInv'
  <2>1. Types'
    BY <1>0, <1>17 DEF PushRetry
  <2>2. LocalsOK'
    BY <1>0, <1>17 DEF PushRetry
  <2>3. ResetOK'
    BY <1>0, <1>17 DEF PushRetry
  <2> QED BY <2>1, <2>2, <2>3 DEF LocalInv
<1>18. ASSUME NEW w \in Workers, NEW th \in Threads, WaitBlock(w, th), UNCHANGED n
      PROVE  LocalInv'
  <2>0. PICK nx \in ready \cup {NULL} : Leave(w, th, nx, "block", "asleep")
    BY <1>18 DEF WaitBlock, Block
  <2>0a. PcTypes'
    <3>1. "asleep" \in ThreadPCs /\ "swap" \in WorkerPCs
      OBVIOUS
    <3> HIDE DEF PcTypes, ThreadPCs, WorkerPCs
    <3> QED BY <1>0, <2>0, <3>1, MovesTwo DEF Leave
  <2>0b. SwitchTypeOK'
    BY <1>0, <2>0 DEF Leave, Dispatch
  <2>0c. count' \in [Threads -> 0 .. (n' - 1)]
    BY <1>0, <1>18 DEF WaitBlock
  <2>1. Types'
    <3> HIDE DEF PcTypes, SwitchTypeOK
    <3> QED BY <1>0, <1>18, <2>0a, <2>0b, <2>0c DEF WaitBlock
  <2>2. LocalsOK'
    <3>1. /\ \A t \in Threads : t # th => pc'[t] = pc[t] /\ count'[t] = count[t]
          /\ pc'[th] = "asleep"
      BY <1>0, <1>18, <2>0 DEF WaitBlock, Leave
    <3>2. \A v \in Workers : v # w => pc'[v] = pc[v] /\ leaving'[v] = leaving[v]
      BY <1>0, <2>0 DEF Leave
    <3>3. leaving'[w] = th
      BY <1>0, <2>0 DEF Leave
    <3>4. UNCHANGED <<entered, batch, head>>
      BY <1>18 DEF WaitBlock
    <3>5. \A t \in Threads : pc'[t] \in {"cas", "push", "pop_next", "pop_cas"} =>
              t # th /\ pc'[t] = pc[t] /\ count'[t] = count[t]
      BY <3>1
    <3>6. \A v \in Workers : v # w => (pc'[v] # "run" => leaving'[v] \in Threads)
      BY <1>0, <3>2
    <3> HIDE DEF Types, PcTypes, SwitchTypeOK, ResetOK, Agents, ThreadPCs, WorkerPCs
    <3> QED BY <1>0, <3>3, <3>4, <3>5, <3>6
  <2>3. ResetOK'
    BY <1>0, <1>18, <2>0, SMTT(30) DEF WaitBlock, Leave, Dispatch
  <2> QED BY <2>1, <2>2, <2>3 DEF LocalInv
<1>19. ASSUME NEW w \in Workers, NEW th \in Threads, Finish(w, th), UNCHANGED n
      PROVE  LocalInv'
  BY <1>0, <1>19 DEF LocalInv, Finish, Dispatch
<1>20. CASE UNCHANGED vars
  BY <1>0, <1>20 DEF LocalInv, vars
<1> QED
  BY <1>1, <1>2, <1>3, <1>4, <1>5, <1>6, <1>7, <1>8, <1>9, <1>10,
     <1>11, <1>12, <1>13, <1>14, <1>15, <1>16, <1>17, <1>18, <1>19, <1>20
     DEF Next, ThreadStep, WorkerStep, Switch

-----------------------------------------------------------------------------
(* How each step counts                                                    *)

\* A step after which nobody owes more.
LEMMA GroupsQuiet ==
    ASSUME LocalInv, LocalInv', Groups, UNCHANGED <<n, entered, passed>>, Open' = Open,
           Owed' \subseteq Owed, Woken' \subseteq Woken
    PROVE  Groups'
<1>0. Types /\ Types'
  BY DEF LocalInv
<1>1. Cardinality(Owed') <= Cardinality(Owed)
  BY <1>0, SetsFinite, FS_Subset
<1>2. Cardinality(Woken') <= Cardinality(Woken)
  BY <1>0, SetsFinite, FS_Subset
<1>3. Times(passed') = Times(passed)
  OBVIOUS
<1>4. /\ Cardinality(Times(passed)) \in Nat
      /\ Cardinality(Owed) \in Nat /\ Cardinality(Owed') \in Nat
      /\ Cardinality(Woken) \in Nat /\ Cardinality(Woken') \in Nat
  BY <1>0, SetsFinite, FiniteTimes
<1>5. Cardinality(Times(passed')) + Cardinality(Owed') + Cardinality(Woken')
             <= Cardinality(Times(passed)) + Cardinality(Owed) + Cardinality(Woken)
  BY <1>1, <1>2, <1>3, <1>4
<1> QED BY <1>0, <1>5, GroupsFrame

LEMMA ReturnGroups ==
    ASSUME LocalInv, LocalInv', Groups, NEW th \in Threads, Return(th), UNCHANGED n
    PROVE  Groups'
<1>0. Types /\ Types'
  BY DEF LocalInv
<1>1. /\ Cardinality(Times(passed)) \in Nat /\ Cardinality(Times(passed')) \in Nat
      /\ Cardinality(Owed) \in Nat /\ Cardinality(Owed') \in Nat
      /\ Cardinality(Woken) \in Nat /\ Cardinality(Woken') \in Nat
  BY <1>0, SetsFinite, FiniteTimes
<1>2. Cardinality(Times(passed')) <= Cardinality(Times(passed)) + 1
  <2>1. passed \in [Threads -> Nat] /\ passed' = [passed EXCEPT ![th] = @ + 1]
    BY <1>0 DEF Types, Return
  <2>2. Cardinality(Times(passed'))
          = Cardinality(Times(passed)) + (IF passed[th] < Rounds THEN 1 ELSE 0)
    BY <2>1, TimesMore
  <2> QED BY <2>2, <1>1
<1>3. Open' = Open
  BY DEF Return, Open
<1>4. pc' = [pc EXCEPT ![th] = "outside"] /\ count' = count /\ n' = n /\ entered' = entered
  BY DEF Return, Goto
<1>5. Owed' \subseteq Owed /\ Woken' \subseteq Woken
  BY <1>0, <1>4 DEF Owed, Owes, Woken, Types, PcTypes, WakerPCs, PopPCs, Agents
<1>6. Cardinality(Owed') <= Cardinality(Owed) /\ Cardinality(Woken') <= Cardinality(Woken)
  <2>1. IsFiniteSet(Owed) /\ IsFiniteSet(Woken)
    BY <1>0, SetsFinite
  <2> QED BY <1>5, <2>1, FS_Subset
<1>7. Cardinality(Owed') + Cardinality(Woken') + 1 <= Cardinality(Owed) + Cardinality(Woken)
  <2>1. CASE pc[th] = "woken"
    <3>1. th \in Woken /\ Woken' \subseteq Woken \ {th}
      BY <1>0, <1>4, <1>5, <2>1 DEF Woken, Types, PcTypes, Agents
    <3>2. Cardinality(Woken \ {th}) = Cardinality(Woken) - 1 /\ IsFiniteSet(Woken \ {th})
      BY <1>0, <3>1, SetsFinite, FS_RemoveElement
    <3>3. Cardinality(Woken') <= Cardinality(Woken \ {th})
      BY <3>1, <3>2, FS_Subset
    <3> QED BY <1>1, <1>6, <3>2, <3>3
  <2>2. CASE pc[th] = "push"
    <3>00. count[th] \in Nat /\ 0 \in 0 .. (n - 1)
      BY <1>0 DEF Types
    <3>0. <<th, 0>> \in Threads \X (0 .. n - 1) /\ count[th] \in Nat
      BY <3>00
    <3>0a. <<th, 0>> \in Owed
      BY <3>0, <2>2 DEF Owed, Owes, WakerPCs
    <3>0b. ~Owes(th)'
      BY <1>0, <1>4 DEF Owes, Types, PcTypes, Agents, WakerPCs, PopPCs
    <3>1. <<th, 0>> \in Owed /\ Owed' \subseteq Owed \ {<<th, 0>>}
      BY <1>5, <3>0a, <3>0b DEF Owed
    <3>2. /\ Cardinality(Owed \ {<<th, 0>>}) = Cardinality(Owed) - 1
          /\ IsFiniteSet(Owed \ {<<th, 0>>})
      BY <1>0, <3>1, SetsFinite, FS_RemoveElement
    <3>3. Cardinality(Owed') <= Cardinality(Owed \ {<<th, 0>>})
      BY <3>1, <3>2, FS_Subset
    <3> QED BY <1>1, <1>6, <3>2, <3>3
  <2> QED BY <2>1, <2>2 DEF Return, Goto, At
<1>8. Cardinality(Times(passed')) + Cardinality(Owed') + Cardinality(Woken')
             <= Cardinality(Times(passed)) + Cardinality(Owed) + Cardinality(Woken)
  BY <1>1, <1>2, <1>7
<1> QED BY <1>0, <1>3, <1>4, <1>8, GroupsFrame

LEMMA WakeGroups ==
    ASSUME LocalInv, LocalInv', Groups, NEW th \in Threads, Wake(th), UNCHANGED n
    PROVE  Groups'
<1>0. Types /\ Types' /\ LocalsOK
  BY DEF LocalInv
<1>1. /\ Cardinality(Times(passed)) \in Nat /\ Cardinality(Times(passed')) \in Nat
      /\ Cardinality(Owed) \in Nat /\ Cardinality(Owed') \in Nat
      /\ Cardinality(Woken) \in Nat /\ Cardinality(Woken') \in Nat
  BY <1>0, SetsFinite, FiniteTimes
<1>2. Open' = Open /\ UNCHANGED <<n, entered, passed>> /\ Times(passed') = Times(passed)
  BY DEF Wake, Open, clientVars
<1> DEFINE x == Head(batch[th])
<1>3. /\ pc[th] = "push" /\ x \in Threads
      /\ pc' = [pc EXCEPT ![x] = "woken"]
      /\ count' = [count EXCEPT ![th] = count[th] - 1]
  BY <1>0 DEF Wake, At, Types
<1> HIDE DEF x
<1>4. count[th] \in 0 .. n - 1 /\ <<th, count[th]>> \in Owed
  <2>1. count[th] \in 0 .. n - 1 /\ count[th] <= count[th]
    BY <1>0 DEF Types
  <2>2. Owes(th) /\ <<th, count[th]>> \in Threads \X (0 .. n - 1)
    BY <1>3, <2>1 DEF Owes, WakerPCs
  <2> QED BY <2>1, <2>2 DEF Owed
<1>5. Owed' \subseteq Owed \ {<<th, count[th]>>}
  <2> SUFFICES ASSUME NEW t \in Owed' PROVE t \in Owed \ {<<th, count[th]>>}
    OBVIOUS
  <2>1. t \in Threads \X (0 .. n - 1) /\ Owes(t[1])' /\ t[2] <= count'[t[1]]
    BY <1>2 DEF Owed
  <2>2. Owes(t[1])
    BY <1>0, <1>3, <2>1 DEF Owes, Types, PcTypes, Agents, WakerPCs, PopPCs
  <2>3. count[t[1]] \in Nat /\ count'[t[1]] = IF t[1] = th THEN count[th] - 1 ELSE count[t[1]]
    BY <1>0, <1>3, <2>1 DEF Types
  <2> QED BY <2>1, <2>2, <2>3, <1>4 DEF Owed
<1>6. Woken' \subseteq Woken \cup {x}
  BY <1>0, <1>3 DEF Woken, Types, PcTypes, Agents
<1>7. Cardinality(Owed') <= Cardinality(Owed) - 1
  <2>1. /\ Cardinality(Owed \ {<<th, count[th]>>}) = Cardinality(Owed) - 1
        /\ IsFiniteSet(Owed \ {<<th, count[th]>>})
    BY <1>0, <1>4, SetsFinite, FS_RemoveElement
  <2>2. Cardinality(Owed') <= Cardinality(Owed \ {<<th, count[th]>>})
    BY <1>5, <2>1, FS_Subset
  <2> QED BY <2>1, <2>2
<1>8. Cardinality(Woken') <= Cardinality(Woken) + 1
  <2>0. IsFiniteSet(Woken)
    BY <1>0, SetsFinite
  <2>0a. /\ IsFiniteSet(Woken \cup {x})
         /\ Cardinality(Woken \cup {x}) = IF x \in Woken THEN Cardinality(Woken)
                                           ELSE Cardinality(Woken) + 1
    BY <2>0, FS_AddElement
  <2>1. /\ Cardinality(Woken \cup {x}) <= Cardinality(Woken) + 1
        /\ IsFiniteSet(Woken \cup {x})
    BY <1>1, <2>0a
  <2>2. Cardinality(Woken') <= Cardinality(Woken \cup {x})
    BY <1>6, <2>1, FS_Subset
  <2>3. Cardinality(Woken \cup {x}) \in Nat
    BY <2>1, FS_CardinalityType
  <2> QED BY <1>1, <2>1, <2>2, <2>3
<1>9. Cardinality(Times(passed')) + Cardinality(Owed') + Cardinality(Woken')
             <= Cardinality(Times(passed)) + Cardinality(Owed) + Cardinality(Woken)
  BY <1>1, <1>2, <1>7, <1>8
<1> QED BY <1>0, <1>2, <1>9, GroupsFrame

\* The last thread of a group makes n returns due.
LEMMA CountGroups ==
    ASSUME LocalInv, LocalInv', Groups, NEW th \in Threads, WaitCount(th), UNCHANGED n
    PROVE  Groups'
<1>0. Types /\ Types' /\ LocalsOK /\ n' = n /\ n \in Nat \ {0}
  BY DEF LocalInv, Types
<1>1. /\ Cardinality(Times(passed)) \in Nat
      /\ Cardinality(Owed) \in Nat /\ Cardinality(Owed') \in Nat
      /\ Cardinality(Woken) \in Nat /\ Cardinality(Woken') \in Nat
  BY <1>0, SetsFinite, FiniteTimes
<1>2. /\ pc[th] = "cas" /\ state = count[th] /\ state' = state + 1 /\ count' = count
      /\ pc' = [pc EXCEPT ![th] = IF count[th] = n - 1 THEN "reset" ELSE "block"]
      /\ entered' = [entered EXCEPT ![th] = @ + 1]
      /\ passed' = passed
  BY DEF WaitCount, Goto, At
<1>3. Cardinality(Times(entered')) = Cardinality(Times(entered)) + 1
  <2>1. entered \in [Threads -> Nat] /\ entered[th] < Rounds
    BY <1>0, <1>2 DEF Types, LocalsOK
  <2>2. Cardinality(Times(entered'))
          = Cardinality(Times(entered)) + (IF entered[th] < Rounds THEN 1 ELSE 0)
    BY <1>2, <2>1, TimesMore
  <2>3. Cardinality(Times(entered)) \in Nat
    BY FiniteTimes
  <2> QED BY <2>1, <2>2, <2>3
<1>4. Woken' = Woken
  BY <1>0, <1>2 DEF Woken, Types, PcTypes, Agents
<1>5. Times(passed') = Times(passed)
  BY <1>2
<1>6. state \in 0 .. (n - 1) /\ Open = state
  BY <1>0, <1>2 DEF Types, Open
<1>7. PICK r \in Nat : GroupsOf(r)
  BY DEF Groups
<1>7a. /\ Cardinality(Times(entered)) = n * r + state
       /\ Cardinality(Times(passed)) + Cardinality(Owed) + Cardinality(Woken) <= n * r
       /\ n * r \in Nat
  BY <1>0, <1>6, <1>7 DEF GroupsOf
<1>8. CASE count[th] = n - 1
  <2>1. Owed' = Owed \cup ({th} \X (0 .. n - 1))
    BY <1>0, <1>2, <1>8 DEF Owed, Owes, Types, PcTypes, Agents, WakerPCs, PopPCs
  <2>2. IsFiniteSet({th} \X (0 .. n - 1)) /\ Cardinality({th} \X (0 .. n - 1)) = n
    <3>1. IsFiniteSet({th}) /\ Cardinality({th}) = 1
      BY FS_Singleton
    <3>2. IsFiniteSet(0 .. n - 1) /\ Cardinality(0 .. n - 1) = n
      BY <1>0, FS_Interval
    <3> DEFINE A == {th}
               B == 0 .. n - 1
    <3> HIDE DEF A, B
    <3>2a. /\ IsFiniteSet(A) /\ Cardinality(A) = 1
           /\ IsFiniteSet(B) /\ Cardinality(B) = n
      BY <3>1, <3>2 DEF A, B
    <3>2b. IsFiniteSet(A \X B) /\ Cardinality(A \X B) = Cardinality(A) * Cardinality(B)
      BY <3>2a, FS_Product
    <3>3. /\ IsFiniteSet({th} \X (0 .. n - 1))
          /\ Cardinality({th} \X (0 .. n - 1)) = 1 * n
      BY <3>2a, <3>2b DEF A, B
    <3> QED BY <1>0, <3>3
  <2>3. Cardinality(Owed') <= Cardinality(Owed) + n
    <3>1. Cardinality(Owed')
            = Cardinality(Owed) + n - Cardinality(Owed \cap ({th} \X (0 .. n - 1)))
      BY <1>0, <2>1, <2>2, SetsFinite, FS_Union
    <3>2. Cardinality(Owed \cap ({th} \X (0 .. n - 1))) \in Nat
      BY <1>0, SetsFinite, FS_Intersection, FS_CardinalityType
    <3> QED BY <1>0, <1>1, <3>1, <3>2
  <2>4. Open' = 0 /\ state = n - 1
    BY <1>0, <1>2, <1>8 DEF Open
  <2>5. n * (r + 1) = n * r + n /\ r + 1 \in Nat
    BY <1>0
  <2>6. /\ Cardinality(Times(entered')) = n * (r + 1)
        /\ Cardinality(Times(passed')) + Cardinality(Owed') + Cardinality(Woken')
             <= n * (r + 1)
    BY <1>0, <1>1, <1>3, <1>4, <1>5, <1>7a, <2>3, <2>4, <2>5
  <2>7. GroupsOf(r + 1)'
    BY <1>0, <2>4, <2>6, <2>5 DEF GroupsOf
  <2> QED BY <2>5, <2>7 DEF Groups
<1>9. CASE count[th] # n - 1
  <2>1. Owed' = Owed
    BY <1>0, <1>2, <1>9 DEF Owed, Owes, Types, PcTypes, Agents, WakerPCs, PopPCs
  <2>2. Open' = state + 1
    BY <1>0, <1>2, <1>6, <1>9 DEF Open
  <2>3. /\ Cardinality(Times(entered')) = n * r + Open'
        /\ Cardinality(Times(passed')) + Cardinality(Owed') + Cardinality(Woken') <= n * r
    BY <1>0, <1>1, <1>3, <1>4, <1>5, <1>6, <1>7a, <2>1, <2>2
  <2>4. GroupsOf(r)'
    BY <1>0, <2>3 DEF GroupsOf
  <2> QED BY <2>4 DEF Groups
<1> QED BY <1>8, <1>9

LEMMA GroupsStep == ASSUME LocalInv, LocalInv', Groups, [Next]_vars PROVE Groups'
<1>0. Types /\ LocalsOK /\ ResetOK
  BY DEF LocalInv
<1> USE BlockingAssumption
    DEF Types, PcTypes, SwitchTypeOK, Agents, Owed, Owes, Woken, Open, At, Goto,
        WakerPCs, PopPCs, switchVars, stackVars, clientVars
<1>1. ASSUME NEW th \in Threads, WaitRead(th), UNCHANGED n PROVE Groups'
  <2>1. Owed' \subseteq Owed /\ Woken' \subseteq Woken
    BY <1>0, <1>1 DEF WaitRead
  <2>2. Open' = Open /\ UNCHANGED <<n, entered, passed>>
    BY <1>0, <1>1 DEF WaitRead
  <2> HIDE DEF Owed, Woken, Open
  <2> QED BY <2>1, <2>2, GroupsQuiet
<1>2. ASSUME NEW th \in Threads, WaitRetry(th), UNCHANGED n PROVE Groups'
  <2>1. Owed' \subseteq Owed /\ Woken' \subseteq Woken
    BY <1>0, <1>2 DEF WaitRetry
  <2>2. Open' = Open /\ UNCHANGED <<n, entered, passed>>
    BY <1>0, <1>2 DEF WaitRetry
  <2> HIDE DEF Owed, Woken, Open
  <2> QED BY <2>1, <2>2, GroupsQuiet
<1>3. ASSUME NEW th \in Threads, WaitExcess(th), UNCHANGED n PROVE Groups'
  <2>1. Owed' \subseteq Owed /\ Woken' \subseteq Woken
    BY <1>0, <1>3 DEF WaitExcess
  <2>2. Open' = Open /\ UNCHANGED <<n, entered, passed>>
    BY <1>0, <1>3 DEF WaitExcess
  <2> HIDE DEF Owed, Woken, Open
  <2> QED BY <2>1, <2>2, GroupsQuiet
<1>4. ASSUME NEW th \in Threads, Reset(th), UNCHANGED n PROVE Groups'
  <2>1. Owed' \subseteq Owed /\ Woken' \subseteq Woken
    BY <1>0, <1>4 DEF Reset
  <2>2. Open' = Open /\ UNCHANGED <<n, entered, passed>>
    BY <1>0, <1>4 DEF Reset, ResetOK
  <2> HIDE DEF Owed, Woken, Open
  <2> QED BY <2>1, <2>2, GroupsQuiet
<1>5. ASSUME NEW th \in Threads, PopRead(th), UNCHANGED n PROVE Groups'
  <2>1. Owed' \subseteq Owed /\ Woken' \subseteq Woken
    BY <1>0, <1>5 DEF PopRead
  <2>2. Open' = Open /\ UNCHANGED <<n, entered, passed>>
    BY <1>0, <1>5 DEF PopRead
  <2> HIDE DEF Owed, Woken, Open
  <2> QED BY <2>1, <2>2, GroupsQuiet
<1>6. ASSUME NEW th \in Threads, PopNext(th), UNCHANGED n PROVE Groups'
  <2>1. Owed' \subseteq Owed /\ Woken' \subseteq Woken
    BY <1>0, <1>6 DEF PopNext
  <2>2. Open' = Open /\ UNCHANGED <<n, entered, passed>>
    BY <1>0, <1>6 DEF PopNext
  <2> HIDE DEF Owed, Woken, Open
  <2> QED BY <2>1, <2>2, GroupsQuiet
<1>7. ASSUME NEW th \in Threads, PopRetry(th), UNCHANGED n PROVE Groups'
  <2>1. Owed' \subseteq Owed /\ Woken' \subseteq Woken
    BY <1>0, <1>7 DEF PopRetry
  <2>2. Open' = Open /\ UNCHANGED <<n, entered, passed>>
    BY <1>0, <1>7 DEF PopRetry
  <2> HIDE DEF Owed, Woken, Open
  <2> QED BY <2>1, <2>2, GroupsQuiet
<1>8. ASSUME NEW th \in Threads, WakeStart(th), UNCHANGED n PROVE Groups'
  <2>1. Owed' \subseteq Owed /\ Woken' \subseteq Woken
    BY <1>0, <1>8 DEF WakeStart
  <2>2. Open' = Open /\ UNCHANGED <<n, entered, passed>>
    BY <1>0, <1>8 DEF WakeStart
  <2> HIDE DEF Owed, Woken, Open
  <2> QED BY <2>1, <2>2, GroupsQuiet
<1>9. ASSUME NEW th \in Threads, Pop(th), UNCHANGED n PROVE Groups'
  <2>1. Owed' \subseteq Owed /\ Woken' \subseteq Woken
    BY <1>0, <1>9 DEF Pop
  <2>2. Open' = Open /\ UNCHANGED <<n, entered, passed>>
    BY <1>0, <1>9 DEF Pop
  <2> HIDE DEF Owed, Woken, Open
  <2> QED BY <2>1, <2>2, GroupsQuiet
<1>10. ASSUME NEW w \in Workers, Switch(w), UNCHANGED n PROVE Groups'
  <2>1. Owed' \subseteq Owed /\ Woken' \subseteq Woken
    BY <1>0, <1>10 DEF Switch, Resume, SwapContext
  <2>2. Open' = Open /\ UNCHANGED <<n, entered, passed>>
    BY <1>0, <1>10 DEF Switch, Resume, SwapContext
  <2> HIDE DEF Owed, Woken, Open
  <2> QED BY <2>1, <2>2, GroupsQuiet
<1>11. ASSUME NEW w \in Workers, PushRead(w), UNCHANGED n PROVE Groups'
  <2>1. Owed' \subseteq Owed /\ Woken' \subseteq Woken
    BY <1>0, <1>11 DEF PushRead
  <2>2. Open' = Open /\ UNCHANGED <<n, entered, passed>>
    BY <1>0, <1>11 DEF PushRead
  <2> HIDE DEF Owed, Woken, Open
  <2> QED BY <2>1, <2>2, GroupsQuiet
<1>12. ASSUME NEW w \in Workers, PushPublish(w), UNCHANGED n PROVE Groups'
  <2>1. Owed' \subseteq Owed /\ Woken' \subseteq Woken
    BY <1>0, <1>12 DEF PushPublish, Left
  <2>2. Open' = Open /\ UNCHANGED <<n, entered, passed>>
    BY <1>0, <1>12 DEF PushPublish, Left
  <2> HIDE DEF Owed, Woken, Open
  <2> QED BY <2>1, <2>2, GroupsQuiet
<1>13. ASSUME NEW w \in Workers, PushRetry(w), UNCHANGED n PROVE Groups'
  <2>1. Owed' \subseteq Owed /\ Woken' \subseteq Woken
    BY <1>0, <1>13 DEF PushRetry
  <2>2. Open' = Open /\ UNCHANGED <<n, entered, passed>>
    BY <1>0, <1>13 DEF PushRetry
  <2> HIDE DEF Owed, Woken, Open
  <2> QED BY <2>1, <2>2, GroupsQuiet
<1>14. ASSUME NEW w \in Workers, NEW th \in Threads, WaitBlock(w, th) \/ Finish(w, th),
             UNCHANGED n
      PROVE  Groups'
  <2>1. Owed' \subseteq Owed /\ Woken' \subseteq Woken
    <3>1. CASE WaitBlock(w, th)
      <4>1. /\ pc' = [pc EXCEPT ![th] = "asleep", ![w] = "swap"]
            /\ count' = [count EXCEPT ![th] = 0]
        BY <3>1 DEF WaitBlock, Block, Leave
      <4>2. ~Owes(th)' /\ pc'[th] # "woken"
        BY <1>0, <4>1
      <4>3. \A t \in Threads : t # th => pc'[t] = pc[t] /\ count'[t] = count[t]
        BY <1>0, <4>1
      <4> HIDE DEF Types, PcTypes
      <4> QED BY <1>14, <4>2, <4>3
    <3>2. CASE Finish(w, th)
      BY <1>14, <3>2 DEF Finish
    <3> QED BY <1>14, <3>1, <3>2
  <2>2. Open' = Open /\ UNCHANGED <<n, entered, passed>>
    BY <1>0, <1>14 DEF WaitBlock, Finish
  <2> HIDE DEF Owed, Woken, Open
  <2> QED BY <2>1, <2>2, GroupsQuiet
<1>15. CASE UNCHANGED vars
  <2>1. Owed' \subseteq Owed /\ Woken' \subseteq Woken
    BY <1>15 DEF vars
  <2>2. Open' = Open /\ UNCHANGED <<n, entered, passed>>
    BY <1>15 DEF vars
  <2> HIDE DEF Owed, Woken, Open
  <2> QED BY <2>1, <2>2, GroupsQuiet
<1> HIDE DEF Types, PcTypes, SwitchTypeOK, Agents, Owed, Owes, Woken, Open, At, Goto,
        WakerPCs, PopPCs, switchVars, stackVars, clientVars
<1> QED
  BY <1>1, <1>2, <1>3, <1>4, <1>5, <1>6, <1>7, <1>8, <1>9, <1>10,
     <1>11, <1>12, <1>13, <1>14, <1>15, ReturnGroups, WakeGroups, CountGroups
     DEF Next, ThreadStep, WorkerStep

LEMMA InitGroups == ASSUME Init PROVE Groups
<1>1. Times(entered) = {} /\ Times(passed) = {} /\ Owed = {} /\ Woken = {}
  BY BlockingAssumption DEF Init, Times, Owed, Owes, Woken, WakerPCs, PopPCs, Agents
<1>2. Cardinality({}) = 0
  BY FS_EmptySet
<1>3. n \in Nat \ {0} /\ Open = 0
  BY BarrierAssumption DEF Init, Open
<1>4. n * 0 = 0
  BY <1>3
<1>5. GroupsOf(0)
  BY <1>1, <1>2, <1>3, <1>4 DEF GroupsOf
<1> QED BY <1>5 DEF Groups

LEMMA DivideGroups ==
    ASSUME NEW m \in Nat \ {0}, NEW r \in Nat, NEW k \in 0 .. (m - 1)
    PROVE  (m * r + k) \div m = r
<1>1. m * r + k \in Nat /\ m * r \in Nat
  OBVIOUS
<1> QED BY <1>1

GInv == LocalInv /\ Groups

LEMMA GroupsPass == ASSUME GInv PROVE WholeGroupsPass
<1>1. PICK r \in Nat : GroupsOf(r)
  BY DEF GInv, Groups
<1>2. Types /\ n \in Nat \ {0} /\ Open \in 0 .. (n - 1)
  BY DEF GInv, LocalInv, Types, Open
<1>3. Cardinality(Times(entered)) \div n = r
  BY <1>1, <1>2, DivideGroups DEF GroupsOf
<1>4. /\ Cardinality(Times(passed)) \in Nat
      /\ Cardinality(Owed) \in Nat /\ Cardinality(Woken) \in Nat
  <2>1. n \in Nat /\ Owed \in SUBSET (Threads \X (0 .. n - 1)) /\ Woken \in SUBSET Threads
    BY <1>2 DEF Owed, Woken
  <2> QED BY <2>1, FiniteTimes, FiniteOwed, FiniteThreads
<1>5. n * r \in Nat
  BY <1>2
<1>6. Cardinality(Times(passed)) <= n * r
  BY <1>1, <1>4, <1>5 DEF GroupsOf
<1> QED BY <1>3, <1>6 DEF WholeGroupsPass

(***************************************************************************)
(* Whatever number the barrier is for and however many threads use it,     *)
(* only whole groups of that number return from myth_barrier_wait.         *)
(***************************************************************************)
THEOREM WholeGroups == Spec => []WholeGroupsPass
<1>1. Init => GInv
  BY InitLocal, InitGroups DEF GInv
<1>2. GInv /\ [Next]_vars => GInv'
  BY LocalStep, GroupsStep DEF GInv
<1>3. GInv => WholeGroupsPass
  BY GroupsPass
<1> QED BY <1>1, <1>2, <1>3, PTL DEF Spec

-----------------------------------------------------------------------------
(* Rounds, when the barrier is for the threads that use it                 *)

\* Round e + 1 is being gathered.  A thread has come for it; or it is
\* outside; or it has not returned yet from the round before.
Came(th, e) ==
    /\ entered[th] = e + 1 /\ passed[th] = e
    /\ pc[th] \in {"block", "asleep", "reset"}
Out(th, e) ==
    /\ entered[th] = e /\ passed[th] = e
    /\ pc[th] \in {"outside", "cas"}
Late(th, e) ==
    /\ entered[th] = e /\ passed[th] + 1 = e
    /\ pc[th] \in {"block", "asleep", "woken"} \cup WakerPCs

CameSet(e) == {th \in Threads : entered[th] = e + 1}

\* All threads other than th have counted themselves k times, and wait.
OthersWait(th, k) ==
    \A o \in Threads \ {th} : entered[o] = k /\ pc[o] \in {"block", "asleep"}

RoundOK(e) ==
    /\ \A th \in Threads : Came(th, e) \/ Out(th, e) \/ Late(th, e)
    /\ state = Cardinality(CameSet(e))
    /\ \A th \in Threads : pc[th] = "reset" => OthersWait(th, e + 1)
    /\ \A th \in Threads : pc[th] \in PopPCs => OthersWait(th, e)
    /\ \A a, b \in Threads : pc[a] \in WakerPCs /\ pc[b] \in WakerPCs => a = b

\* Sequence s is what is on the stack, newest first; each is linked to the
\* one after it.
Link(s, i) == IF i <= Len(s) THEN s[i] ELSE NULL
Chained(s) ==
    /\ top = Link(s, 1)
    /\ \A i \in 1 .. Len(s) : next[s[i]] = Link(s, i + 1)

\* Whoever is on the stack, in a batch or in a callback sleeps, and is in
\* only one place.
OnStack(s, x) == \E i \in 1 .. Len(s) : s[i] = x
Distinct(q) == \A i, j \in 1 .. Len(q) : q[i] = q[j] => i = j
Sleepers(s) ==
    /\ Distinct(s)
    /\ \A i \in 1 .. Len(s) : pc[s[i]] = "asleep"
LeaversOK(s) ==
    \A w \in Workers : pc[w] # "run" =>
        /\ pc[leaving[w]] = "asleep" /\ ~OnStack(s, leaving[w])
        /\ \A v \in Workers : pc[v] # "run" /\ leaving[v] = leaving[w] => v = w
        /\ pc[w] = "push_cas" => next[leaving[w]] = head[w]
BatchesOK(s, e) ==
    \A th \in Threads :
        /\ batch[th] # <<>> => pc[th] \in WakerPCs
        /\ Distinct(batch[th])
        /\ \A i \in 1 .. Len(batch[th]) :
            /\ pc[batch[th][i]] = "asleep" /\ entered[batch[th][i]] = e
            /\ ~OnStack(s, batch[th][i])
            /\ \A w \in Workers : pc[w] # "run" => leaving[w] # batch[th][i]

\* A pop has read a thread that is on the stack until the pop takes it, and
\* its link does not change meanwhile.
PopsOK(s) ==
    \A th \in Threads :
        /\ pc[th] \in {"pop_next", "pop_cas"} => OnStack(s, head[th])
        /\ pc[th] = "pop_cas" => second[th] = next[head[th]]

StackOK(s, e) ==
    Chained(s) /\ Sleepers(s) /\ LeaversOK(s) /\ BatchesOK(s, e) /\ PopsOK(s)

Good(e, s) == RoundOK(e) /\ StackOK(s, e)
FitsInv == Fits => ~fatal /\ \E e \in Nat, s \in Seq(Threads) : Good(e, s)

\* A thread moves that neither wakes nor is asleep for anybody's sake.
LEMMA RoundMove ==
    ASSUME NEW e \in Nat, RoundOK(e), NEW th \in Threads,
           UNCHANGED <<state, entered, passed>>,
           \A o \in Threads \ {th} : pc'[o] = pc[o],
           Came(th, e)' \/ Out(th, e)' \/ Late(th, e)',
           pc'[th] # "reset",
           pc'[th] \in WakerPCs => pc[th] \in WakerPCs,
           pc'[th] \in PopPCs => pc[th] \in PopPCs,
           \/ pc'[th] \in {"block", "asleep"}
           \/ \A a \in Threads \ {th} : pc[a] \notin PopPCs \cup {"reset"}
    PROVE  RoundOK(e)'
<1>1. CameSet(e)' = CameSet(e)
  BY DEF CameSet
<1>2. \A o \in Threads : Came(o, e)' \/ Out(o, e)' \/ Late(o, e)'
  BY DEF RoundOK, Came, Out, Late
<1>3. \A o \in Threads : pc'[o] = "reset" => OthersWait(o, e + 1)'
  BY DEF RoundOK, OthersWait
<1>4. \A o \in Threads : pc'[o] \in PopPCs => OthersWait(o, e)'
  BY DEF RoundOK, OthersWait
<1>5. \A a, b \in Threads : pc'[a] \in WakerPCs /\ pc'[b] \in WakerPCs => a = b
  BY DEF RoundOK
<1> QED BY <1>1, <1>2, <1>3, <1>4, <1>5 DEF RoundOK

\* Only workers move.
LEMMA RoundFrame ==
    ASSUME NEW e \in Nat, RoundOK(e), UNCHANGED <<state, entered, passed>>,
           \A o \in Threads : pc'[o] = pc[o]
    PROVE  RoundOK(e)'
<1>1. CameSet(e)' = CameSet(e)
  BY DEF CameSet
<1> QED BY <1>1 DEF RoundOK, Came, Out, Late, OthersWait

\* A thread moves that is not asleep, and the stack stays as it is.
LEMMA StackMove ==
    ASSUME LocalInv, NEW s \in Seq(Threads), NEW e \in Nat, StackOK(s, e),
           NEW k \in Nat, k = e \/ \A o \in Threads : batch[o] = <<>>,
           NEW th \in Threads, pc[th] # "asleep",
           UNCHANGED <<top, next, leaving, batch>>,
           \A a \in Agents \ {th} : pc'[a] = pc[a] /\ head'[a] = head[a],
           \A o \in Threads \ {th} : entered'[o] = entered[o] /\ second'[o] = second[o],
           batch[th] # <<>> => pc'[th] \in WakerPCs,
           pc'[th] \in {"pop_next", "pop_cas"} => OnStack(s, head'[th]),
           pc'[th] = "pop_cas" => second'[th] = next[head'[th]]
    PROVE  StackOK(s, k)'
<1>1. Workers \subseteq Agents \ {th} /\ Threads \ {th} \subseteq Agents \ {th}
  BY BlockingAssumption DEF Agents
<1>2. Chained(s)'
  BY DEF StackOK, Chained, Link
<1>3. Sleepers(s)'
  BY <1>1 DEF StackOK, Sleepers, Distinct
<1>4. LeaversOK(s)'
  <2>1. \A w \in Workers : pc[w] # "run" => leaving[w] \in Threads \ {th}
    BY DEF LocalInv, LocalsOK, StackOK, LeaversOK
  <2> QED BY <1>1, <2>1 DEF StackOK, LeaversOK, OnStack
<1>5. BatchesOK(s, k)'
  <2> SUFFICES ASSUME NEW o \in Threads
               PROVE  /\ batch[o] # <<>> => pc'[o] \in WakerPCs
                      /\ Distinct(batch[o])
                      /\ \A i \in 1 .. Len(batch[o]) :
                          /\ pc'[batch[o][i]] = "asleep" /\ entered'[batch[o][i]] = k
                          /\ ~OnStack(s, batch[o][i])
                          /\ \A w \in Workers : pc'[w] # "run" => leaving[w] # batch[o][i]
    BY DEF BatchesOK, OnStack, Distinct
  <2>1. batch[o] # <<>> => pc'[o] \in WakerPCs
    BY <1>1 DEF StackOK, BatchesOK
  <2>2. Distinct(batch[o])
    BY DEF StackOK, BatchesOK
  <2>3. ASSUME NEW i \in 1 .. Len(batch[o])
        PROVE  /\ pc'[batch[o][i]] = "asleep" /\ entered'[batch[o][i]] = k
               /\ ~OnStack(s, batch[o][i])
               /\ \A w \in Workers : pc'[w] # "run" => leaving[w] # batch[o][i]
    <3>1. batch[o] # <<>> /\ batch[o] \in Seq(Threads) /\ batch[o][i] \in Threads
      BY <2>3 DEF LocalInv, Types
    <3>2. /\ pc[batch[o][i]] = "asleep" /\ entered[batch[o][i]] = e
          /\ ~OnStack(s, batch[o][i])
          /\ \A w \in Workers : pc[w] # "run" => leaving[w] # batch[o][i]
      BY DEF StackOK, BatchesOK
    <3> QED BY <1>1, <3>1, <3>2
  <2> QED BY <2>1, <2>2, <2>3
<1>6. PopsOK(s)'
  BY <1>1 DEF StackOK, PopsOK, OnStack
<1> QED BY <1>2, <1>3, <1>4, <1>5, <1>6 DEF StackOK

LEMMA MoveSteps ==
    ASSUME LocalInv, NEW e \in Nat, NEW s \in Seq(Threads), Good(e, s), NEW th \in Threads,
           \/ WaitRead(th) \/ WaitRetry(th) \/ PopRead(th) \/ PopNext(th)
           \/ PopRetry(th) \/ WakeStart(th)
    PROVE  Good(e, s)'
<1>0. Types /\ PcTypes /\ RoundOK(e) /\ StackOK(s, e)
  BY DEF LocalInv, Types, Good
<1>1. th \in Agents /\ Threads \subseteq Agents
  BY DEF Agents
<1>2. UNCHANGED <<state, entered, passed, top, next, leaving, batch>>
  BY DEF WaitRead, WaitRetry, PopRead, PopNext, PopRetry, WakeStart, switchVars,
         stackVars, clientVars
<1>3. /\ <<pc[th], pc'[th]>> \in {<<"outside", "cas">>, <<"cas", "outside">>,
             <<"pop", "pop_next">>, <<"pop_next", "pop_cas">>, <<"pop_cas", "pop">>,
             <<"pop", "push">>}
      /\ \A a \in Agents \ {th} : pc'[a] = pc[a] /\ head'[a] = head[a]
      /\ \A o \in Threads \ {th} : second'[o] = second[o]
  BY <1>0, <1>1 DEF WaitRead, WaitRetry, PopRead, PopNext, PopRetry, WakeStart, PopDone,
     Goto, At, PcTypes, Types, stackVars
<1>4. RoundOK(e)'
  <2>1. Came(th, e)' \/ Out(th, e)' \/ Late(th, e)'
    BY <1>0, <1>2, <1>3 DEF RoundOK, Came, Out, Late, WakerPCs, PopPCs
  <2>2. pc[th] \in PopPCs => \A a \in Threads \ {th} : pc[a] \notin PopPCs \cup {"reset"}
    BY <1>0 DEF RoundOK, OthersWait, PopPCs
  <2>3. pc[th] \notin PopPCs => \A a \in Threads \ {th} : pc[a] \notin PopPCs \cup {"reset"}
    BY <1>0, <1>3 DEF RoundOK, OthersWait, PopPCs
  <2>4. \A o \in Threads \ {th} : pc'[o] = pc[o]
    BY <1>1, <1>3
  <2>5. /\ pc'[th] # "reset"
        /\ pc'[th] \in WakerPCs => pc[th] \in WakerPCs
        /\ pc'[th] \in PopPCs => pc[th] \in PopPCs
    BY <1>3 DEF WakerPCs, PopPCs
  <2> QED BY <1>0, <1>2, <2>1, <2>2, <2>3, <2>4, <2>5, RoundMove
<1>5. StackOK(s, e)'
  <2>1. pc[th] # "asleep"
    BY <1>3
  <2>2. batch[th] # <<>> => pc'[th] \in WakerPCs
    BY <1>0, <1>3 DEF StackOK, BatchesOK, WakerPCs, PopPCs
  <2>3. /\ pc'[th] \in {"pop_next", "pop_cas"} => OnStack(s, head'[th])
        /\ pc'[th] = "pop_cas" => second'[th] = next[head'[th]]
    <3>1. CASE PopRead(th)
      <4>1. top \in Threads /\ head'[th] = top /\ pc'[th] = "pop_next"
        BY <1>0, <1>1, <3>1 DEF PopRead, Types, PcTypes, Goto
      <4>2. 1 \in 1 .. Len(s) /\ s[1] = top
        BY <1>0, <4>1, BlockingAssumption DEF StackOK, Chained, Link
      <4> QED BY <4>1, <4>2 DEF OnStack
    <3>2. CASE PopNext(th)
      <4>1. head' = head /\ second'[th] = next[head[th]] /\ pc[th] = "pop_next"
        BY <1>0, <1>1, <3>2 DEF PopNext, Types, Goto, At
      <4> QED BY <1>0, <4>1 DEF StackOK, PopsOK
    <3>3. CASE ~PopRead(th) /\ ~PopNext(th)
      BY <1>0, <1>1, <3>3 DEF WaitRead, WaitRetry, PopRetry, WakeStart, Goto, PcTypes
    <3> QED BY <3>1, <3>2, <3>3
  <2> QED BY <1>0, <1>2, <1>3, <2>1, <2>2, <2>3, StackMove
<1> QED BY <1>4, <1>5 DEF Good

LEMMA ReturnGood ==
    ASSUME LocalInv, NEW e \in Nat, NEW s \in Seq(Threads), Good(e, s), NEW th \in Threads,
           Return(th)
    PROVE  Good(e, s)'
<1>0. Types /\ PcTypes /\ LocalsOK /\ RoundOK(e) /\ StackOK(s, e)
  BY DEF LocalInv, Types, Good
<1>1. th \in Agents /\ Threads \subseteq Agents
  BY DEF Agents
<1>2. /\ UNCHANGED <<state, entered, top, next, leaving, batch, head, second>>
      /\ passed' = [passed EXCEPT ![th] = @ + 1]
      /\ pc' = [pc EXCEPT ![th] = "outside"]
      /\ pc[th] = "woken" \/ (pc[th] = "push" /\ count[th] = 0)
  BY DEF Return, Goto, At, switchVars, stackVars
<1>3. /\ pc'[th] = "outside"
      /\ \A a \in Agents \ {th} : pc'[a] = pc[a]
      /\ \A o \in Threads \ {th} : passed'[o] = passed[o]
      /\ passed'[th] = passed[th] + 1
  BY <1>0, <1>1, <1>2 DEF PcTypes, Types
<1>4. RoundOK(e)'
  <2>1. CameSet(e)' = CameSet(e)
    BY <1>2 DEF CameSet
  <2>2. \A o \in Threads : Came(o, e)' \/ Out(o, e)' \/ Late(o, e)'
    <3>1. Out(th, e)'
      BY <1>0, <1>2, <1>3 DEF RoundOK, Came, Out, Late, WakerPCs
    <3> QED BY <1>0, <1>1, <1>2, <1>3, <3>1 DEF RoundOK, Came, Out, Late
  <2>3. \A o \in Threads : pc'[o] = "reset" => OthersWait(o, e + 1)'
    BY <1>0, <1>1, <1>2, <1>3 DEF RoundOK, OthersWait
  <2>4. \A o \in Threads : pc'[o] \in PopPCs => OthersWait(o, e)'
    BY <1>0, <1>1, <1>2, <1>3 DEF RoundOK, OthersWait, PopPCs
  <2>5. \A a, b \in Threads : pc'[a] \in WakerPCs /\ pc'[b] \in WakerPCs => a = b
    BY <1>0, <1>1, <1>3 DEF RoundOK, WakerPCs, PopPCs
  <2> QED BY <1>0, <1>2, <2>1, <2>2, <2>3, <2>4, <2>5 DEF RoundOK
<1>5. StackOK(s, e)'
  <2>1. pc[th] # "asleep" /\ pc'[th] \notin {"pop_next", "pop_cas"}
    BY <1>2, <1>3
  <2>2. batch[th] = <<>>
    <3>1. pc[th] = "push" => Len(batch[th]) = 0
      BY <1>0, <1>2 DEF LocalsOK
    <3>2. pc[th] = "woken" => batch[th] = <<>>
      BY <1>0 DEF StackOK, BatchesOK, WakerPCs, PopPCs
    <3>3. batch[th] \in Seq(Threads)
      BY <1>0 DEF Types
    <3> QED BY <1>2, <3>1, <3>2, <3>3
  <2> QED BY <1>0, <1>2, <1>3, <2>1, <2>2, StackMove
<1> QED BY <1>4, <1>5 DEF Good

LEMMA CountGood ==
    ASSUME LocalInv, LocalInv', Fits, NEW e \in Nat, NEW s \in Seq(Threads), Good(e, s),
           NEW th \in Threads, WaitCount(th), UNCHANGED n
    PROVE  Good(e, s)'
<1>0. Types /\ PcTypes /\ ResetOK' /\ RoundOK(e) /\ StackOK(s, e)
  BY DEF LocalInv, Types, Good
<1>1. th \in Agents /\ Threads \subseteq Agents
  BY DEF Agents
<1>2. /\ UNCHANGED <<passed, top, next, leaving, batch, head, second>>
      /\ entered' = [entered EXCEPT ![th] = @ + 1]
      /\ state' = state + 1
      /\ pc' = [pc EXCEPT ![th] = IF count[th] = n - 1 THEN "reset" ELSE "block"]
      /\ pc[th] = "cas"
  BY DEF WaitCount, Goto, At, switchVars, stackVars
<1>3. /\ pc'[th] \in {"reset", "block"}
      /\ \A a \in Agents \ {th} : pc'[a] = pc[a]
      /\ \A o \in Threads \ {th} : entered'[o] = entered[o]
      /\ entered'[th] = entered[th] + 1
  BY <1>0, <1>1, <1>2 DEF PcTypes, Types
<1>4. entered[th] = e /\ passed[th] = e
  BY <1>0, <1>2 DEF RoundOK, Came, Out, Late, WakerPCs, PopPCs
<1>5. /\ \A o \in Threads : pc[o] \notin PopPCs
      /\ \A o \in Threads : pc[o] # "reset"
  BY <1>0, <1>2 DEF RoundOK, OthersWait, PopPCs
<1>6. CameSet(e)' = CameSet(e) \cup {th} /\ th \notin CameSet(e)
  BY <1>3, <1>4 DEF CameSet
<1>7. state' = Cardinality(CameSet(e)')
  <2>1. IsFiniteSet(CameSet(e)) /\ Cardinality(CameSet(e)) = state
    BY <1>0, FiniteThreads DEF RoundOK, CameSet
  <2> QED BY <1>2, <1>6, <2>1, FS_AddElement
<1>8. RoundOK(e)'
  <2>1. \A o \in Threads : Came(o, e)' \/ Out(o, e)' \/ Late(o, e)'
    <3>1. Came(th, e)'
      BY <1>2, <1>3, <1>4 DEF Came
    <3> QED BY <1>0, <1>1, <1>2, <1>3, <3>1 DEF RoundOK, Came, Out, Late
  <2>2. pc'[th] = "reset" => OthersWait(th, e + 1)'
    <3> SUFFICES ASSUME pc'[th] = "reset" PROVE OthersWait(th, e + 1)'
      OBVIOUS
    <3>1. state' = Cardinality(Threads)
      BY <1>0 DEF ResetOK, Fits
    <3>2. CameSet(e)' = Threads
      <4>1. CameSet(e)' \subseteq Threads
        BY DEF CameSet
      <4> QED BY <3>1, <1>7, <4>1, BlockingAssumption, FS_Subset
    <3>3. \A o \in Threads \ {th} : entered'[o] = e + 1 /\ entered[o] = e + 1
      BY <1>3, <3>2 DEF CameSet
    <3>4. \A o \in Threads \ {th} : pc[o] \in {"block", "asleep"}
      BY <1>0, <1>5, <3>3 DEF RoundOK, Came, Out, Late
    <3> QED BY <1>1, <1>3, <3>3, <3>4 DEF OthersWait
  <2>3. \A o \in Threads : pc'[o] = "reset" => o = th
    BY <1>1, <1>3, <1>5
  <2>4. \A o \in Threads : pc'[o] \notin PopPCs
    BY <1>1, <1>3, <1>5 DEF PopPCs
  <2>5. \A a, b \in Threads : pc'[a] \in WakerPCs /\ pc'[b] \in WakerPCs => a = b
    BY <1>0, <1>1, <1>3 DEF RoundOK, WakerPCs, PopPCs
  <2> QED BY <1>7, <2>1, <2>2, <2>3, <2>4, <2>5 DEF RoundOK
<1>9. StackOK(s, e)'
  <2>1. pc[th] # "asleep" /\ pc'[th] \notin {"pop_next", "pop_cas"}
    BY <1>2, <1>3
  <2>2. batch[th] = <<>>
    BY <1>0, <1>2 DEF StackOK, BatchesOK, WakerPCs, PopPCs
  <2> QED BY <1>0, <1>2, <1>3, <2>1, <2>2, StackMove
<1> QED BY <1>8, <1>9 DEF Good

\* The next round begins with everybody late from the one before.
LEMMA ResetGood ==
    ASSUME LocalInv, NEW e \in Nat, NEW s \in Seq(Threads), Good(e, s),
           NEW th \in Threads, Reset(th)
    PROVE  Good(e + 1, s)'
<1>0. Types /\ PcTypes /\ RoundOK(e) /\ StackOK(s, e)
  BY DEF LocalInv, Types, Good
<1>1. th \in Agents /\ Threads \subseteq Agents
  BY DEF Agents
<1>2. /\ UNCHANGED <<entered, passed, top, next, leaving, batch, head, second>>
      /\ state' = 0
      /\ pc' = [pc EXCEPT ![th] = "pop"]
      /\ pc[th] = "reset"
  BY DEF Reset, Goto, At, switchVars, stackVars, clientVars
<1>3. pc'[th] = "pop" /\ \A a \in Agents \ {th} : pc'[a] = pc[a]
  BY <1>0, <1>1, <1>2 DEF PcTypes
<1>4. Came(th, e) /\ OthersWait(th, e + 1)
  BY <1>0, <1>2 DEF RoundOK, Came, Out, Late, WakerPCs, PopPCs
<1>5. \A o \in Threads : entered[o] = e + 1 /\ passed[o] = e
  BY <1>0, <1>4 DEF RoundOK, Came, Out, Late, OthersWait
<1>6. \A o \in Threads \ {th} : pc[o] \in {"block", "asleep"} /\ pc'[o] = pc[o]
  BY <1>1, <1>3, <1>4 DEF OthersWait
<1>7. RoundOK(e + 1)'
  <2>1. \A o \in Threads : Late(o, e + 1)'
    BY <1>2, <1>3, <1>5, <1>6 DEF Late, WakerPCs, PopPCs
  <2>2. state' = Cardinality(CameSet(e + 1)')
    <3>1. CameSet(e + 1)' = {}
      BY <1>2, <1>5 DEF CameSet
    <3> QED BY <1>2, <3>1, FS_EmptySet
  <2>3. \A o \in Threads : pc'[o] # "reset"
    BY <1>3, <1>6
  <2>4. \A o \in Threads : pc'[o] \in WakerPCs => o = th
    BY <1>3, <1>6 DEF WakerPCs, PopPCs
  <2>5. OthersWait(th, e + 1)'
    BY <1>2, <1>4, <1>6 DEF OthersWait
  <2> QED BY <2>1, <2>2, <2>3, <2>4, <2>5 DEF RoundOK, WakerPCs
<1>8. StackOK(s, e + 1)'
  <2>1. \A o \in Threads : batch[o] = <<>>
    BY <1>0, <1>2, <1>6 DEF StackOK, BatchesOK, WakerPCs, PopPCs
  <2>2. pc[th] # "asleep" /\ pc'[th] \notin {"pop_next", "pop_cas"} /\ e + 1 \in Nat
    BY <1>2, <1>3
  <2> QED BY <1>0, <1>2, <1>3, <2>1, <2>2, StackMove
<1> QED BY <1>7, <1>8 DEF Good

\* The newest thread of the stack goes to the end of the batch.
LEMMA PopGood ==
    ASSUME LocalInv, NEW e \in Nat, NEW s \in Seq(Threads), Good(e, s),
           NEW th \in Threads, Pop(th)
    PROVE  Tail(s) \in Seq(Threads) /\ Good(e, Tail(s))'
<1>0. Types /\ PcTypes /\ LocalsOK /\ RoundOK(e) /\ StackOK(s, e)
  BY DEF LocalInv, Types, Good
<1>1. th \in Agents /\ Threads \subseteq Agents /\ Workers \subseteq Agents \ {th}
  BY BlockingAssumption DEF Agents
<1>2. /\ UNCHANGED <<state, entered, passed, leaving>>
      /\ pc' = [pc EXCEPT ![th] = "pop"] /\ pc[th] = "pop_cas"
      /\ top = head[th] /\ top' = second[th] /\ next' = Linked(th)
      /\ batch' = [batch EXCEPT ![th] = Append(@, head[th])]
      /\ head' = [head EXCEPT ![th] = NULL]
      /\ second' = [second EXCEPT ![th] = NULL]
  BY DEF Pop, PopDone, Goto, At, switchVars, clientVars
<1>3. pc'[th] = "pop" /\ \A a \in Agents \ {th} : pc'[a] = pc[a] /\ head'[a] = head[a]
  BY <1>0, <1>1, <1>2 DEF PcTypes, Types
<1>4. OthersWait(th, e) /\ \A o \in Threads \ {th} : pc[o] \notin WakerPCs /\ pc'[o] = pc[o]
  BY <1>0, <1>1, <1>2, <1>3 DEF RoundOK, OthersWait, PopPCs, WakerPCs
<1> DEFINE h == head[th]
           b == batch[th]
<1>5. h \in Threads /\ s # <<>> /\ s[1] = h /\ OnStack(s, h)
  <2>1. h \in Threads
    BY <1>0, <1>2 DEF LocalsOK
  <2>2. 1 \in 1 .. Len(s) /\ s[1] = h
    BY <1>0, <1>2, <2>1, BlockingAssumption DEF StackOK, Chained, Link
  <2> QED BY <2>1, <2>2 DEF OnStack
<1>6. /\ Tail(s) \in Seq(Threads) /\ Len(Tail(s)) = Len(s) - 1
      /\ \A i \in 1 .. Len(Tail(s)) : i + 1 \in 1 .. Len(s) /\ Tail(s)[i] = s[i + 1]
  BY <1>5
<1>7. \A x \in Threads : OnStack(Tail(s), x) => OnStack(s, x) /\ x # h
  <2> SUFFICES ASSUME NEW x \in Threads, OnStack(Tail(s), x) PROVE OnStack(s, x) /\ x # h
    OBVIOUS
  <2>1. PICK i \in 1 .. Len(Tail(s)) : Tail(s)[i] = x
    BY DEF OnStack
  <2>2. i + 1 \in 1 .. Len(s) /\ s[i + 1] = x /\ i + 1 # 1 /\ 1 \in 1 .. Len(s)
    BY <1>5, <1>6, <2>1
  <2> QED BY <1>0, <1>5, <2>2 DEF OnStack, StackOK, Sleepers, Distinct
<1>8. pc[h] = "asleep" /\ h # th /\ entered[h] = e
  <2>1. pc[h] = "asleep" /\ h # th
    BY <1>0, <1>2, <1>5 DEF OnStack, StackOK, Sleepers
  <2> QED BY <1>4, <1>5, <2>1 DEF OthersWait
<1>9. /\ b \in Seq(Threads)
      /\ \A i \in 1 .. Len(b) : b[i] \in Threads /\ b[i] # h /\ ~OnStack(s, b[i])
      /\ batch'[th] = Append(b, h)
      /\ \A o \in Threads \ {th} : batch'[o] = <<>>
  <2>1. b \in Seq(Threads)
    BY <1>0 DEF Types
  <2>2. \A i \in 1 .. Len(b) : b[i] \in Threads /\ b[i] # h /\ ~OnStack(s, b[i])
    BY <1>0, <1>5, <2>1 DEF StackOK, BatchesOK
  <2>3. \A o \in Threads \ {th} : batch[o] = <<>>
    BY <1>0, <1>4 DEF StackOK, BatchesOK
  <2> QED BY <1>0, <1>2, <2>1, <2>2, <2>3 DEF Types
<1>10. \A x \in Threads : x # h /\ (\A i \in 1 .. Len(b) : b[i] # x) => next'[x] = next[x]
  BY <1>2, <1>9 DEF Linked
<1>11. RoundOK(e)'
  <2>1. Late(th, e)'
    BY <1>0, <1>2, <1>3 DEF RoundOK, Came, Out, Late, WakerPCs, PopPCs
  <2>2. \A a \in Threads \ {th} : pc[a] \notin PopPCs \cup {"reset"}
    BY <1>4 DEF OthersWait, PopPCs
  <2>3. /\ pc'[th] # "reset" /\ pc[th] \in PopPCs /\ pc[th] \in WakerPCs
    BY <1>2, <1>3 DEF PopPCs, WakerPCs
  <2> QED BY <1>0, <1>2, <1>4, <2>1, <2>2, <2>3, RoundMove
<1>12. Chained(Tail(s))'
  <2>1. top' = Link(s, 2)
    <3>1. second[th] = next[h] /\ next[s[1]] = Link(s, 1 + 1) /\ 1 \in 1 .. Len(s)
      BY <1>0, <1>2, <1>5 DEF StackOK, PopsOK, Chained
    <3> QED BY <1>2, <1>5, <3>1
  <2>2. Link(s, 2) = Link(Tail(s), 1)
    BY <1>5, <1>6 DEF Link
  <2>3. ASSUME NEW i \in 1 .. Len(Tail(s))
        PROVE  next'[Tail(s)[i]] = Link(Tail(s), i + 1)
    <3>1. Tail(s)[i] \in Threads /\ OnStack(Tail(s), Tail(s)[i])
      BY <1>6 DEF OnStack
    <3>2. next'[Tail(s)[i]] = next[Tail(s)[i]]
      BY <1>7, <1>9, <1>10, <3>1
    <3>3. next[s[i + 1]] = Link(s, i + 1 + 1)
      BY <1>0, <1>6 DEF StackOK, Chained
    <3>4. Link(s, i + 1 + 1) = Link(Tail(s), i + 1)
      BY <1>5, <1>6 DEF Link
    <3> QED BY <1>6, <3>2, <3>3, <3>4
  <2>4. Tail(s) = Tail(s)'
    OBVIOUS
  <2> QED BY <2>1, <2>2, <2>3 DEF Chained, Link
<1>13. Sleepers(Tail(s))'
  <2>1. Distinct(Tail(s))
    BY <1>0, <1>6 DEF StackOK, Sleepers, Distinct
  <2>2. \A i \in 1 .. Len(Tail(s)) : pc'[Tail(s)[i]] = "asleep"
    <3> TAKE i \in 1 .. Len(Tail(s))
    <3>1. Tail(s)[i] \in Threads /\ pc[Tail(s)[i]] = "asleep"
      BY <1>0, <1>6 DEF StackOK, Sleepers
    <3> QED BY <1>1, <1>2, <1>3, <3>1
  <2> QED BY <2>1, <2>2 DEF Sleepers, Distinct
<1>14. LeaversOK(Tail(s))'
  <2> SUFFICES ASSUME NEW w \in Workers, pc'[w] # "run"
               PROVE  /\ pc'[leaving[w]] = "asleep" /\ ~OnStack(Tail(s), leaving[w])
                      /\ \A v \in Workers : pc'[v] # "run" /\ leaving[v] = leaving[w] => v = w
                      /\ pc'[w] = "push_cas" => next'[leaving[w]] = head'[w]
    BY <1>2 DEF LeaversOK, OnStack
  <2>1. /\ leaving[w] \in Threads /\ pc[leaving[w]] = "asleep" /\ ~OnStack(s, leaving[w])
        /\ \A v \in Workers : pc[v] # "run" /\ leaving[v] = leaving[w] => v = w
        /\ pc[w] = "push_cas" => next[leaving[w]] = head[w]
    BY <1>0, <1>1, <1>3 DEF LocalsOK, StackOK, LeaversOK
  <2>2. next'[leaving[w]] = next[leaving[w]]
    <3>1. leaving[w] # h
      BY <1>5, <2>1
    <3>2. \A i \in 1 .. Len(b) : b[i] # leaving[w]
      BY <1>0, <1>1, <1>3 DEF StackOK, BatchesOK
    <3> QED BY <1>10, <2>1, <3>1, <3>2
  <2> QED BY <1>1, <1>2, <1>3, <1>7, <2>1, <2>2
<1>15. BatchesOK(Tail(s), e)'
  <2>1. Distinct(Append(b, h))
    <3>1. Distinct(b)
      BY <1>0 DEF StackOK, BatchesOK
    <3> QED BY <1>9, <3>1 DEF Distinct
  <2>2. ASSUME NEW i \in 1 .. Len(Append(b, h))
        PROVE  LET x == Append(b, h)[i] IN
               /\ pc'[x] = "asleep" /\ entered'[x] = e
               /\ ~OnStack(Tail(s), x)
               /\ \A w \in Workers : pc'[w] # "run" => leaving'[w] # x
    <3>1. CASE i = Len(b) + 1
      <4>1. Append(b, h)[i] = h
        BY <1>9, <3>1
      <4>2. pc'[h] = "asleep" /\ entered'[h] = e /\ ~OnStack(Tail(s), h)
        BY <1>1, <1>2, <1>3, <1>5, <1>7, <1>8
      <4>3. \A w \in Workers : pc'[w] # "run" => leaving'[w] # h
        BY <1>0, <1>1, <1>2, <1>3, <1>5 DEF StackOK, LeaversOK
      <4> QED BY <4>1, <4>2, <4>3
    <3>2. CASE i # Len(b) + 1
      <4>1. i \in 1 .. Len(b) /\ Append(b, h)[i] = b[i]
        BY <1>9, <3>2
      <4>2. /\ pc[b[i]] = "asleep" /\ entered[b[i]] = e /\ ~OnStack(s, b[i])
            /\ \A w \in Workers : pc[w] # "run" => leaving[w] # b[i]
        BY <1>0, <4>1 DEF StackOK, BatchesOK
      <4>3. b[i] \in Threads \ {th}
        BY <1>2, <1>9, <4>1, <4>2
      <4> QED BY <1>1, <1>2, <1>3, <1>7, <4>1, <4>2, <4>3
    <3> QED BY <3>1, <3>2
  <2>3. pc'[th] \in WakerPCs
    BY <1>3 DEF WakerPCs, PopPCs
  <2>4. ASSUME NEW o \in Threads \ {th}
        PROVE  Distinct(batch'[o]) /\ Len(batch'[o]) = 0
    BY <1>9 DEF Distinct
  <2>5. ASSUME NEW o \in Threads
        PROVE  /\ batch'[o] # <<>> => pc'[o] \in WakerPCs
               /\ Distinct(batch'[o])
               /\ \A i \in 1 .. Len(batch'[o]) :
                   /\ pc'[batch'[o][i]] = "asleep" /\ entered'[batch'[o][i]] = e
                   /\ ~OnStack(Tail(s), batch'[o][i])
                   /\ \A w \in Workers : pc'[w] # "run" => leaving'[w] # batch'[o][i]
    <3> HIDE DEF b, h
    <3>1. CASE o = th
      BY <1>9, <2>1, <2>2, <2>3, <3>1
    <3>2. CASE o # th
      BY <1>9, <2>4, <3>2
    <3> QED BY <3>1, <3>2
  <2> QED BY <2>5 DEF BatchesOK, Distinct, OnStack
<1>16. PopsOK(Tail(s))'
  BY <1>3, <1>4 DEF PopsOK, WakerPCs, PopPCs
<1> QED BY <1>6, <1>11, <1>12, <1>13, <1>14, <1>15, <1>16 DEF Good, StackOK

LEMMA WakeGood ==
    ASSUME LocalInv, NEW e \in Nat, NEW s \in Seq(Threads), Good(e, s),
           NEW th \in Threads, Wake(th)
    PROVE  Good(e, s)'
<1>0. Types /\ PcTypes /\ LocalsOK /\ RoundOK(e) /\ StackOK(s, e)
  BY DEF LocalInv, Types, Good
<1>1. th \in Agents /\ Threads \subseteq Agents /\ Workers \subseteq Agents \ Threads
  BY BlockingAssumption DEF Agents
<1> DEFINE b == batch[th]
<1>1a. PICK x \in Threads : x = Head(b)
  <2>1. b \in Seq(Threads) /\ b # <<>>
    BY <1>0 DEF Wake, Types
  <2> QED BY <2>1
<1>2. /\ b # <<>> /\ pc[th] = "push"
      /\ pc' = [pc EXCEPT ![x] = "woken"]
      /\ batch' = [batch EXCEPT ![th] = Tail(b)]
      /\ UNCHANGED <<state, entered, passed, leaving, top, next, head, second>>
  BY <1>1a DEF Wake, At, clientVars
<1>3. /\ b \in Seq(Threads) /\ x = b[1] /\ x \in Threads /\ 1 \in 1 .. Len(b)
      /\ Tail(b) \in Seq(Threads) /\ Len(Tail(b)) = Len(b) - 1
      /\ \A i \in 1 .. Len(Tail(b)) : i + 1 \in 1 .. Len(b) /\ Tail(b)[i] = b[i + 1]
  <2>1. b \in Seq(Threads) /\ b # <<>>
    BY <1>0, <1>2 DEF Types
  <2> QED BY <2>1, <1>1a
<1>4. /\ pc[x] = "asleep" /\ entered[x] = e /\ ~OnStack(s, x)
      /\ \A w \in Workers : pc[w] # "run" => leaving[w] # x
  BY <1>0, <1>3 DEF StackOK, BatchesOK
<1>5. /\ batch'[th] = Tail(b) /\ pc'[x] = "woken" /\ x # th
      /\ \A a \in Agents \ {x} : pc'[a] = pc[a]
      /\ \A o \in Threads \ {th} : batch'[o] = batch[o]
  BY <1>0, <1>1, <1>2, <1>3, <1>4 DEF PcTypes, Types
<1>6. \A o \in Threads : pc[o] \notin PopPCs \cup {"reset"}
  BY <1>0, <1>2 DEF RoundOK, OthersWait, PopPCs, WakerPCs
<1>7. \A o \in Threads \ {th} : batch[o] = <<>>
  BY <1>0, <1>2 DEF RoundOK, StackOK, BatchesOK, WakerPCs
<1> HIDE DEF b
<1>8. RoundOK(e)'
  <2>1. Late(x, e)'
    BY <1>0, <1>2, <1>3, <1>4, <1>5 DEF RoundOK, Came, Out, Late
  <2>2. \A o \in Threads \ {x} : pc'[o] = pc[o]
    BY <1>1, <1>5
  <2>3. pc'[x] # "reset" /\ pc'[x] \notin WakerPCs /\ pc'[x] \notin PopPCs
    BY <1>5 DEF WakerPCs, PopPCs
  <2> QED BY <1>0, <1>2, <1>3, <1>6, <2>1, <2>2, <2>3, RoundMove
<1>9. Chained(s)'
  BY <1>0, <1>2 DEF StackOK, Chained, Link
<1>10. Sleepers(s)'
  <2>1. \A i \in 1 .. Len(s) : s[i] \in Agents \ {x}
    BY <1>1, <1>4 DEF OnStack
  <2> QED BY <1>0, <1>5, <2>1 DEF StackOK, Sleepers, Distinct
<1>11. LeaversOK(s)'
  <2>1. \A w \in Workers : pc'[w] = pc[w]
    BY <1>1, <1>3, <1>5
  <2>2. \A w \in Workers : pc[w] # "run" => leaving[w] \in Agents \ {x}
    BY <1>0, <1>1, <1>4 DEF LocalsOK
  <2> QED BY <1>0, <1>2, <1>5, <2>1, <2>2 DEF StackOK, LeaversOK, OnStack
<1>12. BatchesOK(s, e)'
  <2>1. \A w \in Workers : pc'[w] = pc[w]
    BY <1>1, <1>3, <1>5
  <2>2. pc'[th] \in WakerPCs
    BY <1>1, <1>2, <1>5 DEF WakerPCs
  <2>3. Distinct(b)
    BY <1>0 DEF StackOK, BatchesOK, b
  <2>4. Distinct(Tail(b))
    BY <1>3, <2>3 DEF Distinct
  <2>5. ASSUME NEW i \in 1 .. Len(Tail(b))
        PROVE  /\ pc'[Tail(b)[i]] = "asleep" /\ entered'[Tail(b)[i]] = e
               /\ ~OnStack(s, Tail(b)[i])
               /\ \A w \in Workers : pc'[w] # "run" => leaving'[w] # Tail(b)[i]
    <3>1. i + 1 \in 1 .. Len(b) /\ Tail(b)[i] = b[i + 1] /\ b[i + 1] \in Threads
      BY <1>3
    <3>2. b[i + 1] # x
      <4>1. i + 1 # 1
        OBVIOUS
      <4> QED BY <1>3, <2>3, <3>1, <4>1 DEF Distinct
    <3>3. /\ pc[b[i + 1]] = "asleep" /\ entered[b[i + 1]] = e /\ ~OnStack(s, b[i + 1])
          /\ \A w \in Workers : pc[w] # "run" => leaving[w] # b[i + 1]
      BY <1>0, <3>1 DEF StackOK, BatchesOK, b
    <3> QED BY <1>1, <1>2, <1>5, <2>1, <3>1, <3>2, <3>3
  <2>6. ASSUME NEW o \in Threads \ {th}
        PROVE  Distinct(batch'[o]) /\ Len(batch'[o]) = 0 /\ batch'[o] = <<>>
    BY <1>5, <1>7 DEF Distinct
  <2>7. ASSUME NEW o \in Threads
        PROVE  /\ batch'[o] # <<>> => pc'[o] \in WakerPCs
               /\ Distinct(batch'[o])
               /\ \A i \in 1 .. Len(batch'[o]) :
                   /\ pc'[batch'[o][i]] = "asleep" /\ entered'[batch'[o][i]] = e
                   /\ ~OnStack(s, batch'[o][i])
                   /\ \A w \in Workers : pc'[w] # "run" => leaving'[w] # batch'[o][i]
    <3>1. CASE o = th
      <4>1. batch'[o] = Tail(b) /\ pc'[o] \in WakerPCs
        BY <1>5, <2>2, <3>1
      <4> QED BY <2>4, <2>5, <4>1
    <3>2. CASE o # th
      BY <2>6, <3>2
    <3> QED BY <3>1, <3>2
  <2> QED BY <2>7 DEF BatchesOK, Distinct, OnStack
<1>13. PopsOK(s)'
  BY <1>1, <1>5, <1>6 DEF PopsOK, PopPCs
<1> QED BY <1>8, <1>9, <1>10, <1>11, <1>12, <1>13 DEF Good, StackOK

\* Steps of workers that leave the stack and the program as they are.
LEMMA WorkerMoves ==
    ASSUME LocalInv, NEW e \in Nat, NEW s \in Seq(Threads), Good(e, s),
           NEW w \in Workers,
           \/ Resume(w) /\ UNCHANGED <<state, count, stackVars, clientVars>>
           \/ SwapContext(w) /\ UNCHANGED <<state, count, stackVars, clientVars>>
           \/ PushRetry(w)
           \/ \E th \in Threads : Finish(w, th)
    PROVE  Good(e, s)'
<1>0. Types /\ PcTypes /\ LocalsOK /\ RoundOK(e) /\ StackOK(s, e)
  BY DEF LocalInv, Types, Good
<1>1. w \in Agents /\ Threads \subseteq Agents \ {w} /\ Workers \subseteq Agents
  BY BlockingAssumption DEF Agents
<1>2. UNCHANGED <<state, entered, passed, top, next, leaving, batch, second>>
  BY DEF Resume, SwapContext, PushRetry, Finish, switchVars, stackVars, clientVars
<1>3. /\ \A a \in Agents \ {w} : pc'[a] = pc[a] /\ head'[a] = head[a]
      /\ pc'[w] # "run" => pc[w] # "run"
      /\ pc'[w] = "push_cas" => pc[w] = "push_cas" /\ head'[w] = head[w]
  BY <1>0, <1>1 DEF Resume, SwapContext, PushRetry, Finish, Goto, At, PcTypes, Types,
     stackVars
<1>4. \A th \in Threads : pc'[th] = pc[th] /\ head'[th] = head[th]
  BY <1>1, <1>3
<1>5. RoundOK(e)'
  BY <1>0, <1>2, <1>4, RoundFrame
<1>6. \A v \in Workers :
          /\ pc'[v] # "run" => pc[v] # "run"
          /\ pc'[v] = "push_cas" => pc[v] = "push_cas" /\ head'[v] = head[v]
  BY <1>1, <1>3
<1>7. Chained(s)'
  BY <1>0, <1>2 DEF StackOK, Chained, Link
<1>8. Sleepers(s)'
  BY <1>0, <1>4 DEF StackOK, Sleepers, Distinct
<1>9. LeaversOK(s)'
  BY <1>0, <1>2, <1>4, <1>6 DEF LocalsOK, StackOK, LeaversOK, OnStack
<1>10. BatchesOK(s, e)'
  <2>1. \A o \in Threads : batch[o] \in Seq(Threads)
    BY <1>0 DEF Types
  <2>2. \A o \in Threads : \A i \in 1 .. Len(batch[o]) : batch[o][i] \in Threads
    BY <2>1
  <2> QED BY <1>0, <1>2, <1>4, <1>6, <2>2 DEF StackOK, BatchesOK, OnStack, Distinct
<1>11. PopsOK(s)'
  BY <1>0, <1>2, <1>4 DEF StackOK, PopsOK, OnStack
<1> QED BY <1>5, <1>7, <1>8, <1>9, <1>10, <1>11 DEF Good, StackOK

\* The thread that leaves is linked to what was the top.
LEMMA PushReadGood ==
    ASSUME LocalInv, NEW e \in Nat, NEW s \in Seq(Threads), Good(e, s),
           NEW w \in Workers, PushRead(w)
    PROVE  Good(e, s)'
<1>0. Types /\ PcTypes /\ LocalsOK /\ RoundOK(e) /\ StackOK(s, e)
  BY DEF LocalInv, Types, Good
<1>1. w \in Agents /\ Threads \subseteq Agents \ {w} /\ Workers \subseteq Agents
  BY BlockingAssumption DEF Agents
<1>2. PICK x : x = leaving[w]
  OBVIOUS
<1>3. /\ UNCHANGED <<state, entered, passed, top, leaving, batch, second>>
      /\ pc' = [pc EXCEPT ![w] = "push_cas"] /\ pc[w] = "callback"
      /\ head' = [head EXCEPT ![w] = top]
      /\ next' = [next EXCEPT ![x] = top]
  BY <1>2 DEF PushRead, Goto, At, switchVars, clientVars
<1>4. /\ x \in Threads /\ ~OnStack(s, x)
      /\ \A v \in Workers : pc[v] # "run" /\ leaving[v] = x => v = w
      /\ \A th \in Threads : \A i \in 1 .. Len(batch[th]) : batch[th][i] # x
  BY <1>0, <1>2, <1>3 DEF LocalsOK, StackOK, LeaversOK, BatchesOK
<1>5. \A th \in Threads : pc'[th] = pc[th] /\ head'[th] = head[th]
  BY <1>0, <1>1, <1>3 DEF PcTypes, Types
<1>6. \A v \in Workers :
          /\ pc'[v] # "run" => pc[v] # "run"
          /\ v # w => pc'[v] = pc[v] /\ head'[v] = head[v]
  BY <1>0, <1>1, <1>3 DEF PcTypes, Types
<1>7. head'[w] = top /\ next'[x] = top /\ \A y \in Threads \ {x} : next'[y] = next[y]
  BY <1>0, <1>1, <1>3, <1>4 DEF Types
<1>8. RoundOK(e)'
  BY <1>0, <1>3, <1>5, RoundFrame
<1>9. Chained(s)'
  <2>1. \A i \in 1 .. Len(s) : s[i] \in Threads \ {x}
    BY <1>4 DEF OnStack
  <2> QED BY <1>0, <1>3, <1>7, <2>1 DEF StackOK, Chained, Link
<1>10. Sleepers(s)'
  BY <1>0, <1>5 DEF StackOK, Sleepers, Distinct
<1>11. LeaversOK(s)'
  <2> SUFFICES ASSUME NEW v \in Workers, pc'[v] # "run"
               PROVE  /\ pc'[leaving[v]] = "asleep" /\ ~OnStack(s, leaving[v])
                      /\ \A u \in Workers : pc'[u] # "run" /\ leaving[u] = leaving[v] => u = v
                      /\ pc'[v] = "push_cas" => next'[leaving[v]] = head'[v]
    BY <1>3 DEF LeaversOK, OnStack
  <2>1. /\ leaving[v] \in Threads /\ pc[leaving[v]] = "asleep" /\ ~OnStack(s, leaving[v])
        /\ \A u \in Workers : pc[u] # "run" /\ leaving[u] = leaving[v] => u = v
        /\ pc[v] = "push_cas" => next[leaving[v]] = head[v]
    BY <1>0, <1>6 DEF LocalsOK, StackOK, LeaversOK
  <2>2. pc'[v] = "push_cas" => next'[leaving[v]] = head'[v]
    <3>1. CASE v = w
      BY <1>2, <1>7, <3>1
    <3>2. CASE v # w
      <4>1. leaving[v] # x
        BY <1>4, <1>6, <3>2
      <4> QED BY <1>6, <1>7, <2>1, <3>2, <4>1
    <3> QED BY <3>1, <3>2
  <2> QED BY <1>5, <1>6, <2>1, <2>2
<1>12. BatchesOK(s, e)'
  <2>1. \A o \in Threads : batch[o] \in Seq(Threads)
    BY <1>0 DEF Types
  <2>2. \A o \in Threads : \A i \in 1 .. Len(batch[o]) : batch[o][i] \in Threads
    BY <2>1
  <2>3. UNCHANGED <<entered, batch, leaving>> /\ BatchesOK(s, e)
    BY <1>0, <1>3 DEF StackOK
  <2> QED BY <1>5, <1>6, <2>2, <2>3 DEF BatchesOK, OnStack, Distinct
<1>13. PopsOK(s)'
  <2>1. \A th \in Threads : pc[th] = "pop_cas" => head[th] \in Threads \ {x}
    BY <1>0, <1>4 DEF LocalsOK, StackOK, PopsOK
  <2> QED BY <1>0, <1>3, <1>5, <1>7, <2>1 DEF StackOK, PopsOK, OnStack
<1> QED BY <1>8, <1>9, <1>10, <1>11, <1>12, <1>13 DEF Good, StackOK

\* The thread that leaves becomes the top.
LEMMA PublishGood ==
    ASSUME LocalInv, NEW e \in Nat, NEW s \in Seq(Threads), Good(e, s),
           NEW w \in Workers, PushPublish(w)
    PROVE  \E q \in Seq(Threads) : Good(e, q)'
<1>0. Types /\ PcTypes /\ LocalsOK /\ RoundOK(e) /\ StackOK(s, e)
  BY DEF LocalInv, Types, Good
<1>1. w \in Agents /\ Threads \subseteq Agents \ {w} /\ Workers \subseteq Agents
  BY BlockingAssumption DEF Agents
<1>2. PICK x : x = leaving[w]
  OBVIOUS
<1>3. /\ UNCHANGED <<state, entered, passed, next, batch, second>>
      /\ pc' = [pc EXCEPT ![w] = "run"] /\ pc[w] = "push_cas"
      /\ leaving' = [leaving EXCEPT ![w] = NULL]
      /\ head' = [head EXCEPT ![w] = NULL]
      /\ top = head[w] /\ top' = x
  BY <1>2 DEF PushPublish, Left, Goto, At, clientVars
<1>4. /\ x \in Threads /\ pc[x] = "asleep" /\ ~OnStack(s, x) /\ next[x] = top
      /\ \A v \in Workers : pc[v] # "run" /\ leaving[v] = x => v = w
      /\ \A th \in Threads : \A i \in 1 .. Len(batch[th]) : batch[th][i] # x
  BY <1>0, <1>2, <1>3 DEF LocalsOK, StackOK, LeaversOK, BatchesOK
<1>5. \A th \in Threads : pc'[th] = pc[th] /\ head'[th] = head[th]
  BY <1>0, <1>1, <1>3 DEF PcTypes, Types
<1>6. \A v \in Workers :
          /\ pc'[v] # "run" => v # w /\ pc[v] # "run"
          /\ v # w => pc'[v] = pc[v] /\ head'[v] = head[v] /\ leaving'[v] = leaving[v]
  BY <1>0, <1>1, <1>3 DEF PcTypes, Types, SwitchTypeOK
<1>7. PICK q \in Seq(Threads) : q = <<x>> \o s
  <2>1. <<x>> \o s \in Seq(Threads)
    BY <1>4
  <2> QED BY <2>1
<1>8. /\ Len(q) = Len(s) + 1 /\ q[1] = x
      /\ \A i \in 1 .. Len(s) : i + 1 \in 1 .. Len(q) /\ q[i + 1] = s[i]
      /\ \A j \in 1 .. Len(q) : j # 1 => j - 1 \in 1 .. Len(s) /\ q[j] = s[j - 1]
  BY <1>4, <1>7
<1>9. \A y : OnStack(q, y) <=> y = x \/ OnStack(s, y)
  <2>1. ASSUME NEW y, OnStack(q, y) PROVE y = x \/ OnStack(s, y)
    <3>1. PICK j \in 1 .. Len(q) : q[j] = y
      BY <2>1 DEF OnStack
    <3>2. j # 1 => OnStack(s, y)
      BY <1>8, <3>1 DEF OnStack
    <3> QED BY <1>8, <3>1, <3>2
  <2>2. OnStack(q, x)
    <3>1. 1 \in 1 .. Len(q)
      BY <1>8
    <3> QED BY <1>8, <3>1 DEF OnStack
  <2>3. ASSUME NEW y, OnStack(s, y) PROVE OnStack(q, y)
    BY <1>8, <2>3 DEF OnStack
  <2> QED BY <2>1, <2>2, <2>3
<1> HIDE <1>7
<1>10. RoundOK(e)'
  BY <1>0, <1>3, <1>5, RoundFrame
<1>11. Chained(q)'
  <2>1. top' = Link(q, 1)
    BY <1>3, <1>8 DEF Link
  <2>2. ASSUME NEW j \in 1 .. Len(q) PROVE next[q[j]] = Link(q, j + 1)
    <3>1. CASE j = 1
      <4>1. Link(q, 1 + 1) = Link(s, 1)
        BY <1>8 DEF Link
      <4> QED BY <1>0, <1>4, <1>8, <3>1, <4>1 DEF StackOK, Chained
    <3>2. CASE j # 1
      <4>1. j - 1 \in 1 .. Len(s) /\ q[j] = s[j - 1]
        BY <1>8, <3>2
      <4>2. next[s[j - 1]] = Link(s, j - 1 + 1)
        BY <1>0, <4>1 DEF StackOK, Chained
      <4>3. Link(s, j - 1 + 1) = Link(q, j + 1)
        BY <1>8, <4>1 DEF Link
      <4> QED BY <4>1, <4>2, <4>3
    <3> QED BY <3>1, <3>2
  <2> QED BY <1>3, <2>1, <2>2 DEF Chained, Link
<1>12. Sleepers(q)'
  <2>1. Distinct(q)
    <3>1. Distinct(s) /\ \A i \in 1 .. Len(s) : s[i] # x
      BY <1>0, <1>4 DEF StackOK, Sleepers, OnStack
    <3>2. ASSUME NEW i \in 1 .. Len(q), NEW j \in 1 .. Len(q), q[i] = q[j], i # 1, j # 1
          PROVE  i = j
      BY <1>8, <3>1, <3>2, SMTT(30) DEF Distinct
    <3>3. ASSUME NEW i \in 1 .. Len(q), i # 1 PROVE q[i] # x
      BY <1>8, <3>1, <3>3
    <3> QED BY <1>8, <3>2, <3>3 DEF Distinct
  <2>2. \A j \in 1 .. Len(q) : pc'[q[j]] = "asleep"
    <3> TAKE j \in 1 .. Len(q)
    <3>1. q[j] \in Threads
      OBVIOUS
    <3>2. pc[q[j]] = "asleep"
      BY <1>0, <1>4, <1>8 DEF StackOK, Sleepers
    <3> QED BY <1>5, <3>1, <3>2
  <2> QED BY <2>1, <2>2 DEF Sleepers, Distinct
<1>13. LeaversOK(q)'
  <2> SUFFICES ASSUME NEW v \in Workers, pc'[v] # "run"
               PROVE  /\ pc'[leaving'[v]] = "asleep" /\ ~OnStack(q, leaving'[v])
                      /\ \A u \in Workers : pc'[u] # "run" /\ leaving'[u] = leaving'[v] => u = v
                      /\ pc'[v] = "push_cas" => next'[leaving'[v]] = head'[v]
    BY DEF LeaversOK, OnStack
  <2>1. v # w /\ leaving'[v] = leaving[v] /\ pc'[v] = pc[v] /\ head'[v] = head[v]
    BY <1>6
  <2>2. /\ leaving[v] \in Threads /\ pc[leaving[v]] = "asleep" /\ ~OnStack(s, leaving[v])
        /\ \A u \in Workers : pc[u] # "run" /\ leaving[u] = leaving[v] => u = v
        /\ pc[v] = "push_cas" => next[leaving[v]] = head[v]
    BY <1>0, <2>1 DEF LocalsOK, StackOK, LeaversOK
  <2>3. leaving[v] # x
    BY <1>4, <2>1
  <2>4. \A u \in Workers : pc'[u] # "run" => pc[u] # "run" /\ leaving'[u] = leaving[u]
    BY <1>6
  <2> QED BY <1>3, <1>5, <1>9, <2>1, <2>2, <2>3, <2>4
<1>14. BatchesOK(q, e)'
  <2>1. \A o \in Threads : batch[o] \in Seq(Threads)
    BY <1>0 DEF Types
  <2>2. \A o \in Threads : \A i \in 1 .. Len(batch[o]) : batch[o][i] \in Threads
    BY <2>1
  <2>3. \A o \in Threads : \A i \in 1 .. Len(batch[o]) : ~OnStack(q, batch[o][i])
    BY <1>0, <1>4, <1>9 DEF StackOK, BatchesOK
  <2>4. \A u \in Workers : pc'[u] # "run" => pc[u] # "run" /\ leaving'[u] = leaving[u]
    BY <1>6
  <2>5. ASSUME NEW o \in Threads
        PROVE  /\ batch'[o] # <<>> => pc'[o] \in WakerPCs
               /\ Distinct(batch'[o])
               /\ \A i \in 1 .. Len(batch'[o]) :
                   /\ pc'[batch'[o][i]] = "asleep" /\ entered'[batch'[o][i]] = e
                   /\ ~OnStack(q, batch'[o][i])
                   /\ \A u \in Workers : pc'[u] # "run" => leaving'[u] # batch'[o][i]
    BY <1>0, <1>3, <1>5, <2>2, <2>3, <2>4 DEF StackOK, BatchesOK
  <2> QED BY <2>5 DEF BatchesOK, OnStack, Distinct
<1>15. PopsOK(q)'
  <2>1. \A th \in Threads :
           /\ pc[th] \in {"pop_next", "pop_cas"} => OnStack(q, head[th])
           /\ pc[th] = "pop_cas" => second[th] = next[head[th]]
    BY <1>0, <1>9 DEF StackOK, PopsOK
  <2> QED BY <1>3, <1>5, <2>1 DEF PopsOK, OnStack
<1>16. Good(e, q)'
  BY <1>10, <1>11, <1>12, <1>13, <1>14, <1>15 DEF Good, StackOK
<1> QED BY <1>16

LEMMA BlockGood ==
    ASSUME LocalInv, NEW e \in Nat, NEW s \in Seq(Threads), Good(e, s),
           NEW w \in Workers, NEW th \in Threads, WaitBlock(w, th)
    PROVE  Good(e, s)'
<1>0. Types /\ PcTypes /\ LocalsOK /\ RoundOK(e) /\ StackOK(s, e)
  BY DEF LocalInv, Types, Good
<1>1. w \in Agents /\ Threads \subseteq Agents \ {w} /\ Workers \subseteq Agents \ {th}
  BY BlockingAssumption DEF Agents
<1>2. /\ UNCHANGED <<state, entered, passed, top, next, batch, head, second>>
      /\ pc' = [pc EXCEPT ![th] = "asleep", ![w] = "swap"]
      /\ pc[w] = "run" /\ pc[th] = "block"
      /\ leaving' = [leaving EXCEPT ![w] = th]
  BY DEF WaitBlock, Block, Leave, stackVars, clientVars
<1>3. /\ pc'[th] = "asleep" /\ pc'[w] = "swap"
      /\ \A a \in Agents \ {th, w} : pc'[a] = pc[a]
      /\ leaving'[w] = th /\ \A v \in Workers \ {w} : leaving'[v] = leaving[v]
  BY <1>0, <1>1, <1>2 DEF PcTypes, Types, SwitchTypeOK, Agents
<1>4. \A x \in Threads : pc[x] = "asleep" => pc'[x] = "asleep" /\ x # th
  BY <1>1, <1>2, <1>3
<1>5. RoundOK(e)'
  <2>1. \A o \in Threads \ {th} : pc'[o] = pc[o]
    BY <1>1, <1>3
  <2>2. Came(th, e)' \/ Out(th, e)' \/ Late(th, e)'
    BY <1>0, <1>2, <1>3 DEF RoundOK, Came, Out, Late
  <2> QED BY <1>0, <1>2, <1>3, <2>1, <2>2, RoundMove DEF WakerPCs, PopPCs
<1>6. Chained(s)'
  BY <1>0, <1>2 DEF StackOK, Chained, Link
<1>7. Sleepers(s)'
  BY <1>0, <1>4 DEF StackOK, Sleepers, Distinct
<1>8. ~OnStack(s, th) /\ \A o \in Threads : \A i \in 1 .. Len(batch[o]) : batch[o][i] # th
  BY <1>0, <1>2 DEF StackOK, Sleepers, BatchesOK, OnStack
<1>9. \A v \in Workers \ {w} :
          /\ pc'[v] = pc[v]
          /\ pc[v] # "run" => leaving[v] \in Threads /\ leaving[v] # th
  BY <1>0, <1>1, <1>2, <1>3 DEF LocalsOK, StackOK, LeaversOK
<1>10. LeaversOK(s)'
  <2> SUFFICES ASSUME NEW v \in Workers, pc'[v] # "run"
               PROVE  /\ pc'[leaving'[v]] = "asleep" /\ ~OnStack(s, leaving'[v])
                      /\ \A u \in Workers : pc'[u] # "run" /\ leaving'[u] = leaving'[v] => u = v
                      /\ pc'[v] = "push_cas" => next'[leaving'[v]] = head'[v]
    BY DEF LeaversOK, OnStack
  <2>1. CASE v = w
    BY <1>3, <1>8, <1>9, <2>1
  <2>2. CASE v # w
    <3>1. /\ leaving'[v] = leaving[v] /\ pc'[v] = pc[v] /\ pc[v] # "run"
          /\ leaving[v] \in Threads /\ leaving[v] # th
      BY <1>3, <1>9, <2>2
    <3>2. /\ pc[leaving[v]] = "asleep" /\ ~OnStack(s, leaving[v])
          /\ \A u \in Workers : pc[u] # "run" /\ leaving[u] = leaving[v] => u = v
          /\ pc[v] = "push_cas" => next[leaving[v]] = head[v]
      BY <1>0, <3>1 DEF StackOK, LeaversOK
    <3>3. ASSUME NEW u \in Workers, pc'[u] # "run", leaving'[u] = leaving'[v] PROVE u = v
      BY <1>3, <1>9, <3>1, <3>2, <3>3
    <3> QED BY <1>2, <1>4, <3>1, <3>2, <3>3
  <2> QED BY <2>1, <2>2
<1>11. BatchesOK(s, e)'
  <2>1. \A o \in Threads : batch[o] \in Seq(Threads)
    BY <1>0 DEF Types
  <2>2. \A o \in Threads : \A i \in 1 .. Len(batch[o]) : batch[o][i] \in Threads
    BY <2>1
  <2>3. ASSUME NEW o \in Threads
        PROVE  /\ batch'[o] # <<>> => pc'[o] \in WakerPCs
               /\ Distinct(batch'[o])
               /\ \A i \in 1 .. Len(batch'[o]) :
                   /\ pc'[batch'[o][i]] = "asleep" /\ entered'[batch'[o][i]] = e
                   /\ ~OnStack(s, batch'[o][i])
                   /\ \A u \in Workers : pc'[u] # "run" => leaving'[u] # batch'[o][i]
    <3>1. batch[o] # <<>> => pc'[o] \in WakerPCs
      BY <1>0, <1>1, <1>2, <1>3 DEF StackOK, BatchesOK, WakerPCs, PopPCs
    <3>2. ASSUME NEW i \in 1 .. Len(batch[o])
          PROVE  /\ pc'[batch[o][i]] = "asleep" /\ entered[batch[o][i]] = e
                 /\ ~OnStack(s, batch[o][i])
                 /\ \A u \in Workers : pc'[u] # "run" => leaving'[u] # batch[o][i]
      BY <1>0, <1>3, <1>4, <1>8, <1>9, <2>2 DEF StackOK, BatchesOK
    <3>3. Distinct(batch[o])
      BY <1>0 DEF StackOK, BatchesOK
    <3>4. batch' = batch /\ entered' = entered
      BY <1>2
    <3> QED BY <3>1, <3>2, <3>3, <3>4
  <2> QED BY <2>3 DEF BatchesOK, OnStack, Distinct
<1>12. PopsOK(s)'
  BY <1>0, <1>1, <1>2, <1>3 DEF StackOK, PopsOK, OnStack
<1> QED BY <1>5, <1>6, <1>7, <1>10, <1>11, <1>12 DEF Good, StackOK

-----------------------------------------------------------------------------
(* The rounds as an invariant                                              *)

IInv == LocalInv /\ FitsInv

LEMMA InitFits == ASSUME Init PROVE FitsInv
<1>1. ~fatal /\ Types
  BY InitLocal DEF Init, LocalInv
<1>2. RoundOK(0)
  <2>1. \A th \in Threads : pc[th] = "outside" /\ entered[th] = 0 /\ passed[th] = 0
    BY DEF Init, Agents
  <2>2. CameSet(0) = {}
    BY <2>1 DEF CameSet
  <2> QED BY <2>1, <2>2, FS_EmptySet DEF Init, RoundOK, Out, WakerPCs, PopPCs
<1>3. StackOK(<<>>, 0)
  <2>1. \A th \in Threads : pc[th] = "outside" /\ batch[th] = <<>>
    BY DEF Init, Agents
  <2>2. \A w \in Workers : pc[w] = "run"
    BY BlockingAssumption DEF Init, Agents
  <2>3. Chained(<<>>) /\ Sleepers(<<>>)
    BY DEF Init, Chained, Link, Sleepers, Distinct
  <2> QED BY <2>1, <2>2, <2>3 DEF StackOK, LeaversOK, BatchesOK, PopsOK, Distinct
<1>4. <<>> \in Seq(Threads) /\ 0 \in Nat
  OBVIOUS
<1> QED BY <1>1, <1>2, <1>3, <1>4 DEF FitsInv, Good

\* The barrier never finds an excess thread.
LEMMA NoExcess ==
    ASSUME LocalInv, Fits, NEW e \in Nat, RoundOK(e), NEW th \in Threads
    PROVE  ~WaitExcess(th)
<1> SUFFICES ASSUME WaitExcess(th) PROVE FALSE
  OBVIOUS
<1>1. state >= Cardinality(Threads) /\ pc[th] = "outside"
  BY DEF WaitExcess, Fits, At
<1>2. CameSet(e) \subseteq Threads /\ state = Cardinality(CameSet(e))
  BY DEF CameSet, RoundOK
<1>3. CameSet(e) = Threads
  <2>1. Cardinality(CameSet(e)) <= Cardinality(Threads)
    BY <1>2, BlockingAssumption, FS_Subset
  <2>2. Cardinality(CameSet(e)) \in Nat /\ Cardinality(Threads) \in Nat
    BY <1>2, FiniteThreads
  <2>3. Cardinality(CameSet(e)) = Cardinality(Threads)
    BY <1>1, <1>2, <2>1, <2>2
  <2> QED BY <1>2, <2>3, BlockingAssumption, FS_Subset
<1>4. entered[th] = e + 1
  BY <1>3 DEF CameSet
<1> QED BY <1>1, <1>4 DEF RoundOK, Came, Out, Late

LEMMA FitsStep == ASSUME LocalInv, LocalInv', FitsInv, [Next]_vars PROVE FitsInv'
<1> SUFFICES ASSUME Fits, UNCHANGED n
             PROVE  ~fatal' /\ \E e \in Nat, s \in Seq(Threads) : Good(e, s)'
  <2>1. UNCHANGED n
    BY DEF Next, ThreadStep, WorkerStep, vars
  <2> QED BY <2>1 DEF FitsInv, Fits
<1>1. ~fatal
  BY DEF FitsInv
<1>2. PICK e \in Nat, s \in Seq(Threads) : Good(e, s)
  BY DEF FitsInv
<1>3. ASSUME NEW th \in Threads, ThreadStep(th)
      PROVE  ~fatal' /\ \E k \in Nat, q \in Seq(Threads) : Good(k, q)'
  <2>1. ~WaitExcess(th)
    BY <1>2, NoExcess DEF Good
  <2>2. ~fatal'
    BY <1>1, <1>3, <2>1 DEF ThreadStep, WaitRead, WaitCount, WaitRetry, Reset, Return,
       PopRead, PopNext, Pop, PopRetry, WakeStart, Wake
  <2>3. CASE WaitRead(th) \/ WaitRetry(th) \/ PopRead(th) \/ PopNext(th)
             \/ PopRetry(th) \/ WakeStart(th)
    BY <1>2, <2>2, <2>3, MoveSteps
  <2>4. CASE WaitCount(th)
    BY <1>2, <2>2, <2>4, CountGood
  <2>5. CASE Reset(th)
    <3>1. e + 1 \in Nat /\ Good(e + 1, s)'
      BY <1>2, <2>5, ResetGood
    <3> QED BY <2>2, <3>1
  <2>6. CASE Return(th)
    BY <1>2, <2>2, <2>6, ReturnGood
  <2>7. CASE Pop(th)
    <3>1. Tail(s) \in Seq(Threads) /\ Good(e, Tail(s))'
      BY <1>2, <2>7, PopGood
    <3> QED BY <2>2, <3>1
  <2>8. CASE Wake(th)
    BY <1>2, <2>2, <2>8, WakeGood
  <2> QED BY <1>3, <2>1, <2>3, <2>4, <2>5, <2>6, <2>7, <2>8 DEF ThreadStep
<1>4. ASSUME NEW w \in Workers, WorkerStep(w)
      PROVE  ~fatal' /\ \E k \in Nat, q \in Seq(Threads) : Good(k, q)'
  <2>1. ~fatal'
    BY <1>1, <1>4 DEF WorkerStep, Switch, PushRead, PushPublish, PushRetry, WaitBlock, Finish
  <2>2. CASE Switch(w) \/ PushRetry(w) \/ \E th \in Threads : Finish(w, th)
    BY <1>2, <2>1, <2>2, WorkerMoves DEF Switch
  <2>3. CASE PushRead(w)
    BY <1>2, <2>1, <2>3, PushReadGood
  <2>4. CASE PushPublish(w)
    BY <1>2, <2>1, <2>4, PublishGood
  <2>5. CASE \E th \in Threads : WaitBlock(w, th)
    BY <1>2, <2>1, <2>5, BlockGood
  <2> QED BY <1>4, <2>2, <2>3, <2>4, <2>5 DEF WorkerStep
<1>5. CASE UNCHANGED vars
  <2>1. RoundOK(e)' /\ ~fatal'
    BY <1>1, <1>2, <1>5, RoundFrame DEF vars, clientVars, Good
  <2>2. StackOK(s, e)'
    BY <1>2, <1>5 DEF Good, vars, clientVars, stackVars, switchVars, StackOK, Chained, Link,
       Sleepers, Distinct, LeaversOK, BatchesOK, PopsOK, OnStack
  <2> QED BY <2>1, <2>2 DEF Good
<1> QED BY <1>3, <1>4, <1>5 DEF Next

LEMMA RoundBounds ==
    ASSUME IInv, NEW e \in Nat, RoundOK(e), NEW th \in Threads
    PROVE  /\ passed[th] \in Nat /\ entered[th] \in 0 .. Rounds
           /\ passed[th] <= e /\ e <= entered[th]
<1>1. passed[th] \in Nat /\ entered[th] \in 0 .. Rounds
  BY DEF IInv, LocalInv, Types
<1>2. \/ entered[th] = e + 1 /\ passed[th] = e
      \/ entered[th] = e /\ passed[th] = e
      \/ entered[th] = e /\ passed[th] + 1 = e
  BY DEF RoundOK, Came, Out, Late
<1> QED BY <1>1, <1>2, BarrierAssumption

(***************************************************************************)
(* The inductive invariant: the locals of the calls, for any number of     *)
(* threads, and with the right number of them a round e and the sequence s *)
(* that the links of the sleep stack stand for.                            *)
(***************************************************************************)
THEOREM Inductive == Spec => []IInv
<1>1. Init => IInv
  BY InitLocal, InitFits DEF IInv
<1>2. IInv /\ [Next]_vars => IInv'
  BY LocalStep, FitsStep DEF IInv
<1> QED BY <1>1, <1>2, PTL DEF Spec

(***************************************************************************)
(* When the barrier is for the threads that use it, a thread that is       *)
(* through the barrier for the k-th time finds that every thread has come  *)
(* to it k times: what tests/myth_barrier.c asserts.                       *)
(***************************************************************************)
THEOREM AllInStep == Spec => []InStep
<1>1. IInv => InStep
  <2> SUFFICES ASSUME IInv, Fits, NEW p \in Threads, NEW q \in Threads
               PROVE  passed[p] <= entered[q]
    BY DEF InStep
  <2>1. PICK e \in Nat, s \in Seq(Threads) : RoundOK(e)
    BY DEF IInv, FitsInv, Good
  <2>2. /\ passed[p] \in Nat /\ passed[p] <= e
        /\ entered[q] \in 0 .. Rounds /\ e <= entered[q]
    BY <2>1, RoundBounds
  <2> QED BY <2>2, BarrierAssumption
<1> QED BY <1>1, Inductive, PTL

(***************************************************************************)
(* ... and no value is ever out of its range: above all, no thread passes  *)
(* more often than it may.                                                 *)
(***************************************************************************)
THEOREM TypeCorrect == Spec => [](Fits => TypeOK)
<1>1. IInv => (Fits => TypeOK)
  <2> SUFFICES ASSUME IInv, Fits PROVE TypeOK
    OBVIOUS
  <2>1. PICK e \in Nat, s \in Seq(Threads) : RoundOK(e)
    BY DEF IInv, FitsInv, Good
  <2>2. Types
    BY DEF IInv, LocalInv
  <2>3. \A th \in Threads : passed[th] \in 0 .. Rounds
    <3> TAKE th \in Threads
    <3>1. /\ passed[th] \in Nat /\ entered[th] \in 0 .. Rounds
          /\ passed[th] <= e /\ e <= entered[th]
      BY <2>1, RoundBounds
    <3> QED BY <3>1, BarrierAssumption
  <2> QED BY <2>2, <2>3 DEF Types, PcTypes, TypeOK
<1> QED BY <1>1, Inductive, PTL

(***************************************************************************)
(* ... and the barrier never ends the process for an excess thread.        *)
(***************************************************************************)
THEOREM NeverFatal == Spec => [](Fits => ~fatal)
<1>1. IInv => (Fits => ~fatal)
  BY DEF IInv, FitsInv
<1> QED BY <1>1, Inductive, PTL

LEMMA WaitsStep ==
    ASSUME IInv, [Next]_vars, Fits, NEW th \in Threads, entered'[th] > entered[th]
    PROVE  \A waker \in Threads : pc[waker] \notin {"pop", "pop_next", "pop_cas"}
<1>0. Types
  BY DEF IInv, LocalInv
<1>1. PICK e \in Nat, s \in Seq(Threads) : RoundOK(e)
  BY DEF IInv, FitsInv, Good
<1>2. PICK x \in Threads : WaitCount(x)
  <2>1. entered' # entered
    BY <1>0 DEF Types
  <2> QED BY <2>1 DEF Next, ThreadStep, WorkerStep, WaitRead, WaitExcess, WaitRetry, Reset,
     Return, PopRead, PopNext, Pop, PopRetry, WakeStart, Wake, Switch, PushRead,
     PushPublish, PushRetry, WaitBlock, Finish, clientVars, vars
<1>3. pc[x] = "cas"
  BY <1>2 DEF WaitCount, Goto, At
<1> QED BY <1>1, <1>3 DEF RoundOK, OthersWait, PopPCs

(***************************************************************************)
(* ... and no thread can count itself for a round while the threads of the *)
(* round before are being popped, as the comment of                        *)
(* myth_wake_many_from_stack asks: a pop takes only threads of its round.  *)
(***************************************************************************)
THEOREM NobodyEntersEarly == Spec => EntrantsWait
<1>1. IInv /\ [Next]_vars =>
          [Fits => \A th \in Threads :
             entered'[th] > entered[th] =>
                 \A waker \in Threads : pc[waker] \notin {"pop", "pop_next", "pop_cas"}]_vars
  BY WaitsStep
<1> QED BY <1>1, Inductive, PTL DEF Spec, EntrantsWait

=============================================================================
