---------------------------- MODULE WorkersProofs ----------------------------
(***************************************************************************)
(* The safety of the start and the end of the runtime in Workers: the      *)
(* internal barrier, the life of the run queues and the way of the main    *)
(* thread, for any number of workers and of callers of myth_init.          *)
(***************************************************************************)
EXTENDS Workers, FiniteSetTheorems, TLAPS

\* How many internal barriers a worker at s has arrived in, and where it
\* sleeps in the k-th.
Arrivals(s) ==
    IF s \in {"off", "setup", "set_up"} THEN 0
    ELSE IF s \in {"barrier1", "schedule", "pop", "popped"} THEN 1
    ELSE IF s \in {"barrier3", "fini", "exited"} THEN 3
    ELSE 2
Doors == {"barrier1", "barrier2", "barrier3"}
Door(k) == IF k = 1 THEN "barrier1" ELSE IF k = 2 THEN "barrier2"
           ELSE IF k = 3 THEN "barrier3" ELSE "none"

Types ==
    /\ init \in {"uninit", "initializing", "initialized"}
    /\ caller \in [Callers -> {"start", "waits", "winner", "runs", "done"}]
    /\ pc \in [Workers -> PCs]
    /\ main \in {"none", "init", "user", "fini", "cleanup"}
    /\ env \in Workers
    /\ phase \in {0, 1}
    /\ cur \in [{0, 1} -> Nat]
    /\ seen \in [Workers -> {0, 1}]
    /\ first \subseteq {0}

\* One caller at a time has the runtime, which has workers while it runs.
CallersOK ==
    /\ \A p, q \in Callers : caller[p] \in {"winner", "runs"} /\ caller[q] \in {"winner", "runs"}
                                 => p = q
    /\ \A p \in Callers : caller[p] \in {"winner", "runs"} => init # "uninit"
    /\ \A p \in Callers : caller[p] = "runs" => \A w \in Workers : pc[w] # "off"
    /\ (\A p \in Callers : caller[p] # "runs") => \A w \in Workers : pc[w] = "off"

Arrived(k) == {w \in Workers : Arrivals(pc[w]) = k}

\* All the workers are through e barriers, or were let through the last of
\* them; those that have arrived in the next one sleep there, and are counted.
InStep(e) ==
    /\ phase = IF e \in {0, 2} THEN 0 ELSE 1
    /\ \A w \in Workers : Arrivals(pc[w]) \in {e, e + 1}
    /\ cur[phase] = Cardinality(Arrived(e + 1)) /\ cur[phase] < N
    /\ e > 0 => cur[1 - phase] = N
    /\ \A w \in Workers : Arrivals(pc[w]) = e + 1 => pc[w] = Door(e + 1) /\ seen[w] = phase
    /\ \A w \in Workers : pc[w] = Door(e) => seen[w] = 1 - phase
    /\ asleep \subseteq Arrived(e + 1)

BarrierOK ==
    \/ asleep = {} /\ \A w \in Workers : pc[w] = "off"
    \/ (\A w \in Workers : pc[w] # "off") /\ \E e \in 0 .. 3 : InStep(e)

AliveOK == alive = {w \in Workers : pc[w] \notin {"off", "setup", "exited"}}

\* The main thread is on one worker or in one queue, whose worker is its env.
Early == {"off", "setup", "set_up", "barrier1", "schedule"}
MainOK ==
    /\ main = "none" <=> pc[0] \in Early
    /\ pc[0] \in {"pop", "popped", "barrier2", "enter"} => main = "init"
    /\ main \in {"none", "cleanup"} =>
        queued = {} /\ first = {} /\ \A w \in Workers : pc[w] \notin {"main", "pass"}
    /\ main = "init" =>
        /\ \/ pc[0] = "pop" /\ queued = {0} /\ first = {}
           \/ pc[0] \in {"popped", "barrier2", "enter"} /\ queued = {} /\ first = {0}
           \/ pc[0] = "main" /\ queued = {} /\ first = {}
        /\ \A w \in Workers : w # 0 => pc[w] # "main"
        /\ env = 0
    /\ main \in {"user", "fini"} => first = {}
    /\ \A w \in Workers : pc[w] \in {"main", "pass"} =>
        queued = {} /\ \A v \in Workers : v # w => pc[v] \notin {"main", "pass"}
    /\ queued = {} \/ queued = {env}
    /\ \A w \in Workers : pc[w] = "main" => env = w
    /\ \A w \in Workers : pc[w] = "pass" => main = "fini"

IInv == Types /\ CallersOK /\ BarrierOK /\ AliveOK /\ MainOK

-----------------------------------------------------------------------------
LEMMA WorkersFacts ==
    /\ N \in Nat /\ N > 0 /\ 0 \in Workers
    /\ IsFiniteSet(Workers) /\ Cardinality(Workers) = N
<1>1. N \in Nat /\ N > 0
  BY WorkersAssumption
<1>2. IsFiniteSet(0 .. (N - 1)) /\ Cardinality(0 .. (N - 1)) = N
  BY <1>1, FS_Interval
<1> QED BY <1>1, <1>2 DEF Workers

LEMMA InitIInv == Init => IInv
<1> SUFFICES ASSUME Init PROVE IInv
  OBVIOUS
<1> USE DEF Init
<1>1. 0 \in Workers
  BY WorkersFacts
<1>2. Types
  BY <1>1 DEF Types, PCs
<1>3. CallersOK
  BY DEF CallersOK
<1>4. BarrierOK /\ AliveOK
  BY DEF BarrierOK, AliveOK
<1>5. MainOK
  BY <1>1 DEF MainOK, Early
<1> QED BY <1>2, <1>3, <1>4, <1>5 DEF IInv

\* While a worker is anywhere all of them are, and one caller has them.
LEMMA Started ==
    ASSUME IInv, NEW w \in Workers, pc[w] # "off"
    PROVE  /\ \A v \in Workers : pc[v] # "off"
           /\ \E e \in 0 .. 3 : InStep(e)
           /\ \E p \in Callers : caller[p] = "runs"
           /\ init # "uninit"
BY DEF IInv, BarrierOK, CallersOK

-----------------------------------------------------------------------------
(* The internal barrier                                                    *)

\* The workers that have arrived in the next barrier.
LEMMA ArrivedFinite ==
    ASSUME NEW k
    PROVE  IsFiniteSet(Arrived(k)) /\ Cardinality(Arrived(k)) \in Nat
<1>1. Arrived(k) \in SUBSET Workers
  BY DEF Arrived
<1>2. IsFiniteSet(Arrived(k))
  BY <1>1, WorkersFacts, FS_Subset
<1> QED BY <1>2, FS_CardinalityType

\* A step between two barriers.
LEMMA BetweenBarriers ==
    ASSUME IInv, NEW w \in Workers, NEW from \in PCs \ Doors, NEW to \in PCs \ Doors,
           from # "off", to # "off", Move(w, from, to), Arrivals(from) = Arrivals(to),
           UNCHANGED barrierVars
    PROVE  BarrierOK'
<1>1. /\ pc[w] = from
      /\ \A v \in Workers : pc'[v] = IF v = w THEN to ELSE pc[v]
  BY DEF Move, IInv, Types
<1>2. PICK e \in 0 .. 3 : InStep(e)
  BY <1>1, Started
<1>3. \A v \in Workers : /\ Arrivals(pc'[v]) = Arrivals(pc[v])
                         /\ pc[v] \in Doors \/ pc'[v] \in Doors => pc'[v] = pc[v]
  BY <1>1
<1>4. Arrived(e + 1)' = Arrived(e + 1)
  BY <1>3 DEF Arrived
<1>5. Door(e) \in Doors \cup {"none"} /\ Door(e + 1) \in Doors \cup {"none"}
  BY DEF Door, Doors
<1>6. \A v \in Workers : pc'[v] # "none" /\ pc[v] # "none"
  BY <1>1 DEF IInv, Types, PCs
<1>7. InStep(e)'
  BY <1>2, <1>3, <1>4, <1>5, <1>6 DEF InStep, barrierVars
<1>8. \A v \in Workers : pc'[v] # "off"
  BY <1>1, Started
<1> QED BY <1>7, <1>8 DEF BarrierOK

\* A worker arrives in the next barrier, and lets the others go if it is
\* the last one.
LEMMA ArriveInStep ==
    ASSUME IInv, NEW w \in Workers, NEW from \in PCs \ Doors, from # "off",
           NEW sleeping \in Doors, NEW beyond \in PCs \ Doors, beyond # "off",
           Arrive(w, from, sleeping, beyond),
           sleeping = Door(Arrivals(from) + 1), Arrivals(beyond) = Arrivals(from) + 1
    PROVE  /\ BarrierOK'
           /\ phase' \in {0, 1} /\ cur' \in [{0, 1} -> Nat] /\ seen' \in [Workers -> {0, 1}]
           /\ Move(w, from, sleeping) \/ Move(w, from, beyond)
<1> DEFINE e == Arrivals(from)
<1>1. Move(w, from, sleeping) \/ Move(w, from, beyond)
  BY DEF Arrive
<1>2. pc[w] = from /\ seen' = [seen EXCEPT ![w] = phase]
  BY <1>1 DEF Move, Arrive
<1>3. e \in {0, 1, 2} /\ sleeping = Door(e + 1)
  BY DEF Arrivals, Door, Doors
<1>4. InStep(e)
  <2>1. PICK d \in 0 .. 3 : InStep(d)
    BY <1>2, Started
  <2>2. e = d \/ e = d + 1
    BY <1>2, <2>1 DEF InStep
  <2>3. e # d + 1
    <3> SUFFICES ASSUME e = d + 1 PROVE FALSE
      OBVIOUS
    <3>1. from = Door(d + 1)
      BY <1>2, <2>1 DEF InStep
    <3> QED BY <1>3, <3>1 DEF Door, Doors
  <2> QED BY <2>1, <2>2, <2>3
<1>5. Arrivals(sleeping) = e + 1
  BY <1>3 DEF Arrivals, Door
<1> HIDE DEF e
<1>6. w \notin Arrived(e + 1)
  BY <1>2, <1>3 DEF Arrived, e
<1>7. Cardinality(Arrived(e + 1) \cup {w}) = cur[phase] + 1
  <2> DEFINE A == Arrived(e + 1)
  <2>1. IsFiniteSet(A)
    BY ArrivedFinite
  <2>2. w \notin A /\ cur[phase] = Cardinality(A)
    BY <1>4, <1>6 DEF InStep
  <2> HIDE DEF A
  <2>3. Cardinality(A \cup {w}) = Cardinality(A) + 1
    BY <2>1, <2>2, FS_AddElement
  <2> QED BY <2>2, <2>3 DEF A
<1>8. /\ cur \in [{0, 1} -> Nat] /\ phase \in {0, 1} /\ seen \in [Workers -> {0, 1}]
      /\ \A v \in Workers : seen'[v] = IF v = w THEN phase ELSE seen[v]
      /\ seen' \in [Workers -> {0, 1}]
  BY <1>2 DEF IInv, Types
<1>9. CASE cur[phase] + 1 < N
  <2>1. /\ Move(w, from, sleeping) /\ asleep' = asleep \cup {w}
        /\ cur' = [cur EXCEPT ![phase] = @ + 1] /\ phase' = phase
    BY <1>9 DEF Arrive
  <2>2. \A v \in Workers : pc'[v] = IF v = w THEN sleeping ELSE pc[v]
    BY <2>1 DEF Move, IInv, Types
  <2>3. Arrived(e + 1)' = Arrived(e + 1) \cup {w}
    BY <1>5, <2>2 DEF Arrived
  <2>4. /\ cur' \in [{0, 1} -> Nat] /\ cur'[phase] = cur[phase] + 1
        /\ cur'[1 - phase] = cur[1 - phase]
    BY <1>8, <2>1
  <2>5. InStep(e)'
    <3>1. sleeping # Door(e)
      BY <1>3 DEF Door
    <3>2. \A v \in Workers : Arrivals(pc'[v]) \in {e, e + 1}
      BY <1>4, <1>5, <2>2 DEF InStep
    <3>3. \A v \in Workers : Arrivals(pc'[v]) = e + 1 => pc'[v] = Door(e + 1) /\ seen'[v] = phase
      BY <1>3, <1>4, <1>8, <2>2 DEF InStep
    <3>4. \A v \in Workers : pc'[v] = Door(e) => seen'[v] = 1 - phase
      BY <1>4, <1>8, <2>2, <3>1 DEF InStep
    <3>5. asleep' \subseteq Arrived(e + 1)'
      BY <1>4, <2>1, <2>3 DEF InStep
    <3> QED BY <1>4, <1>7, <1>9, <2>1, <2>3, <2>4, <3>2, <3>3, <3>4, <3>5 DEF InStep
  <2>6. \A v \in Workers : pc'[v] # "off"
    BY <1>2, <2>2, Started DEF Doors
  <2> QED BY <1>1, <1>3, <1>8, <2>1, <2>4, <2>5, <2>6 DEF BarrierOK
<1>10. CASE ~(cur[phase] + 1 < N)
  <2>1. /\ Move(w, from, beyond) /\ asleep' = {} /\ phase' = 1 - phase
        /\ cur' = [cur EXCEPT ![phase] = @ + 1, ![1 - phase] = 0]
    BY <1>10 DEF Arrive
  <2>2. \A v \in Workers : pc'[v] = IF v = w THEN beyond ELSE pc[v]
    BY <2>1 DEF Move, IInv, Types
  <2>3. cur[phase] + 1 = N
    BY <1>4, <1>8, <1>10, WorkersFacts DEF InStep
  <2>4. Arrived(e + 1) \cup {w} = Workers
    <3>1. Arrived(e + 1) \cup {w} \in SUBSET Workers
      BY DEF Arrived
    <3> QED BY <1>7, <2>3, <3>1, WorkersFacts, FS_Subset
  <2>5. \A v \in Workers : /\ v # w => pc'[v] = Door(e + 1) /\ seen'[v] = phase
                           /\ Arrivals(pc'[v]) = e + 1
    BY <1>4, <1>8, <2>2, <2>4 DEF Arrived, InStep, e
  <2>6. Arrived(e + 2)' = {} /\ Cardinality({}) = 0
    BY <1>3, <2>5, FS_EmptySet DEF Arrived
  <2>7. /\ cur' \in [{0, 1} -> Nat] /\ cur'[1 - phase] = 0 /\ cur'[phase] = N
        /\ 1 - phase \in {0, 1} /\ 1 - (1 - phase) = phase
    BY <1>8, <2>1, <2>3
  <2>8. InStep(e + 1)'
    <3>1. e + 1 \in 0 .. 3 /\ (e + 1) + 1 = e + 2
      BY <1>3
    <3>2. phase' = IF e + 1 \in {0, 2} THEN 0 ELSE 1
      BY <1>3, <1>4, <2>1 DEF InStep
    <3>3. \A v \in Workers : pc'[v] = Door(e + 1) => seen'[v] = 1 - phase'
      <4>1. beyond # Door(e + 1)
        BY <1>3 DEF Door, Doors
      <4> QED BY <2>1, <2>2, <2>5, <2>7, <4>1
    <3>4. \A v \in Workers : Arrivals(pc'[v]) # e + 2
      BY <1>3, <2>5
    <3>5. \A v \in Workers : Arrivals(pc'[v]) = e + 1
      BY <1>2, <2>2, <2>5 DEF e
    <3>6. cur'[phase'] = 0 /\ cur'[1 - phase'] = N /\ 0 < N
      BY <2>1, <2>7, WorkersFacts
    <3> QED BY <2>1, <2>6, <3>1, <3>2, <3>3, <3>4, <3>5, <3>6 DEF InStep
  <2>9. \A v \in Workers : pc'[v] # "off"
    BY <1>2, <2>2, Started
  <2>10. e + 1 \in 0 .. 3
    BY <1>3
  <2> QED BY <1>1, <1>8, <2>1, <2>7, <2>8, <2>9, <2>10 DEF BarrierOK
<1> QED BY <1>9, <1>10

\* A worker that has slept finds the counter that lets it go, or sleeps again.
LEMMA WakeKeeps ==
    ASSUME IInv, NEW w \in Workers, NEW sleeping \in Doors, NEW beyond \in PCs \ Doors,
           beyond # "off", Arrivals(sleeping) = Arrivals(beyond), Wake(w, sleeping, beyond)
    PROVE  /\ BarrierOK' /\ UNCHANGED <<phase, cur, seen>>
           /\ Move(w, sleeping, beyond) \/ pc' = pc
<1>1. pc[w] = sleeping /\ w \notin asleep /\ UNCHANGED <<phase, cur, seen>>
  BY DEF Wake, Move
<1>2. sleeping # "off"
  BY DEF Doors
<1>3. PICK e \in 0 .. 3 : InStep(e)
  BY <1>1, <1>2, Started
<1>4. \A v \in Workers : pc[v] # "off"
  BY <1>1, <1>2, Started
<1>5. CASE cur[seen[w]] = N
  <2>1. Move(w, sleeping, beyond) /\ asleep' = asleep
    BY <1>5 DEF Wake
  <2>2. \A v \in Workers : pc'[v] = IF v = w THEN beyond ELSE pc[v]
    BY <2>1 DEF Move, IInv, Types
  <2>3. \A v \in Workers : Arrivals(pc'[v]) = Arrivals(pc[v])
    BY <1>1, <2>2
  <2>4. Arrivals(sleeping) # e + 1
    BY <1>1, <1>3, <1>5, WorkersFacts DEF InStep
  <2>5. \A v \in Workers : pc'[v] \in Doors => pc'[v] = pc[v]
    BY <2>2
  <2>6. Door(e) \in Doors \/ \A v \in Workers : pc'[v] # Door(e)
    BY <2>2 DEF Door, Doors, IInv, Types, PCs
  <2>7. InStep(e)'
    <3>1. Arrived(e + 1)' = Arrived(e + 1)
      BY <2>3 DEF Arrived
    <3>2. \A v \in Workers : Arrivals(pc'[v]) = e + 1 => pc'[v] = Door(e + 1) /\ seen'[v] = phase'
      BY <1>1, <1>3, <2>2, <2>3, <2>4 DEF InStep
    <3>3. \A v \in Workers : pc'[v] = Door(e) => seen'[v] = 1 - phase'
      BY <1>1, <1>3, <2>5, <2>6 DEF InStep
    <3> QED BY <1>1, <1>3, <2>1, <2>3, <3>1, <3>2, <3>3 DEF InStep
  <2>8. \A v \in Workers : pc'[v] # "off"
    BY <1>4, <2>2
  <2> QED BY <1>1, <2>1, <2>7, <2>8 DEF BarrierOK
<1>6. CASE cur[seen[w]] # N
  <2>1. pc' = pc /\ asleep' = asleep \cup {w}
    BY <1>6 DEF Wake
  <2>2. Arrivals(sleeping) = e + 1
    <3>1. Arrivals(sleeping) \in {e, e + 1}
      BY <1>1, <1>3 DEF InStep
    <3>2. e > 0 /\ Arrivals(sleeping) = e => sleeping = Door(e)
      BY DEF Arrivals, Door, Doors
    <3>3. Arrivals(sleeping) > 0
      BY DEF Arrivals, Doors
    <3> QED BY <1>1, <1>3, <1>6, <3>1, <3>2, <3>3 DEF InStep
  <2>3. InStep(e)'
    BY <1>1, <1>3, <2>1, <2>2 DEF InStep, Arrived
  <2> QED BY <1>1, <1>4, <2>1, <2>3 DEF BarrierOK
<1> QED BY <1>5, <1>6

-----------------------------------------------------------------------------
(* A step of a worker                                                      *)

\* What every step of a worker does to its program counter and the callers.
LEMMA Moves ==
    ASSUME IInv, NEW w \in Workers, NEW from \in PCs, NEW to \in PCs, from # "off", to # "off",
           Move(w, from, to), caller' = caller, init' = init \/ init' # "uninit"
    PROVE  /\ pc[w] = from /\ pc' \in [Workers -> PCs]
           /\ \A v \in Workers : pc'[v] = IF v = w THEN to ELSE pc[v]
           /\ \A v \in Workers : pc[v] # "off" /\ pc'[v] # "off"
           /\ CallersOK'
<1>1. /\ pc[w] = from /\ pc' \in [Workers -> PCs]
      /\ \A v \in Workers : pc'[v] = IF v = w THEN to ELSE pc[v]
  BY DEF Move, IInv, Types
<1>2. /\ \A v \in Workers : pc[v] # "off" /\ pc'[v] # "off"
      /\ \E p \in Callers : caller[p] = "runs"
  BY <1>1, Started
<1>3. CallersOK'
  BY <1>1, <1>2 DEF IInv, CallersOK
<1> QED BY <1>1, <1>2, <1>3

\* A step that has nothing to do with the main thread.
LEMMA MainStays ==
    ASSUME IInv, NEW w \in Workers, NEW from, NEW to, pc[w] = from,
           \A v \in Workers : pc'[v] = IF v = w THEN to ELSE pc[v],
           from \notin {"main", "pass", "pop"}, to \notin {"main", "pass", "pop"},
           from \in Early <=> to \in Early,
           from \in {"popped", "barrier2", "enter"} <=> to \in {"popped", "barrier2", "enter"},
           UNCHANGED mainVars
    PROVE  MainOK'
<1>1. 0 \in Workers
  BY WorkersFacts
<1>2. /\ pc'[0] \in Early <=> pc[0] \in Early
      /\ pc'[0] \in {"popped", "barrier2", "enter"} <=> pc[0] \in {"popped", "barrier2", "enter"}
      /\ \A v \in Workers : pc'[v] \in {"main", "pass", "pop"} \/ pc[v] \in {"main", "pass", "pop"}
             => pc'[v] = pc[v]
  BY <1>1
<1> QED BY <1>1, <1>2 DEF MainOK, mainVars, IInv

LEMMA BarriersKeeps == ASSUME IInv, NEW w \in Workers, Barriers(w) PROVE IInv'
<1>1. UNCHANGED <<callerVars, flag, alive, mainVars>>
  BY DEF Barriers
<1>2. PICK from, sleeping, beyond :
          /\ <<from, sleeping, beyond>> \in {<<"set_up", "barrier1", "schedule">>,
                 <<"popped", "barrier2", "enter">>, <<"cleanup", "barrier3", "fini">>}
          /\ Arrive(w, from, sleeping, beyond) \/ Wake(w, sleeping, beyond)
  BY DEF Barriers
<1>3. /\ from \in PCs \ Doors /\ sleeping \in Doors /\ beyond \in PCs \ Doors
      /\ from # "off" /\ sleeping \in PCs /\ sleeping # "off" /\ beyond # "off"
      /\ sleeping = Door(Arrivals(from) + 1)
      /\ Arrivals(beyond) = Arrivals(from) + 1 /\ Arrivals(sleeping) = Arrivals(beyond)
  BY <1>2 DEF PCs, Doors, Door, Arrivals
<1>4. BarrierOK' /\ phase' \in {0, 1} /\ cur' \in [{0, 1} -> Nat] /\ seen' \in [Workers -> {0, 1}]
      /\ \/ pc' = pc
         \/ \E f, t \in {from, sleeping, beyond} : Move(w, f, t)
  <2>1. CASE Arrive(w, from, sleeping, beyond)
    BY <1>3, <2>1, ArriveInStep
  <2>2. CASE Wake(w, sleeping, beyond)
    BY <1>3, <2>2, WakeKeeps DEF IInv, Types
  <2> QED BY <1>2, <2>1, <2>2
<1>5. CASE pc' = pc
  BY <1>1, <1>4, <1>5 DEF IInv, Types, CallersOK, AliveOK, MainOK, callerVars, mainVars
<1>6. CASE \E f, t \in {from, sleeping, beyond} : Move(w, f, t)
  <2>1. PICK f \in {from, sleeping, beyond}, t \in {from, sleeping, beyond} : Move(w, f, t)
    BY <1>6
  <2>2. f \in PCs /\ t \in PCs /\ f # "off" /\ t # "off"
    BY <1>3
  <2>3. /\ pc[w] = f /\ pc' \in [Workers -> PCs] /\ CallersOK'
        /\ \A v \in Workers : pc'[v] = IF v = w THEN t ELSE pc[v]
    BY <1>1, <2>1, <2>2, Moves DEF callerVars
  <2>4. /\ f \notin {"setup", "exited", "main", "pass", "pop"}
        /\ t \notin {"setup", "exited", "main", "pass", "pop"}
        /\ f \in Early <=> t \in Early
        /\ f \in {"popped", "barrier2", "enter"} <=> t \in {"popped", "barrier2", "enter"}
    BY <1>2, <2>1 DEF Early
  <2>5. MainOK'
    BY <1>1, <2>3, <2>4, MainStays
  <2>6. AliveOK'
    BY <1>1, <2>2, <2>3, <2>4 DEF IInv, AliveOK
  <2> QED BY <1>1, <1>4, <2>3, <2>5, <2>6 DEF IInv, Types, callerVars, mainVars
<1> QED BY <1>4, <1>5, <1>6

-----------------------------------------------------------------------------
(* myth_init_ex_body and the end of myth_fini_body                         *)

\* Callers that only look, or win: nobody has the runtime then.
LEMMA CallerKeeps ==
    ASSUME IInv, NEW p \in Callers, TrySet(p) \/ LoseRace(p) \/ FindInitialized(p)
    PROVE  IInv'
<1>1. UNCHANGED <<pc, flag, alive, mainVars, barrierVars>>
  BY DEF TrySet, LoseRace, FindInitialized
<1>2. /\ BarrierOK' /\ AliveOK' /\ MainOK'
  BY <1>1 DEF IInv, BarrierOK, InStep, Arrived, AliveOK, MainOK, mainVars, barrierVars
<1>3. Types' /\ CallersOK'
  <2>1. CASE TrySet(p)
    <3>1. /\ init = "uninit" /\ init' = "initializing" /\ caller' = [caller EXCEPT ![p] = "winner"]
      BY <2>1 DEF TrySet
    <3>2. \A q \in Callers : caller[q] \notin {"winner", "runs"}
      BY <3>1 DEF IInv, CallersOK
    <3>3. \A q \in Callers : caller'[q] = IF q = p THEN "winner" ELSE caller[q]
      BY <3>1 DEF IInv, Types
    <3>4. Types'
      BY <1>1, <3>1 DEF IInv, Types, mainVars, barrierVars
    <3> QED BY <1>1, <3>1, <3>2, <3>3, <3>4 DEF IInv, CallersOK
  <2>2. CASE LoseRace(p) \/ FindInitialized(p)
    <3>1. PICK to \in {"waits", "done"} : caller' = [caller EXCEPT ![p] = to] /\ init' = init
      BY <2>2 DEF LoseRace, FindInitialized
    <3>2. \A q \in Callers : caller'[q] = IF q = p THEN to ELSE caller[q]
      BY <3>1 DEF IInv, Types
    <3>3. caller[p] \notin {"winner", "runs"}
      BY <2>2 DEF LoseRace, FindInitialized
    <3>4. Types'
      BY <1>1, <3>1 DEF IInv, Types, mainVars, barrierVars
    <3>5. \A q \in Callers : caller'[q] \in {"winner", "runs"} \/ caller[q] \in {"winner", "runs"}
              => caller'[q] = caller[q]
      BY <3>2, <3>3
    <3> QED BY <1>1, <3>1, <3>4, <3>5 DEF IInv, CallersOK
  <2> QED BY <2>1, <2>2
<1> QED BY <1>2, <1>3 DEF IInv

\* The one that has won starts all the workers.
LEMMA StartWorkersKeeps == ASSUME IInv, NEW p \in Callers, StartWorkers(p) PROVE IInv'
<1>1. /\ caller[p] = "winner" /\ caller' = [caller EXCEPT ![p] = "runs"]
      /\ pc' = [w \in Workers |-> "setup"] /\ phase' = 0 /\ cur' = [ph \in {0, 1} |-> 0]
      /\ UNCHANGED <<init, flag, alive, mainVars, seen, asleep>>
  BY DEF StartWorkers
<1>2. \A q \in Callers : caller'[q] = IF q = p THEN "runs" ELSE caller[q]
  BY <1>1 DEF IInv, Types
<1>3. (\A q \in Callers : caller[q] # "runs") /\ \A w \in Workers : pc[w] = "off"
  <2>1. \A q \in Callers : caller[q] # "runs"
    BY <1>1 DEF IInv, CallersOK
  <2> QED BY <2>1 DEF IInv, CallersOK
<1>4. 0 \in Workers /\ 0 < N
  BY WorkersFacts
<1>5. asleep = {} /\ alive = {}
  BY <1>3, <1>4 DEF IInv, BarrierOK, AliveOK
<1>6. Types'
  BY <1>1 DEF IInv, Types, mainVars, PCs
<1>7. CallersOK'
  BY <1>1, <1>2 DEF IInv, CallersOK
<1>8. BarrierOK'
  <2>1. Arrived(0 + 1)' = {} /\ Cardinality({}) = 0
    BY <1>1, FS_EmptySet DEF Arrived, Arrivals
  <2>2. InStep(0)'
    <3>1. \A w \in Workers : Arrivals(pc'[w]) = 0 /\ pc'[w] = "setup"
      BY <1>1 DEF Arrivals
    <3>2. Door(0) = "none"
      BY DEF Door
    <3> QED BY <1>1, <1>4, <1>5, <2>1, <3>1, <3>2 DEF InStep
  <2> QED BY <1>1, <2>2 DEF BarrierOK
<1>9. AliveOK'
  BY <1>1, <1>5 DEF AliveOK
<1>10. MainOK'
  BY <1>1, <1>3, <1>4 DEF IInv, MainOK, Early, mainVars
<1> QED BY <1>6, <1>7, <1>8, <1>9, <1>10 DEF IInv

\* When all of them have exited nobody sleeps in a barrier.
LEMMA FiniReallyKeeps == ASSUME IInv, NEW p \in Callers, FiniReally(p) PROVE IInv'
<1>1. /\ caller[p] = "runs" /\ caller' = [caller EXCEPT ![p] = "done"]
      /\ main = "cleanup" /\ main' = "none" /\ \A w \in Workers : pc[w] = "exited"
      /\ pc' = [w \in Workers |-> "off"] /\ init' = "uninit"
      /\ UNCHANGED <<flag, alive, queued, first, env, barrierVars>>
  BY DEF FiniReally
<1>2. \A q \in Callers : caller'[q] = IF q = p THEN "done" ELSE caller[q]
  BY <1>1 DEF IInv, Types
<1>3. 0 \in Workers
  BY WorkersFacts
<1>4. asleep = {}
  <2>1. PICK e \in 0 .. 3 : InStep(e)
    BY <1>1, <1>3, Started
  <2>2. \A w \in Workers : Arrivals(pc[w]) # e + 1
    BY <1>1, <2>1 DEF InStep, Arrivals, Door
  <2> QED BY <2>1, <2>2 DEF InStep, Arrived
<1>5. Types'
  BY <1>1 DEF IInv, Types, barrierVars, PCs
<1>6. CallersOK'
  BY <1>1, <1>2 DEF IInv, CallersOK
<1>7. BarrierOK' /\ AliveOK'
  BY <1>1, <1>4 DEF IInv, BarrierOK, AliveOK, barrierVars
<1>8. MainOK'
  BY <1>1, <1>3 DEF IInv, MainOK, Early
<1> QED BY <1>5, <1>6, <1>7, <1>8 DEF IInv

-----------------------------------------------------------------------------
(* myth_worker_thread_fn                                                   *)

LEMMA SetupKeeps == ASSUME IInv, NEW w \in Workers, Setup(w) PROVE IInv'
<1>1. /\ Move(w, "setup", "set_up") /\ alive' = alive \cup {w}
      /\ UNCHANGED <<callerVars, mainVars, barrierVars>>
  BY DEF Setup
<1>2. "setup" \in PCs \ Doors /\ "set_up" \in PCs \ Doors /\ Arrivals("setup") = Arrivals("set_up")
  BY DEF PCs, Doors, Arrivals
<1>3. /\ pc[w] = "setup" /\ pc' \in [Workers -> PCs] /\ CallersOK'
      /\ \A v \in Workers : pc'[v] = IF v = w THEN "set_up" ELSE pc[v]
  BY <1>1, <1>2, Moves DEF callerVars
<1>4. BarrierOK'
  BY <1>1, <1>2, BetweenBarriers
<1>5. MainOK'
  BY <1>1, <1>3, MainStays DEF Early
<1>6. AliveOK'
  BY <1>1, <1>3 DEF IInv, AliveOK
<1> QED BY <1>1, <1>3, <1>4, <1>5, <1>6 DEF IInv, Types, callerVars, mainVars, barrierVars

\* A step of a worker from one place between barriers to another, which does
\* not touch the queues.
LEMMA StepKeeps ==
    ASSUME IInv, NEW w \in Workers, NEW from \in PCs \ Doors, NEW to \in PCs \ Doors,
           from \notin {"off", "setup", "exited"}, to \notin {"off", "setup", "exited"},
           Move(w, from, to), Arrivals(from) = Arrivals(to),
           caller' = caller, init' = init \/ init' # "uninit",
           alive' = alive, UNCHANGED barrierVars
    PROVE  /\ pc[w] = from /\ pc' \in [Workers -> PCs]
           /\ \A v \in Workers : pc'[v] = IF v = w THEN to ELSE pc[v]
           /\ CallersOK' /\ BarrierOK' /\ AliveOK'
<1>1. /\ pc[w] = from /\ pc' \in [Workers -> PCs] /\ CallersOK'
      /\ \A v \in Workers : pc'[v] = IF v = w THEN to ELSE pc[v]
  BY Moves
<1>2. BarrierOK'
  BY BetweenBarriers
<1>3. AliveOK'
  BY <1>1 DEF IInv, AliveOK
<1> QED BY <1>1, <1>2, <1>3

\* Worker 0 makes the main thread.
LEMMA ScheduleKeeps == ASSUME IInv, NEW w \in Workers, Schedule(w) PROVE IInv'
<1>1. /\ Move(w, "schedule", "pop") /\ UNCHANGED <<callerVars, alive, first, barrierVars>>
      /\ w = 0 => queued' = {0} /\ main' = "init" /\ env' = 0
      /\ w # 0 => UNCHANGED <<queued, main, env>>
  BY DEF Schedule
<1>2. "schedule" \in PCs \ Doors /\ "pop" \in PCs \ Doors /\ Arrivals("schedule") = Arrivals("pop")
  BY DEF PCs, Doors, Arrivals
<1>3. /\ pc[w] = "schedule" /\ pc' \in [Workers -> PCs]
      /\ \A v \in Workers : pc'[v] = IF v = w THEN "pop" ELSE pc[v]
      /\ CallersOK' /\ BarrierOK' /\ AliveOK'
  BY <1>1, <1>2, StepKeeps DEF callerVars
<1>4. 0 \in Workers
  BY WorkersFacts
<1>5. Types'
  BY <1>1, <1>3, <1>4 DEF IInv, Types, callerVars, barrierVars
<1>6. MainOK'
  <2>1. CASE w = 0
    <3>1. main = "none"
      BY <1>3, <2>1 DEF IInv, MainOK, Early
    <3>2. first = {} /\ \A v \in Workers : pc[v] \notin {"main", "pass"}
      BY <3>1 DEF IInv, MainOK
    <3> QED BY <1>1, <1>3, <1>4, <2>1, <3>2 DEF MainOK, Early
  <2>2. CASE w # 0
    <3>1. /\ pc'[0] = pc[0] /\ UNCHANGED <<queued, main, env, first>>
          /\ \A v \in Workers : pc'[v] \in {"main", "pass"} \/ pc[v] \in {"main", "pass"} =>
                 pc'[v] = pc[v]
      BY <1>1, <1>3, <1>4, <2>2
    <3> QED BY <3>1 DEF IInv, MainOK
  <2> QED BY <2>1, <2>2
<1> QED BY <1>3, <1>5, <1>6 DEF IInv

\* Worker 0 finds the main thread in its queue, and the others nothing.
LEMMA PopFirstKeeps == ASSUME IInv, NEW w \in Workers, PopFirst(w) PROVE IInv'
<1>1. /\ Move(w, "pop", "popped") /\ UNCHANGED <<callerVars, alive, main, env, barrierVars>>
      /\ queued' = queued \ {w} /\ first' = IF w \in queued THEN first \cup {w} ELSE first
  BY DEF PopFirst
<1>2. "popped" \in PCs \ Doors /\ "pop" \in PCs \ Doors /\ Arrivals("popped") = Arrivals("pop")
  BY DEF PCs, Doors, Arrivals
<1>3. /\ pc[w] = "pop" /\ pc' \in [Workers -> PCs]
      /\ \A v \in Workers : pc'[v] = IF v = w THEN "popped" ELSE pc[v]
      /\ CallersOK' /\ BarrierOK' /\ AliveOK'
  BY <1>1, <1>2, StepKeeps DEF callerVars
<1>4. 0 \in Workers
  BY WorkersFacts
<1>5. w # 0 => w \notin queued
  \* Once the main thread may be elsewhere all workers are through two barriers.
  <2>1. SUFFICES ASSUME w # 0, w \in queued PROVE FALSE
    OBVIOUS
  <2>2. main \notin {"none", "cleanup", "init"}
    BY <2>1 DEF IInv, MainOK
  <2>3. pc[0] \notin Early \cup {"pop", "popped", "barrier2", "enter"}
    BY <2>2 DEF IInv, MainOK
  <2>4. pc[0] \in PCs
    BY <1>4 DEF IInv, Types
  <2>5. Arrivals(pc[0]) \in {2, 3}
    BY <2>3, <2>4 DEF Arrivals, Early, PCs
  <2>6. PICK e \in 0 .. 3 : InStep(e)
    BY <1>3, Started
  <2>7. e \in {0, 1}
    <3>1. Arrivals(pc[w]) = 1
      BY <1>3 DEF Arrivals
    <3> QED BY <2>6, <3>1 DEF InStep
  <2>8. e + 1 = 2 /\ pc[0] = Door(e + 1)
    BY <1>4, <2>5, <2>6, <2>7 DEF InStep
  <2> QED BY <2>3, <2>8 DEF Door
<1>6. MainOK'
  BY <1>1, <1>3, <1>4, <1>5 DEF IInv, MainOK, Early
<1>7. first' \subseteq {0}
  BY <1>1, <1>5 DEF IInv, Types
<1> QED BY <1>1, <1>3, <1>6, <1>7 DEF IInv, Types, callerVars, barrierVars

\* Whoever is past the second barrier finds all the others there, or in it.
LEMMA Together ==
    ASSUME IInv, NEW w \in Workers, pc[w] \in {"enter", "sched", "main", "child", "pass", "cleanup"}
    PROVE  \A v \in Workers : pc[v] \in {"barrier2", "enter", "sched", "main", "child", "pass",
                                         "cleanup", "barrier3"}
<1>1. PICK e \in 0 .. 3 : InStep(e)
  BY Started
<1>2. Arrivals(pc[w]) = 2
  BY DEF Arrivals
<1>3. e = 2
  <2>1. e # 1
    BY <1>1, <1>2 DEF InStep, Door
  <2> QED BY <1>1, <1>2, <2>1 DEF InStep
<1>4. \A v \in Workers : Arrivals(pc[v]) \in {2, 3} /\ (Arrivals(pc[v]) = 3 => pc[v] = "barrier3")
  BY <1>1, <1>3 DEF InStep, Door
<1> QED BY <1>4 DEF Arrivals, IInv, Types, PCs

\* The main thread goes on where it has started.
LEMMA EnterKeeps == ASSUME IInv, NEW w \in Workers, Enter(w) PROVE IInv'
<1> DEFINE to == IF w \in first THEN "main" ELSE "sched"
<1>1. /\ Move(w, "enter", to) /\ first' = first \ {w}
      /\ UNCHANGED <<callerVars, alive, queued, main, env, barrierVars>>
  BY DEF Enter
<1>2. /\ pc[w] = "enter" /\ pc' \in [Workers -> PCs]
      /\ \A v \in Workers : pc'[v] = IF v = w THEN to ELSE pc[v]
      /\ CallersOK' /\ BarrierOK' /\ AliveOK'
  <2>1. "enter" \in PCs \ Doors /\ to \in PCs \ Doors /\ Arrivals("enter") = Arrivals(to)
        /\ to \notin {"off", "setup", "exited"}
    BY DEF PCs, Doors, Arrivals
  <2> HIDE DEF to
  <2> QED BY <1>1, <2>1, StepKeeps DEF callerVars
<1>3. 0 \in Workers
  BY WorkersFacts
<1>4. w = 0 <=> w \in first
  BY <1>2 DEF IInv, MainOK, Types
<1>5. MainOK'
  BY <1>1, <1>2, <1>3, <1>4 DEF IInv, MainOK, Early
<1> QED BY <1>1, <1>2, <1>5 DEF IInv, Types, callerVars, barrierVars

\* What does not move anybody.
LEMMA StayKeeps ==
    ASSUME IInv, UNCHANGED <<pc, caller, alive, barrierVars>>, init' = init \/ init' # "uninit"
    PROVE  CallersOK' /\ BarrierOK' /\ AliveOK'
BY DEF IInv, CallersOK, BarrierOK, InStep, Arrived, AliveOK, barrierVars

LEMMA InitializedKeeps == ASSUME IInv, NEW w \in Workers, Initialized(w) PROVE IInv'
<1>1. /\ pc[w] = "main" /\ main = "init" /\ main' = "user" /\ init' = "initialized"
      /\ UNCHANGED <<caller, pc, alive, queued, first, env, barrierVars>>
  BY DEF Initialized
<1>2. w = 0
  BY <1>1 DEF IInv, MainOK
<1>3. MainOK'
  BY <1>1, <1>2 DEF IInv, MainOK, Early
<1> QED BY <1>1, <1>3, StayKeeps DEF IInv, Types, barrierVars

\* The main thread is stolen, or found by its own worker.
LEMMA ResumeKeeps == ASSUME IInv, NEW w \in Workers, Resume(w) PROVE IInv'
<1>1. /\ Move(w, "sched", "main") /\ queued # {} /\ queued' = {} /\ env' = w
      /\ UNCHANGED <<callerVars, alive, first, main, barrierVars>>
  BY DEF Resume
<1>2. "sched" \in PCs \ Doors /\ "main" \in PCs \ Doors /\ Arrivals("sched") = Arrivals("main")
  BY DEF PCs, Doors, Arrivals
<1>3. /\ pc[w] = "sched" /\ pc' \in [Workers -> PCs]
      /\ \A v \in Workers : pc'[v] = IF v = w THEN "main" ELSE pc[v]
      /\ CallersOK' /\ BarrierOK' /\ AliveOK'
  BY <1>1, <1>2, StepKeeps DEF callerVars
<1>4. 0 \in Workers /\ pc[0] # "pop"
  BY <1>3, WorkersFacts, Together
<1>5. main \in {"user", "fini"} /\ \A v \in Workers : pc[v] \notin {"main", "pass"}
  BY <1>1, <1>4 DEF IInv, MainOK, Types
<1>6. MainOK'
  BY <1>1, <1>3, <1>4, <1>5 DEF IInv, MainOK, Early
<1> QED BY <1>1, <1>3, <1>6 DEF IInv, Types, callerVars, barrierVars

LEMMA SeeExitFlagKeeps == ASSUME IInv, NEW w \in Workers, SeeExitFlag(w) PROVE IInv'
<1>1. Move(w, "sched", "cleanup") /\ UNCHANGED <<callerVars, alive, mainVars, barrierVars>>
  BY DEF SeeExitFlag
<1>2. "sched" \in PCs \ Doors /\ "cleanup" \in PCs \ Doors /\ Arrivals("sched") = Arrivals("cleanup")
  BY DEF PCs, Doors, Arrivals
<1>3. /\ pc[w] = "sched" /\ pc' \in [Workers -> PCs]
      /\ \A v \in Workers : pc'[v] = IF v = w THEN "cleanup" ELSE pc[v]
      /\ CallersOK' /\ BarrierOK' /\ AliveOK'
  BY <1>1, <1>2, StepKeeps DEF callerVars
<1>4. MainOK'
  BY <1>1, <1>3, MainStays DEF Early
<1> QED BY <1>1, <1>3, <1>4 DEF IInv, Types, callerVars, mainVars, barrierVars

\* A thread that the main thread creates leaves the main thread in the queue.
LEMMA CreateChildKeeps == ASSUME IInv, NEW w \in Workers, CreateChild(w) PROVE IInv'
<1>1. /\ Move(w, "main", "child") /\ main = "user" /\ queued' = {w}
      /\ UNCHANGED <<callerVars, alive, first, main, env, barrierVars>>
  BY DEF CreateChild
<1>2. "main" \in PCs \ Doors /\ "child" \in PCs \ Doors /\ Arrivals("main") = Arrivals("child")
  BY DEF PCs, Doors, Arrivals
<1>3. /\ pc[w] = "main" /\ pc' \in [Workers -> PCs]
      /\ \A v \in Workers : pc'[v] = IF v = w THEN "child" ELSE pc[v]
      /\ CallersOK' /\ BarrierOK' /\ AliveOK'
  BY <1>1, <1>2, StepKeeps DEF callerVars
<1>4. 0 \in Workers
  BY WorkersFacts
<1>5. MainOK'
  BY <1>1, <1>3, <1>4 DEF IInv, MainOK, Early
<1> QED BY <1>1, <1>3, <1>5 DEF IInv, Types, callerVars, barrierVars

\* If the main thread is in this queue still, its env is this worker.
LEMMA ChildExitKeeps == ASSUME IInv, NEW w \in Workers, ChildExit(w) PROVE IInv'
<1>1. UNCHANGED <<callerVars, alive, first, main, env, barrierVars>>
  BY DEF ChildExit
<1>2. /\ "child" \in PCs \ Doors /\ "main" \in PCs \ Doors /\ "sched" \in PCs \ Doors
      /\ Arrivals("child") = Arrivals("main") /\ Arrivals("child") = Arrivals("sched")
  BY DEF PCs, Doors, Arrivals
<1>3. 0 \in Workers
  BY WorkersFacts
<1>4. CASE w \in queued /\ Move(w, "child", "main") /\ queued' = {}
  <2>1. /\ pc[w] = "child" /\ pc' \in [Workers -> PCs]
        /\ \A v \in Workers : pc'[v] = IF v = w THEN "main" ELSE pc[v]
        /\ CallersOK' /\ BarrierOK' /\ AliveOK'
    BY <1>1, <1>2, <1>4, StepKeeps DEF callerVars
  <2>2. env = w /\ \A v \in Workers : pc[v] \notin {"main", "pass"}
    BY <1>4 DEF IInv, MainOK
  <2>3. main \in {"user", "fini"}
    <3>1. pc[0] # "pop"
      BY <1>3, <2>1, Together
    <3> QED BY <1>4, <3>1 DEF IInv, MainOK, Types
  <2>4. MainOK'
    BY <1>1, <1>3, <1>4, <2>1, <2>2, <2>3 DEF IInv, MainOK, Early
  <2> QED BY <1>1, <2>1, <2>4 DEF IInv, Types, callerVars, barrierVars
<1>5. CASE Move(w, "child", "sched") /\ queued' = queued
  <2>1. /\ pc[w] = "child" /\ pc' \in [Workers -> PCs]
        /\ \A v \in Workers : pc'[v] = IF v = w THEN "sched" ELSE pc[v]
        /\ CallersOK' /\ BarrierOK' /\ AliveOK'
    BY <1>1, <1>2, <1>5, StepKeeps DEF callerVars
  <2>2. MainOK'
    BY <1>1, <1>5, <2>1, MainStays DEF Early, mainVars
  <2> QED BY <1>1, <2>1, <2>2 DEF IInv, Types, callerVars, barrierVars
<1> QED BY <1>4, <1>5 DEF ChildExit

-----------------------------------------------------------------------------
(* myth_fini_body                                                          *)

LEMMA BeginFiniKeeps == ASSUME IInv, NEW w \in Workers, BeginFini(w) PROVE IInv'
<1>1. /\ pc[w] = "main" /\ main = "user" /\ main' = "fini"
      /\ UNCHANGED <<callerVars, pc, alive, queued, first, env, barrierVars>>
  BY DEF BeginFini
<1>2. MainOK'
  BY <1>1 DEF IInv, MainOK
<1> QED BY <1>1, <1>2, StayKeeps DEF IInv, Types, callerVars, barrierVars

LEMMA LeaveWorkerKeeps == ASSUME IInv, NEW w \in Workers, LeaveWorker(w) PROVE IInv'
<1>1. /\ Move(w, "main", "pass") /\ main = "fini" /\ env' = 0
      /\ UNCHANGED <<callerVars, alive, queued, first, main, barrierVars>>
  BY DEF LeaveWorker
<1>2. "main" \in PCs \ Doors /\ "pass" \in PCs \ Doors /\ Arrivals("main") = Arrivals("pass")
  BY DEF PCs, Doors, Arrivals
<1>3. /\ pc[w] = "main" /\ pc' \in [Workers -> PCs]
      /\ \A v \in Workers : pc'[v] = IF v = w THEN "pass" ELSE pc[v]
      /\ CallersOK' /\ BarrierOK' /\ AliveOK'
  BY <1>1, <1>2, StepKeeps DEF callerVars
<1>4. 0 \in Workers
  BY WorkersFacts
<1>5. MainOK'
  BY <1>1, <1>3, <1>4 DEF IInv, MainOK, Early
<1> QED BY <1>1, <1>3, <1>4, <1>5 DEF IInv, Types, callerVars, barrierVars

LEMMA PassKeeps == ASSUME IInv, NEW w \in Workers, Pass(w) PROVE IInv'
<1>1. /\ Move(w, "pass", "sched") /\ queued' = {env}
      /\ UNCHANGED <<callerVars, alive, first, main, env, barrierVars>>
  BY DEF Pass
<1>2. "sched" \in PCs \ Doors /\ "pass" \in PCs \ Doors /\ Arrivals("sched") = Arrivals("pass")
  BY DEF PCs, Doors, Arrivals
<1>3. /\ pc[w] = "pass" /\ pc' \in [Workers -> PCs]
      /\ \A v \in Workers : pc'[v] = IF v = w THEN "sched" ELSE pc[v]
      /\ CallersOK' /\ BarrierOK' /\ AliveOK'
  BY <1>1, <1>2, StepKeeps DEF callerVars
<1>4. 0 \in Workers
  BY WorkersFacts
<1>5. MainOK'
  BY <1>1, <1>3, <1>4 DEF IInv, MainOK, Early
<1> QED BY <1>1, <1>3, <1>5 DEF IInv, Types, callerVars, barrierVars

LEMMA PassElsewhereKeeps == ASSUME IInv, NEW w \in Workers, PassElsewhere(w) PROVE IInv'
<1>1. /\ pc[w] = "pass" /\ env' \in Workers
      /\ UNCHANGED <<callerVars, pc, alive, queued, first, main, barrierVars>>
  BY DEF PassElsewhere
<1>2. main = "fini" /\ queued = {} /\ \A v \in Workers : pc[v] # "main"
  BY <1>1 DEF IInv, MainOK
<1>3. MainOK'
  BY <1>1, <1>2 DEF IInv, MainOK
<1> QED BY <1>1, <1>3, StayKeeps DEF IInv, Types, callerVars, barrierVars

LEMMA NotifyExitKeeps == ASSUME IInv, NEW w \in Workers, NotifyExit(w) PROVE IInv'
<1>1. /\ Move(w, "main", "cleanup") /\ main = "fini" /\ main' = "cleanup"
      /\ UNCHANGED <<callerVars, alive, queued, first, env, barrierVars>>
  BY DEF NotifyExit
<1>2. "main" \in PCs \ Doors /\ "cleanup" \in PCs \ Doors /\ Arrivals("main") = Arrivals("cleanup")
  BY DEF PCs, Doors, Arrivals
<1>3. /\ pc[w] = "main" /\ pc' \in [Workers -> PCs]
      /\ \A v \in Workers : pc'[v] = IF v = w THEN "cleanup" ELSE pc[v]
      /\ CallersOK' /\ BarrierOK' /\ AliveOK'
  BY <1>1, <1>2, StepKeeps DEF callerVars
<1>4. 0 \in Workers
  BY WorkersFacts
<1>5. MainOK'
  BY <1>1, <1>3, <1>4 DEF IInv, MainOK, Early
<1> QED BY <1>1, <1>3, <1>5 DEF IInv, Types, callerVars, barrierVars

LEMMA FiniQueueKeeps == ASSUME IInv, NEW w \in Workers, FiniQueue(w) PROVE IInv'
<1>1. /\ Move(w, "fini", "exited") /\ alive' = alive \ {w}
      /\ UNCHANGED <<callerVars, mainVars, barrierVars>>
  BY DEF FiniQueue
<1>2. "fini" \in PCs \ Doors /\ "exited" \in PCs \ Doors /\ Arrivals("fini") = Arrivals("exited")
  BY DEF PCs, Doors, Arrivals
<1>3. /\ pc[w] = "fini" /\ pc' \in [Workers -> PCs] /\ CallersOK'
      /\ \A v \in Workers : pc'[v] = IF v = w THEN "exited" ELSE pc[v]
  BY <1>1, <1>2, Moves DEF callerVars
<1>4. BarrierOK'
  BY <1>1, <1>2, BetweenBarriers
<1>5. MainOK'
  BY <1>1, <1>3, MainStays DEF Early
<1>6. AliveOK'
  BY <1>1, <1>3 DEF IInv, AliveOK
<1> QED BY <1>1, <1>3, <1>4, <1>5, <1>6 DEF IInv, Types, callerVars, mainVars, barrierVars

LEMMA NextIInv == IInv /\ [Next]_vars => IInv'
<1> SUFFICES ASSUME IInv, [Next]_vars PROVE IInv'
  OBVIOUS
<1>1. ASSUME NEW p \in Callers, CallerStep(p) PROVE IInv'
  BY <1>1, CallerKeeps, StartWorkersKeeps, FiniReallyKeeps DEF CallerStep
<1>2. ASSUME NEW w \in Workers, WorkerStep(w) PROVE IInv'
  <2>1. CASE Barriers(w) \/ Setup(w) \/ Schedule(w) \/ PopFirst(w) \/ Enter(w)
    BY <2>1, BarriersKeeps, SetupKeeps, ScheduleKeeps, PopFirstKeeps, EnterKeeps
  <2>2. CASE Resume(w) \/ SeeExitFlag(w) \/ ChildExit(w) \/ Pass(w) \/ FiniQueue(w)
    BY <2>2, ResumeKeeps, SeeExitFlagKeeps, ChildExitKeeps, PassKeeps, FiniQueueKeeps
  <2>3. CASE MainStep(w)
    BY <2>3, InitializedKeeps, LeaveWorkerKeeps, NotifyExitKeeps DEF MainStep
  <2> QED BY <1>2, <2>1, <2>2, <2>3 DEF WorkerStep
<1>3. ASSUME NEW w \in Workers, CreateChild(w) \/ BeginFini(w) \/ PassElsewhere(w) PROVE IInv'
  BY <1>3, CreateChildKeeps, BeginFiniKeeps, PassElsewhereKeeps
<1>4. CASE UNCHANGED vars
  <2>1. UNCHANGED <<pc, caller, alive, barrierVars, init, mainVars>>
    BY <1>4 DEF vars, callerVars
  <2> QED BY <2>1, StayKeeps DEF IInv, Types, MainOK, mainVars, barrierVars
<1> QED BY <1>1, <1>2, <1>3, <1>4 DEF Next

LEMMA SpecIInv == Spec => []IInv
BY InitIInv, NextIInv, PTL DEF Spec

-----------------------------------------------------------------------------
(* What the runs check                                                     *)

\* myth_internal_barrier_wait lets nobody through before all have come, and
\* whoever still sleeps then finds the counter that lets it go.
THEOREM StaysInStep == Spec => []BarriersHold
<1>1. ASSUME IInv PROVE BarriersHold
  <2> SUFFICES ASSUME NEW v \in Workers, NEW w \in Workers, Stage(v) > Stage(w)
               PROVE  /\ Stage(v) = Stage(w) + 1
                      /\ pc[w] \in {"barrier1", "barrier2", "barrier3"}
                      /\ w \notin asleep /\ cur[seen[w]] = N
    BY DEF BarriersHold
  <2>1. \A x \in Workers : Stage(x) = IF pc[x] \in Doors THEN Arrivals(pc[x]) - 1
                                                         ELSE Arrivals(pc[x])
    BY <1>1 DEF IInv, Types, PCs, Stage, Doors, Arrivals
  <2>2. PICK e \in 0 .. 3 : InStep(e)
    <3>1. pc[v] # "off"
      <4>1. Stage(w) \in {0, 1, 2, 3}
        BY <2>1 DEF Arrivals, Doors
      <4>2. pc[v] = "off" => Stage(v) = 0
        BY <2>1 DEF Arrivals, Doors
      <4> QED BY <4>1, <4>2
    <3> QED BY <1>1, Started, <3>1
  <2>3. \A x \in Workers : Stage(x) \in {e - 1, e}
    <3>1. \A x \in Workers : Arrivals(pc[x]) = e + 1 => pc[x] = Door(e + 1) /\ e + 1 \in {1, 2, 3}
      BY <2>2 DEF InStep, Arrivals
    <3>2. Door(e + 1) \in Doors \/ e + 1 \notin {1, 2, 3}
      BY DEF Door, Doors
    <3> QED BY <2>1, <2>2, <3>1, <3>2 DEF InStep
  <2>4. Stage(v) = e /\ Stage(w) = e - 1
    BY <2>3
  <2>5. pc[w] \in Doors /\ Arrivals(pc[w]) = e
    BY <2>1, <2>2, <2>4 DEF InStep
  <2>6. pc[w] = Door(e) /\ e > 0
    BY <2>5 DEF Doors, Door, Arrivals
  <2>7. w \notin asleep
    BY <2>2, <2>5 DEF InStep, Arrived
  <2>8. cur[seen[w]] = N
    BY <2>2, <2>6 DEF InStep
  <2> QED BY <2>4, <2>5, <2>7, <2>8 DEF Doors
<1> QED BY <1>1, SpecIInv, PTL

\* Whoever steals, or passes a thread to another worker, finds all the run
\* queues initialised and none of them finalised.
THEOREM QueuesLastLongEnough == Spec => []QueuesAreAlive
<1>1. IInv => QueuesAreAlive
  BY Together DEF QueuesAreAlive, IInv, AliveOK
<1> QED BY <1>1, SpecIInv, PTL

\* The env of the main thread is right when myth_fini goes by it, and
\* myth_init returns on worker 0.
THEOREM MainKnowsItsWorker == Spec => []MainIsWhereItThinks
<1>1. IInv => MainIsWhereItThinks
  BY DEF MainIsWhereItThinks, IInv, MainOK
<1> QED BY <1>1, SpecIInv, PTL
=============================================================================
