---------------------------- MODULE BufferProofs ----------------------------
(***************************************************************************)
(* The safety of the once control and of the unconditional variable in the *)
(* program of BoundedBuffer, for any finite number of threads, any number  *)
(* of workers and items and any size of the buffer.                        *)
(***************************************************************************)
EXTENDS BoundedBuffer, FiniteSetTheorems, TLAPS

OncePCs == {"once", "try", "routine", "complete", "poll", "poll_yield"}
PutPCs == {"put", "put_head", "put_yield", "put_cas", "fill", "signal", "clear", "wake"}
GetPCs == {"get", "get_item", "get_head", "get_cas", "wait"}
Stamps == [t : Int, waiting : BOOLEAN]

Types ==
    /\ SwitchTypeOK
    /\ pc \in [Agents -> ThreadPCs \cup {"run", "swap", "callback"}]
    /\ \A w \in Workers : pc[w] \in {"run", "swap", "callback"}
    /\ pc[Consumer] \in OncePCs \cup GetPCs
    /\ \A p \in Producers : pc[p] \in OncePCs \cup PutPCs
    /\ control \in {"init", "in_progress", "completed"}
    /\ u \in Threads \cup {NULL}
    /\ to_wake \in [Threads -> Threads \cup {NULL}]
    /\ tail \in Stamps /\ seen \in [Threads -> Stamps]

\* A thread is on one worker, leaves one, or is in a run queue.
Places ==
    /\ \A v, w \in Workers : v # w /\ this[v] # NULL => this[v] # this[w]
    /\ \A v, w \in Workers : v # w /\ leaving[v] # NULL => leaving[v] # leaving[w]
    /\ \A v, w \in Workers : this[v] # NULL => this[v] # leaving[w]
    /\ \A w \in Workers : this[w] \notin ready /\ leaving[w] \notin ready
    /\ ready \subseteq saved

\* A thread leaves to yield or to wait, and is saved when its callback starts.
LeavingOK ==
    \A w \in Workers :
        /\ leaving[w] # NULL <=> pc[w] # "run"
        /\ leaving[w] # NULL => pc[leaving[w]] \in {"poll", "put", "get"}
        /\ pc[w] = "callback" => leaving[w] \in saved

\* The consumer is in the variable, or with the producer that signals.
Parked == u = Consumer \/ \E p \in Threads : to_wake[p] = Consumer

\* Nobody else is ever there; the consumer has left its worker to be there,
\* and a signal takes it out before it wakes it.
ParkedOK ==
    /\ u \in {NULL, Consumer}
    /\ \A p \in Threads : to_wake[p] = IF pc[p] \in {"clear", "wake"} THEN Consumer ELSE NULL
    /\ \A p \in Threads : pc[p] = "clear" => u = Consumer
    /\ \A p \in Threads : pc[p] = "wake" => u = NULL
    /\ Parked =>
        /\ pc[Consumer] = "get" /\ Consumer \in saved /\ Consumer \notin ready
        /\ \A w \in Workers : this[w] # Consumer /\ leaving[w] # Consumer

\* The once control counts the calls of the routine.
Wins(th) == pc[th] \in {"routine", "complete"}
OnceOK ==
    /\ control = "init" => inits = 0 /\ \A th \in Threads : pc[th] \in {"once", "try"}
    /\ control = "in_progress" =>
        /\ \A th \in Threads : pc[th] \in OncePCs
        /\ \E th \in Threads : Wins(th)
        /\ \A th, o \in Threads : Wins(th) /\ Wins(o) => th = o
        /\ \A th \in Threads : pc[th] = "routine" => inits = 0
        /\ \A th \in Threads : pc[th] = "complete" => inits = 1
    /\ control = "completed" => inits = 1 /\ \A th \in Threads : ~Wins(th)

\* SignalOwed, without cardinalities.
Owes(p) == pc[p] \in {"signal", "clear", "wake"} \/ (pc[p] = "fill" /\ seen[p].waiting)
Sleeps ==
    \/ pc[Consumer] = "wait"
    \/ pc[Consumer] = "get" /\ (Parked \/ \E w \in Workers : leaving[w] = Consumer)
OwedOK ==
    /\ \A p, q \in Threads : Owes(p) /\ Owes(q) => p = q
    /\ tail.waiting => \A p \in Threads : ~Owes(p)
    /\ Sleeps <=> tail.waiting \/ \E p \in Threads : Owes(p)

IInv == Types /\ Places /\ LeavingOK /\ ParkedOK /\ OnceOK /\ OwedOK

-----------------------------------------------------------------------------
LEMMA InitIInv == Init => IInv
<1> SUFFICES ASSUME Init PROVE IInv
  OBVIOUS
<1> USE BlockingAssumption, BufferAssumption DEF Init, SwitchInit
<1>1. /\ pc \in [Agents -> {"once", "run"}]
      /\ \A th \in Threads : pc[th] = "once"
      /\ \A w \in Workers : pc[w] = "run"
  BY DEF Agents
<1>2. Types
  BY <1>1 DEF Types, SwitchTypeOK, ThreadPCs, OncePCs, Producers, Stamps, Clear
<1>3. Places /\ LeavingOK
  BY <1>1 DEF Places, LeavingOK
<1>4. ParkedOK
  BY <1>1 DEF ParkedOK, Parked
<1>5. OnceOK
  BY <1>1 DEF OnceOK
<1>6. OwedOK
  BY <1>1 DEF OwedOK, Owes, Sleeps, Clear
<1> QED BY <1>2, <1>3, <1>4, <1>5, <1>6 DEF IInv

\* The thread that executes is on a worker and nowhere else.
LEMMA Alone ==
    ASSUME IInv, NEW th \in Threads, Executes(th)
    PROVE  /\ th \notin ready
           /\ \A w \in Workers : leaving[w] # th
           /\ Parked => th # Consumer
<1>1. PICK w \in Workers : this[w] = th /\ pc[w] = "run"
  BY BlockingAssumption DEF Executes
<1>2. this[w] # NULL
  BY <1>1, BlockingAssumption
<1> QED BY <1>1, <1>2 DEF IInv, Places, ParkedOK

\* What a step of that thread leaves alone if it does nothing but go on.
LEMMA GoesOn ==
    ASSUME IInv, NEW th \in Threads, NEW from, NEW to, Goto(th, from, to),
           UNCHANGED <<this, leaving, saved>>, UNCHANGED ready
    PROVE  /\ Places' /\ LeavingOK'
           /\ \A a \in Agents : pc'[a] = IF a = th THEN to ELSE pc[a]
           /\ pc[th] = from
<1> USE BlockingAssumption
<1>1. Executes(th) /\ pc[th] = from /\ pc' = [pc EXCEPT ![th] = to]
  BY DEF Goto, At
<1>2. \A a \in Agents : pc'[a] = IF a = th THEN to ELSE pc[a]
  BY <1>1 DEF IInv, Types
<1>3. \A w \in Workers : pc'[w] = pc[w] /\ (leaving[w] # NULL => pc'[leaving[w]] = pc[leaving[w]])
  BY <1>1, <1>2, Alone DEF Agents, IInv, Types, SwitchTypeOK
<1>4. Places'
  BY DEF IInv, Places
<1>5. LeavingOK'
  BY <1>3 DEF IInv, LeavingOK
<1> QED BY <1>1, <1>2, <1>4, <1>5

\* Nobody is past the once control before it is completed.
LEMMA OnceFrame ==
    ASSUME IInv, UNCHANGED onceVars,
           \A th \in Threads :
               \/ pc'[th] = pc[th]
               \/ pc[th] = "poll_yield" /\ pc'[th] = "poll"
               \/ pc[th] \notin OncePCs /\ pc'[th] \notin OncePCs
    PROVE  OnceOK'
<1>1. \A th \in Threads : Wins(th)' <=> Wins(th)
  BY DEF Wins, OncePCs
<1>2. CASE control = "init"
  BY <1>2 DEF IInv, OnceOK, onceVars, OncePCs
<1>3. CASE control = "in_progress"
  <2>1. \A th \in Threads : pc[th] \in OncePCs
    BY <1>3 DEF IInv, OnceOK
  <2>2. \A th \in Threads : pc'[th] \in OncePCs /\ (Wins(th) => pc'[th] = pc[th])
    BY <2>1 DEF OncePCs, Wins
  <2> QED BY <1>1, <1>3, <2>2 DEF IInv, OnceOK, onceVars, Wins
<1>4. CASE control = "completed"
  BY <1>1, <1>4 DEF IInv, OnceOK, onceVars
<1> QED BY <1>2, <1>3, <1>4 DEF IInv, Types

-----------------------------------------------------------------------------
(* The once control                                                        *)

\* A thread that executes in the once control changes nothing else.
LEMMA OnceStays ==
    ASSUME IInv, NEW th \in Threads, NEW from \in OncePCs, NEW to, Goto(th, from, to),
           UNCHANGED <<switchVars, uncondVars, bufferVars>>,
           control' \in {"init", "in_progress", "completed"},
           to \in OncePCs \/ to = Start(th)
    PROVE  /\ Types' /\ Places' /\ LeavingOK' /\ ParkedOK' /\ OwedOK'
           /\ \A a \in Agents : pc'[a] = IF a = th THEN to ELSE pc[a]
           /\ pc[th] = from
<1> USE BlockingAssumption, BufferAssumption
<1>1. /\ Places' /\ LeavingOK'
      /\ \A a \in Agents : pc'[a] = IF a = th THEN to ELSE pc[a]
      /\ pc[th] = from
  BY GoesOn DEF switchVars
<1>2. Executes(th) /\ pc' = [pc EXCEPT ![th] = to]
  BY DEF Goto, At
<1>3. to \in OncePCs \cup {"get", "put"} /\ (th = Consumer => to \in OncePCs \cup GetPCs)
      /\ (th # Consumer => to \in OncePCs \cup PutPCs)
  BY DEF Start, PutPCs, GetPCs
<1>4. Types'
  BY <1>1, <1>2, <1>3 DEF IInv, Types, SwitchTypeOK, switchVars, uncondVars, bufferVars,
     ThreadPCs, OncePCs, Agents, Producers
<1>5. ParkedOK'
  <2>1. Parked' <=> Parked
    BY DEF uncondVars, Parked
  <2>2. \A p \in Threads : pc'[p] \in {"clear", "wake"} \/ pc[p] \in {"clear", "wake"} =>
            pc'[p] = pc[p]
    BY <1>1, <1>3 DEF OncePCs, Agents
  <2>3. Parked => pc'[Consumer] = pc[Consumer]
    BY <1>1, <1>2, Alone DEF Agents
  <2> QED BY <2>1, <2>2, <2>3 DEF IInv, ParkedOK, uncondVars, switchVars
<1>6. OwedOK'
  <2>1. \A p \in Threads : Owes(p)' <=> Owes(p)
    BY <1>1, <1>3 DEF Owes, OncePCs, bufferVars, Agents
  <2>2. Sleeps' <=> Sleeps
    <3>1. Parked' <=> Parked
      BY DEF uncondVars, Parked
    <3>2. CASE th = Consumer
      <4>1. ~Parked /\ \A w \in Workers : leaving[w] # Consumer
        BY <1>2, <3>2, Alone
      <4>2. pc[Consumer] # "wait" /\ pc'[Consumer] # "wait"
        BY <1>1, <1>3, <3>2 DEF OncePCs, Agents
      <4> QED BY <3>1, <4>1, <4>2 DEF Sleeps, switchVars
    <3>3. CASE th # Consumer
      BY <1>1, <3>1, <3>3 DEF Sleeps, switchVars, Agents
    <3> QED BY <3>2, <3>3
  <2>3. tail' = tail
    BY DEF bufferVars
  <2> QED BY <2>1, <2>2, <2>3 DEF IInv, OwedOK
<1> QED BY <1>1, <1>4, <1>5, <1>6

LEMMA OnceReadKeeps == ASSUME IInv, NEW th \in Threads, OnceRead(th) PROVE IInv'
<1> DEFINE to == IF control = "init" THEN "try" ELSE "poll"
<1>1. Goto(th, "once", to) /\ UNCHANGED <<switchVars, onceVars, uncondVars, bufferVars>>
  BY DEF OnceRead
<1>2. /\ Types' /\ Places' /\ LeavingOK' /\ ParkedOK' /\ OwedOK'
      /\ \A a \in Agents : pc'[a] = IF a = th THEN to ELSE pc[a]
      /\ pc[th] = "once"
  <2>1. to \in OncePCs /\ "once" \in OncePCs
    BY DEF OncePCs
  <2>2. control' \in {"init", "in_progress", "completed"}
    BY <1>1 DEF IInv, Types, onceVars
  <2> HIDE DEF to
  <2> QED BY <1>1, <2>1, <2>2, OnceStays
<1>3. OnceOK'
  BY <1>1, <1>2 DEF IInv, OnceOK, Wins, onceVars, OncePCs, Agents
<1> QED BY <1>2, <1>3 DEF IInv

LEMMA OnceTryKeeps == ASSUME IInv, NEW th \in Threads, OnceTry(th) PROVE IInv'
<1> DEFINE to == IF control = "init" THEN "routine" ELSE "poll"
<1>1. /\ Goto(th, "try", to) /\ UNCHANGED <<switchVars, inits, uncondVars, bufferVars>>
      /\ control' = IF control = "init" THEN "in_progress" ELSE control
  BY DEF OnceTry
<1>2. /\ Types' /\ Places' /\ LeavingOK' /\ ParkedOK' /\ OwedOK'
      /\ \A a \in Agents : pc'[a] = IF a = th THEN to ELSE pc[a]
      /\ pc[th] = "try"
  <2>1. to \in OncePCs /\ "try" \in OncePCs
    BY DEF OncePCs
  <2>2. control' \in {"init", "in_progress", "completed"}
    BY <1>1 DEF IInv, Types
  <2> HIDE DEF to
  <2> QED BY <1>1, <2>1, <2>2, OnceStays
<1>3. OnceOK'
  BY <1>1, <1>2 DEF IInv, OnceOK, Wins, OncePCs, Agents
<1> QED BY <1>2, <1>3 DEF IInv

LEMMA OncePollKeeps == ASSUME IInv, NEW th \in Threads, OncePoll(th) PROVE IInv'
<1> DEFINE to == IF control = "completed" THEN Start(th) ELSE "poll_yield"
<1>1. Goto(th, "poll", to) /\ UNCHANGED <<switchVars, onceVars, uncondVars, bufferVars>>
  BY DEF OncePoll
<1>2. /\ Types' /\ Places' /\ LeavingOK' /\ ParkedOK' /\ OwedOK'
      /\ \A a \in Agents : pc'[a] = IF a = th THEN to ELSE pc[a]
      /\ pc[th] = "poll"
  <2>1. (to \in OncePCs \/ to = Start(th)) /\ "poll" \in OncePCs
    BY DEF OncePCs
  <2>2. control' \in {"init", "in_progress", "completed"}
    BY <1>1 DEF IInv, Types, onceVars
  <2> HIDE DEF to
  <2> QED BY <1>1, <2>1, <2>2, OnceStays
<1>3. OnceOK'
  BY <1>1, <1>2 DEF IInv, OnceOK, Wins, onceVars, OncePCs, Agents, Start
<1> QED BY <1>2, <1>3 DEF IInv

\* The only winner is done: all the others are waiting for it.
LEMMA OnceCompleteKeeps == ASSUME IInv, NEW th \in Threads, OnceComplete(th) PROVE IInv'
<1>1. /\ Goto(th, "complete", Start(th)) /\ UNCHANGED <<switchVars, inits, uncondVars, bufferVars>>
      /\ control' = "completed"
  BY DEF OnceComplete
<1>2. /\ Types' /\ Places' /\ LeavingOK' /\ ParkedOK' /\ OwedOK'
      /\ \A a \in Agents : pc'[a] = IF a = th THEN Start(th) ELSE pc[a]
      /\ pc[th] = "complete"
  <2>1. "complete" \in OncePCs
    BY DEF OncePCs
  <2> QED BY <1>1, <2>1, OnceStays
<1>3. OnceOK'
  BY <1>1, <1>2 DEF IInv, Types, OnceOK, Wins, Agents, Start
<1> QED BY <1>2, <1>3 DEF IInv

\* Before the once control is completed nobody uses the buffer.
LEMMA OnceRoutineKeeps == ASSUME IInv, NEW th \in Threads, OnceRoutine(th) PROVE IInv'
<1> USE BlockingAssumption, BufferAssumption
<1>1. /\ Goto(th, "routine", "complete") /\ UNCHANGED <<switchVars, control, to_wake, seen>>
      /\ inits' = inits + 1 /\ u' = NULL /\ tail' = Clear
  BY DEF OnceRoutine
<1>2. /\ Places' /\ LeavingOK' /\ pc[th] = "routine"
      /\ \A a \in Agents : pc'[a] = IF a = th THEN "complete" ELSE pc[a]
  BY <1>1, GoesOn DEF switchVars
<1>3. control = "in_progress" /\ inits = 0 /\ \A o \in Threads : pc[o] \in OncePCs
  <2>1. control # "init" /\ control # "completed"
    BY <1>2 DEF IInv, OnceOK, Wins
  <2> QED BY <1>2, <2>1 DEF IInv, Types, OnceOK
<1>4. ~Parked /\ u = NULL /\ (\A p \in Threads : ~Owes(p)) /\ ~Sleeps
  BY <1>3 DEF IInv, ParkedOK, Parked, OncePCs, Owes, Sleeps
<1>5. Types'
  BY <1>1, <1>2 DEF IInv, Types, SwitchTypeOK, switchVars, ThreadPCs, OncePCs, Agents,
     Producers, Stamps, Clear, Goto
<1>6. OnceOK'
  BY <1>1, <1>2, <1>3 DEF IInv, OnceOK, Wins, OncePCs, Agents
<1>7. ParkedOK'
  BY <1>1, <1>2, <1>3, <1>4 DEF IInv, ParkedOK, Parked, OncePCs, Agents
<1>8. OwedOK'
  BY <1>1, <1>2, <1>3, <1>4 DEF OwedOK, Owes, Sleeps, Parked, Clear, OncePCs, Agents
<1> QED BY <1>2, <1>5, <1>6, <1>7, <1>8 DEF IInv

-----------------------------------------------------------------------------
(* The buffer                                                              *)

\* A thread that executes in the program changes the buffer at most.
LEMMA ProgramStays ==
    ASSUME IInv, NEW th \in Threads, NEW from, NEW to, Goto(th, from, to),
           UNCHANGED <<switchVars, onceVars, uncondVars>>,
           from \in (PutPCs \cup GetPCs) \ {"clear", "wake"},
           to \in (PutPCs \cup GetPCs) \ {"clear", "wake"},
           th = Consumer <=> to \in GetPCs,
           tail' \in Stamps, seen' \in [Threads -> Stamps]
    PROVE  /\ Types' /\ Places' /\ LeavingOK' /\ ParkedOK' /\ OnceOK'
           /\ \A a \in Agents : pc'[a] = IF a = th THEN to ELSE pc[a]
           /\ pc[th] = from
           /\ Parked' <=> Parked
<1> USE BlockingAssumption, BufferAssumption
<1>1. /\ Places' /\ LeavingOK'
      /\ \A a \in Agents : pc'[a] = IF a = th THEN to ELSE pc[a]
      /\ pc[th] = from
  BY GoesOn DEF switchVars
<1>2. Executes(th) /\ pc' = [pc EXCEPT ![th] = to]
  BY DEF Goto, At
<1>3. th # Consumer => to \in PutPCs
  BY DEF PutPCs, GetPCs
<1>4. Types'
  BY <1>1, <1>2, <1>3 DEF IInv, Types, SwitchTypeOK, switchVars, uncondVars, onceVars,
     ThreadPCs, PutPCs, GetPCs, Agents, Producers
<1>5. Parked' <=> Parked
  BY DEF uncondVars, Parked
<1>6. ParkedOK'
  <2>1. \A p \in Threads : pc'[p] \in {"clear", "wake"} \/ pc[p] \in {"clear", "wake"} =>
            pc'[p] = pc[p]
    BY <1>1 DEF Agents
  <2>2. Parked => pc'[Consumer] = pc[Consumer]
    BY <1>1, <1>2, Alone DEF Agents
  <2> QED BY <1>5, <2>1, <2>2 DEF IInv, ParkedOK, uncondVars, switchVars
<1>7. OnceOK'
  <2>1. from \notin OncePCs /\ to \notin OncePCs
    BY DEF OncePCs, PutPCs, GetPCs
  <2> QED BY <1>1, <2>1, OnceFrame DEF Agents
<1> QED BY <1>1, <1>4, <1>5, <1>6, <1>7

\* Who executes does not sleep, or is a producer; so nothing is owed if ...
LEMMA OwedStays ==
    ASSUME IInv, NEW th \in Threads, Executes(th), Parked' <=> Parked, leaving' = leaving,
           NEW to, to # "wait",
           \A a \in Agents : pc'[a] = IF a = th THEN to ELSE pc[a], pc[th] # "wait",
           \A p \in Threads : Owes(p)' <=> Owes(p), tail'.waiting = tail.waiting
    PROVE  OwedOK'
<1> USE BlockingAssumption, BufferAssumption
<1>1. Sleeps' <=> Sleeps
  <2>1. CASE th = Consumer
    <3>1. ~Parked /\ \A w \in Workers : leaving[w] # Consumer
      BY <2>1, Alone
    <3>2. pc[Consumer] # "wait" /\ pc'[Consumer] # "wait"
      BY <2>1 DEF Agents
    <3> QED BY <3>1, <3>2 DEF Sleeps
  <2>2. CASE th # Consumer
    BY <2>2 DEF Sleeps, Agents
  <2> QED BY <2>1, <2>2
<1> QED BY <1>1 DEF IInv, OwedOK

\* Reading the tail, and what is done with it, does not change who owes.
LEMMA ReadsKeep ==
    ASSUME IInv, NEW th \in Threads,
           \/ th \in Producers /\ (PutRead(th) \/ PutHead(th))
           \/ th = Consumer /\ (GetRead(th) \/ GetItem(th) \/ GetHead(th))
    PROVE  IInv'
<1> USE BlockingAssumption, BufferAssumption DEF Producers
<1>1. PICK from \in PutPCs \cup GetPCs, to \in PutPCs \cup GetPCs :
          /\ Goto(th, from, to)
          /\ from \notin {"clear", "wake", "fill", "signal", "wait"}
          /\ to \notin {"clear", "wake", "fill", "signal", "wait"}
          /\ th = Consumer <=> to \in GetPCs
          /\ UNCHANGED <<switchVars, onceVars, uncondVars, tail>>
          /\ seen' = seen \/ seen' = [seen EXCEPT ![th] = tail]
  <2>1. CASE th \in Producers /\ PutRead(th)
    BY <2>1 DEF PutRead, PutPCs, GetPCs
  <2>2. CASE th \in Producers /\ PutHead(th)
    BY <2>2 DEF PutHead, PutPCs, GetPCs, bufferVars
  <2>3. CASE th = Consumer /\ GetRead(th)
    BY <2>3 DEF GetRead, PutPCs, GetPCs
  <2>4. CASE th = Consumer /\ GetItem(th)
    BY <2>4 DEF GetItem, PutPCs, GetPCs
  <2>5. CASE th = Consumer /\ GetHead(th)
    BY <2>5 DEF GetHead, PutPCs, GetPCs
  <2> QED BY <2>1, <2>2, <2>3, <2>4, <2>5
<1>2. tail' \in Stamps /\ seen' \in [Threads -> Stamps]
  BY <1>1 DEF IInv, Types
<1>3. /\ Types' /\ Places' /\ LeavingOK' /\ ParkedOK' /\ OnceOK'
      /\ \A a \in Agents : pc'[a] = IF a = th THEN to ELSE pc[a]
      /\ pc[th] = from
      /\ Parked' <=> Parked
  BY <1>1, <1>2, ProgramStays
<1>4. \A p \in Threads : Owes(p)' <=> Owes(p)
  BY <1>1, <1>3 DEF Owes, Agents, IInv, Types
<1>5. OwedOK'
  BY <1>1, <1>3, <1>4, OwedStays DEF Goto, At, switchVars
<1> QED BY <1>3, <1>5 DEF IInv

\* A producer that takes the tail takes the bit with it, and the debt.
LEMMA PutCASKeeps ==
    ASSUME IInv, NEW th \in Producers, PutCAS(th)
    PROVE  IInv'
<1> USE BlockingAssumption, BufferAssumption DEF Producers
<1> DEFINE to == IF tail = seen[th] THEN "fill" ELSE "put"
<1>1. /\ Goto(th, "put_cas", to)
      /\ tail' = IF tail = seen[th] THEN [t |-> tail.t + 1, waiting |-> FALSE] ELSE tail
      /\ UNCHANGED <<switchVars, onceVars, uncondVars, seen>>
  BY DEF PutCAS
<1>2. tail' \in Stamps /\ seen' \in [Threads -> Stamps]
  BY <1>1 DEF IInv, Types, Stamps
<1>3. /\ Types' /\ Places' /\ LeavingOK' /\ ParkedOK' /\ OnceOK'
      /\ \A a \in Agents : pc'[a] = IF a = th THEN to ELSE pc[a]
      /\ pc[th] = "put_cas"
      /\ Parked' <=> Parked
  <2>1. /\ to \in (PutPCs \cup GetPCs) \ {"clear", "wake"} /\ to \notin GetPCs
        /\ "put_cas" \in (PutPCs \cup GetPCs) \ {"clear", "wake"}
    BY DEF PutPCs, GetPCs
  <2> HIDE DEF to
  <2> QED BY <1>1, <1>2, <2>1, ProgramStays
<1>4. OwedOK'
  <2>1. CASE tail = seen[th] /\ tail.waiting
    <3>1. \A p \in Threads : ~Owes(p)
      BY <2>1 DEF IInv, OwedOK
    <3>2. \A p \in Threads : Owes(p)' <=> p = th
      BY <1>1, <1>3, <2>1, <3>1 DEF Owes, Agents
    <3>3. Sleeps' /\ ~tail'.waiting
      BY <1>1, <1>3, <2>1 DEF IInv, OwedOK, Sleeps, switchVars, Agents
    <3> QED BY <3>2, <3>3 DEF OwedOK
  <2>2. CASE ~(tail = seen[th] /\ tail.waiting)
    <3>1. \A p \in Threads : Owes(p)' <=> Owes(p)
      BY <1>1, <1>3, <2>2 DEF Owes, Agents
    <3>2. tail'.waiting = tail.waiting
      BY <1>1, <2>2 DEF IInv, Types, Stamps
    <3>3. to # "wait" /\ Executes(th) /\ leaving' = leaving
      BY <1>1 DEF Goto, At, switchVars
    <3> HIDE DEF to
    <3> QED BY <1>3, <3>1, <3>2, <3>3, OwedStays
  <2> QED BY <2>1, <2>2
<1> QED BY <1>3, <1>4 DEF IInv

\* Once the slot is filled the debt is a signal.
LEMMA FillKeeps ==
    ASSUME IInv, NEW th \in Producers, Fill(th)
    PROVE  IInv'
<1> USE BlockingAssumption, BufferAssumption DEF Producers
<1> DEFINE to == IF seen[th].waiting THEN "signal" ELSE "put"
<1>1. /\ Goto(th, "fill", to)
      /\ UNCHANGED <<switchVars, onceVars, uncondVars, tail, seen>>
  BY DEF Fill
<1>2. tail' \in Stamps /\ seen' \in [Threads -> Stamps]
  BY <1>1 DEF IInv, Types
<1>3. /\ Types' /\ Places' /\ LeavingOK' /\ ParkedOK' /\ OnceOK'
      /\ \A a \in Agents : pc'[a] = IF a = th THEN to ELSE pc[a]
      /\ pc[th] = "fill"
      /\ Parked' <=> Parked
  <2>1. /\ to \in (PutPCs \cup GetPCs) \ {"clear", "wake"} /\ to \notin GetPCs
        /\ "fill" \in (PutPCs \cup GetPCs) \ {"clear", "wake"}
    BY DEF PutPCs, GetPCs
  <2> HIDE DEF to
  <2> QED BY <1>1, <1>2, <2>1, ProgramStays
<1>4. \A p \in Threads : Owes(p)' <=> Owes(p)
  BY <1>1, <1>3 DEF Owes, Agents
<1>5. OwedOK'
  BY <1>1, <1>3, <1>4, OwedStays DEF Goto, At, switchVars
<1> QED BY <1>3, <1>5 DEF IInv

\* The bit is set by a consumer that goes to sleep, when nothing is owed.
LEMMA GetCASKeeps == ASSUME IInv, GetCAS(Consumer) PROVE IInv'
<1> USE BlockingAssumption, BufferAssumption
<1> DEFINE th == Consumer
           to == IF tail = seen[th] THEN "wait" ELSE "get"
<1>1. /\ Goto(th, "get_cas", to)
      /\ tail' = IF tail = seen[th] THEN [tail EXCEPT !.waiting = TRUE] ELSE tail
      /\ UNCHANGED <<switchVars, onceVars, uncondVars, seen>>
  BY DEF GetCAS
<1>2. tail' \in Stamps /\ seen' \in [Threads -> Stamps]
  BY <1>1 DEF IInv, Types, Stamps
<1>3. /\ Types' /\ Places' /\ LeavingOK' /\ ParkedOK' /\ OnceOK'
      /\ \A a \in Agents : pc'[a] = IF a = th THEN to ELSE pc[a]
      /\ pc[th] = "get_cas"
      /\ Parked' <=> Parked
  <2>1. /\ to \in (PutPCs \cup GetPCs) \ {"clear", "wake"} /\ to \in GetPCs
        /\ "get_cas" \in (PutPCs \cup GetPCs) \ {"clear", "wake"}
    BY DEF PutPCs, GetPCs
  <2> HIDE DEF to
  <2> QED BY <1>1, <1>2, <2>1, ProgramStays
<1>4. OwedOK'
  <2>1. \A p \in Threads : Owes(p)' <=> Owes(p)
    BY <1>1, <1>3 DEF Owes, Agents
  <2>2. CASE tail = seen[th]
    <3>1. ~Sleeps
      BY <1>3 DEF Sleeps
    <3>2. \A p \in Threads : ~Owes(p)'
      BY <2>1, <3>1 DEF IInv, OwedOK
    <3>3. Sleeps' /\ tail'.waiting
      BY <1>1, <1>3, <2>2 DEF Sleeps, Agents, IInv, Types, Stamps
    <3> QED BY <3>2, <3>3 DEF OwedOK
  <2>3. CASE tail # seen[th]
    <3>1. tail' = tail /\ to # "wait"
      BY <1>1, <2>3
    <3> HIDE DEF to
    <3> QED BY <1>1, <1>3, <2>1, <3>1, OwedStays DEF Goto, At, switchVars
  <2> QED BY <2>2, <2>3
<1> QED BY <1>3, <1>4 DEF IInv

-----------------------------------------------------------------------------
(* The signal                                                              *)

\* It finds the consumer in the variable, ...
LEMMA SignalKeeps ==
    ASSUME IInv, NEW th \in Producers, UncondSignal(th)
    PROVE  IInv'
<1> USE BlockingAssumption, BufferAssumption DEF Producers
<1>1. /\ Goto(th, "signal", "clear") /\ UNCHANGED <<switchVars, onceVars, u, bufferVars>>
      /\ u = Consumer /\ to_wake' = [to_wake EXCEPT ![th] = Consumer]
  BY DEF UncondSignal, IInv, ParkedOK
<1>2. /\ Places' /\ LeavingOK' /\ pc[th] = "signal"
      /\ \A a \in Agents : pc'[a] = IF a = th THEN "clear" ELSE pc[a]
  BY <1>1, GoesOn DEF switchVars
<1>3. /\ Parked /\ Parked' /\ pc'[Consumer] = pc[Consumer]
      /\ \A p \in Threads : to_wake'[p] = IF p = th THEN Consumer ELSE to_wake[p]
  BY <1>1, <1>2 DEF Parked, IInv, Types, Agents
<1>4. Types'
  BY <1>1, <1>2 DEF IInv, Types, SwitchTypeOK, switchVars, onceVars, bufferVars,
     ThreadPCs, PutPCs, Agents, Goto
<1>5. ParkedOK'
  <2>1. \A p \in Threads : pc[p] # "wake"
    BY <1>1 DEF IInv, ParkedOK
  <2> QED BY <1>1, <1>2, <1>3, <2>1 DEF IInv, ParkedOK, switchVars, Agents
<1>6. OnceOK'
  BY <1>1, <1>2, OnceFrame DEF OncePCs, Agents
<1>7. OwedOK'
  BY <1>1, <1>2, <1>3 DEF IInv, OwedOK, Owes, Sleeps, bufferVars, switchVars, Agents
<1> QED BY <1>2, <1>4, <1>5, <1>6, <1>7 DEF IInv

\* ... takes it out of there, ...
LEMMA SignalClearKeeps ==
    ASSUME IInv, NEW th \in Producers, UncondSignalClear(th)
    PROVE  IInv'
<1> USE BlockingAssumption, BufferAssumption DEF Producers
<1>1. /\ Goto(th, "clear", "wake") /\ UNCHANGED <<switchVars, onceVars, to_wake, bufferVars>>
      /\ u' = NULL
  BY DEF UncondSignalClear
<1>2. /\ Places' /\ LeavingOK' /\ pc[th] = "clear"
      /\ \A a \in Agents : pc'[a] = IF a = th THEN "wake" ELSE pc[a]
  BY <1>1, GoesOn DEF switchVars
<1>3. /\ Parked /\ Parked' /\ pc'[Consumer] = pc[Consumer] /\ to_wake[th] = Consumer
  BY <1>1, <1>2 DEF Parked, IInv, ParkedOK, Types, Agents
<1>4. Types'
  BY <1>1, <1>2 DEF IInv, Types, SwitchTypeOK, switchVars, onceVars, bufferVars,
     ThreadPCs, PutPCs, Agents, Goto
<1>5. ParkedOK'
  <2>1. \A p \in Threads : pc[p] = "clear" => p = th
    BY <1>2 DEF IInv, OwedOK, Owes
  <2> QED BY <1>1, <1>2, <1>3, <2>1 DEF IInv, ParkedOK, switchVars, Agents
<1>6. OnceOK'
  BY <1>1, <1>2, OnceFrame DEF OncePCs, Agents
<1>7. OwedOK'
  BY <1>1, <1>2, <1>3 DEF IInv, OwedOK, Owes, Sleeps, bufferVars, switchVars, Agents
<1> QED BY <1>2, <1>4, <1>5, <1>6, <1>7 DEF IInv

\* ... and puts it in a run queue; the debt is paid.
LEMMA SignalPushKeeps ==
    ASSUME IInv, NEW th \in Producers, UncondSignalPush(th)
    PROVE  IInv'
<1> USE BlockingAssumption, BufferAssumption DEF Producers
<1>1. /\ Goto(th, "wake", "put")
      /\ UNCHANGED <<this, leaving, saved, onceVars, u, bufferVars>>
      /\ ready' = ready \cup {to_wake[th]}
      /\ to_wake' = [to_wake EXCEPT ![th] = NULL]
  BY DEF UncondSignalPush
<1>2. /\ pc[th] = "wake" /\ pc' = [pc EXCEPT ![th] = "put"]
      /\ \A a \in Agents : pc'[a] = IF a = th THEN "put" ELSE pc[a]
  BY <1>1 DEF Goto, At, IInv, Types, Agents
<1>3. /\ to_wake[th] = Consumer /\ u = NULL /\ Parked
      /\ \A p \in Threads : Owes(p) => p = th
  BY <1>2 DEF IInv, ParkedOK, Parked, OwedOK, Owes
<1>4. /\ pc[Consumer] = "get" /\ Consumer \in saved /\ Consumer \notin ready
      /\ \A w \in Workers : this[w] # Consumer /\ leaving[w] # Consumer
  BY <1>3 DEF IInv, ParkedOK
<1>5. \A p \in Threads : to_wake'[p] = NULL
  BY <1>1, <1>3 DEF IInv, Types, ParkedOK, Owes
<1>6. ~Parked' /\ pc'[Consumer] = "get"
  BY <1>1, <1>2, <1>3, <1>4, <1>5 DEF Parked, Agents
<1>7. Types'
  BY <1>1, <1>2, <1>3 DEF IInv, Types, SwitchTypeOK, onceVars, bufferVars,
     ThreadPCs, PutPCs, Agents
<1>8. Places' /\ LeavingOK'
  <2>1. Places'
    BY <1>1, <1>3, <1>4 DEF IInv, Places
  <2>2. \A w \in Workers : leaving[w] # th /\ pc'[w] = pc[w]
    BY <1>1, <1>2, Alone DEF Goto, At, Agents
  <2>3. LeavingOK'
    BY <1>1, <1>2, <2>2 DEF IInv, LeavingOK, Types, SwitchTypeOK, Agents
  <2> QED BY <2>1, <2>3
<1>9. ParkedOK'
  <2>1. \A p \in Threads : pc'[p] \notin {"clear", "wake"}
    BY <1>2, <1>3 DEF Owes, Agents
  <2> QED BY <1>1, <1>3, <1>5, <1>6, <2>1 DEF ParkedOK
<1>10. OnceOK'
  BY <1>1, <1>2, OnceFrame DEF OncePCs, Agents
<1>11. OwedOK'
  <2>1. \A p \in Threads : ~Owes(p)'
    BY <1>1, <1>2, <1>3 DEF Owes, bufferVars, Agents
  <2>2. ~Sleeps'
    BY <1>1, <1>4, <1>6 DEF Sleeps
  <2>3. ~tail'.waiting
    BY <1>1, <1>2 DEF IInv, OwedOK, Owes, bufferVars
  <2> QED BY <2>1, <2>2, <2>3 DEF OwedOK
<1> QED BY <1>7, <1>8, <1>9, <1>10, <1>11 DEF IInv

-----------------------------------------------------------------------------
(* Yielding and switching                                                  *)

\* A thread that finds nobody to yield to goes on.
LEMMA YieldNoneKeeps == ASSUME IInv, NEW th \in Threads, YieldNone(th) PROVE IInv'
<1> USE BlockingAssumption, BufferAssumption
<1>1. UNCHANGED <<switchVars, onceVars, uncondVars, bufferVars>>
  BY DEF YieldNone
<1>2. control' \in {"init", "in_progress", "completed"} /\ tail' \in Stamps
      /\ seen' \in [Threads -> Stamps]
  BY <1>1 DEF IInv, Types, onceVars, bufferVars
<1>3. CASE Goto(th, "poll_yield", "poll")
  <2>1. /\ Types' /\ Places' /\ LeavingOK' /\ ParkedOK' /\ OwedOK'
        /\ \A a \in Agents : pc'[a] = IF a = th THEN "poll" ELSE pc[a]
        /\ pc[th] = "poll_yield"
    <3>1. "poll" \in OncePCs /\ "poll_yield" \in OncePCs
      BY DEF OncePCs
    <3> QED BY <1>1, <1>2, <1>3, <3>1, OnceStays
  <2>2. OnceOK'
    BY <1>1, <2>1, OnceFrame DEF Agents
  <2> QED BY <2>1, <2>2 DEF IInv
<1>4. CASE Goto(th, "put_yield", "put")
  <2>1. th # Consumer
    BY <1>4 DEF Goto, At, IInv, Types, OncePCs, GetPCs
  <2>2. /\ Types' /\ Places' /\ LeavingOK' /\ ParkedOK' /\ OnceOK'
        /\ \A a \in Agents : pc'[a] = IF a = th THEN "put" ELSE pc[a]
        /\ pc[th] = "put_yield"
        /\ Parked' <=> Parked
    <3>1. /\ "put" \in (PutPCs \cup GetPCs) \ {"clear", "wake"} /\ "put" \notin GetPCs
          /\ "put_yield" \in (PutPCs \cup GetPCs) \ {"clear", "wake"}
      BY DEF PutPCs, GetPCs
    <3> QED BY <1>1, <1>2, <1>4, <2>1, <3>1, ProgramStays
  <2>3. \A p \in Threads : Owes(p)' <=> Owes(p)
    BY <1>1, <2>2 DEF Owes, Agents, bufferVars
  <2>4. tail'.waiting = tail.waiting
    BY <1>1 DEF bufferVars
  <2>5. OwedOK'
    BY <1>1, <1>4, <2>2, <2>3, <2>4, OwedStays DEF Goto, At, switchVars
  <2> QED BY <2>2, <2>5 DEF IInv
<1> QED BY <1>3, <1>4 DEF YieldNone

\* What does not touch the places of threads where the consumer sleeps.
LEMMA SwitchFrame ==
    ASSUME IInv, UNCHANGED <<onceVars, uncondVars, bufferVars>>,
           \A th \in Threads :
               \/ pc'[th] = pc[th]
               \/ pc[th] = "poll_yield" /\ pc'[th] = "poll"
               \/ pc[th] = "put_yield" /\ pc'[th] = "put"
    PROVE  /\ OnceOK' /\ (Parked' <=> Parked)
           /\ \A p \in Threads : Owes(p)' <=> Owes(p)
           /\ \A p \in Threads : pc'[p] \in {"clear", "wake"} \/ pc[p] \in {"clear", "wake"} =>
                  pc'[p] = pc[p]
           /\ tail' = tail /\ u' = u /\ to_wake' = to_wake
<1>1. OnceOK'
  BY OnceFrame DEF OncePCs
<1> QED BY <1>1 DEF Parked, Owes, uncondVars, bufferVars

\* A thread leaves its worker, which goes on with the next one.
LEMMA LeaveKeeps ==
    ASSUME IInv, NEW w \in Workers, NEW th \in Threads, NEW next \in ready \cup {NULL},
           NEW from, NEW to \in {"poll", "put", "get"}, Leave(w, th, next, from, to)
    PROVE  /\ Places' /\ LeavingOK' /\ SwitchTypeOK'
           /\ \A a \in Agents : pc'[a] = IF a = th THEN to ELSE IF a = w THEN "swap" ELSE pc[a]
           /\ pc' \in [Agents -> (ThreadPCs \cup {"run", "swap", "callback"})]
           /\ pc[th] = from /\ leaving[w] = NULL
           /\ \A v \in Workers : leaving'[v] = IF v = w THEN th ELSE leaving[v]
           /\ Parked => th # Consumer /\ next # Consumer
           /\ \A v \in Workers : this'[v] = IF v = w THEN next ELSE this[v]
           /\ saved' = saved \ {next} /\ ready' = ready \ {next}
<1> USE BlockingAssumption, BufferAssumption
<1>1. /\ this[w] = th /\ pc[w] = "run" /\ pc[th] = from /\ leaving[w] = NULL
      /\ this' = [this EXCEPT ![w] = next]
      /\ saved' = saved \ {next} /\ ready' = ready \ {next}
      /\ leaving' = [leaving EXCEPT ![w] = th]
      /\ pc' = [pc EXCEPT ![th] = to, ![w] = "swap"]
  BY DEF Leave, Dispatch, IInv, LeavingOK
<1>2. /\ \A a \in Agents : pc'[a] = IF a = th THEN to ELSE IF a = w THEN "swap" ELSE pc[a]
      /\ pc' \in [Agents -> (ThreadPCs \cup {"run", "swap", "callback"})]
  BY <1>1 DEF IInv, Types, Agents, ThreadPCs
<1>3. /\ \A v \in Workers : leaving'[v] = IF v = w THEN th ELSE leaving[v]
      /\ \A v \in Workers : this'[v] = IF v = w THEN next ELSE this[v]
      /\ SwitchTypeOK'
  BY <1>1 DEF IInv, Types, SwitchTypeOK
<1>4. /\ th \notin ready /\ th # next
      /\ \A v \in Workers : leaving[v] # th /\ (v # w => this[v] # th)
      /\ next # NULL => \A v \in Workers : this[v] # next /\ leaving[v] # next
  BY <1>1 DEF IInv, Places
<1>5. Places'
  BY <1>1, <1>3, <1>4 DEF IInv, Places
<1>6. LeavingOK'
  <2> SUFFICES ASSUME NEW v \in Workers
               PROVE  /\ leaving'[v] # NULL <=> pc'[v] # "run"
                      /\ leaving'[v] # NULL => pc'[leaving'[v]] \in {"poll", "put", "get"}
                      /\ pc'[v] = "callback" => leaving'[v] \in saved'
    BY DEF LeavingOK
  <2>1. CASE v = w
    BY <1>2, <1>3, <2>1 DEF Agents
  <2>2. CASE v # w
    <3>1. pc'[v] = pc[v] /\ leaving'[v] = leaving[v]
      BY <1>2, <1>3, <2>2 DEF Agents
    <3>2. leaving[v] # NULL => pc'[leaving[v]] = pc[leaving[v]]
      BY <1>2, <1>4 DEF Agents, IInv, Types, SwitchTypeOK
    <3>3. pc[v] = "callback" => leaving[v] # next /\ leaving[v] \in saved
      BY <1>4 DEF IInv, LeavingOK
    <3> QED BY <1>1, <3>1, <3>2, <3>3 DEF IInv, LeavingOK
  <2> QED BY <2>1, <2>2
<1>7. Parked => th # Consumer /\ next # Consumer
  BY <1>1 DEF IInv, ParkedOK
<1> QED BY <1>1, <1>2, <1>3, <1>5, <1>6, <1>7

\* A thread that yields is not the consumer that sleeps.
LEMMA YieldToKeeps ==
    ASSUME IInv, NEW w \in Workers, NEW th \in Threads, YieldTo(w, th)
    PROVE  IInv'
<1> USE BlockingAssumption, BufferAssumption DEF Producers
<1>1. PICK next \in ready, from \in {"poll_yield", "put_yield"}, to \in {"poll", "put"} :
          /\ Leave(w, th, next, from, to)
          /\ from = "poll_yield" <=> to = "poll"
  BY DEF YieldTo, Yield
<1>2. UNCHANGED <<onceVars, uncondVars, bufferVars>>
  BY DEF YieldTo
<1>3. /\ Places' /\ LeavingOK' /\ SwitchTypeOK'
      /\ \A a \in Agents : pc'[a] = IF a = th THEN to ELSE IF a = w THEN "swap" ELSE pc[a]
      /\ pc' \in [Agents -> (ThreadPCs \cup {"run", "swap", "callback"})]
      /\ pc[th] = from /\ leaving[w] = NULL
      /\ \A v \in Workers : leaving'[v] = IF v = w THEN th ELSE leaving[v]
      /\ Parked => th # Consumer /\ next # Consumer
      /\ \A v \in Workers : this'[v] = IF v = w THEN next ELSE this[v]
      /\ saved' = saved \ {next} /\ ready' = ready \ {next}
  BY <1>1, LeaveKeeps
<1>4. /\ OnceOK' /\ (Parked' <=> Parked)
      /\ \A p \in Threads : Owes(p)' <=> Owes(p)
      /\ \A p \in Threads : pc'[p] \in {"clear", "wake"} \/ pc[p] \in {"clear", "wake"} =>
             pc'[p] = pc[p]
      /\ tail' = tail /\ u' = u /\ to_wake' = to_wake
  BY <1>1, <1>2, <1>3, SwitchFrame DEF Agents
<1>5. Types'
  <2>1. th = Consumer => to = "poll"
    BY <1>1, <1>3 DEF IInv, Types, OncePCs, GetPCs
  <2> QED BY <1>2, <1>3, <1>4, <2>1 DEF IInv, Types, onceVars, bufferVars, OncePCs, PutPCs,
             GetPCs, Agents
<1>6. ParkedOK'
  <2>1. Parked => pc'[Consumer] = pc[Consumer]
    BY <1>3 DEF Agents
  <2>2. Parked => /\ Consumer \in saved' /\ Consumer \notin ready'
                  /\ \A v \in Workers : this'[v] # Consumer /\ leaving'[v] # Consumer
    BY <1>3 DEF IInv, ParkedOK
  <2> QED BY <1>4, <2>1, <2>2 DEF IInv, ParkedOK
<1>7. OwedOK'
  <2>1. Sleeps' <=> Sleeps
    <3>1. CASE th = Consumer
      BY <1>1, <1>3, <3>1 DEF Sleeps, Agents
    <3>2. CASE th # Consumer
      BY <1>3, <1>4, <3>2 DEF Sleeps, Agents
    <3> QED BY <3>1, <3>2
  <2> QED BY <1>4, <2>1 DEF IInv, OwedOK
<1> QED BY <1>3, <1>4, <1>5, <1>6, <1>7 DEF IInv

\* The consumer leaves to sleep.
LEMMA UncondWaitKeeps ==
    ASSUME IInv, NEW w \in Workers, NEW th \in Threads, UncondWait(w, th)
    PROVE  IInv'
<1> USE BlockingAssumption, BufferAssumption DEF Producers
<1>1. PICK next \in ready \cup {NULL} : Leave(w, th, next, "wait", "get")
  BY DEF UncondWait, Block
<1>2. UNCHANGED <<onceVars, uncondVars, bufferVars>>
  BY DEF UncondWait
<1>3. /\ Places' /\ LeavingOK' /\ SwitchTypeOK'
      /\ \A a \in Agents : pc'[a] = IF a = th THEN "get" ELSE IF a = w THEN "swap" ELSE pc[a]
      /\ pc' \in [Agents -> (ThreadPCs \cup {"run", "swap", "callback"})]
      /\ pc[th] = "wait" /\ leaving[w] = NULL
      /\ \A v \in Workers : leaving'[v] = IF v = w THEN th ELSE leaving[v]
  BY <1>1, LeaveKeeps
<1>4. th = Consumer /\ ~Parked /\ ~Parked'
  <2>1. th = Consumer
    BY <1>3 DEF IInv, Types, OncePCs, PutPCs
  <2>2. ~Parked
    BY <1>3, <2>1 DEF IInv, ParkedOK
  <2> QED BY <1>2, <2>1, <2>2 DEF Parked, uncondVars
<1>5. Types'
  BY <1>2, <1>3, <1>4 DEF IInv, Types, onceVars, uncondVars, bufferVars, GetPCs, Agents
<1>6. \A p \in Threads : p # Consumer => pc'[p] = pc[p]
  BY <1>3, <1>4 DEF Agents
<1>7. ParkedOK'
  BY <1>2, <1>3, <1>4, <1>6 DEF IInv, ParkedOK, uncondVars, Agents
<1>8. OnceOK'
  BY <1>2, <1>3, OnceFrame DEF OncePCs, Agents
<1>9. OwedOK'
  <2>1. \A p \in Threads : Owes(p)' <=> Owes(p)
    BY <1>2, <1>3 DEF Owes, Agents, bufferVars
  <2>2. Sleeps /\ Sleeps'
    BY <1>3, <1>4 DEF Sleeps, Agents
  <2> QED BY <1>2, <2>1, <2>2 DEF IInv, OwedOK, bufferVars
<1> QED BY <1>3, <1>5, <1>7, <1>8, <1>9 DEF IInv

\* What a callback does not change, when it ends.
LEMMA LeftKeeps ==
    ASSUME IInv, NEW w \in Workers, Left(w, "callback", "run")
    PROVE  /\ \A a \in Agents : pc'[a] = IF a = w THEN "run" ELSE pc[a]
           /\ pc' \in [Agents -> (ThreadPCs \cup {"run", "swap", "callback"})]
           /\ \A v \in Workers : leaving'[v] = IF v = w THEN NULL ELSE leaving[v]
           /\ leaving' \in [Workers -> Threads \cup {NULL}]
           /\ leaving[w] \in Threads /\ leaving[w] \in saved /\ leaving[w] \notin ready
           /\ \A v \in Workers : this[v] # leaving[w] /\ leaving'[v] # leaving[w]
           /\ pc[leaving[w]] \in {"poll", "put", "get"}
<1> USE BlockingAssumption
<1>1. pc[w] = "callback" /\ pc' = [pc EXCEPT ![w] = "run"] /\ leaving' = [leaving EXCEPT ![w] = NULL]
  BY DEF Left, Goto, At
<1>2. /\ \A a \in Agents : pc'[a] = IF a = w THEN "run" ELSE pc[a]
      /\ pc' \in [Agents -> (ThreadPCs \cup {"run", "swap", "callback"})]
      /\ \A v \in Workers : leaving'[v] = IF v = w THEN NULL ELSE leaving[v]
      /\ leaving' \in [Workers -> Threads \cup {NULL}]
  BY <1>1 DEF IInv, Types, SwitchTypeOK, Agents
<1>3. leaving[w] \in Threads /\ leaving[w] \in saved /\ pc[leaving[w]] \in {"poll", "put", "get"}
  BY <1>1 DEF IInv, LeavingOK, Types, SwitchTypeOK
<1>4. /\ leaving[w] \notin ready
      /\ \A v \in Workers : this[v] # leaving[w] /\ leaving'[v] # leaving[w]
  <2>1. leaving[w] # NULL
    BY <1>3
  <2> QED BY <1>2, <2>1, <1>3 DEF IInv, Places
<1> QED BY <1>2, <1>3, <1>4

\* The consumer is in the variable once it has left.
LEMMA UncondWaitCallbackKeeps ==
    ASSUME IInv, NEW w \in Workers, UncondWaitCallback(w)
    PROVE  IInv'
<1> USE BlockingAssumption, BufferAssumption DEF Producers
<1>1. /\ Left(w, "callback", "run") /\ pc[leaving[w]] = "get" /\ u' = leaving[w]
      /\ UNCHANGED <<ready, this, saved, onceVars, to_wake, bufferVars>>
  BY DEF UncondWaitCallback
<1>2. /\ \A a \in Agents : pc'[a] = IF a = w THEN "run" ELSE pc[a]
      /\ pc' \in [Agents -> (ThreadPCs \cup {"run", "swap", "callback"})]
      /\ \A v \in Workers : leaving'[v] = IF v = w THEN NULL ELSE leaving[v]
      /\ leaving' \in [Workers -> Threads \cup {NULL}]
      /\ leaving[w] \in Threads /\ leaving[w] \in saved /\ leaving[w] \notin ready
      /\ \A v \in Workers : this[v] # leaving[w] /\ leaving'[v] # leaving[w]
  BY <1>1, LeftKeeps
<1>3. leaving[w] = Consumer
  BY <1>1, <1>2 DEF IInv, Types, OncePCs, PutPCs
<1>4. \A p \in Threads : pc'[p] = pc[p]
  BY <1>2 DEF Agents
<1>5. ~Parked
  BY <1>3 DEF IInv, ParkedOK
<1>6. Types'
  BY <1>1, <1>2, <1>4 DEF IInv, Types, SwitchTypeOK, onceVars, bufferVars, Agents
<1>7. Places'
  <2>1. NULL \notin ready
    BY DEF IInv, Types, SwitchTypeOK
  <2> QED BY <1>1, <1>2, <2>1 DEF IInv, Places
<1>8. LeavingOK'
  BY <1>1, <1>2, <1>4 DEF IInv, LeavingOK, Types, SwitchTypeOK, Agents
<1>9. ParkedOK'
  <2>1. \A p \in Threads : pc[p] \notin {"clear", "wake"}
    BY <1>5 DEF IInv, ParkedOK, Parked
  <2> QED BY <1>1, <1>2, <1>3, <1>4, <2>1 DEF IInv, ParkedOK
<1>10. OnceOK'
  BY <1>1, <1>4, OnceFrame
<1>11. OwedOK'
  <2>1. Sleeps /\ Sleeps'
    BY <1>1, <1>3, <1>4 DEF Sleeps, Parked
  <2> QED BY <1>1, <1>4, <2>1 DEF IInv, OwedOK, Owes, bufferVars
<1> QED BY <1>6, <1>7, <1>8, <1>9, <1>10, <1>11 DEF IInv

\* A thread that has yielded is in a run queue.
LEMMA YieldCallbackKeeps ==
    ASSUME IInv, NEW w \in Workers, YieldCallback(w)
    PROVE  IInv'
<1> USE BlockingAssumption, BufferAssumption DEF Producers
<1>1. /\ Left(w, "callback", "run") /\ pc[leaving[w]] # "get"
      /\ ready' = ready \cup {leaving[w]}
      /\ UNCHANGED <<this, saved, onceVars, uncondVars, bufferVars>>
  BY DEF YieldCallback, YieldPut
<1>2. /\ \A a \in Agents : pc'[a] = IF a = w THEN "run" ELSE pc[a]
      /\ pc' \in [Agents -> (ThreadPCs \cup {"run", "swap", "callback"})]
      /\ \A v \in Workers : leaving'[v] = IF v = w THEN NULL ELSE leaving[v]
      /\ leaving' \in [Workers -> Threads \cup {NULL}]
      /\ leaving[w] \in Threads /\ leaving[w] \in saved /\ leaving[w] \notin ready
      /\ \A v \in Workers : this[v] # leaving[w] /\ leaving'[v] # leaving[w]
      /\ pc[leaving[w]] \in {"poll", "put", "get"}
  BY <1>1, LeftKeeps
<1>3. \A p \in Threads : pc'[p] = pc[p]
  BY <1>2 DEF Agents
<1>4. /\ OnceOK' /\ (Parked' <=> Parked)
      /\ \A p \in Threads : Owes(p)' <=> Owes(p)
      /\ tail' = tail /\ u' = u /\ to_wake' = to_wake
  BY <1>1, <1>3, SwitchFrame
<1>5. Parked => leaving[w] # Consumer
  BY DEF IInv, ParkedOK
<1>6. Types'
  BY <1>1, <1>2, <1>3 DEF IInv, Types, SwitchTypeOK, onceVars, uncondVars, bufferVars, Agents
<1>7. Places'
  <2>1. NULL \notin ready
    BY DEF IInv, Types, SwitchTypeOK
  <2> QED BY <1>1, <1>2, <2>1 DEF IInv, Places
<1>8. LeavingOK'
  BY <1>1, <1>2, <1>3 DEF IInv, LeavingOK, Types, SwitchTypeOK, Agents
<1>9. ParkedOK'
  BY <1>1, <1>2, <1>3, <1>4, <1>5 DEF IInv, ParkedOK
<1>10. OwedOK'
  <2>1. Sleeps' <=> Sleeps
    BY <1>1, <1>2, <1>3, <1>4 DEF Sleeps
  <2> QED BY <1>4, <2>1 DEF IInv, OwedOK
<1> QED BY <1>4, <1>6, <1>7, <1>8, <1>9, <1>10 DEF IInv

\* A worker whose scheduler takes a thread, or gets the worker back.
LEMMA DispatchKeeps ==
    ASSUME IInv, NEW w \in Workers, NEW th \in ready \cup {NULL}, Dispatch(w, th),
           ready' = ready \ {th}, pc[w] = "run",
           UNCHANGED <<pc, leaving, onceVars, uncondVars, bufferVars>>
    PROVE  IInv'
<1> USE BlockingAssumption, BufferAssumption DEF Producers
<1>1. /\ this' = [this EXCEPT ![w] = th] /\ saved' = saved \ {th}
      /\ \A v \in Workers : this'[v] = IF v = w THEN th ELSE this[v]
      /\ th # NULL => th \in ready /\ \A v \in Workers : this[v] # th /\ leaving[v] # th
  BY DEF Dispatch, IInv, Places, Types, SwitchTypeOK
<1>2. /\ OnceOK' /\ (Parked' <=> Parked)
      /\ \A p \in Threads : Owes(p)' <=> Owes(p)
      /\ tail' = tail /\ u' = u /\ to_wake' = to_wake
  BY SwitchFrame
<1>3. Types'
  BY <1>1 DEF IInv, Types, SwitchTypeOK, onceVars, uncondVars, bufferVars
<1>4. Places'
  BY <1>1 DEF IInv, Places
<1>5. LeavingOK'
  BY <1>1 DEF IInv, LeavingOK
<1>6. ParkedOK'
  BY <1>1, <1>2 DEF IInv, ParkedOK
<1>7. OwedOK'
  BY <1>2 DEF IInv, OwedOK, Sleeps
<1> QED BY <1>2, <1>3, <1>4, <1>5, <1>6, <1>7 DEF IInv

LEMMA SwitchKeeps == ASSUME IInv, NEW w \in Workers, Switch(w) PROVE IInv'
<1> USE BlockingAssumption, BufferAssumption DEF Producers
<1>1. UNCHANGED <<onceVars, uncondVars, bufferVars>>
  BY DEF Switch
<1>2. CASE Resume(w)
  <2>1. PICK th \in ready : Dispatch(w, th) /\ ready' = ready \ {th}
    BY <1>2 DEF Resume
  <2>2. pc[w] = "run" /\ UNCHANGED <<pc, leaving>>
    BY <1>2 DEF Resume
  <2> QED BY <1>1, <2>1, <2>2, DispatchKeeps
<1>3. CASE SwapContext(w)
  <2>1. /\ pc[w] = "swap" /\ saved' = saved \cup {leaving[w]}
        /\ pc' = [pc EXCEPT ![w] = "callback"] /\ UNCHANGED <<ready, this, leaving>>
    BY <1>3 DEF SwapContext
  <2>2. /\ \A a \in Agents : pc'[a] = IF a = w THEN "callback" ELSE pc[a]
        /\ \A p \in Threads : pc'[p] = pc[p]
    BY <2>1 DEF IInv, Types, Agents
  <2>3. leaving[w] \in Threads
    BY <2>1 DEF IInv, LeavingOK, Types, SwitchTypeOK
  <2>4. /\ OnceOK' /\ (Parked' <=> Parked)
        /\ \A p \in Threads : Owes(p)' <=> Owes(p)
        /\ tail' = tail /\ u' = u /\ to_wake' = to_wake
    BY <1>1, <2>2, SwitchFrame
  <2>5. Types'
    BY <1>1, <2>1, <2>2, <2>3 DEF IInv, Types, SwitchTypeOK, onceVars, uncondVars, bufferVars, Agents
  <2>6. Places'
    BY <2>1 DEF IInv, Places
  <2>7. LeavingOK'
    BY <2>1, <2>2 DEF IInv, LeavingOK, Types, SwitchTypeOK, Agents
  <2>8. ParkedOK'
    BY <2>1, <2>2, <2>4 DEF IInv, ParkedOK
  <2>9. OwedOK'
    BY <2>1, <2>2, <2>4 DEF IInv, OwedOK, Sleeps
  <2> QED BY <2>4, <2>5, <2>6, <2>7, <2>8, <2>9 DEF IInv
<1> QED BY <1>2, <1>3 DEF Switch

LEMMA FinishKeeps ==
    ASSUME IInv, NEW w \in Workers, NEW th \in Threads, Finish(w, th)
    PROVE  IInv'
<1>1. Dispatch(w, NULL) /\ pc[w] = "run" /\ ready' = ready
      /\ UNCHANGED <<pc, leaving, onceVars, uncondVars, bufferVars>>
  BY DEF Finish
<1>2. ready' = ready \ {NULL}
  BY <1>1, BlockingAssumption DEF IInv, Types, SwitchTypeOK
<1> QED BY <1>1, <1>2, DispatchKeeps

LEMMA StutterKeeps == ASSUME IInv, UNCHANGED vars PROVE IInv'
BY DEF vars, switchVars, onceVars, uncondVars, bufferVars, IInv, Types, SwitchTypeOK, Places,
   LeavingOK, ParkedOK, Parked, OnceOK, Wins, OwedOK, Owes, Sleeps

LEMMA NextIInv == IInv /\ [Next]_vars => IInv'
<1> SUFFICES ASSUME IInv, [Next]_vars PROVE IInv'
  OBVIOUS
<1>1. ASSUME NEW th \in Threads, ThreadStep(th) PROVE IInv'
  <2>1. CASE OnceRead(th) \/ OnceTry(th) \/ OnceRoutine(th) \/ OnceComplete(th) \/ OncePoll(th)
    BY <2>1, OnceReadKeeps, OnceTryKeeps, OnceRoutineKeeps, OnceCompleteKeeps, OncePollKeeps
  <2>2. CASE YieldNone(th)
    BY <2>2, YieldNoneKeeps
  <2>3. CASE th \in Producers /\ (PutRead(th) \/ PutHead(th) \/ PutCAS(th) \/ Fill(th))
    BY <2>3, ReadsKeep, PutCASKeeps, FillKeeps
  <2>4. CASE th \in Producers /\ (UncondSignal(th) \/ UncondSignalClear(th) \/ UncondSignalPush(th))
    BY <2>4, SignalKeeps, SignalClearKeeps, SignalPushKeeps
  <2>5. CASE th = Consumer /\ (GetRead(th) \/ GetItem(th) \/ GetHead(th) \/ GetCAS(th))
    BY <2>5, ReadsKeep, GetCASKeeps
  <2> QED BY <1>1, <2>1, <2>2, <2>3, <2>4, <2>5 DEF ThreadStep
<1>2. ASSUME NEW w \in Workers, WorkerStep(w) PROVE IInv'
  <2>1. CASE \E th \in Threads : UncondWait(w, th) \/ YieldTo(w, th) \/ Finish(w, th)
    BY <2>1, UncondWaitKeeps, YieldToKeeps, FinishKeeps
  <2> QED BY <1>2, <2>1, SwitchKeeps, UncondWaitCallbackKeeps, YieldCallbackKeeps DEF WorkerStep
<1> QED BY <1>1, <1>2, StutterKeeps DEF Next

LEMMA SpecIInv == Spec => []IInv
BY InitIInv, NextIInv, PTL DEF Spec

-----------------------------------------------------------------------------
(* What the runs check                                                     *)

\* myth_once calls the routine once, and no thread returns from it before the
\* routine has ended.
THEOREM RunsOnce == Spec => []OnceOnly
<1>1. IInv => OnceOnly
  BY BufferAssumption DEF IInv, Types, OnceOK, OnceOnly, OncePCs, Wins
<1> QED BY <1>1, SpecIInv, PTL

\* A set without two different members has at most one.
LEMMA AtMostOne ==
    ASSUME NEW S, \A x, y \in S : x = y
    PROVE  IsFiniteSet(S) /\ Cardinality(S) \in {0, 1} /\ (S # {} => Cardinality(S) = 1)
<1>1. CASE S = {}
  BY <1>1, FS_EmptySet
<1>2. CASE S # {}
  <2>1. PICK x \in S : S = {x}
    BY <1>2
  <2> QED BY <1>2, <2>1, FS_Singleton
<1> QED BY <1>1, <1>2

\* One producer at most owes the consumer a signal of the unconditional
\* variable, and one does, or will see the bit, just while the consumer sleeps.
THEOREM NoSignalLost == Spec => []SignalOwed
<1>1. ASSUME IInv PROVE SignalOwed
  <2>1. \A p \in Owing : p \in Threads /\ Owes(p)
    BY DEF Owing, Owes, Producers
  <2>2. \A p \in Threads : Owes(p) => p \in Owing
    BY <1>1, BufferAssumption DEF Owing, Owes, Producers, IInv, Types, OncePCs, GetPCs
  <2>3. Cardinality(Owing) <= 1
    BY <1>1, <2>1, AtMostOne DEF IInv, OwedOK
  <2>4. Sleeping <=> Sleeps
    BY BlockingAssumption, BufferAssumption DEF Sleeping, Sleeps, Sleepers, Parked
  <2> QED BY <1>1, <2>1, <2>2, <2>3, <2>4 DEF IInv, OwedOK, SignalOwed
<1> QED BY <1>1, SpecIInv, PTL

\* No thread is at two places: nobody is resumed before it has left its worker,
\* and uncond_signal pushes no thread that is in a run queue already.
THEOREM UsedOnce == Spec => []OnePlace
<1>1. ASSUME IInv PROVE OnePlace
  <2> USE BlockingAssumption, BufferAssumption
  <2>1. ASSUME NEW th \in Threads
        PROVE  LET on == {w \in Workers : this[w] = th}
                   off == {w \in Workers : leaving[w] = th}
                   parked == {i \in {1, 2} : th \in <<ready, Sleepers>>[i]}
               IN  Cardinality(on) + Cardinality(off) + Cardinality(parked) <= 1
    <3> DEFINE on == {w \in Workers : this[w] = th}
               off == {w \in Workers : leaving[w] = th}
               parked == {i \in {1, 2} : th \in <<ready, Sleepers>>[i]}
    <3>1. parked = (IF th \in ready THEN {1} ELSE {}) \cup (IF th \in Sleepers THEN {2} ELSE {})
      OBVIOUS
    <3>2. th \in Sleepers => Parked /\ th = Consumer
      BY <1>1 DEF Sleepers, Parked, IInv, ParkedOK
    <3>3. th \in Sleepers => th \notin ready /\ on = {} /\ off = {}
      BY <1>1, <3>2 DEF IInv, ParkedOK
    <3>4. /\ \A x, y \in on : x = y
          /\ \A x, y \in off : x = y
          /\ \A x, y \in parked : x = y
      <4>1. \A x, y \in on : x = y
        BY <1>1 DEF IInv, Places
      <4>2. \A x, y \in off : x = y
        BY <1>1 DEF IInv, Places
      <4>3. \A x, y \in parked : x = y
        BY <3>1, <3>3
      <4> QED BY <4>1, <4>2, <4>3
    <3>5. /\ on # {} => off = {} /\ th \notin ready
          /\ off # {} => th \notin ready
      BY <1>1 DEF IInv, Places
    <3>6. /\ on # {} => off = {} /\ parked = {}
          /\ off # {} => parked = {}
      BY <3>1, <3>3, <3>5
    <3>7. /\ Cardinality(on) \in {0, 1} /\ Cardinality(off) \in {0, 1}
          /\ Cardinality(parked) \in {0, 1}
      BY <3>4, AtMostOne
    <3>8. /\ on = {} => Cardinality(on) = 0
          /\ off = {} => Cardinality(off) = 0
          /\ parked = {} => Cardinality(parked) = 0
      BY FS_EmptySet
    <3> HIDE DEF on, off, parked
    <3>9. Cardinality(on) + Cardinality(off) + Cardinality(parked) <= 1
      BY <3>6, <3>7, <3>8
    <3> QED BY <3>9 DEF on, off, parked
  <2>2. ready \subseteq saved
    BY <1>1 DEF IInv, Places
  <2> QED BY <2>1, <2>2 DEF OnePlace
<1> QED BY <1>1, SpecIInv, PTL
=============================================================================
