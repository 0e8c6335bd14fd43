---------------------------- MODULE WarmPoolProofs ----------------------------
(***************************************************************************)
(* The bookkeeping of the warm pool, for every number of runs, every pool  *)
(* size and every kind of trouble.                                         *)
(***************************************************************************)
EXTENDS WarmPool, FiniteSetTheorems, SequenceTheorems, TLAPS

USE PoolAssumption

Calls == [pc : PCs, c : Containers \cup {NoContainer}]

\* A run that is about to use, return or stop a container has one.
HasContainer ==
  \A r \in Runs :
    call[r].pc \in {"health", "boot", "exec", "return", "clean", "put", "discard"}
      => call[r].c \in Containers

PoolInv == TypeOK /\ HasContainer /\ Accounting /\ SizeBounded

\* There are finitely many holders.
LEMMA HoldersFinite == IsFiniteSet(Holders) /\ Cardinality(Holders) \in Nat
<1>1. Holders \subseteq Runs
  BY DEF Holders
<1>2. IsFiniteSet(Holders)
  BY <1>1, FS_Subset
<1> QED BY <1>2, FS_CardinalityType

\* How a step of one run changes the number of holders.
LEMMA CallStep ==
  ASSUME TypeOK, HasContainer, NEW r \in Runs, NEW x \in Calls,
         x.pc \in {"health", "boot", "exec", "return", "clean", "put", "discard"}
           => x.c \in Containers,
         call' = [call EXCEPT ![r] = x]
  PROVE  /\ call' \in [Runs -> Calls]
         /\ HasContainer'
         /\ (call[r].pc \in Placed <=> x.pc \in Placed)
              => Cardinality(Holders') = Cardinality(Holders)
         /\ call[r].pc \notin Placed /\ x.pc \in Placed
              => Cardinality(Holders') = Cardinality(Holders) + 1
         /\ call[r].pc \in Placed /\ x.pc \notin Placed
              => Cardinality(Holders') = Cardinality(Holders) - 1
<1>1. call \in [Runs -> Calls]
  BY DEF TypeOK, Calls
<1>2. call' \in [Runs -> Calls] /\ \A q \in Runs : call'[q] = IF q = r THEN x ELSE call[q]
  BY <1>1
<1>3. HasContainer'
  BY <1>2 DEF HasContainer
<1>4. ASSUME call[r].pc \in Placed <=> x.pc \in Placed
      PROVE  Cardinality(Holders') = Cardinality(Holders)
  <2>1. Holders' = Holders
    BY <1>2, <1>4 DEF Holders
  <2> QED BY <2>1
<1>5. ASSUME call[r].pc \notin Placed, x.pc \in Placed
      PROVE  Cardinality(Holders') = Cardinality(Holders) + 1
  <2>1. Holders' = Holders \cup {r} /\ r \notin Holders
    BY <1>2, <1>5 DEF Holders
  <2> QED BY <2>1, HoldersFinite, FS_AddElement
<1>6. ASSUME call[r].pc \in Placed, x.pc \notin Placed
      PROVE  Cardinality(Holders') = Cardinality(Holders) - 1
  <2>1. Holders' = Holders \ {r} /\ r \in Holders
    BY <1>2, <1>6 DEF Holders
  <2> QED BY <2>1, HoldersFinite, FS_RemoveElement
<1> QED BY <1>2, <1>3, <1>4, <1>5, <1>6

\* Go and Hold are such steps.
LEMMA Moves ==
  ASSUME TypeOK, NEW r \in Runs
  PROVE  /\ \A pc : Go(r, pc) => call' = [call EXCEPT ![r] = [pc |-> pc, c |-> call[r].c]]
         /\ \A pc, c : Hold(r, pc, c) => call' = [call EXCEPT ![r] = [pc |-> pc, c |-> c]]
<1>1. call \in [Runs -> [pc : PCs, c : Containers \cup {NoContainer}]]
  BY DEF TypeOK
<1>2. \A pc : [call[r] EXCEPT !.pc = pc] = [pc |-> pc, c |-> call[r].c]
  BY <1>1
<1>3. \A pc : [call EXCEPT ![r].pc = pc] = [call EXCEPT ![r] = [call[r] EXCEPT !.pc = pc]]
  BY <1>1
<1> QED BY <1>2, <1>3, Zenon DEF Go, Hold

\* A run moves on and neither the size nor the channel changes.
LEMMA QuietMove ==
  ASSUME PoolInv, NEW r \in Runs, NEW x \in Calls,
         x.pc \in {"health", "boot", "exec", "return", "clean", "put", "discard"}
           => x.c \in Containers,
         call' = [call EXCEPT ![r] = x],
         UNCHANGED <<size, closed, available>>,
         \/ call[r].pc \in Placed <=> x.pc \in Placed
         \/ closed /\ x.pc \notin Placed
  PROVE  /\ call' \in [Runs -> Calls]
         /\ HasContainer' /\ Accounting' /\ SizeBounded'
<1> USE DEF PoolInv
<1>1. /\ call' \in [Runs -> Calls] /\ HasContainer'
      /\ \/ Cardinality(Holders') = Cardinality(Holders)
         \/ closed /\ Cardinality(Holders') = Cardinality(Holders) - 1
  BY CallStep
<1>2. Cardinality(Holders) \in Nat /\ Len(available) \in Nat /\ size \in Nat
  BY HoldersFinite DEF TypeOK
<1>3. Accounting'
  BY <1>1, <1>2 DEF Accounting
<1>4. SizeBounded'
  BY DEF SizeBounded
<1> QED BY <1>1, <1>3, <1>4

\* A run takes the oldest warm container out of the channel.
LEMMA TakeWarmKeeps ==
  ASSUME PoolInv, NEW r \in Runs, call[r].pc \in {"fast", "wait"}, TakeWarm(r)
  PROVE  PoolInv'
<1> USE DEF PoolInv
<1> DEFINE x == [pc |-> "health", c |-> Head(available)]
<1>1. available \in Seq(Containers) /\ available # <<>>
  BY DEF TakeWarm, TypeOK
<1>2. Head(available) \in Containers /\ Tail(available) \in Seq(Containers)
      /\ Len(Tail(available)) = Len(available) - 1
  BY <1>1
<1>3. x \in Calls /\ x.c \in Containers /\ x.pc = "health"
  BY <1>2 DEF Calls, PCs
<1>4. call' = [call EXCEPT ![r] = x]
  BY Moves DEF TakeWarm
<1>5. call[r].pc \notin Placed /\ x.pc \in Placed
  BY <1>3 DEF Placed
<1> HIDE DEF x
<1>6. /\ call' \in [Runs -> Calls] /\ HasContainer'
      /\ Cardinality(Holders') = Cardinality(Holders) + 1
  BY <1>3, <1>4, <1>5, CallStep
<1>7. Cardinality(Holders) \in Nat /\ Len(available) \in Nat /\ size \in Nat
  BY <1>1, HoldersFinite DEF TypeOK
<1>8. Accounting' /\ SizeBounded'
  BY <1>2, <1>6, <1>7 DEF TakeWarm, Accounting, SizeBounded
<1>9. TypeOK'
  BY <1>2, <1>6 DEF TakeWarm, TypeOK, Calls
<1> QED BY <1>6, <1>8, <1>9

\* Every step of a run keeps the account.
LEMMA RunStepKeeps ==
  ASSUME PoolInv, NEW r \in Runs, RunStep(r)
  PROVE  PoolInv'
<1> USE DEF PoolInv
<1>0. /\ call[r].pc \in PCs /\ call[r].c \in Containers \cup {NoContainer}
      /\ available \in Seq(Containers) /\ Len(available) \in Nat /\ size \in Nat
      /\ Cardinality(Holders) \in Nat
  BY HoldersFinite DEF TypeOK
\* Moving on with the same container, or with none.
<1>g. ASSUME NEW pc \in PCs, Go(r, pc),
             pc \in {"health", "boot", "exec", "return", "clean", "put", "discard"}
               => call[r].c \in Containers,
             UNCHANGED <<size, closed, available>>,
             \/ call[r].pc \in Placed <=> pc \in Placed
             \/ closed /\ pc \notin Placed
      PROVE  call' \in [Runs -> Calls] /\ HasContainer' /\ Accounting' /\ SizeBounded'
  <2> DEFINE x == [pc |-> pc, c |-> call[r].c]
  <2>1. x \in Calls /\ x.pc = pc /\ x.c = call[r].c
    BY <1>0 DEF Calls
  <2>2. call' = [call EXCEPT ![r] = x]
    BY <1>g, Moves
  <2> HIDE DEF x
  <2> QED BY <1>g, <2>1, <2>2, QuietMove
<1>h. ASSUME NEW pc \in PCs, NEW c \in Containers \cup {NoContainer}, Hold(r, pc, c),
             pc \in {"health", "boot", "exec", "return", "clean", "put", "discard"}
               => c \in Containers,
             UNCHANGED <<size, closed, available>>,
             \/ call[r].pc \in Placed <=> pc \in Placed
             \/ closed /\ pc \notin Placed
      PROVE  call' \in [Runs -> Calls] /\ HasContainer' /\ Accounting' /\ SizeBounded'
  <2> DEFINE x == [pc |-> pc, c |-> c]
  <2>1. x \in Calls /\ x.pc = pc /\ x.c = c
    BY DEF Calls
  <2>2. call' = [call EXCEPT ![r] = x]
    BY <1>h, Moves
  <2> HIDE DEF x
  <2> QED BY <1>h, <2>1, <2>2, QuietMove
<1>s. ASSUME NEW c \in Containers, NEW b, Stop(c, b), UNCHANGED made
      PROVE  alive' \subseteq made' /\ leaked' \subseteq Containers
  BY <1>s DEF Stop, TypeOK
<1>1. CASE Checkout(r)
  <2>1. Go(r, IF closed THEN "done" ELSE "fast") /\ call[r].pc = "checkout"
    BY <1>1 DEF Checkout
  <2>2. call' \in [Runs -> Calls] /\ HasContainer' /\ Accounting' /\ SizeBounded'
    <3>1. CASE closed
      BY <1>1, <2>1, <3>1, <1>g DEF Checkout, PCs, Placed
    <3>2. CASE ~closed
      BY <1>1, <2>1, <3>2, <1>g DEF Checkout, PCs, Placed
    <3> QED BY <3>1, <3>2
  <2> QED BY <1>1, <2>2 DEF Checkout, TypeOK, Calls
<1>2. CASE Fast(r)
  <2>1. CASE TakeWarm(r)
    BY <1>2, <2>1, TakeWarmKeeps DEF Fast
  <2>2. CASE ~TakeWarm(r)
    <3>1. /\ Go(r, "grow") /\ call[r].pc = "fast"
          /\ UNCHANGED <<size, closed, available, cancelled, alive, made, doomed, soiled,
                        leaked>>
      BY <1>2, <2>2 DEF Fast
    <3>2. call' \in [Runs -> Calls] /\ HasContainer' /\ Accounting' /\ SizeBounded'
      BY <3>1, <1>g DEF PCs, Placed
    <3> QED BY <3>1, <3>2 DEF TypeOK, Calls
  <2> QED BY <2>1, <2>2
<1>3. CASE Grow(r)
  <2>0. call[r].pc = "grow"
        /\ UNCHANGED <<closed, available, cancelled, alive, made, doomed, soiled, leaked>>
    BY <1>3 DEF Grow
  <2>1. CASE size' = size + 1
    <3> DEFINE x == [pc |-> "spin", c |-> call[r].c]
    <3>1. size < MaxSize /\ Go(r, "spin")
      BY <1>0, <1>3, <2>1 DEF Grow
    <3>2. x \in Calls /\ x.pc = "spin"
      BY <1>0 DEF Calls, PCs
    <3>3. call' = [call EXCEPT ![r] = x]
      BY <3>1, Moves
    <3> HIDE DEF x
    <3>4. /\ call' \in [Runs -> Calls] /\ HasContainer'
          /\ Cardinality(Holders') = Cardinality(Holders) + 1
      BY <2>0, <3>2, <3>3, CallStep DEF Placed
    <3>5. Accounting' /\ SizeBounded'
      BY <1>0, <2>0, <2>1, <3>1, <3>4 DEF Accounting, SizeBounded
    <3> QED BY <1>0, <2>0, <2>1, <3>4, <3>5 DEF TypeOK, Calls
  <2>2. CASE size' # size + 1
    <3>1. (Go(r, "done") \/ Go(r, "wait")) /\ UNCHANGED size
      BY <1>3, <2>2 DEF Grow
    <3>2. call' \in [Runs -> Calls] /\ HasContainer' /\ Accounting' /\ SizeBounded'
      BY <2>0, <3>1, <1>g DEF PCs, Placed
    <3> QED BY <2>0, <3>1, <3>2 DEF TypeOK, Calls
  <2> QED BY <2>1, <2>2
<1>4. CASE Wait(r)
  <2>1. CASE TakeWarm(r)
    BY <1>4, <2>1, TakeWarmKeeps DEF Wait
  <2>2. CASE ~TakeWarm(r)
    <3>1. /\ Go(r, "done") /\ call[r].pc = "wait"
          /\ UNCHANGED <<size, closed, available, cancelled, alive, made, doomed, soiled,
                        leaked>>
      BY <1>4, <2>2 DEF Wait
    <3>2. call' \in [Runs -> Calls] /\ HasContainer' /\ Accounting' /\ SizeBounded'
      BY <3>1, <1>g DEF PCs, Placed
    <3> QED BY <3>1, <3>2 DEF TypeOK, Calls
  <2> QED BY <2>1, <2>2
<1>5. CASE HealthCheckOrReplace(r)
  <2>1. call[r].c \in Containers /\ call[r].pc = "health"
    BY <1>5 DEF HealthCheckOrReplace, HasContainer
  <2>2. call' \in [Runs -> Calls] /\ HasContainer' /\ Accounting' /\ SizeBounded'
    BY <1>5, <2>1, <1>g, <1>h DEF HealthCheckOrReplace, Drop, PCs, Placed
  <2>3. alive' \subseteq made' /\ leaked' \subseteq Containers
    BY <1>5, <2>1, <1>s DEF HealthCheckOrReplace, TypeOK
  <2> QED BY <1>5, <2>2, <2>3 DEF HealthCheckOrReplace, TypeOK, Calls
<1>6. CASE Create(r)
  <2>1. call[r].pc = "spin"
    BY <1>6 DEF Create
  <2>2. call' \in [Runs -> Calls] /\ HasContainer' /\ Accounting' /\ SizeBounded'
    BY <1>6, <2>1, <1>g, <1>h DEF Create, PCs, Placed
  <2> QED BY <1>6, <2>2 DEF Create, TypeOK, Calls
<1>7. CASE Boot(r)
  <2>1. call[r].c \in Containers /\ call[r].pc = "boot"
    BY <1>7 DEF Boot, HasContainer
  <2>2. call' \in [Runs -> Calls] /\ HasContainer' /\ Accounting' /\ SizeBounded'
    BY <1>7, <2>1, <1>g, <1>h DEF Boot, Drop, PCs, Placed
  <2>3. alive' \subseteq made' /\ leaked' \subseteq Containers
    BY <1>7, <2>1, <1>s DEF Boot, TypeOK
  <2> QED BY <1>7, <2>2, <2>3 DEF Boot, TypeOK, Calls
<1>8. CASE Unspin(r)
  <2> DEFINE x == [pc |-> "done", c |-> NoContainer]
  <2>1. x \in Calls /\ x.pc = "done"
    BY DEF Calls, PCs
  <2>2. call' = [call EXCEPT ![r] = x]
    BY <1>8, Moves DEF Unspin, Drop
  <2> HIDE DEF x
  <2>3. /\ call' \in [Runs -> Calls] /\ HasContainer'
        /\ Cardinality(Holders') = Cardinality(Holders) - 1
    BY <1>8, <2>1, <2>2, CallStep DEF Unspin, Placed
  <2>4. Cardinality(Holders') \in Nat
    <3>1. Holders' \subseteq Runs
      BY DEF Holders
    <3> QED BY <3>1, FS_Subset, FS_CardinalityType
  <2>5. size >= 1 /\ size' = size - 1 /\ available' = available /\ closed' = closed
    BY <1>0, <1>8, <2>3, <2>4 DEF Unspin, Accounting
  <2>6. Accounting' /\ SizeBounded'
    BY <1>0, <2>3, <2>5 DEF Accounting, SizeBounded
  <2> QED BY <1>0, <1>8, <2>3, <2>5, <2>6 DEF Unspin, TypeOK, Calls
<1>9. CASE Exec(r)
  <2>1. call[r].c \in Containers /\ call[r].pc = "exec"
    BY <1>9 DEF Exec, HasContainer
  <2>2. PICK pc \in {"return", "stuck"} : Go(r, pc)
    BY <1>9 DEF Exec
  <2>3. call' \in [Runs -> Calls] /\ HasContainer' /\ Accounting' /\ SizeBounded'
    BY <1>9, <2>1, <2>2, <1>g DEF Exec, PCs, Placed
  <2> QED BY <1>9, <2>1, <2>3 DEF Exec, TypeOK, Calls
<1>10. CASE Return(r)
  <2>1. call[r].c \in Containers /\ call[r].pc = "return"
    BY <1>10 DEF Return, HasContainer
  <2>2. call' \in [Runs -> Calls] /\ HasContainer' /\ Accounting' /\ SizeBounded'
    <3>1. CASE closed
      BY <1>10, <2>1, <3>1, <1>g DEF Return, PCs, Placed
    <3>2. CASE ~closed
      BY <1>10, <2>1, <3>2, <1>g DEF Return, PCs, Placed
    <3> QED BY <3>1, <3>2
  <2> QED BY <1>10, <2>2 DEF Return, TypeOK, Calls
<1>11. CASE CleanUp(r)
  <2>1. call[r].c \in Containers /\ call[r].pc = "clean"
    BY <1>11 DEF CleanUp, HasContainer
  <2>2. call' \in [Runs -> Calls] /\ HasContainer' /\ Accounting' /\ SizeBounded'
    BY <1>11, <2>1, <1>g, <1>h DEF CleanUp, Drop, PCs, Placed
  <2>3. alive' \subseteq made' /\ leaked' \subseteq Containers
    BY <1>11, <2>1, <1>s DEF CleanUp, TypeOK
  <2> QED BY <1>11, <2>2, <2>3 DEF CleanUp, TypeOK, Calls
<1>12. CASE Put(r)
  <2>1. call[r].c \in Containers /\ call[r].pc = "put"
    BY <1>12 DEF Put, HasContainer
  <2>2. CASE closed
    <3>1. Go(r, "discard") /\ UNCHANGED <<size, available, closed>>
      BY <1>12, <2>2 DEF Put
    <3>2. call' \in [Runs -> Calls] /\ HasContainer' /\ Accounting' /\ SizeBounded'
      BY <2>1, <2>2, <3>1, <1>g DEF PCs, Placed
    <3> QED BY <1>12, <3>1, <3>2 DEF Put, TypeOK, Calls
  <2>3. CASE ~closed
    <3> DEFINE x == [pc |-> "done", c |-> NoContainer]
    <3>1. Cardinality(Holders) >= 1
      <4>1. r \in Holders
        BY <2>1 DEF Holders, Placed
      <4>2. Cardinality(Holders) # 0
        BY <4>1, HoldersFinite, FS_EmptySet
      <4> QED BY <1>0, <4>2
    <3>2. Len(available) < MaxSize
      BY <1>0, <2>3, <3>1 DEF Accounting, SizeBounded
    <3>3. available' = Append(available, call[r].c) /\ Drop(r, "done")
          /\ UNCHANGED <<size, closed>>
      BY <1>12, <2>3, <3>2 DEF Put
    <3>4. x \in Calls /\ x.pc = "done"
      BY DEF Calls, PCs
    <3>5. call' = [call EXCEPT ![r] = x]
      BY <3>3, Moves DEF Drop
    <3> HIDE DEF x
    <3>6. /\ call' \in [Runs -> Calls] /\ HasContainer'
          /\ Cardinality(Holders') = Cardinality(Holders) - 1
      BY <2>1, <3>4, <3>5, CallStep DEF Placed
    <3>7. available' \in Seq(Containers) /\ Len(available') = Len(available) + 1
      BY <1>0, <2>1, <3>3, AppendProperties
    <3>8. Accounting' /\ SizeBounded'
      BY <1>0, <3>3, <3>6, <3>7 DEF Accounting, SizeBounded
    <3> QED BY <1>12, <3>3, <3>6, <3>7, <3>8 DEF Put, TypeOK, Calls
  <2> QED BY <2>2, <2>3
<1>13. CASE Discard(r)
  <2>1. call[r].c \in Containers /\ call[r].pc = "discard"
    BY <1>13 DEF Discard, HasContainer
  <2>2. call' \in [Runs -> Calls] /\ HasContainer' /\ Accounting' /\ SizeBounded'
    BY <1>13, <2>1, <1>h DEF Discard, Drop, PCs, Placed
  <2>3. alive' \subseteq made' /\ leaked' \subseteq Containers
    BY <1>13, <2>1, <1>s DEF Discard
  <2> QED BY <1>13, <2>2, <2>3 DEF Discard, TypeOK, Calls
<1> QED BY <1>1, <1>2, <1>3, <1>4, <1>5, <1>6, <1>7, <1>8, <1>9, <1>10, <1>11, <1>12,
           <1>13 DEF RunStep

\* Every step keeps the account.
LEMMA NextKeeps == PoolInv /\ [Next]_vars => PoolInv'
<1> SUFFICES ASSUME PoolInv, [Next]_vars
             PROVE  PoolInv'
  OBVIOUS
<1> USE DEF PoolInv
<1>0. available \in Seq(Containers) /\ Len(available) \in Nat /\ size \in Nat
      /\ Cardinality(Holders) \in Nat
  BY HoldersFinite DEF TypeOK
<1>1. ASSUME UNCHANGED <<size, closed, available, call>>,
             cancelled' \subseteq Runs, alive' \subseteq made', made' \subseteq Containers,
             doomed' \subseteq Containers, soiled' \subseteq Containers,
             leaked' \subseteq Containers
      PROVE  PoolInv'
  <2>1. Holders' = Holders
    BY <1>1 DEF Holders
  <2> QED BY <1>1, <2>1 DEF TypeOK, HasContainer, Accounting, SizeBounded
<1>2. CASE Shutdown
  <2>1. Holders' = Holders
    BY <1>2 DEF Shutdown, Holders
  <2>2. available' = <<>> /\ Len(available') = 0 /\ available' \in Seq(Containers)
    BY <1>2 DEF Shutdown
  <2>3. ToSet(available) \subseteq Containers
    BY <1>0 DEF ToSet
  <2>4. Accounting' /\ SizeBounded'
    BY <1>0, <1>2, <2>1, <2>2 DEF Shutdown, Accounting, SizeBounded
  <2> QED BY <1>2, <2>2, <2>3, <2>4 DEF Shutdown, TypeOK, HasContainer
<1>3. ASSUME NEW c \in Containers, StopDrained(c)
      PROVE  PoolInv'
  BY <1>1, <1>3 DEF StopDrained, Stop, TypeOK
<1>4. ASSUME NEW r \in Runs, Cancel(r)
      PROVE  PoolInv'
  BY <1>1, <1>4 DEF Cancel, TypeOK
<1>5. CASE UNCHANGED vars
  BY <1>1, <1>5 DEF vars, TypeOK
<1> QED BY <1>2, <1>3, <1>4, <1>5, RunStepKeeps DEF Next

\* An empty pool is in order.
LEMMA InitKeeps == Init => PoolInv
<1> SUFFICES ASSUME Init
             PROVE  PoolInv
  OBVIOUS
<1>1. Holders = {}
  BY DEF Init, Holders, Placed
<1>2. Cardinality(Holders) = 0
  BY <1>1, FS_EmptySet
<1>3. TypeOK /\ HasContainer
  <2> DEFINE x == [pc |-> "checkout", c |-> NoContainer]
  <2>1. x \in Calls /\ x.pc = "checkout"
    BY DEF Calls, PCs
  <2>2. call = [r \in Runs |-> x]
    BY DEF Init
  <2> HIDE DEF x
  <2>3. call \in [Runs -> Calls] /\ \A r \in Runs : call[r].pc = "checkout"
    BY <2>1, <2>2
  <2>4. /\ size \in Nat /\ closed \in BOOLEAN /\ available \in Seq(Containers)
        /\ cancelled \subseteq Runs /\ alive \subseteq made /\ made \subseteq Containers
        /\ doomed \subseteq Containers /\ soiled \subseteq Containers
        /\ leaked \subseteq Containers
    <3>1. size \in Nat
      BY DEF Init
    <3>2. closed \in BOOLEAN
      BY Zenon DEF Init
    <3>3. available \in Seq(Containers)
      BY DEF Init
    <3>4. /\ cancelled \subseteq Runs /\ alive \subseteq made /\ made \subseteq Containers
          /\ doomed \subseteq Containers /\ soiled \subseteq Containers
          /\ leaked \subseteq Containers
      BY Zenon DEF Init
    <3> QED BY <3>1, <3>2, <3>3, <3>4, Zenon
  <2>5. TypeOK
    BY <2>3, <2>4, Zenon DEF TypeOK, Calls
  <2> QED BY <2>3, <2>5 DEF HasContainer
<1>4. Len(available) = 0
  BY DEF Init
<1>5. Accounting /\ SizeBounded
  BY <1>2, <1>4 DEF Init, Accounting, SizeBounded
<1> QED BY <1>3, <1>5 DEF PoolInv

\* The size of the pool is always that of its warm and held containers, and
\* within its limits (warmpool.go), for any number of runs and any troubles.
THEOREM PoolAccounted == Spec => [](TypeOK /\ Accounting /\ SizeBounded)
<1>1. PoolInv => TypeOK /\ Accounting /\ SizeBounded
  BY DEF PoolInv
<1> QED BY InitKeeps, NextKeeps, <1>1, PTL DEF Spec

\* The send of Return never finds the channel full, so the branch that its
\* comment calls impossible is.
THEOREM ReturnHasRoom == Spec => []ReturnFindsRoom
<1>1. PoolInv => ReturnFindsRoom
  <2> SUFFICES ASSUME PoolInv, NEW r \in Runs, call[r].pc = "put", ~closed
               PROVE  Len(available) < MaxSize
    BY DEF ReturnFindsRoom
  <2>1. r \in Holders
    BY DEF Holders, Placed
  <2>2. Cardinality(Holders) # 0 /\ Cardinality(Holders) \in Nat
    BY <2>1, HoldersFinite, FS_EmptySet
  <2>3. Len(available) \in Nat /\ size \in Nat
    BY DEF PoolInv, TypeOK
  <2> QED BY <2>2, <2>3 DEF PoolInv, Accounting, SizeBounded
<1> QED BY InitKeeps, NextKeeps, <1>1, PTL DEF Spec

-------------------------------------------------------------------------------
(***************************************************************************)
(* Who owns a container.  OneOwner and CleanHandover need to know that a   *)
(* run between two containers has none, that every container in somebody's *)
(* hands was made by the daemon (so that a new one is nobody's), and that  *)
(* a container is clean from its cleanup, through the channel, to the next *)
(* run.                                                                    *)
(***************************************************************************)
Warm == ToSet(available)

EmptyHanded ==
  \A r \in Runs :
    call[r].pc \in {"checkout", "fast", "grow", "wait", "spin", "unspin", "done"}
      => call[r].c = NoContainer

Given ==
  /\ Warm \cup doomed \cup soiled \subseteq made
  /\ \A r \in Runs : call[r].c \in made \cup {NoContainer}

CleanKept ==
  /\ Warm \cap soiled = {}
  /\ \A r \in Runs : call[r].pc \in {"boot", "put", "health", "exec"} => call[r].c \notin soiled

Distinct(s) == \A i, j \in 1..Len(s) : s[i] = s[j] => i = j

\* OneOwner, element by element.
Owned ==
  /\ Distinct(available)
  /\ \A q, r \in Runs : call[q].c = call[r].c /\ call[q].c # NoContainer => q = r
  /\ \A r \in Runs : call[r].c \notin Warm /\ call[r].c \notin doomed
  /\ \A c \in Warm : c \notin doomed
  /\ \A c \in alive :
       c \in Warm \/ c \in doomed \/ c \in leaked \/ \E r \in Runs : call[r].c = c

\* Only Shutdown takes containers from the channel to stop them.
Undrained == ~closed => doomed = {}

OwnerInv == Owned /\ EmptyHanded /\ Given /\ CleanKept /\ Undrained

\* Receiving from the channel takes one container out of it.
LEMMA ReceiveSet ==
  ASSUME NEW S, NEW s \in Seq(S), s # <<>>, Distinct(s)
  PROVE  /\ Head(s) \in ToSet(s)
         /\ ToSet(Tail(s)) = ToSet(s) \ {Head(s)}
         /\ Distinct(Tail(s))
<1>1. /\ Len(s) \in Nat \ {0} /\ Head(s) = s[1]
      /\ Tail(s) \in Seq(S) /\ Len(Tail(s)) = Len(s) - 1
      /\ \A i \in 1..Len(s) - 1 : Tail(s)[i] = s[i + 1]
  OBVIOUS
<1>2. ToSet(s) = {s[i] : i \in 1..Len(s)} /\ ToSet(Tail(s)) = {Tail(s)[i] : i \in 1..Len(s) - 1}
  <2>1. DOMAIN s = 1..Len(s) /\ DOMAIN Tail(s) = 1..Len(s) - 1
    BY <1>1
  <2> QED BY <2>1, Zenon DEF ToSet
<1>3. Head(s) \in ToSet(s)
  BY <1>1, <1>2
<1>4. Distinct(Tail(s))
  BY <1>1 DEF Distinct
<1>5. ASSUME NEW x \in ToSet(Tail(s)) PROVE x \in ToSet(s) \ {Head(s)}
  <2>1. PICK i \in 1..Len(s) - 1 : x = Tail(s)[i]
    BY <1>2, <1>5
  <2>2. i + 1 \in 1..Len(s) /\ x = s[i + 1] /\ 1 \in 1..Len(s) /\ i + 1 # 1
    BY <1>1, <2>1
  <2> QED BY <1>1, <1>2, <2>2 DEF Distinct
<1>6. ASSUME NEW x \in ToSet(s) \ {Head(s)} PROVE x \in ToSet(Tail(s))
  <2>1. PICK i \in 1..Len(s) : x = s[i]
    BY <1>2, <1>6
  <2>2. i - 1 \in 1..Len(s) - 1 /\ Tail(s)[i - 1] = x
    BY <1>1, <1>6, <2>1
  <2> QED BY <1>2, <2>2
<1> QED BY <1>3, <1>4, <1>5, <1>6

\* Sending to the channel puts one container more into it.
LEMMA SendSet ==
  ASSUME NEW S, NEW s \in Seq(S), NEW x \in S, x \notin ToSet(s), Distinct(s)
  PROVE  ToSet(Append(s, x)) = ToSet(s) \cup {x} /\ Distinct(Append(s, x))
<1>1. /\ Len(s) \in Nat /\ Len(Append(s, x)) = Len(s) + 1
      /\ \A i \in 1..Len(s) : Append(s, x)[i] = s[i]
      /\ Append(s, x)[Len(s) + 1] = x /\ Append(s, x) \in Seq(S)
  OBVIOUS
<1>2. /\ ToSet(s) = {s[i] : i \in 1..Len(s)}
      /\ ToSet(Append(s, x)) = {Append(s, x)[i] : i \in 1..Len(s) + 1}
  BY <1>1 DEF ToSet
<1>3. \A i \in 1..Len(s) + 1 : i \in 1..Len(s) \/ i = Len(s) + 1
  BY <1>1
<1>4. ToSet(Append(s, x)) = ToSet(s) \cup {x}
  BY <1>1, <1>2, <1>3
<1>5. Distinct(Append(s, x))
  BY <1>1, <1>2, <1>3 DEF Distinct
<1> QED BY <1>4, <1>5

\* What a step of one run does to the hands of all.
LEMMA HandStep ==
  ASSUME TypeOK, NEW r \in Runs, NEW pc, NEW c,
         Hold(r, pc, c)
  PROVE  \A q \in Runs : /\ call'[q].pc = IF q = r THEN pc ELSE call[q].pc
                         /\ call'[q].c = IF q = r THEN c ELSE call[q].c
<1>1. call \in [Runs -> Calls] /\ call' = [call EXCEPT ![r] = [pc |-> pc, c |-> c]]
  BY Moves DEF TypeOK, Calls
<1> QED BY <1>1

LEMMA GoIsHold ==
  ASSUME TypeOK, NEW r \in Runs, NEW pc, Go(r, pc)
  PROVE  Hold(r, pc, call[r].c)
BY Moves DEF Hold

\* A run moves on with its container, and at most the containers in use and
\* the removals change.
LEMMA RunStepOwns ==
  ASSUME PoolInv, OwnerInv, NEW r \in Runs, RunStep(r)
  PROVE  OwnerInv'
<1> DEFINE Hand(pc, c) == \A q \in Runs : /\ call'[q].pc = IF q = r THEN pc ELSE call[q].pc
                                          /\ call'[q].c = IF q = r THEN c ELSE call[q].c
<1>0. /\ TypeOK /\ HasContainer /\ available \in Seq(Containers) /\ NoContainer \notin Containers
      /\ Warm \subseteq Containers /\ doomed \subseteq Containers /\ soiled \subseteq Containers
      /\ alive \subseteq made /\ made \subseteq Containers
  BY DEF PoolInv, TypeOK, Warm, ToSet
<1>g. ASSUME NEW pc, Go(r, pc) PROVE Hand(pc, call[r].c)
  BY <1>0, <1>g, GoIsHold, HandStep
<1>h. ASSUME NEW pc, NEW c, Hold(r, pc, c) PROVE Hand(pc, c)
  BY <1>0, <1>h, HandStep
<1>w. /\ available' = available => Warm' = Warm
      /\ Undrained'
  <2>1. closed' = closed /\ doomed' = doomed
    BY DEF RunStep, Checkout, Fast, TakeWarm, Grow, Wait, HealthCheckOrReplace, Create, Boot,
           Unspin, Exec, Return, CleanUp, Put, Discard
  <2> QED BY <2>1 DEF Warm, OwnerInv, Undrained
<1> USE DEF OwnerInv
<1> HIDE DEF Hand
<1>1. CASE Checkout(r)
  <2>1. PICK pc \in {"done", "fast"} : Hand(pc, call[r].c)
    BY <1>1, <1>g DEF Checkout
  <2>2. UNCHANGED <<available, alive, made, doomed, soiled, leaked>> /\ call[r].pc = "checkout"
    BY <1>1 DEF Checkout
  <2> QED BY <1>w, <2>1, <2>2 DEF Owned, EmptyHanded, Given, CleanKept, Hand
<1>t. ASSUME TakeWarm(r), call[r].pc \in {"fast", "wait"} PROVE OwnerInv'
  <2>1. Hand("health", Head(available)) /\ available # <<>> /\ available' = Tail(available)
        /\ UNCHANGED <<alive, made, doomed, soiled, leaked>>
    BY <1>t, <1>h DEF TakeWarm
  <2>2. Head(available) \in Warm /\ Warm' = Warm \ {Head(available)} /\ Distinct(available')
    BY <1>0, <2>1, ReceiveSet DEF Warm, Owned
  <2>3. call[r].c = NoContainer
    BY <1>t DEF EmptyHanded
  <2>4. Owned'
    BY <1>0, <2>1, <2>2, <2>3 DEF Owned, Hand
  <2> QED BY <1>t, <1>w, <2>1, <2>2, <2>3, <2>4 DEF Owned, EmptyHanded, Given, CleanKept, Hand
<1>2. CASE Fast(r)
  <2>1. CASE TakeWarm(r)
    BY <1>2, <1>t, <2>1 DEF Fast
  <2>2. CASE ~TakeWarm(r)
    <3>1. Hand("grow", call[r].c) /\ call[r].pc = "fast"
          /\ UNCHANGED <<available, alive, made, doomed, soiled, leaked>>
      BY <1>2, <1>g, <2>2 DEF Fast
    <3> QED BY <1>w, <3>1 DEF Owned, EmptyHanded, Given, CleanKept, Hand
  <2> QED BY <2>1, <2>2
<1>3. CASE Grow(r)
  <2>1. PICK pc \in {"done", "spin", "wait"} : Hand(pc, call[r].c)
    BY <1>3, <1>g DEF Grow
  <2>2. UNCHANGED <<available, alive, made, doomed, soiled, leaked>> /\ call[r].pc = "grow"
    BY <1>3 DEF Grow
  <2> QED BY <1>w, <2>1, <2>2 DEF Owned, EmptyHanded, Given, CleanKept, Hand
<1>4. CASE Wait(r)
  <2>1. CASE TakeWarm(r)
    BY <1>4, <1>t, <2>1 DEF Wait
  <2>2. CASE ~TakeWarm(r)
    <3>1. Hand("done", call[r].c) /\ call[r].pc = "wait"
          /\ UNCHANGED <<available, alive, made, doomed, soiled, leaked>>
      BY <1>4, <1>g, <2>2 DEF Wait
    <3> QED BY <1>w, <3>1 DEF Owned, EmptyHanded, Given, CleanKept, Hand
  <2> QED BY <2>1, <2>2
\* The run stops its container, or fails to, and lets go of it.
<1>s. ASSUME NEW pc \in {"spin", "unspin", "done"}, NEW b, Stop(call[r].c, b), Drop(r, pc),
             UNCHANGED <<available, made, doomed, soiled>>
      PROVE  OwnerInv'
  <2>1. Hand(pc, NoContainer)
    BY <1>s, <1>h DEF Drop
  <2>2. \/ alive' = alive \ {call[r].c} /\ leaked' = leaked
        \/ alive' = alive /\ leaked' = leaked \cup {call[r].c}
    BY <1>s DEF Stop
  <2>3. Owned'
    BY <1>0, <1>s, <1>w, <2>1, <2>2 DEF Owned, Hand
  <2> QED BY <1>0, <1>s, <1>w, <2>1, <2>3 DEF EmptyHanded, Given, CleanKept, Hand
<1>5. CASE HealthCheckOrReplace(r)
  <2>1. CASE Go(r, "exec") /\ UNCHANGED <<alive, leaked>>
    <3>1. Hand("exec", call[r].c) /\ call[r].pc = "health"
          /\ UNCHANGED <<available, alive, made, doomed, soiled, leaked>>
      BY <1>5, <1>g, <2>1 DEF HealthCheckOrReplace
    <3> QED BY <1>w, <3>1 DEF Owned, EmptyHanded, Given, CleanKept, Hand
  <2> QED BY <1>5, <1>s, <2>1 DEF HealthCheckOrReplace
<1>6. CASE Create(r)
  <2>0. call[r].pc = "spin" /\ call[r].c = NoContainer
        /\ UNCHANGED <<available, doomed, soiled, leaked>>
    BY <1>6 DEF Create, EmptyHanded
  <2>1. CASE Go(r, "unspin") /\ UNCHANGED <<made, alive>>
    <3>1. Hand("unspin", call[r].c)
      BY <1>g, <2>1
    <3> QED BY <1>w, <2>0, <2>1, <3>1 DEF Owned, EmptyHanded, Given, CleanKept, Hand
  <2>2. ASSUME NEW c \in Containers \ made, made' = made \cup {c}, alive' = alive \cup {c},
               Hold(r, "boot", c)
        PROVE  OwnerInv'
    <3>1. Hand("boot", c)
      BY <1>h, <2>2
    <3>2. c \notin Warm /\ c \notin doomed /\ c \notin soiled /\ \A q \in Runs : call[q].c # c
      BY <1>0, <2>2 DEF Given
    <3>3. Owned'
      BY <1>0, <1>w, <2>0, <2>2, <3>1, <3>2 DEF Owned, Hand
    <3> QED BY <1>0, <1>w, <2>0, <2>2, <3>1, <3>2, <3>3 DEF EmptyHanded, Given, CleanKept, Hand
  <2> QED BY <1>6, <2>1, <2>2 DEF Create
<1>7. CASE Boot(r)
  <2>1. CASE Go(r, "exec") /\ UNCHANGED <<alive, leaked>>
    <3>1. Hand("exec", call[r].c) /\ call[r].pc = "boot"
          /\ UNCHANGED <<available, alive, made, doomed, soiled, leaked>>
      BY <1>7, <1>g, <2>1 DEF Boot
    <3> QED BY <1>w, <3>1 DEF Owned, EmptyHanded, Given, CleanKept, Hand
  <2> QED BY <1>7, <1>s, <2>1 DEF Boot
<1>8. CASE Unspin(r)
  <2>1. Hand("done", NoContainer) /\ call[r].c = NoContainer
        /\ UNCHANGED <<available, alive, made, doomed, soiled, leaked>>
    BY <1>8, <1>h DEF Unspin, Drop, EmptyHanded
  <2> QED BY <1>w, <2>1 DEF Owned, EmptyHanded, Given, CleanKept, Hand
<1>9. CASE Exec(r)
  <2>1. PICK pc \in {"return", "stuck"} : Hand(pc, call[r].c)
    BY <1>9, <1>g DEF Exec
  <2>0. /\ call[r].pc = "exec" /\ call[r].c \in Containers
        /\ UNCHANGED <<available, alive, made, doomed, leaked>>
        /\ soiled' = soiled \cup {call[r].c}
    BY <1>0, <1>9 DEF Exec, HasContainer
  <2>2. Owned' /\ EmptyHanded'
    BY <1>w, <2>0, <2>1 DEF Owned, EmptyHanded, Hand
  <2>3. Given'
    BY <1>0, <1>w, <2>0, <2>1 DEF Given, Hand
  <2>4. CleanKept'
    BY <1>0, <1>w, <2>0, <2>1 DEF Owned, CleanKept, Hand, HasContainer
  <2> QED BY <1>w, <2>2, <2>3, <2>4
<1>10. CASE Return(r)
  <2>1. PICK pc \in {"discard", "clean"} : Hand(pc, call[r].c)
    BY <1>10, <1>g DEF Return
  <2>2. UNCHANGED <<available, alive, made, doomed, soiled, leaked>>
    BY <1>10 DEF Return
  <2> QED BY <1>w, <2>1, <2>2 DEF Owned, EmptyHanded, Given, CleanKept, Hand
<1>11. CASE CleanUp(r)
  <2>1. CASE Go(r, "put") /\ soiled' = soiled \ {call[r].c} /\ UNCHANGED <<alive, leaked>>
    <3>1. Hand("put", call[r].c) /\ UNCHANGED <<available, made, doomed>>
      BY <1>11, <1>g, <2>1 DEF CleanUp
    <3> QED BY <1>w, <2>1, <3>1 DEF Owned, EmptyHanded, Given, CleanKept, Hand
  <2> QED BY <1>11, <1>s, <2>1 DEF CleanUp
<1>12. CASE Put(r)
  <2>0. call[r].pc = "put" /\ call[r].c \in Containers
        /\ UNCHANGED <<alive, made, doomed, soiled, leaked>>
    BY <1>0, <1>12 DEF Put, HasContainer
  <2>1. CASE Go(r, "discard") /\ UNCHANGED available
    <3>1. Hand("discard", call[r].c)
      BY <1>g, <2>1
    <3> QED BY <1>w, <2>0, <2>1, <3>1 DEF Owned, EmptyHanded, Given, CleanKept, Hand
  <2>2. CASE available' = Append(available, call[r].c) /\ Drop(r, "done")
    <3>1. Hand("done", NoContainer)
      BY <1>h, <2>2 DEF Drop
    <3>2. Warm' = Warm \cup {call[r].c} /\ Distinct(available')
      BY <1>0, <2>0, <2>2, SendSet DEF Warm, Owned
    <3>3. Owned'
      BY <1>0, <2>0, <3>1, <3>2 DEF Owned, Hand
    <3> QED BY <1>0, <1>w, <2>0, <3>1, <3>2, <3>3 DEF EmptyHanded, Given, CleanKept, Hand
  <2> QED BY <1>12, <2>1, <2>2 DEF Put
<1>13. CASE Discard(r)
  BY <1>13, <1>s DEF Discard
<1> QED BY <1>1, <1>2, <1>3, <1>4, <1>5, <1>6, <1>7, <1>8, <1>9, <1>10, <1>11, <1>12,
           <1>13 DEF RunStep

\* Shutdown takes the channel over, and stops what it took one by one.
LEMMA NextOwns == PoolInv /\ OwnerInv /\ [Next]_vars => OwnerInv'
<1> SUFFICES ASSUME PoolInv, OwnerInv, [Next]_vars
             PROVE  OwnerInv'
  OBVIOUS
<1> USE DEF OwnerInv
<1>0. /\ available \in Seq(Containers) /\ NoContainer \notin Containers
      /\ Warm \subseteq Containers /\ doomed \subseteq Containers
  BY DEF PoolInv, TypeOK, Warm, ToSet
<1>1. CASE Shutdown
  <2>1. available' = <<>> /\ doomed' = Warm /\ UNCHANGED <<call, alive, made, soiled, leaked>>
    BY <1>1 DEF Shutdown, Warm
  <2>2. Warm' = {} /\ Distinct(available')
    BY <2>1 DEF Warm, ToSet, Distinct
  <2>3. doomed = {} /\ closed'
    BY <1>1 DEF Shutdown, Undrained
  <2> QED BY <2>1, <2>2, <2>3 DEF Owned, EmptyHanded, Given, CleanKept, Undrained
<1>2. ASSUME NEW c \in Containers, StopDrained(c)
      PROVE  OwnerInv'
  <2>1. doomed' = doomed \ {c} /\ UNCHANGED <<closed, available, call, made, soiled>>
    BY <1>2 DEF StopDrained
  <2>2. \/ alive' = alive \ {c} /\ leaked' = leaked
        \/ alive' = alive /\ leaked' = leaked \cup {c}
    BY <1>2 DEF StopDrained, Stop
  <2>3. Warm' = Warm
    BY <2>1 DEF Warm
  <2> QED BY <2>1, <2>2, <2>3 DEF Owned, EmptyHanded, Given, CleanKept, Undrained
<1>3. ASSUME UNCHANGED <<closed, available, call, alive, made, doomed, soiled, leaked>>
      PROVE  OwnerInv'
  <2>1. Warm' = Warm
    BY <1>3 DEF Warm
  <2> QED BY <1>3, <2>1 DEF Owned, EmptyHanded, Given, CleanKept, Undrained
<1>4. ASSUME NEW r \in Runs, Cancel(r)
      PROVE  OwnerInv'
  BY <1>3, <1>4 DEF Cancel
<1>5. CASE UNCHANGED vars
  BY <1>3, <1>5 DEF vars
<1> QED BY <1>1, <1>2, <1>4, <1>5, RunStepOwns DEF Next

LEMMA InitOwns == Init => OwnerInv
<1> SUFFICES ASSUME Init
             PROVE  OwnerInv
  OBVIOUS
<1>1. /\ available = <<>> /\ \A r \in Runs : call[r].pc = "checkout" /\ call[r].c = NoContainer
      /\ alive = {} /\ made = {} /\ doomed = {} /\ soiled = {} /\ leaked = {}
  BY DEF Init
<1>2. Warm = {} /\ Distinct(available)
  BY <1>1 DEF Warm, ToSet, Distinct
<1> QED BY <1>1, <1>2 DEF OwnerInv, Owned, EmptyHanded, Given, CleanKept, Undrained

\* No container of the pool is shared and none is forgotten (Checkout, Return,
\* healthCheckOrReplace, newContainer, Shutdown), for any number of runs and any
\* troubles.
THEOREM ContainersOwned == Spec => []OneOwner
<1>1. PoolInv /\ OwnerInv => OneOwner
  <2> SUFFICES ASSUME PoolInv, OwnerInv
               PROVE  SingleHolder /\ Tracked
    BY DEF OneOwner
  <2>1. SingleHolder
    BY DEF OwnerInv, Owned, SingleHolder, Distinct, Warm
  <2>2. Tracked
    BY DEF OwnerInv, Owned, Tracked, Warm
  <2> QED BY <2>1, <2>2
<1> QED BY InitKeeps, NextKeeps, InitOwns, NextOwns, <1>1, PTL DEF Spec

\* No tool starts in a container that another tool used and nobody cleaned:
\* Return cleans before it sends, and a container that cannot be cleaned does
\* not come back.
THEOREM HandoverClean == Spec => []CleanHandover
<1>1. OwnerInv => CleanHandover
  BY DEF OwnerInv, CleanKept, CleanHandover
<1> QED BY InitKeeps, NextKeeps, InitOwns, NextOwns, <1>1, PTL DEF Spec

===============================================================================
