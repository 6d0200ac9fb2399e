---------------------------- MODULE TickLockProofs ----------------------------
(* The tick lock, for every set of hosts, processes and loops and every     *)
(* number of lost calls.                                                    *)
EXTENDS TickLock, TLAPS

\* A pid belongs to one living process, and the record names one that ran.
Alive ==
    /\ \A p, q \in Procs :
         life[p] = "alive" /\ life[q] = "alive" /\ SamePid(p, q) => p = q
    /\ record # None => life[record] # "new"

\* A loop in a take, a tick or a release runs, is in its process's set, and is
\* the only loop of its process there.
Entered ==
    \A s \in Sessions : pc[s] # "idle" =>
        /\ life[Proc[s]] = "alive" /\ Proc[s] \in ticking
        /\ \A t \in Sessions : pc[t] # "idle" /\ Proc[t] = Proc[s] => t = s

\* What a loop is about to replace is the record of a dead process or its own.
Swapping ==
    \A s \in Sessions : pc[s] = "swap" =>
        /\ seen[s] # None
        /\ seen[s] = Proc[s] \/ life[seen[s]] = "dead"

IInv == TypeOK /\ Alive /\ Entered /\ Swapping /\ TickRecorded

USE TickAssumption

\* No process runs and nobody is in.
LEMMA InitIInv == Init => IInv
BY DEF Init, IInv, TypeOK, Alive, Entered, Swapping, TickRecorded, Running, SamePid

\* Processes come and go.
LEMMA SpawnIInv ==
    ASSUME IInv, NEW p \in Procs, Spawn(p)
    PROVE  IInv'
BY DEF IInv, TypeOK, Alive, Entered, Swapping, TickRecorded, Running, Spawn, SamePid

\* A process that dies takes its loops out, and stays dead.
LEMMA DieIInv ==
    ASSUME IInv, NEW p \in Procs, Die(p)
    PROVE  IInv'
<1>1. TypeOK' BY DEF IInv, TypeOK, Die
<1>2. Alive' BY DEF IInv, TypeOK, Alive, Die, SamePid
<1>3. Entered' BY DEF IInv, TypeOK, Entered, Die
<1>4. Swapping' BY DEF IInv, TypeOK, Swapping, Die
<1>5. TickRecorded' BY DEF IInv, TypeOK, TickRecorded, Running, Die
<1> QED BY <1>1, <1>2, <1>3, <1>4, <1>5 DEF IInv

\* A loop that returns leaves the others as they were.
LEMMA OutIInv ==
    ASSUME IInv, NEW s \in Sessions, pc[s] # "idle", Out(s),
           record' \in Procs \cup {None}, record' # None => life[record'] # "new",
           struck = 0 => \A t \in Running : t # s => record' = record,
           UNCHANGED <<life, struck>>, late' \in Nat, lost' \in Nat
    PROVE  IInv'
<1>1. TypeOK' BY DEF IInv, TypeOK, Out
<1>2. Alive' BY DEF IInv, TypeOK, Alive, SamePid
<1>3. Entered' BY DEF IInv, TypeOK, Entered, Out
<1>4. Swapping' BY DEF IInv, TypeOK, Swapping, Out
<1>5. TickRecorded' BY DEF IInv, TypeOK, TickRecorded, Running, Out
<1> QED BY <1>1, <1>2, <1>3, <1>4, <1>5 DEF IInv

\* A loop enters its process's set alone.
LEMMA EnterIInv ==
    ASSUME IInv, NEW s \in Sessions, Enter(s)
    PROVE  IInv'
<1>1. TypeOK' BY DEF IInv, TypeOK, Enter
<1>2. Alive' BY DEF IInv, TypeOK, Alive, Enter, SamePid
<1>3. Entered' BY DEF IInv, TypeOK, Entered, Enter
<1>4. Swapping' BY DEF IInv, TypeOK, Swapping, Enter
<1>5. TickRecorded' BY DEF IInv, TypeOK, TickRecorded, Running, Enter
<1> QED BY <1>1, <1>2, <1>3, <1>4, <1>5 DEF IInv

\* A record is created where there is none, so no other tick runs.
LEMMA CreateIInv ==
    ASSUME IInv, NEW s \in Sessions, Create(s)
    PROVE  IInv'
<1>1. TypeOK' BY DEF IInv, TypeOK, Create
<1>2. Alive' BY DEF IInv, TypeOK, Alive, Entered, Create, SamePid
<1>3. Entered' BY DEF IInv, TypeOK, Entered, Create
<1>4. Swapping' BY DEF IInv, TypeOK, Swapping, Create
<1>5. TickRecorded' BY DEF IInv, TypeOK, TickRecorded, Running, Create
<1> QED BY <1>1, <1>2, <1>3, <1>4, <1>5 DEF IInv

\* A record this process may replace names itself or a process that is dead.
LEMMA IdleOwner ==
    ASSUME IInv, NEW s \in Sessions, pc[s] # "idle", record # None,
           Idle(record, Proc[s])
    PROVE  record = Proc[s] \/ life[record] = "dead"
BY DEF IInv, TypeOK, Alive, Entered, Idle, SamePid

\* A loop goes on to replace only a record whose process is dead or its own.
LEMMA ReadIInv ==
    ASSUME IInv, NEW s \in Sessions, Read(s)
    PROVE  IInv'
<1>1. CASE record # None /\ Idle(record, Proc[s])
  <2>1. TypeOK' BY <1>1 DEF IInv, TypeOK, Read
  <2>2. Alive' BY <1>1 DEF IInv, TypeOK, Alive, Read, SamePid
  <2>3. Entered' BY <1>1 DEF IInv, TypeOK, Entered, Read
  <2>4. Swapping' BY <1>1, IdleOwner DEF IInv, TypeOK, Swapping, Read
  <2>5. TickRecorded' BY <1>1 DEF IInv, TypeOK, TickRecorded, Running, Read
  <2> QED BY <2>1, <2>2, <2>3, <2>4, <2>5 DEF IInv
<1>2. CASE ~(record # None /\ Idle(record, Proc[s]))
  BY <1>2, OutIInv DEF IInv, TypeOK, Alive, Read
<1> QED BY <1>1, <1>2

\* The record a loop replaces is no other running tick's.
LEMMA NobodyRuns ==
    ASSUME IInv, NEW s \in Sessions, pc[s] \in {"create", "swap"}, struck = 0,
           record = IF pc[s] = "create" THEN None ELSE seen[s],
           NEW t \in Running
    PROVE  FALSE
BY DEF IInv, TypeOK, Entered, Swapping, TickRecorded, Running

\* A swap that wins replaces the record of no running tick.
LEMMA SwapIInv ==
    ASSUME IInv, NEW s \in Sessions, Swap(s)
    PROVE  IInv'
<1>1. CASE record = seen[s]
  <2>1. TypeOK' BY <1>1 DEF IInv, TypeOK, Swap
  <2>2. Alive' BY <1>1 DEF IInv, TypeOK, Alive, Entered, Swap, SamePid
  <2>3. Entered' BY <1>1 DEF IInv, TypeOK, Entered, Swap
  <2>4. Swapping' BY <1>1 DEF IInv, TypeOK, Swapping, Swap
  <2>5. TickRecorded' BY <1>1, NobodyRuns DEF IInv, TypeOK, TickRecorded, Running, Swap
  <2> QED BY <2>1, <2>2, <2>3, <2>4, <2>5 DEF IInv
<1>2. CASE record # seen[s]
  BY <1>2, OutIInv DEF IInv, TypeOK, Alive, Swap
<1> QED BY <1>1, <1>2

\* A take whose answer is lost leaves the record or replaces an idle one.
LEMMA LoseTakeIInv ==
    ASSUME IInv, NEW s \in Sessions, LoseTake(s)
    PROVE  IInv'
<1>1. record' \in Procs \cup {None} /\ (record' # None => life[record'] # "new")
  BY DEF IInv, TypeOK, Alive, Entered, LoseTake
<1>2. struck = 0 => \A t \in Running : t # s => record' = record
  BY NobodyRuns DEF LoseTake
<1> QED BY <1>1, <1>2, OutIInv DEF IInv, TypeOK, LoseTake

\* The delete at a tick's end removes the tick's own record.
LEMMA DeleteIInv ==
    ASSUME IInv, NEW s \in Sessions, Delete(s) \/ LoseDelete(s)
    PROVE  IInv'
<1>1. TypeOK' BY DEF IInv, TypeOK, Delete, LoseDelete
<1>2. Alive' BY DEF IInv, TypeOK, Alive, Delete, LoseDelete, SamePid
<1>3. Entered' BY DEF IInv, TypeOK, Entered, Delete, LoseDelete
<1>4. Swapping' BY DEF IInv, TypeOK, Swapping, Delete, LoseDelete
<1>5. TickRecorded'
  BY DEF IInv, TypeOK, Entered, TickRecorded, Running, Delete, LoseDelete
<1> QED BY <1>1, <1>2, <1>3, <1>4, <1>5 DEF IInv

\* A loop that leaves was not ticking any more.
LEMMA LeaveIInv ==
    ASSUME IInv, NEW s \in Sessions, Leave(s)
    PROVE  IInv'
BY OutIInv DEF IInv, TypeOK, Alive, Leave

\* A delete that lands late is struck from the statement; an operator removes
\* a record while nothing ticks.
LEMMA RemovalIInv ==
    ASSUME IInv, Strike \/ Remove
    PROVE  IInv'
<1>1. TypeOK' BY DEF IInv, TypeOK, Strike, Remove
<1>2. Alive' BY DEF IInv, TypeOK, Alive, Strike, Remove, SamePid
<1>3. Entered' BY DEF IInv, TypeOK, Entered, Strike, Remove
<1>4. Swapping' BY DEF IInv, TypeOK, Swapping, Strike, Remove
<1>5. TickRecorded' BY DEF IInv, TypeOK, TickRecorded, Running, Strike, Remove
<1> QED BY <1>1, <1>2, <1>3, <1>4, <1>5 DEF IInv

\* Every step preserves the invariant.
LEMMA StepIInv == IInv /\ [Next]_vars => IInv'
<1> SUFFICES ASSUME IInv, [Next]_vars PROVE IInv' OBVIOUS
<1>1. CASE UNCHANGED vars
  BY <1>1 DEF IInv, TypeOK, Alive, Entered, Swapping, TickRecorded, Running, vars, SamePid
<1>2. CASE \E p \in Procs : Spawn(p) \/ Die(p) BY <1>2, SpawnIInv, DieIInv
<1>3. CASE \E s \in Sessions : Step(s) \/ LoseTake(s) \/ LoseDelete(s)
  BY <1>3, EnterIInv, CreateIInv, ReadIInv, SwapIInv, DeleteIInv, LeaveIInv,
     LoseTakeIInv DEF Step
<1>4. CASE Strike \/ Remove BY <1>4, RemovalIInv
<1> QED BY <1>1, <1>2, <1>3, <1>4 DEF Next

\* The tick lock keeps its inductive invariant.
LEMMA Invariance == Spec => []IInv
BY InitIInv, StepIInv, PTL DEF Spec

-----------------------------------------------------------------------------
\* Every reachable state of the tick lock has the types TypeOK states.
THEOREM TypeCorrect == Spec => []TypeOK
<1>1. IInv => TypeOK BY DEF IInv
<1> QED BY <1>1, Invariance, PTL

\* A running tick's process is named by the record (lock.rs take), until a
\* delete its sender gave up removes it.
THEOREM RecordKept == Spec => []TickRecorded
<1>1. IInv => TickRecorded BY DEF IInv
<1> QED BY <1>1, Invariance, PTL

\* Two running ticks would share record, process and hence place in its set.
LEMMA IInvOneTick == IInv => OneTick
BY DEF IInv, TypeOK, Entered, TickRecorded, OneTick, Running

\* Two ticks never run over one store at once (run_tick holds the TickLock
\* while its passes run), with the same exception.
THEOREM MutualExclusion == Spec => []OneTick
BY IInvOneTick, Invariance, PTL

-----------------------------------------------------------------------------
\* The refinement

Holder == IF struck = 0 /\ Running # {} THEN CHOOSE s \in Running : TRUE ELSE None

\* The one running tick is the holder of the abstract lock,
LEMMA HolderRuns ==
    ASSUME OneTick, struck = 0, NEW s \in Running
    PROVE  Holder = s
BY DEF OneTick, Holder

\* also after a step.
LEMMA HolderRunsNext ==
    ASSUME OneTick', struck' = 0, NEW s \in Running'
    PROVE  Holder' = s
BY DEF OneTick, Holder

\* Nobody holds the lock at first.
LEMMA HolderInit == Init => Lock!Init
BY DEF Init, Lock!Init, Running

\* A step changes the holder only by a take or a leave of the abstract lock.
LEMMA HolderStep == IInv /\ IInv' /\ [Next]_vars => Lock!Next \/ Holder' = Holder
<1> SUFFICES ASSUME IInv, IInv', [Next]_vars, Holder' # Holder PROVE Lock!Next
  OBVIOUS
<1>0. OneTick /\ OneTick' BY IInvOneTick, PTL
<1>1. CASE Holder = None
  <2>1. struck' = 0 /\ Running' # {} BY <1>1 DEF Holder
  <2>2. PICK s \in Running' : TRUE BY <2>1
  <2>3. s \in Sessions BY <2>2 DEF Running
  <2>4. Holder' = s BY <2>1, <2>2, <1>0, HolderRunsNext
  <2> QED BY <1>1, <2>3, <2>4 DEF Lock!Next, Lock!Take, Holder
<1>2. CASE Holder # None
  <2>1. struck = 0 /\ Running # {} BY <1>2 DEF Holder
  <2>2. PICK s \in Running : TRUE BY <2>1
  <2>3. s \in Sessions BY <2>2 DEF Running
  <2>4. Holder = s BY <2>1, <2>2, <1>0, HolderRuns
  <2>5. Holder' = None \/ s \notin Running'
    BY <2>4, <1>0, HolderRunsNext DEF Holder
  <2>6. Holder' = None
    <3> SUFFICES ASSUME struck' = 0, s \notin Running', NEW t \in Running' PROVE FALSE
      BY <2>5 DEF Holder
    <3>1. t \in Sessions /\ pc'[t] = "tick" /\ t # s BY DEF Running
    <3>2. struck' = 0 /\ record' = Proc[t] BY <3>1 DEF IInv, TickRecorded, Running
    <3>3. record = Proc[s] /\ pc[s] = "tick" BY <2>1, <2>2 DEF IInv, TickRecorded, Running
    <3>4. pc[t] # "tick" BY <2>1, <2>2, <1>0, <3>1 DEF OneTick, Running
    <3>5. PICK u \in Sessions : Create(u) \/ Swap(u)
      BY <3>1, <3>4, TypeOK DEF Next, Step, vars, Spawn, Die, Enter, Create, Read,
         Swap, Delete, Leave, LoseTake, LoseDelete, Strike, Remove, Out, IInv, TypeOK
    <3>6. pc'[s] = pc[s] BY <3>3, <3>5, <2>3 DEF Create, Swap, Out, IInv, TypeOK
    <3> QED BY <3>3, <3>6, <2>3 DEF Running
  <2> QED BY <2>3, <2>4, <2>6 DEF Lock!Next, Lock!Leave, Holder
<1> QED BY <1>1, <1>2

\* The tick lock implements LeaseLock, as the provider lease does: a tick
\* starts only while none runs, for every number of hosts, processes and loops.
THEOREM Refinement == Spec => LockSpec
<1>1. IInv /\ IInv' /\ [Next]_vars
        => [Lock!Next]_(IF struck = 0 /\ Running # {} THEN CHOOSE s \in Running : TRUE ELSE None)
  BY HolderStep DEF Holder
<1> QED BY <1>1, HolderInit, Invariance, PTL DEF Spec, LockSpec, Lock!Spec
=============================================================================
