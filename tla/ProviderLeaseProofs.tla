------------------------- MODULE ProviderLeaseProofs -------------------------
(***************************************************************************)
(* Proofs about ProviderLease for any number of invocations, processes,    *)
(* hosts and attempts.                                                     *)
(***************************************************************************)
EXTENDS ProviderLease, TLAPS

\* An invocation is in ACTIVE_OWNERS exactly from its begin to its return,
\* and its process is then alive; two live processes of a host differ in pid.
Running ==
    /\ \A s \in Sessions : s \in active <=> pc[s] \notin {"new", "ended"}
    /\ \A s \in active : life[Proc[s]] = "alive"
    /\ \A p, q \in Procs :
         life[p] = "alive" /\ life[q] = "alive" /\ SamePid(p, q) => p = q

\* The stored lease names the process of its owner, or nobody; its owner has
\* begun, so it never begins again; its token is one of those minted.
Stored ==
    lease # None =>
        /\ lease.proc \in {None, Proc[lease.owner]}
        /\ pc[lease.owner] # "new"
        /\ lease.token <= tokens

\* Whoever believes it owns the lease is the owner the lease names, and its
\* copy, or the version its copy is derived from, is the stored document.
Believed(s) ==
    /\ s \in Owning => lease # None /\ lease.owner = s /\ lease.proc = Proc[s]
    /\ pc[s] \in {"confirm", "own"} => mem[s] = lease
    /\ pc[s] = "own" => ver[s] = lease
    /\ pc[s] \in {"save", "release"} =>
         /\ ver[s] = lease /\ mem[s] # None
         /\ mem[s].owner = s /\ mem[s].token = lease.token
         /\ mem[s].state \in {lease.state} \cup Allowed(lease.state)
    /\ pc[s] = "save" => mem[s].proc = Proc[s]
    /\ pc[s] = "release" => mem[s].proc = None

\* A takeover under way replaces a document whose owner is gone for good.
Taking(s) ==
    pc[s] = "take" =>
        /\ mem[s] # None /\ ver[s] # None
        /\ mem[s].owner = s /\ mem[s].proc = Proc[s]
        /\ mem[s].state = ver[s].state
        /\ mem[s].token > ver[s].token /\ mem[s].token <= tokens
        /\ pc[ver[s].owner] # "new"
        /\ ver[s].proc = None \/ ver[s].owner \notin active

IInv ==
    /\ TypeOK /\ Running /\ Stored
    /\ \A s \in Sessions : Believed(s) /\ Taking(s)

-----------------------------------------------------------------------------
\* What a step of others may do around invocation t: mint tokens, begin no
\* invocation twice, bring back none that returned.
Around(t) ==
    /\ pc'[t] = pc[t] /\ mem'[t] = mem[t] /\ ver'[t] = ver[t]
    /\ tokens' \in Nat /\ tokens' >= tokens
    /\ \A s \in Sessions :
         pc[s] # "new" => pc'[s] # "new" /\ (s \notin active => s \notin active')

\* Such a step leaves a takeover under way as it was.
LEMMA TakingKept ==
    ASSUME IInv, NEW t \in Sessions, Around(t) PROVE Taking(t)'
<1> SUFFICES ASSUME pc[t] = "take" PROVE Taking(t)'
  BY DEF Taking, Around
<1>1. Taking(t) /\ ver[t] \in Lease /\ mem[t] \in Lease
  BY DEF IInv, TypeOK, Taking
<1>2. ver[t].owner \in Sessions /\ mem[t].token \in Nat /\ tokens \in Nat
  BY <1>1 DEF IInv, TypeOK, Lease
<1>3. pc'[ver[t].owner] # "new" /\ (ver[t].owner \notin active => ver[t].owner \notin active')
  BY <1>1, <1>2 DEF Taking, Around
<1> QED
  BY <1>1, <1>2, <1>3 DEF Taking, Around

\* If it leaves the stored lease alone too, t's beliefs stay true.
LEMMA Undisturbed ==
    ASSUME IInv, NEW t \in Sessions, Around(t), lease' = lease
    PROVE  Believed(t)' /\ Taking(t)'
<1>1. Believed(t)'
  BY DEF IInv, Believed, Owning, Around
<1> QED
  BY <1>1, TakingKept

\* owner_expired is never true of the lease of an invocation that runs,
\* whichever process of whichever host asks (record/mod.rs owner_expired).
LEMMA ExpiredIsGone ==
    ASSUME IInv, NEW s \in active, lease # None, Expired(lease, Proc[s])
    PROVE  lease.proc = None \/ lease.owner \notin active
<1> SUFFICES ASSUME lease.proc # None, lease.owner \in active PROVE FALSE
  OBVIOUS
<1>1. /\ s \in Sessions /\ lease.owner \in Sessions
      /\ lease.proc = Proc[lease.owner]
  BY DEF IInv, TypeOK, Stored, Lease
<1>2. /\ Proc[s] \in Procs /\ lease.proc \in Procs
      /\ life[Proc[s]] = "alive" /\ life[lease.proc] = "alive"
  BY <1>1, LeaseAssumption DEF IInv, Running
<1>3. CASE Pid[lease.proc] = Pid[Proc[s]]
  <2>1. SamePid(lease.proc, Proc[s])
    BY <1>3 DEF Expired, SamePid
  <2>2. lease.proc = Proc[s]
    BY <1>2, <2>1 DEF IInv, Running
  <2> QED
    BY <1>1, <1>3, <2>2 DEF Expired
<1>4. CASE Pid[lease.proc] # Pid[Proc[s]]
  BY <1>2, <1>4 DEF Expired, SamePid
<1> QED
  BY <1>3, <1>4

-----------------------------------------------------------------------------
\* The initial state satisfies IInv: no lease, nothing running.
LEMMA InitOK == Init => IInv
BY LeaseAssumption DEF Init, IInv, TypeOK, Running, Stored, Believed, Taking, Owning, PCs

\* Spawn and Die: the processes.
LEMMA SpawnStep == ASSUME IInv, NEW p \in Procs, Spawn(p) PROVE IInv'
<1>1. TypeOK'
  BY DEF IInv, Spawn, TypeOK
<1>2. Running'
  <2>1. \A s \in active' : life'[Proc[s]] = "alive"
    BY LeaseAssumption DEF IInv, Spawn, TypeOK, Running
  <2>2. ASSUME NEW q \in Procs, NEW r \in Procs, life'[q] = "alive",
               life'[r] = "alive", SamePid(q, r)
        PROVE  q = r
    BY <2>2 DEF IInv, Spawn, TypeOK, Running, SamePid
  <2>3. \A s \in Sessions : s \in active' <=> pc'[s] \notin {"new", "ended"}
    BY DEF IInv, Spawn, Running
  <2> QED
    BY <2>1, <2>2, <2>3 DEF Running, SamePid
<1>3. Stored'
  BY DEF IInv, Spawn, Stored
<1>4. ASSUME NEW t \in Sessions PROVE Believed(t)' /\ Taking(t)'
  BY Undisturbed DEF IInv, Spawn, TypeOK, Around
<1> QED
  BY <1>1, <1>2, <1>3, <1>4 DEF IInv

\* Die: the invocations of p end where they are, nobody else notices.
LEMMA DieStep == ASSUME IInv, NEW p \in Procs, Die(p) PROVE IInv'
<1>1. TypeOK'
  BY DEF IInv, Die, TypeOK, PCs
<1>2. Running'
  <2>1. \A s \in active' : life'[Proc[s]] = "alive"
    BY LeaseAssumption DEF IInv, Die, TypeOK, Running
  <2>2. \A s \in Sessions : s \in active' <=> pc'[s] \notin {"new", "ended"}
    BY DEF IInv, Die, TypeOK, Running
  <2>3. ASSUME NEW q \in Procs, NEW r \in Procs, life'[q] = "alive",
               life'[r] = "alive", SamePid(q, r)
        PROVE  q = r
    BY <2>3 DEF IInv, Die, TypeOK, Running
  <2> QED
    BY <2>1, <2>2, <2>3 DEF Running, SamePid
<1>3. Stored'
  BY DEF IInv, Die, Stored, TypeOK, Lease
<1>4. ASSUME NEW t \in Sessions PROVE Believed(t)' /\ Taking(t)'
  <2>1. CASE Proc[t] # p
    BY <2>1, Undisturbed DEF IInv, Die, TypeOK, Around
  <2>2. CASE Proc[t] = p
    <3>1. pc'[t] \in {"new", "ended"}
      BY <2>2 DEF Die
    <3> QED
      BY <3>1 DEF Believed, Taking, Owning
  <2> QED
    BY <2>1, <2>2
<1> QED
  BY <1>1, <1>2, <1>3, <1>4 DEF IInv

-----------------------------------------------------------------------------
\* Steps of one invocation s: every other one sees a step Around it.
LEMMA GoAround ==
    ASSUME IInv, NEW s \in Sessions, NEW t \in Sessions, t # s,
           NEW p, NEW m, NEW v, Go(s, p, m, v), p # "new",
           tokens' \in Nat, tokens' >= tokens,
           active' \subseteq active \/ (pc[s] = "new" /\ active' = active \cup {s})
    PROVE  Around(t)
BY DEF IInv, TypeOK, Go, Around

\* Processes untouched and invocation s going on, Running is kept.
LEMMA RunningGo ==
    ASSUME IInv, NEW s \in active, NEW p, NEW m, NEW v, Go(s, p, m, v),
           p \notin {"new", "ended"}, UNCHANGED <<life, active>>
    PROVE  Running'
BY DEF IInv, TypeOK, Running, Go, SamePid

\* OwnerInvocation::begin puts s, and nobody else, in the running set.
LEMMA BeginStep == ASSUME IInv, NEW s \in Sessions, Begin(s) PROVE IInv'
<1>1. TypeOK'
  BY DEF IInv, Begin, Go, TypeOK, PCs
<1>2. Running'
  BY DEF IInv, Begin, Go, TypeOK, Running, SamePid
<1>3. Stored'
  BY DEF IInv, Begin, Go, Stored, TypeOK, Lease
<1>4. Believed(s)' /\ Taking(s)'
  BY DEF IInv, TypeOK, Begin, Go, Believed, Taking, Owning
<1>5. ASSUME NEW t \in Sessions, t # s PROVE Believed(t)' /\ Taking(t)'
  <2>1. Around(t)
    BY <1>1, <1>5, GoAround DEF IInv, Begin, TypeOK
  <2> QED
    BY <2>1, Undisturbed DEF Begin
<1> QED
  BY <1>1, <1>2, <1>3, <1>4, <1>5 DEF IInv

\* OwnerInvocation::drop: what s leaves behind names an owner that is gone.
LEMMA EndStep == ASSUME IInv, NEW s \in Sessions, End(s) PROVE IInv'
<1>1. TypeOK'
  BY DEF IInv, End, Go, TypeOK, PCs
<1>2. Running'
  BY DEF IInv, End, Go, TypeOK, Running, SamePid
<1>3. Stored'
  BY DEF IInv, End, Go, Stored, TypeOK, Lease
<1>4. Believed(s)' /\ Taking(s)'
  BY DEF IInv, TypeOK, End, Go, Believed, Taking, Owning
<1>5. ASSUME NEW t \in Sessions, t # s PROVE Believed(t)' /\ Taking(t)'
  <2>1. Around(t)
    BY <1>1, <1>5, GoAround DEF IInv, End, TypeOK
  <2> QED
    BY <2>1, Undisturbed DEF End
<1> QED
  BY <1>1, <1>2, <1>3, <1>4, <1>5 DEF IInv

\* A step of a running invocation that leaves the store alone keeps IInv once
\* its own memory is right.
LEMMA LocalStep ==
    ASSUME IInv, NEW s \in active, NEW p, NEW m, NEW v, Go(s, p, m, v),
           p \notin {"new", "ended"}, TypeOK',
           UNCHANGED <<lease, life, active>>, tokens' >= tokens,
           Believed(s)', Taking(s)'
    PROVE  IInv'
<1>1. s \in Sessions /\ tokens' \in Nat
  BY DEF IInv, TypeOK
<1>2. Running'
  BY RunningGo
<1>3. Stored'
  BY <1>1 DEF IInv, Go, Stored, TypeOK, Lease
<1>4. ASSUME NEW t \in Sessions, t # s PROVE Believed(t)' /\ Taking(t)'
  <2>1. Around(t)
    BY <1>1, <1>4, GoAround
  <2> QED
    BY <2>1, Undisturbed
<1> QED
  BY <1>2, <1>3, <1>4 DEF IInv

\* Every invocation past its begin and before its end is active.
LEMMA BusyIsActive ==
    ASSUME IInv, NEW s \in Sessions, pc[s] \notin {"new", "ended"} PROVE s \in active
BY DEF IInv, Running

\* acquire begins: nothing is stored yet.
LEMMA StartAcquireStep == ASSUME IInv, NEW s \in Sessions, StartAcquire(s) PROVE IInv'
<1>1. TypeOK'
  BY DEF IInv, StartAcquire, Go, TypeOK, PCs
<1>2. Believed(s)' /\ Taking(s)'
  BY DEF IInv, TypeOK, StartAcquire, Go, Believed, Taking, Owning
<1>3. s \in active
  BY BusyIsActive DEF StartAcquire
<1> QED
  BY <1>1, <1>2, <1>3, LocalStep DEF StartAcquire, IInv, TypeOK

\* create's read back: s finds the lease it stored.
LEMMA ConfirmStep == ASSUME IInv, NEW s \in Sessions, Confirm(s) PROVE IInv'
<1>1. TypeOK'
  BY DEF IInv, Confirm, Go, TypeOK, PCs
<1>2. s \in active
  BY BusyIsActive DEF Confirm
<1>3. lease = mem[s] /\ Go(s, "own", lease, lease)
  BY DEF IInv, Believed, Confirm
<1>4. Believed(s)' /\ Taking(s)'
  BY <1>3 DEF IInv, TypeOK, Confirm, Go, Believed, Taking, Owning
<1> QED
  BY <1>1, <1>2, <1>3, <1>4, LocalStep DEF Confirm, IInv, TypeOK

\* acquire's takeover decision is made on a lease whose owner is gone.
LEMMA LoadStep == ASSUME IInv, NEW s \in Sessions, Load(s) PROVE IInv'
<1>1. s \in active
  BY BusyIsActive DEF Load
<1>2. CASE lease # None /\ Expired(lease, Proc[s])
  <2> DEFINE m == [owner |-> s, token |-> tokens + 1, proc |-> Proc[s],
                   state |-> lease.state, stamp |-> lease.stamp]
  <2>1. Go(s, "take", m, lease) /\ tokens' = tokens + 1 /\ UNCHANGED <<lease, life, active, tries>>
    BY <1>2 DEF Load
  <2>2. lease \in Lease /\ m \in Lease /\ m # None /\ m.owner = s
        /\ m.proc = Proc[s] /\ m.token = tokens + 1 /\ m.state = lease.state
    <3>1. lease \in Lease /\ Proc[s] \in Procs
      BY <1>2, LeaseAssumption DEF IInv, TypeOK
    <3>2. m \in Lease
      BY <3>1 DEF IInv, TypeOK, Lease
    <3> QED
      BY <3>1, <3>2, LeaseAssumption
  <2>3. TypeOK'
    BY <2>1, <2>2 DEF IInv, Go, TypeOK, PCs
  <2>4. lease.token < tokens + 1 /\ pc'[lease.owner] # "new"
    BY <1>2, <2>1, <2>2 DEF IInv, TypeOK, Stored, Lease, Go
  <2>5. lease.proc = None \/ lease.owner \notin active
    BY <1>1, <1>2, ExpiredIsGone
  <2>6. Believed(s)'
    BY <2>1 DEF IInv, TypeOK, Go, Believed, Owning
  <2>7. pc'[s] = "take" /\ mem'[s] = m /\ ver'[s] = lease
    BY <2>1 DEF IInv, TypeOK, Go
  <2>8. Taking(s)'
    BY <1>2, <2>1, <2>2, <2>4, <2>5, <2>7 DEF Taking, IInv, TypeOK
  <2> QED
    BY <1>1, <2>1, <2>3, <2>6, <2>8, LocalStep DEF IInv, TypeOK
<1>3. CASE ~(lease # None /\ Expired(lease, Proc[s]))
  <2>1. Go(s, "begun", None, None) /\ UNCHANGED <<lease, life, active, tries, tokens>>
    BY <1>3 DEF Load
  <2>2. TypeOK' /\ Believed(s)' /\ Taking(s)'
    BY <2>1 DEF IInv, Go, TypeOK, PCs, Believed, Taking, Owning
  <2> QED
    BY <1>1, <2>1, <2>2, LocalStep DEF IInv, TypeOK
<1> QED
  BY <1>2, <1>3

\* create stores a lease only where there is none, so nobody believes in one.
LEMMA CreateStep == ASSUME IInv, NEW s \in Sessions, Create(s) PROVE IInv'
<1>1. s \in active
  BY BusyIsActive DEF Create
<1>2. CASE lease = None
  <2> DEFINE m == [owner |-> s, token |-> tokens + 1, proc |-> Proc[s],
                   state |-> "allocating", stamp |-> 0]
  <2>1. /\ lease' = m /\ tokens' = tokens + 1 /\ Go(s, "confirm", m, None)
        /\ UNCHANGED <<life, active, tries>>
    BY <1>2 DEF Create
  <2>2. m \in Lease /\ m # None
    BY LeaseAssumption DEF IInv, TypeOK, Lease, States
  <2>3. TypeOK'
    BY <2>1, <2>2 DEF IInv, Go, TypeOK, PCs
  <2>4. Running'
    BY <1>1, <2>1, RunningGo
  <2>5. pc'[s] = "confirm" /\ mem'[s] = m
    BY <2>1 DEF IInv, TypeOK, Go
  <2>6. Stored'
    BY <2>1, <2>5 DEF Stored, IInv, TypeOK
  <2>7. Believed(s)' /\ Taking(s)'
    BY <2>1, <2>2, <2>5 DEF Believed, Taking, Owning
  <2>8. ASSUME NEW t \in Sessions, t # s PROVE Believed(t)' /\ Taking(t)'
    <3>1. Around(t)
      BY <2>1, <2>8, GoAround DEF IInv, TypeOK
    <3>2. t \notin Owning
      BY <1>2 DEF IInv, Believed
    <3>3. Believed(t)'
      BY <3>1, <3>2 DEF Believed, Owning, Around
    <3> QED
      BY <3>1, <3>3, TakingKept
  <2> QED
    BY <2>3, <2>4, <2>6, <2>7, <2>8 DEF IInv
<1>3. CASE lease # None
  <2>1. Go(s, "load", None, None) /\ UNCHANGED <<lease, life, active, tries, tokens>>
    BY <1>3 DEF Create
  <2>2. TypeOK' /\ Believed(s)' /\ Taking(s)'
    BY <2>1 DEF IInv, Go, TypeOK, PCs, Believed, Taking, Owning
  <2> QED
    BY <1>1, <2>1, <2>2, LocalStep DEF IInv, TypeOK
<1> QED
  BY <1>2, <1>3

\* The writes.  What SaveFrom(s) does when the version it read still stands:
\* nobody else believes in the lease it replaces.
LEMMA SaveAlone ==
    ASSUME IInv, NEW s \in Sessions, NEW t \in Owning,
           pc[s] \in {"take", "save", "release"}, lease = ver[s]
    PROVE  t = s
<1>1. t \in Sessions /\ lease # None /\ lease.owner = t /\ lease.proc = Proc[t]
  BY DEF IInv, Believed, Owning
<1>2. CASE pc[s] = "take"
  <2>1. Proc[t] # None /\ t \in active
    BY <1>1, LeaseAssumption DEF IInv, Running, Owning
  <2> QED
    BY <1>1, <1>2, <2>1 DEF IInv, Taking
<1>3. CASE pc[s] \in {"save", "release"}
  BY <1>1, <1>3 DEF IInv, Believed, Owning
<1> QED
  BY <1>2, <1>3

\* What s writes names s, and its own process unless s relinquishes.
LEMMA Written ==
    ASSUME IInv, NEW s \in Sessions, pc[s] \in {"take", "save", "release"}
    PROVE  /\ mem[s] \in Lease /\ mem[s].owner = s /\ mem[s].token <= tokens
           /\ mem[s].proc = IF pc[s] = "release" THEN None ELSE Proc[s]
<1>1. mem[s] \in Lease /\ mem[s].owner = s
  BY DEF IInv, TypeOK, Believed, Taking
<1>2. mem[s].proc = IF pc[s] = "release" THEN None ELSE Proc[s]
  BY DEF IInv, Believed, Taking
<1>3. CASE pc[s] = "take"
  BY <1>1, <1>2, <1>3 DEF IInv, Taking
<1>4. CASE pc[s] # "take"
  BY <1>1, <1>2, <1>4 DEF IInv, Believed, Stored, Owning
<1> QED
  BY <1>3, <1>4

\* save, for a takeover, a mutation or a release.
LEMMA SaveFromStep ==
    ASSUME IInv, NEW s \in Sessions, NEW p, NEW next, SaveFrom(s, p, next),
           \/ p \in {"take", "save"} /\ next = "own"
           \/ p = "release" /\ next = "begun"
    PROVE  IInv'
<1>1. pc[s] = p /\ s \in active /\ UNCHANGED <<life, active, tries, tokens>>
  BY BusyIsActive DEF SaveFrom
<1>2. /\ mem[s] \in Lease /\ mem[s].owner = s /\ mem[s].token <= tokens
      /\ mem[s].proc = IF p = "release" THEN None ELSE Proc[s]
  BY <1>1, Written
<1>3. CASE lease = ver[s]
  <2>1. /\ lease' = mem[s] /\ pc' = [pc EXCEPT ![s] = next]
        /\ \E m, v : Go(s, next, m, v)
    BY <1>3 DEF SaveFrom, Go
  <2>2. TypeOK'
    BY <1>1, <1>2, <1>3 DEF SaveFrom, IInv, Go, TypeOK, PCs
  <2>3. Running'
    BY <1>1, <2>1, RunningGo
  <2>4. Stored'
    BY <1>1, <1>2, <2>1 DEF Stored, IInv, TypeOK
  <2>5. Believed(s)' /\ Taking(s)'
    <3>1. CASE next = "own"
      <4>1. pc'[s] = "own" /\ mem'[s] = lease' /\ ver'[s] = lease' /\ p # "release"
        BY <1>3, <3>1 DEF SaveFrom, Go, IInv, TypeOK
      <4>2. lease' # None /\ lease'.owner = s /\ lease'.proc = Proc[s]
        BY <1>2, <2>1, <4>1, LeaseAssumption
      <4> QED
        BY <4>1, <4>2 DEF Believed, Taking, Owning
    <3>2. CASE next = "begun"
      BY <2>1, <3>2 DEF Believed, Taking, Owning, IInv, TypeOK
    <3> QED
      BY <3>1, <3>2
  <2>7. ASSUME NEW t \in Sessions, t # s PROVE Believed(t)' /\ Taking(t)'
    <3>1. Around(t)
      BY <1>1, <2>1, <2>7, GoAround DEF IInv, TypeOK
    <3>2. t \notin Owning
      BY <1>1, <1>3, <2>7, SaveAlone
    <3>3. Believed(t)'
      BY <3>1, <3>2 DEF Believed, Owning, Around
    <3> QED
      BY <3>1, <3>3, TakingKept
  <2> QED
    BY <2>2, <2>3, <2>4, <2>5, <2>7 DEF IInv
<1>4. CASE lease # ver[s]
  <2>1. Go(s, "begun", None, None) /\ lease' = lease
    BY <1>4 DEF SaveFrom
  <2>2. TypeOK' /\ Believed(s)' /\ Taking(s)'
    BY <1>1, <2>1 DEF IInv, Go, TypeOK, PCs, Believed, Taking, Owning
  <2> QED
    BY <1>1, <2>1, <2>2, LocalStep DEF IInv, TypeOK
<1> QED
  BY <1>3, <1>4

\* The fence-gated mutations: s's copy, which is the stored lease, changes in
\* one field and is about to be saved over it.
LEMMA MutateStep ==
    ASSUME IInv, NEW s \in Sessions, NEW p \in {"save", "release"}, NEW m \in Lease,
           pc[s] = "own", Go(s, p, m, ver[s]),
           UNCHANGED <<lease, life, active, tries, tokens>>,
           m.owner = mem[s].owner, m.token = mem[s].token,
           m.state \in {mem[s].state} \cup Allowed(mem[s].state),
           m.proc = IF p = "release" THEN None ELSE mem[s].proc
    PROVE  IInv'
<1>1. s \in active
  BY BusyIsActive
<1>2. TypeOK'
  BY DEF IInv, Go, TypeOK, PCs
<1>3. mem[s] = lease /\ ver[s] = lease /\ lease # None /\ lease.owner = s /\ lease.proc = Proc[s]
  BY DEF IInv, Believed, Owning
<1>4. pc'[s] = p /\ mem'[s] = m /\ ver'[s] = ver[s] /\ m # None
  BY LeaseAssumption DEF IInv, TypeOK, Go
<1>5. Believed(s)' /\ Taking(s)'
  BY <1>3, <1>4 DEF Believed, Taking, Owning
<1> QED
  BY <1>1, <1>2, <1>5, LocalStep DEF IInv, TypeOK

\* An owner's copy is a lease.
LEMMA OwnLease ==
    ASSUME IInv, NEW s \in Sessions, pc[s] = "own"
    PROVE  mem[s] \in Lease
BY DEF IInv, TypeOK, Believed, Owning

\* ProviderLease::transition takes an allowed successor state.
LEMMA TransitionStep ==
    ASSUME IInv, NEW s \in Sessions, NEW st \in States, Transition(s, st) PROVE IInv'
<1> DEFINE m == [mem[s] EXCEPT !.state = st]
<1>1. pc[s] = "own" /\ mem[s] \in Lease
  BY OwnLease DEF Transition, AssertFence
<1>2. /\ m \in Lease /\ m.owner = mem[s].owner /\ m.token = mem[s].token
      /\ m.proc = mem[s].proc /\ m.state = st
  BY <1>1 DEF Lease
<1> QED
  BY <1>1, <1>2, MutateStep DEF Transition

\* renew_owner and renew_resource change the timestamp only.
LEMMA RenewStep == ASSUME IInv, NEW s \in Sessions, Renew(s) PROVE IInv'
<1> DEFINE m == [mem[s] EXCEPT !.stamp = @ + 1]
<1>1. pc[s] = "own" /\ mem[s] \in Lease
  BY OwnLease DEF Renew, AssertFence
<1>2. /\ m \in Lease /\ m.owner = mem[s].owner /\ m.token = mem[s].token
      /\ m.proc = mem[s].proc /\ m.state = mem[s].state
  BY <1>1 DEF Lease
<1> QED
  BY <1>1, <1>2, MutateStep DEF Renew

\* relinquish clears the process, and nothing else, before it is saved.
LEMMA RelinquishStep == ASSUME IInv, NEW s \in Sessions, Relinquish(s) PROVE IInv'
<1> DEFINE m == [mem[s] EXCEPT !.proc = None]
<1>1. pc[s] = "own" /\ mem[s] \in Lease
  BY OwnLease DEF Relinquish, AssertFence
<1>2. /\ m \in Lease /\ m.owner = mem[s].owner /\ m.token = mem[s].token
      /\ m.proc = None /\ m.state = mem[s].state
  BY <1>1 DEF Lease
<1> QED
  BY <1>1, <1>2, MutateStep DEF Relinquish

\* A stuttering step keeps IInv.
LEMMA StutterStep == ASSUME IInv, UNCHANGED vars PROVE IInv'
BY DEF IInv, vars, TypeOK, Running, Stored, Believed, Taking, Owning, SamePid

-----------------------------------------------------------------------------
\* IInv is inductive.
LEMMA Inductive == IInv /\ [Next]_vars => IInv'
<1> SUFFICES ASSUME IInv, [Next]_vars PROVE IInv'
  OBVIOUS
<1>1. ASSUME NEW p \in Procs, Spawn(p) \/ Die(p) PROVE IInv'
  BY <1>1, SpawnStep, DieStep
<1>2. ASSUME NEW s \in Sessions,
             Begin(s) \/ End(s) \/ StartAcquire(s) \/ Create(s) \/ Confirm(s) \/ Load(s)
      PROVE  IInv'
  BY <1>2, BeginStep, EndStep, StartAcquireStep, CreateStep, ConfirmStep, LoadStep
<1>3. ASSUME NEW s \in Sessions, Take(s) \/ Save(s) \/ Release(s) PROVE IInv'
  BY <1>3, SaveFromStep DEF Take, Save, Release
<1>4. ASSUME NEW s \in Sessions, Renew(s) \/ Relinquish(s) PROVE IInv'
  BY <1>4, RenewStep, RelinquishStep
<1>5. ASSUME NEW s \in Sessions, NEW st \in States, Transition(s, st) PROVE IInv'
  BY <1>5, TransitionStep
<1> QED
  BY <1>1, <1>2, <1>3, <1>4, <1>5, StutterStep DEF Next

\* IInv holds in every reachable state of the provider lease (queue/leases).
THEOREM Invariance == Spec => []IInv
<1> QED
  BY InitOK, Inductive, PTL DEF Spec

\* The types of the lease, of the processes and of what invocations remember
\* are right, with any number of invocations on any number of hosts.
THEOREM TypeCorrect == Spec => []TypeOK
<1>1. IInv => TypeOK
  BY DEF IInv
<1> QED
  BY <1>1, Invariance, PTL

\* At most one invocation believes it owns the lease, for any number of them,
\* of processes, hosts, crashes and reused pids (owner_expired, save).
THEOREM Exclusive == Spec => []OneOwner
<1>1. IInv => OneOwner
  BY DEF IInv, OneOwner, Believed, Owning
<1> QED
  BY <1>1, Invariance, PTL

\* No owner ever works on a stale copy of its lease (store.rs save).
THEOREM Current == Spec => []OwnerCurrent
<1>1. IInv => OwnerCurrent
  BY DEF IInv, OwnerCurrent, Believed
<1> QED
  BY <1>1, Invariance, PTL

-----------------------------------------------------------------------------
\* The lease changes only when it is created or when an invocation's swap
\* lands on the version it read.
LEMMA LeaseChange ==
    ASSUME Next, lease' # lease
    PROVE  /\ UNCHANGED active
           /\ \/ lease = None /\ \E s \in Sessions : Create(s)
              \/ \E s \in Sessions : /\ pc[s] \in {"take", "save", "release"}
                                     /\ lease = ver[s] /\ lease' = mem[s]
<1>1. ASSUME NEW p \in Procs, Spawn(p) \/ Die(p) PROVE FALSE
  BY <1>1 DEF Spawn, Die
<1>2. ASSUME NEW s \in Sessions, NEW st \in States,
             \/ Begin(s) \/ End(s) \/ StartAcquire(s) \/ Confirm(s) \/ Load(s)
             \/ Renew(s) \/ Relinquish(s) \/ Transition(s, st)
      PROVE  FALSE
  BY <1>2 DEF Begin, End, StartAcquire, Confirm, Load, Renew, Relinquish, Transition
<1>3. ASSUME NEW s \in Sessions, Create(s) PROVE lease = None /\ UNCHANGED active
  BY <1>3 DEF Create
<1>4. ASSUME NEW s \in Sessions, Take(s) \/ Save(s) \/ Release(s)
      PROVE  /\ pc[s] \in {"take", "save", "release"}
             /\ lease = ver[s] /\ lease' = mem[s] /\ UNCHANGED active
  BY <1>4 DEF Take, Save, Release, SaveFrom
<1>5. "failed" \in States
  BY DEF States
<1> QED
  BY <1>1, <1>2, <1>3, <1>4, <1>5 DEF Next

\* A swap that lands is a takeover of a lease whose owner is gone, with a newer
\* token and the same state, or a change by its owner, with the same token.
LEMMA SwapLands ==
    ASSUME IInv, NEW s \in Sessions, pc[s] \in {"take", "save", "release"},
           lease = ver[s], lease' = mem[s]
    PROVE  /\ lease # None /\ lease' # None /\ lease'.owner = s
           /\ lease'.state \in {lease.state} \cup Allowed(lease.state)
           /\ \/ /\ pc[s] = "take" /\ lease'.token > lease.token
                 /\ lease.proc = None \/ lease.owner \notin active
              \/ /\ pc[s] # "take" /\ lease'.token = lease.token
                 /\ lease.owner = s /\ lease.proc = Proc[s]
<1>1. CASE pc[s] = "take"
  BY <1>1 DEF IInv, Taking
<1>2. CASE pc[s] \in {"save", "release"}
  BY <1>2 DEF IInv, Believed, Owning
<1> QED
  BY <1>1, <1>2

\* While its owner runs, no other invocation changes a lease's owner or token
\* (record/mod.rs takeover).
THEOREM LiveOwnerKeeps == Spec => LiveOwnerKeepsLease
<1> DEFINE A == (lease # None /\ lease.proc # None /\ lease.owner \in active /\ lease' # lease)
                  => lease'.owner = lease.owner /\ lease'.token = lease.token
<1>1. IInv /\ [Next]_vars => [A]_vars
  <2> SUFFICES ASSUME IInv, Next, lease # None, lease.proc # None,
                      lease.owner \in active, lease' # lease
               PROVE  lease'.owner = lease.owner /\ lease'.token = lease.token
    BY DEF vars
  <2>1. PICK s \in Sessions : /\ pc[s] \in {"take", "save", "release"}
                              /\ lease = ver[s] /\ lease' = mem[s]
    BY LeaseChange
  <2> QED
    BY <2>1, SwapLands
<1> QED
  BY <1>1, Invariance, PTL DEF Spec, LiveOwnerKeepsLease

\* The stored state follows LeaseState::allowed_transitions across owners,
\* takeovers and crashes (record/mod.rs transition).
THEOREM StateAdvances == Spec => StateOnlyAdvances
<1> DEFINE A == lease # None =>
                  lease' # None /\ lease'.state \in {lease.state} \cup Allowed(lease.state)
<1>1. IInv /\ [Next]_vars => [A]_vars
  <2> SUFFICES ASSUME IInv, Next, lease # None, lease' # lease
               PROVE  lease' # None /\ lease'.state \in {lease.state} \cup Allowed(lease.state)
    BY DEF vars
  <2>1. PICK s \in Sessions : /\ pc[s] \in {"take", "save", "release"}
                              /\ lease = ver[s] /\ lease' = mem[s]
    BY LeaseChange
  <2> QED
    BY <2>1, SwapLands
<1> QED
  BY <1>1, Invariance, PTL DEF Spec, StateOnlyAdvances

\* A change of owner stores a newer fence token (record/mod.rs takeover).
THEOREM TokensGrow == Spec => TokensRotate
<1> DEFINE A == (lease # None /\ lease'.owner # lease.owner) => lease'.token > lease.token
<1>1. IInv /\ [Next]_vars => [A]_vars
  <2> SUFFICES ASSUME IInv, Next, lease # None, lease' # lease, lease'.owner # lease.owner
               PROVE  lease'.token > lease.token
    BY DEF vars
  <2>1. PICK s \in Sessions : /\ pc[s] \in {"take", "save", "release"}
                              /\ lease = ver[s] /\ lease' = mem[s]
    BY LeaseChange
  <2> QED
    BY <2>1, SwapLands
<1> QED
  BY <1>1, Invariance, PTL DEF Spec, TokensRotate

-----------------------------------------------------------------------------
\* Who the lease says holds the lock.
LeaseHolder == IF Held THEN lease.owner ELSE None

\* A step that changes the holder is a step of the lock: somebody takes a
\* lease nobody holds, or its holder ends or relinquishes.
LEMMA LockStep == IInv /\ IInv' /\ [Next]_vars => [Lock!Next]_LeaseHolder
<1> SUFFICES ASSUME IInv, IInv', [Next]_vars, LeaseHolder' # LeaseHolder PROVE Lock!Next
  OBVIOUS
<1>1. Next
  BY DEF vars, LeaseHolder, Held
<1>2. ASSUME NEW s \in Sessions,
             \/ LeaseHolder = None /\ LeaseHolder' = s
             \/ LeaseHolder = s /\ LeaseHolder' = None
      PROVE  Lock!Next
  BY <1>2 DEF Lock!Next, Lock!Take, Lock!Leave, LeaseHolder
<1>3. CASE lease' = lease
  <2>1. CASE Held /\ ~Held'
    BY <1>2, <1>3, <2>1 DEF LeaseHolder, Held, IInv, TypeOK
  <2>2. CASE ~Held /\ Held'
    <3>1. PICK s \in Sessions : s = lease.owner /\ s \notin active /\ s \in active'
      BY <1>3, <2>2 DEF Held, IInv, TypeOK
    <3>2. pc[s] # "new" /\ pc[s] \in {"new", "ended"} /\ pc'[s] \notin {"new", "ended"}
      BY <1>3, <2>2, <3>1 DEF Held, IInv, Stored, Running
    <3>3. pc[s] = "ended"
      BY <3>2
    <3>4. ASSUME NEW t \in Sessions, NEW st \in States,
                 \/ Begin(t) \/ End(t) \/ StartAcquire(t) \/ Create(t) \/ Confirm(t)
                 \/ Load(t) \/ Take(t) \/ Save(t) \/ Release(t) \/ Renew(t)
                 \/ Relinquish(t) \/ Transition(t, st)
          PROVE  active' \subseteq active \cup {t} /\ (t \notin active /\ t \in active' => pc[t] = "new")
      BY <3>4 DEF Begin, End, StartAcquire, Create, Confirm, Load, Take, Save, Release,
                  SaveFrom, Renew, Relinquish, Transition
    <3>5. ASSUME NEW p \in Procs, Spawn(p) \/ Die(p) PROVE active' \subseteq active
      BY <3>5 DEF Spawn, Die
    <3>6. "failed" \in States
      BY DEF States
    <3> QED
      BY <1>1, <3>1, <3>3, <3>4, <3>5, <3>6 DEF Next
  <2> QED
    BY <1>3, <2>1, <2>2 DEF LeaseHolder
<1>4. CASE lease' # lease
  <2>1. CASE lease = None
    <3>1. ~Held
      BY <2>1 DEF Held
    <3>2. Held' /\ lease'.owner \in Sessions
      BY <3>1 DEF LeaseHolder, Held, IInv, TypeOK, Lease
    <3> QED
      BY <1>2, <3>1, <3>2 DEF LeaseHolder
  <2>2. CASE lease # None
    <3>1. PICK s \in Sessions : /\ pc[s] \in {"take", "save", "release"}
                                /\ lease = ver[s] /\ lease' = mem[s]
      BY <1>1, <1>4, <2>2, LeaseChange
    <3>2. lease' # None /\ lease'.owner = s
      BY <3>1, SwapLands
    <3>3. CASE pc[s] = "take"
      <4>1. ~Held /\ LeaseHolder = None
        BY <3>1, <3>3, SwapLands DEF LeaseHolder, Held
      <4>2. LeaseHolder' = s
        BY <3>2, <4>1 DEF LeaseHolder
      <4> QED
        BY <1>2, <4>1, <4>2
    <3>4. CASE pc[s] # "take"
      <4>1. lease.owner = s
        BY <3>1, <3>4, SwapLands
      <4>2. LeaseHolder \in {s, None} /\ LeaseHolder' \in {s, None}
        BY <3>2, <4>1 DEF LeaseHolder
      <4> QED
        BY <1>2, <4>2
    <3> QED
      BY <3>3, <3>4
  <2> QED
    BY <2>1, <2>2
<1> QED
  BY <1>3, <1>4

\* The provider lease implements the lock LeaseLock: taken only when nobody
\* holds it, left only by its holder's end or release.
THEOREM ImplementsLock == Spec => LockSpec
<1>1. Init => Lock!Init
  BY DEF Init, Lock!Init, Held
<1>2. IInv /\ IInv' /\ [Next]_vars => [Lock!Next]_(IF Held THEN lease.owner ELSE None)
  BY LockStep DEF LeaseHolder
<1> QED
  BY <1>1, <1>2, Invariance, PTL DEF Spec, LockSpec, Lock!Spec
=============================================================================
