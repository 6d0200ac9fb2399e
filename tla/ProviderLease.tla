---------------------------- MODULE ProviderLease ----------------------------
(***************************************************************************)
(* The fenced provider lease of ONE job (src/stado-rs/src/queue/leases): a *)
(* document in the blob store that names the process holding it, the       *)
(* create, compare-and-swap and takeover writes that are the only way it   *)
(* changes, and the invocations of the Boat passes (scheduler/dispatch/    *)
(* box/passes/session.rs) that acquire, advance and relinquish it.         *)
(*                                                                         *)
(* No clock decides who owns the lease: an owner is live while its process *)
(* exists and the invocation that took it has not returned.  A process     *)
(* sees the pids of its own host only, and a pid comes back.               *)
(*                                                                         *)
(* The version token is the content of the document; renewals write a      *)
(* timestamp, here a counter, so that every write changes it.              *)
(***************************************************************************)
EXTENDS Integers

CONSTANTS
    Sessions,    \* invocations, each with an owner id of its own
    Procs,       \* processes, each running once
    Proc,        \* the process an invocation runs in
    Host, Pid,   \* a process's host and its pid there
    MaxTries,    \* acquisitions each invocation attempts (bound)
    MaxStamp,    \* renewals of the lease (bound)
    None

States == {"allocating", "provisioning", "ready", "starting", "running",
           "collecting", "releasing", "released", "failed"}

\* LeaseState::allowed_transitions.
Allowed(st) ==
    CASE st = "allocating" -> {"provisioning", "failed"}
      [] st = "provisioning" -> {"ready", "failed"}
      [] st = "ready" -> {"starting", "failed"}
      [] st = "starting" -> {"running", "failed"}
      [] st = "running" -> {"collecting", "failed"}
      [] st = "collecting" -> {"releasing", "failed"}
      [] st = "releasing" -> {"released", "failed"}
      [] st = "failed" -> {"releasing", "released"}
      [] st = "released" -> {}

\* proc is owner_host and owner_pid; None once relinquished.
Lease == [owner: Sessions, token: Nat, proc: Procs \cup {None},
          state: States, stamp: Nat]

ASSUME LeaseAssumption ==
    /\ Proc \in [Sessions -> Procs]
    /\ None \notin Sessions /\ None \notin Procs /\ None \notin Lease
    /\ MaxTries \in Nat /\ MaxStamp \in Nat

VARIABLES
    lease,   \* provider-leases/<job>.json
    life,    \* life[p]: "new", "alive" or "dead"
    active,  \* ACTIVE_OWNERS of every process: the invocations that run
    pc,      \* pc[s]: what invocation s does next
    mem,     \* mem[s]: the lease s holds in memory
    ver,     \* ver[s]: the version s last read or wrote
    tries,   \* tries[s]: acquisitions s has begun
    tokens   \* fence tokens minted

vars == <<lease, life, active, pc, mem, ver, tries, tokens>>

PCs == {"new", "begun", "create", "confirm", "load", "take", "own", "save",
        "release", "ended"}

Init ==
    /\ lease = None
    /\ life = [p \in Procs |-> "new"]
    /\ active = {}
    /\ pc = [s \in Sessions |-> "new"]
    /\ mem = [s \in Sessions |-> None]
    /\ ver = [s \in Sessions |-> None]
    /\ tries = [s \in Sessions |-> 0]
    /\ tokens = 0

\* Invocation s goes to p with lease m in memory, read at version v.
Go(s, p, m, v) ==
    /\ pc' = [pc EXCEPT ![s] = p]
    /\ mem' = [mem EXCEPT ![s] = m]
    /\ ver' = [ver EXCEPT ![s] = v]

-----------------------------------------------------------------------------
\* Processes and invocations

SamePid(p, q) == Host[p] = Host[q] /\ Pid[p] = Pid[q]

\* The host gives a pid to a process only when no process there has it.
Spawn(p) ==
    /\ life[p] = "new"
    /\ \A q \in Procs : life[q] = "alive" => ~SamePid(p, q)
    /\ life' = [life EXCEPT ![p] = "alive"]
    /\ UNCHANGED <<lease, active, pc, mem, ver, tries, tokens>>

\* The process dies and takes its invocations, wherever they are, with it.
Die(p) ==
    /\ life[p] = "alive"
    /\ life' = [life EXCEPT ![p] = "dead"]
    /\ active' = {s \in active : Proc[s] # p}
    /\ pc' = [s \in Sessions |->
                IF Proc[s] = p /\ pc[s] # "new" THEN "ended" ELSE pc[s]]
    /\ mem' = [s \in Sessions |-> IF Proc[s] = p THEN None ELSE mem[s]]
    /\ ver' = [s \in Sessions |-> IF Proc[s] = p THEN None ELSE ver[s]]
    /\ UNCHANGED <<lease, tries, tokens>>

\* OwnerInvocation::begin, and its drop when the invocation returns.
Begin(s) ==
    /\ pc[s] = "new" /\ life[Proc[s]] = "alive"
    /\ active' = active \cup {s}
    /\ Go(s, "begun", None, None)
    /\ UNCHANGED <<lease, life, tries, tokens>>

\* The invocation returns: having relinquished, or with its lease still held
\* (an error path, or cancel_box_for_legacy_move, which never relinquishes).
End(s) ==
    /\ pc[s] \in {"begun", "own"}
    /\ active' = active \ {s}
    /\ Go(s, "ended", None, None)
    /\ UNCHANGED <<lease, life, tries, tokens>>

\* Mutants of Expired: another host's pid is looked up here; an owner with this
\* process's pid is gone, running or not.
ExpiredAnyHost(l, p) ==
    \/ l.proc = None
    \/ l.proc # None /\ (IF Pid[l.proc] = Pid[p]
                        THEN ~(l.owner \in active /\ Proc[l.owner] = p)
                        ELSE \A q \in Procs : life[q] = "alive" => Pid[q] # Pid[l.proc])

ExpiredOwnPid(l, p) ==
    \/ l.proc = None
    \/ /\ l.proc # None
       /\ Host[l.proc] = Host[p]
       /\ \/ Pid[l.proc] = Pid[p]
          \/ \A q \in Procs : life[q] = "alive" => ~SamePid(l.proc, q)

\* owner_expired, as process p observes lease l: released; a pid of this host
\* that no process has; or this process's own pid with an owner that is not
\* one of its running invocations.  Another host's owner is held.
Expired(l, p) ==
    \/ l.proc = None
    \/ /\ l.proc # None
       /\ Host[l.proc] = Host[p]
       /\ IF Pid[l.proc] = Pid[p]
          THEN ~(l.owner \in active /\ Proc[l.owner] = p)
          ELSE \A q \in Procs : life[q] = "alive" => ~SamePid(l.proc, q)

-----------------------------------------------------------------------------
\* ProviderLeaseStore::acquire

StartAcquire(s) ==
    /\ pc[s] = "begun" /\ tries[s] < MaxTries
    /\ tries' = [tries EXCEPT ![s] = @ + 1]
    /\ Go(s, "create", None, None)
    /\ UNCHANGED <<lease, life, active, tokens>>

\* Mutant: the state is left at the default of the field.
CreateStateless(s) ==
    /\ pc[s] = "create"
    /\ LET new == [owner |-> s, token |-> tokens + 1, proc |-> Proc[s],
                   state |-> "", stamp |-> 0]
       IN lease' = new /\ tokens' = tokens + 1 /\ Go(s, "confirm", new, None)
    /\ UNCHANGED <<life, active, tries>>

Create(s) ==
    /\ pc[s] = "create"
    /\ IF lease = None
       THEN LET new == [owner |-> s, token |-> tokens + 1, proc |-> Proc[s],
                        state |-> "allocating", stamp |-> 0]
            IN /\ lease' = new
               /\ tokens' = tokens + 1
               /\ Go(s, "confirm", new, None)
       ELSE UNCHANGED <<lease, tokens>> /\ Go(s, "load", None, None)
    /\ UNCHANGED <<life, active, tries>>

\* The blob that landed is read back; another one there is a conflict.
Confirm(s) ==
    /\ pc[s] = "confirm"
    /\ IF lease = mem[s] THEN Go(s, "own", lease, lease)
                         ELSE Go(s, "load", None, None)
    /\ UNCHANGED <<lease, life, active, tries, tokens>>

\* Mutants of Load: the takeover keeps the old token; it starts the lease over.
LoadTaking(s, token, state) ==
    /\ pc[s] = "load" /\ lease # None /\ Expired(lease, Proc[s])
    /\ tokens' = tokens + 1
    /\ Go(s, "take", [lease EXCEPT !.owner = s, !.token = token, !.proc = Proc[s],
                                  !.state = state], lease)
    /\ UNCHANGED <<lease, life, active, tries>>

LoadKeepsToken(s) == LoadTaking(s, lease.token, lease.state)
LoadStartsOver(s) == LoadTaking(s, tokens + 1, "allocating")

\* A lease whose owner is gone is taken over in memory with a new token.
Load(s) ==
    /\ pc[s] = "load"
    /\ IF lease # None /\ Expired(lease, Proc[s])
       THEN /\ tokens' = tokens + 1
            /\ Go(s, "take",
                  [owner |-> s, token |-> tokens + 1, proc |-> Proc[s],
                   state |-> lease.state, stamp |-> lease.stamp], lease)
       ELSE tokens' = tokens /\ Go(s, "begun", None, None)
    /\ UNCHANGED <<lease, life, active, tries>>

\* Mutant: the write is not conditional on the version read.
SaveFromUnversioned(s, p, next) ==
    /\ pc[s] = p
    /\ lease' = mem[s]
    /\ IF next = "own" THEN Go(s, "own", mem[s], mem[s]) ELSE Go(s, next, None, None)
    /\ UNCHANGED <<life, active, tries, tokens>>

\* ProviderLeaseStore::save: the swap lands on the version read, or the
\* invocation lost the lease; next is where it goes on.
SaveFrom(s, p, next) ==
    /\ pc[s] = p
    /\ IF lease = ver[s]
       THEN lease' = mem[s] /\ (IF next = "own" THEN Go(s, "own", mem[s], mem[s])
                                                ELSE Go(s, next, None, None))
       ELSE lease' = lease /\ Go(s, "begun", None, None)
    /\ UNCHANGED <<life, active, tries, tokens>>

Take(s) == SaveFrom(s, "take", "own")
Save(s) == SaveFrom(s, "save", "own")
Release(s) == SaveFrom(s, "release", "begun")

-----------------------------------------------------------------------------
\* Fence-gated mutations of the copy in memory

AssertFence(s) == pc[s] = "own" /\ ~Expired(mem[s], Proc[s])

Transition(s, st) ==
    /\ AssertFence(s)
    /\ st \in Allowed(mem[s].state)
    /\ Go(s, "save", [mem[s] EXCEPT !.state = st], ver[s])
    /\ UNCHANGED <<lease, life, active, tries, tokens>>

\* renew_owner and renew_resource.
Renew(s) ==
    /\ AssertFence(s)
    /\ mem[s].stamp < MaxStamp
    /\ Go(s, "save", [mem[s] EXCEPT !.stamp = @ + 1], ver[s])
    /\ UNCHANGED <<lease, life, active, tries, tokens>>

Relinquish(s) ==
    /\ AssertFence(s)
    /\ Go(s, "release", [mem[s] EXCEPT !.proc = None], ver[s])
    /\ UNCHANGED <<lease, life, active, tries, tokens>>

-----------------------------------------------------------------------------
Next ==
    \/ \E p \in Procs : Spawn(p) \/ Die(p)
    \/ \E s \in Sessions :
         \/ Begin(s) \/ End(s) \/ StartAcquire(s) \/ Create(s) \/ Confirm(s)
         \/ Load(s) \/ Take(s) \/ Save(s) \/ Release(s)
         \/ Renew(s) \/ Relinquish(s)
         \/ \E st \in States : Transition(s, st)

Spec == Init /\ [][Next]_vars

-----------------------------------------------------------------------------
\* Types of the lease, the processes and what the invocations remember.
TypeOK ==
    /\ lease \in Lease \cup {None}
    /\ life \in [Procs -> {"new", "alive", "dead"}]
    /\ active \subseteq Sessions
    /\ pc \in [Sessions -> PCs]
    /\ mem \in [Sessions -> Lease \cup {None}]
    /\ ver \in [Sessions -> Lease \cup {None}]
    /\ tries \in [Sessions -> Nat]
    /\ tokens \in Nat

Owning == {s \in Sessions : pc[s] \in {"confirm", "own", "save", "release"}}

\* Two invocations never believe they own the lease at once, in one process,
\* in two, or on two hosts (record/mod.rs "every change a live owner may make
\* to its own lease").
OneOwner == \A s, t \in Owning : s = t

\* An owner's copy is the stored lease: the swap it is about to make cannot
\* lose to another writer (store.rs save).
OwnerCurrent ==
    \A s \in Sessions :
        /\ pc[s] = "own" => mem[s] = lease
        /\ pc[s] \in {"save", "release"} => ver[s] = lease

\* While an invocation runs, no step of any other changes the owner or the
\* fence token of the lease it holds (record/mod.rs takeover).
LiveOwnerKeepsLease ==
    [][(lease # None /\ lease.proc # None /\ lease.owner \in active /\ lease' # lease)
         => lease'.owner = lease.owner /\ lease'.token = lease.token]_vars

\* The stored state moves along LeaseState::allowed_transitions only, across
\* owners, takeovers and crashes: a released lease never works again.
StateOnlyAdvances ==
    [][lease # None =>
         lease' # None /\ lease'.state \in {lease.state} \cup Allowed(lease.state)]_vars

\* Every stored fence token was minted for one acquisition, and a takeover
\* stores a larger one: an older owner's token never comes back (takeover).
TokensRotate ==
    [][(lease # None /\ lease'.owner # lease.owner) => lease'.token > lease.token]_vars

\* The abstract lock: the holder is the running invocation the lease names.
Held == lease # None /\ lease.proc # None /\ lease.owner \in active
Lock == INSTANCE LeaseLock WITH holder <- IF Held THEN lease.owner ELSE None

\* The lease implements the lock LeaseLock.
LockSpec == Lock!Spec
=============================================================================
