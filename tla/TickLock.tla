------------------------------- MODULE TickLock -------------------------------
(***************************************************************************)
(* One tick at a time per store (src/stado-rs/src/coordinator/passes/      *)
(* lock.rs): the loops that run ticks (the daemon, serve --control-plane,  *)
(* scheduler tick), the record a running tick holds in the store, and the  *)
(* set each process keeps of the stores it ticks over.                     *)
(*                                                                         *)
(* As for provider leases no time is measured: a process sees which pids   *)
(* of its own host exist, and a pid comes back.  The record's version is   *)
(* represented by the process that wrote it: a swap is tried only against  *)
(* the record of a dead process, or of the swapping process itself while   *)
(* its other loops are kept out, and neither is written again meanwhile.   *)
(***************************************************************************)
EXTENDS Integers

CONSTANTS
    Sessions,    \* the loops that tick
    Procs,       \* processes, each running once
    Proc,        \* the process a loop runs in
    Host, Pid,   \* a process's host and its pid there
    MaxLost,     \* calls whose answer is lost (bound)
    None

ASSUME TickAssumption ==
    /\ Proc \in [Sessions -> Procs]
    /\ None \notin Sessions /\ None \notin Procs
    /\ MaxLost \in Nat

VARIABLES
    record,   \* the process named by state/coordinator/tick-lock.json
    life,     \* life[p]: "new", "alive" or "dead"
    ticking,  \* the processes whose TICKING set holds the store
    pc,       \* pc[s]: the next call of loop s
    seen,     \* seen[s]: the record s read
    late,     \* deletes given up by their sender that are still under way
    struck,   \* records of running ticks that such deletes removed
    lost      \* lost answers

vars == <<record, life, ticking, pc, seen, late, struck, lost>>

TypeOK ==
    /\ record \in Procs \cup {None}
    /\ life \in [Procs -> {"new", "alive", "dead"}]
    /\ ticking \subseteq Procs
    /\ pc \in [Sessions -> {"idle", "create", "read", "swap", "tick", "leave"}]
    /\ seen \in [Sessions -> Procs \cup {None}]
    /\ late \in Nat /\ struck \in Nat /\ lost \in Nat

Init ==
    /\ record = None
    /\ life = [p \in Procs |-> "new"]
    /\ ticking = {}
    /\ pc = [s \in Sessions |-> "idle"]
    /\ seen = [s \in Sessions |-> None]
    /\ late = 0 /\ struck = 0 /\ lost = 0

\* The loops whose tick runs.
Running == {s \in Sessions : pc[s] = "tick"}

-----------------------------------------------------------------------------
\* Processes

SamePid(p, q) == Host[p] = Host[q] /\ Pid[p] = Pid[q]

Spawn(p) ==
    /\ life[p] = "new"
    /\ \A q \in Procs : life[q] = "alive" => ~SamePid(p, q)
    /\ life' = [life EXCEPT ![p] = "alive"]
    /\ UNCHANGED <<record, ticking, pc, seen, late, struck, lost>>

\* The process dies with its loops and its TICKING set; the record stays.
Die(p) ==
    /\ life[p] = "alive"
    /\ life' = [life EXCEPT ![p] = "dead"]
    /\ ticking' = ticking \ {p}
    /\ pc' = [s \in Sessions |-> IF Proc[s] = p THEN "idle" ELSE pc[s]]
    /\ seen' = [s \in Sessions |-> IF Proc[s] = p THEN None ELSE seen[s]]
    /\ UNCHANGED <<record, late, struck, lost>>

\* Mutant of Idle: an owner on another host is looked up among this host's.
IdleAnyHost(q, p) ==
    \A o \in Procs :
        life[o] = "alive" /\ Host[o] = Host[p] /\ Pid[o] = Pid[q] => o = p

\* ProcessOwner::state of owner q as process p sees it, Gone or This: no other
\* process of this host has the pid on record.
Idle(q, p) ==
    /\ Host[q] = Host[p]
    /\ \A o \in Procs : life[o] = "alive" /\ SamePid(o, q) => o = p

-----------------------------------------------------------------------------
\* TickLock::take

\* Mutant of Enter: a second tick of a process is not refused by its set.
EnterTwice(s) ==
    /\ pc[s] = "idle" /\ life[Proc[s]] = "alive"
    /\ ticking' = ticking \cup {Proc[s]}
    /\ pc' = [pc EXCEPT ![s] = "create"]
    /\ UNCHANGED <<record, life, seen, late, struck, lost>>

Enter(s) ==
    /\ pc[s] = "idle" /\ life[Proc[s]] = "alive"
    /\ Proc[s] \notin ticking
    /\ ticking' = ticking \cup {Proc[s]}
    /\ pc' = [pc EXCEPT ![s] = "create"]
    /\ UNCHANGED <<record, life, seen, late, struck, lost>>

\* Mutant of Out: the store stays in the set of the process.
OutKeepsKey(s) ==
    /\ UNCHANGED ticking
    /\ pc' = [pc EXCEPT ![s] = "idle"]
    /\ seen' = [seen EXCEPT ![s] = None]

\* The loop returns, with or without having ticked.
Out(s) ==
    /\ ticking' = ticking \ {Proc[s]}
    /\ pc' = [pc EXCEPT ![s] = "idle"]
    /\ seen' = [seen EXCEPT ![s] = None]

Create(s) ==
    /\ pc[s] = "create"
    /\ record' = IF record = None THEN Proc[s] ELSE record
    /\ pc' = [pc EXCEPT ![s] = IF record = None THEN "tick" ELSE "read"]
    /\ UNCHANGED <<life, ticking, seen, late, struck, lost>>

\* A holder that ended meanwhile, runs, or is elsewhere refuses this tick.
Read(s) ==
    /\ pc[s] = "read"
    /\ IF record # None /\ Idle(record, Proc[s])
       THEN /\ seen' = [seen EXCEPT ![s] = record]
            /\ pc' = [pc EXCEPT ![s] = "swap"]
            /\ UNCHANGED ticking
       ELSE Out(s)
    /\ UNCHANGED <<record, life, late, struck, lost>>

\* Mutant of Swap: the record is overwritten whatever it says by now.
SwapUnversioned(s) ==
    /\ pc[s] = "swap"
    /\ record' = Proc[s]
    /\ pc' = [pc EXCEPT ![s] = "tick"]
    /\ UNCHANGED <<life, ticking, seen, late, struck, lost>>

Swap(s) ==
    /\ pc[s] = "swap"
    /\ IF record = seen[s]
       THEN /\ record' = Proc[s]
            /\ pc' = [pc EXCEPT ![s] = "tick"]
            /\ UNCHANGED <<ticking, seen>>
       ELSE Out(s) /\ UNCHANGED record
    /\ UNCHANGED <<life, late, struck, lost>>

\* A create or a swap lands, or does not, and its answer is an error.
LoseTake(s) ==
    /\ pc[s] \in {"create", "swap"} /\ lost < MaxLost
    /\ \/ UNCHANGED record
       \/ /\ record = IF pc[s] = "create" THEN None ELSE seen[s]
          /\ record' = Proc[s]
    /\ lost' = lost + 1
    /\ Out(s)
    /\ UNCHANGED <<life, late, struck>>

-----------------------------------------------------------------------------
\* TickLock::release, once the passes of the tick are done

\* The delete is unconditional.
Delete(s) ==
    /\ pc[s] = "tick"
    /\ record' = None
    /\ pc' = [pc EXCEPT ![s] = "leave"]
    /\ UNCHANGED <<life, ticking, seen, late, struck, lost>>

\* The delete does not land, or lands later, and its answer is an error.
LoseDelete(s) ==
    /\ pc[s] = "tick" /\ lost < MaxLost
    /\ late' \in {late, late + 1}
    /\ lost' = lost + 1
    /\ pc' = [pc EXCEPT ![s] = "leave"]
    /\ UNCHANGED <<record, life, ticking, seen, struck>>

Leave(s) ==
    /\ pc[s] = "leave"
    /\ Out(s)
    /\ UNCHANGED <<record, life, late, struck, lost>>

\* A late delete lands on whatever record is there.
Strike ==
    /\ late > 0
    /\ late' = late - 1
    /\ struck' = IF \E s \in Running : record = Proc[s] THEN struck + 1 ELSE struck
    /\ record' = None
    /\ UNCHANGED <<life, ticking, pc, seen, lost>>

\* stado storage rm, once no tick runs.
Remove ==
    /\ record # None
    /\ \A s \in Sessions : pc[s] # "tick"
    /\ record' = None
    /\ UNCHANGED <<life, ticking, pc, seen, late, struck, lost>>

-----------------------------------------------------------------------------
Step(s) == Enter(s) \/ Create(s) \/ Read(s) \/ Swap(s) \/ Delete(s) \/ Leave(s)

Next ==
    \/ \E p \in Procs : Spawn(p) \/ Die(p)
    \/ \E s \in Sessions : Step(s) \/ LoseTake(s) \/ LoseDelete(s)
    \/ Strike \/ Remove

Spec == Init /\ [][Next]_vars

\* The loops of a living process go on.
FairSpec == Spec /\ \A s \in Sessions : WF_vars(Step(s))

-----------------------------------------------------------------------------
\* Properties

\* Two ticks never run over one store at once, in one process, in two, or on
\* two hosts, whoever died holding the record (lock.rs "One tick at a time per
\* store"), until a delete its sender gave up takes a running tick's record.
OneTick == struck = 0 => \A s, t \in Running : s = t

\* A running tick has its process's name on the record: no takeover touches it
\* and the delete that ends it can only remove its own record.
TickRecorded == struck = 0 => \A s \in Running : record = Proc[s]

\* The lock a running tick holds.
Lock == INSTANCE LeaseLock WITH
    holder <- IF struck = 0 /\ Running # {} THEN CHOOSE s \in Running : TRUE ELSE None

\* The tick lock implements the lock LeaseLock.
LockSpec == Lock!Spec

\* No living loop can tell that p no longer ticks.
Unseen(p) ==
    \A s \in Sessions : life[Proc[s]] = "alive" => ~Idle(p, Proc[s])

\* A record whose process no longer ticks, because it died or because its
\* delete failed, does not keep the store: a loop that can see as much removes
\* or replaces it (lock.rs "is taken over in one compare-and-swap").
LeftRecordTaken ==
    \A p \in Procs :
        (record = p /\ \A s \in Running : Proc[s] # p)
            ~> (record # p \/ (\E s \in Running : Proc[s] = p) \/ Unseen(p))
=============================================================================
