------------------------ MODULE JobTransitionProofs ------------------------
(***************************************************************************)
(* Proofs about JobTransition for any number of clients, operations,       *)
(* placements and crashes: its types, that no destination is written       *)
(* before its source fence landed, and that no source is cleaned before    *)
(* the outcome of its move is retained.                                    *)
(***************************************************************************)
EXTENDS JobTransition, TLAPS

\* The calls at which recovery works on a transition record it has read.
Carrying ==
    {"abortDest", "abortSource", "fenceRead", "fence", "goneDest", "goneProbe",
     "dest", "create", "swap", "index", "complete", "abort", "finish",
     "finishProbe", "finishSource", "outcome", "clean", "unmark", "cleanSwap",
     "retire"}

Recovering == Carrying \cup {"record"}
Preparing == {"source", "moved", "basis", "prepare", "install"}
Admitting == {"admit", "admitRecord", "admitMark", "admitCreate", "admitCheck"}

\* What a client about to make call p remembers: the record it recovers, the
\* request it moves for, the document it judged.
Remembers(p, l) ==
    /\ p \in PCs /\ l \in Locals
    /\ p \in Carrying => l.tr \in Record
    /\ p \in Recovering /\ l.ret \in {"source", "loop", "refuse", "answer"} =>
         l.rq \in Request
    /\ p \in Recovering /\ l.ret = "body" /\ l.op = "admit" =>
         l.want \in Placements
    /\ p \in Preparing => l.rq \in Request
    /\ p = "basis" => l.src \in LiveDoc
    /\ p \in {"prepare", "install"} => l.cand \in Record
    /\ p \in Admitting => l.want \in Placements
    /\ p = "check" => l.dv \in LiveDoc
    /\ p \in {"finishSource", "outcome"} => l.dv \in LiveDoc /\ l.dv.st = l.tr.id.to

\* The outcome the run manifest must retain before a source is cleaned for id.
Retained(id) ==
    id.to \in Terminal /\ manifest = "present" => outcome # None /\ outcome.st = id.to

\* A client writes a destination only once the fence landed, and cleans a
\* source only once the outcome is retained.
Earned(p, l) ==
    /\ p \in {"dest", "create", "swap"} => l.tr.id \in fenced
    /\ p \in {"clean", "unmark", "cleanSwap"} => Retained(l.tr.id)

\* A document under prefix p: a sentinel names a transition whose fence
\* landed, a destination was promised by one, and a source cleaned towards a
\* terminal prefix left its outcome in the manifest.
DocOK(p, d) ==
    /\ d \in Doc \cup {None}
    /\ d # None =>
         /\ d.st \in {"fence", "cleaned"} => d.id \in fenced
         /\ p # "queue" => \E id \in fenced : /\ id.to = p /\ id.dst.by = d.by
                                               /\ id.dst.rev = d.rev
         /\ d.st = "cleaned" => Retained(d.id)

ObjectsType ==
    /\ record \in Record \cup {None}
    /\ marker \in BOOLEAN /\ cancel \in BOOLEAN
    /\ manifest \in {"present", "gone", "unreadable"}
    /\ outcome \in LiveDoc \cup {None}
    /\ fenced \subseteq TransitionId

StoreOK ==
    /\ docs \in [Prefix -> Doc \cup {None}]
    /\ \A p \in Prefix : DocOK(p, docs[p])
    /\ ObjectsType

RestType ==
    /\ now \in Nat /\ owners \in Nat /\ crashes \in Nat
    /\ holds \in [Clients -> BOOLEAN]
    /\ left \in [Clients -> Nat]

ClientOK(c) == Remembers(pc[c], lv[c]) /\ Earned(pc[c], lv[c])

IInv ==
    /\ StoreOK /\ RestType
    /\ pc \in [Clients -> PCs] /\ lv \in [Clients -> Locals]
    /\ \A c \in Clients : ClientOK(c)

-----------------------------------------------------------------------------
\* What a step may do to the store under the feet of the other clients: land
\* fences and retain an outcome where there was none.
Grows ==
    /\ fenced \subseteq fenced' /\ manifest' = manifest
    /\ outcome # None => outcome' = outcome

\* A store whose documents stay is still sound.
LEMMA DocsKept ==
    ASSUME StoreOK, docs' = docs, ObjectsType', Grows PROVE StoreOK'
BY DEF StoreOK, DocOK, Retained, Grows

\* So is one in which a single sound document was written.
LEMMA DocWritten ==
    ASSUME StoreOK, NEW p \in Prefix, NEW d, docs' = [docs EXCEPT ![p] = d],
           DocOK(p, d)', ObjectsType', Grows
    PROVE  StoreOK'
<1>1. docs' \in [Prefix -> Doc \cup {None}]
  BY DEF StoreOK, DocOK
<1>2. ASSUME NEW q \in Prefix PROVE DocOK(q, docs[q])'
  <2>1. CASE q = p
    <3>1. docs'[q] = d
      BY <2>1 DEF StoreOK
    <3> QED
      BY <2>1, <3>1 DEF DocOK
  <2>2. CASE q # p
    <3>1. docs'[q] = docs[q] /\ DocOK(q, docs[q])
      BY <2>2 DEF StoreOK
    <3> QED
      BY <3>1 DEF DocOK, Retained, Grows
  <2> QED
    BY <2>1, <2>2
<1> QED
  BY <1>1, <1>2 DEF StoreOK

\* A step of client c that leaves the store sound and c remembering what its
\* next call needs preserves the invariant.
LEMMA StepOK ==
    ASSUME IInv, NEW c \in Clients, NEW p, NEW l, Go(c, p, l),
           StoreOK', RestType', Grows, Remembers(p, l), Earned(p, l)'
    PROVE  IInv'
<1>1. pc' \in [Clients -> PCs] /\ lv' \in [Clients -> Locals]
  BY DEF IInv, Go, Remembers
<1>2. ASSUME NEW d \in Clients PROVE ClientOK(d)'
  <2>1. CASE d = c
    <3>1. pc'[d] = p /\ lv'[d] = l
      BY <2>1 DEF IInv, Go
    <3> QED
      BY <3>1 DEF ClientOK, Remembers, Earned
  <2>2. CASE d # c
    <3>1. pc'[d] = pc[d] /\ lv'[d] = lv[d] /\ ClientOK(d)
      BY <2>2 DEF IInv, Go
    <3> QED
      BY <3>1 DEF ClientOK, Remembers, Earned, Retained, Grows
  <2> QED
    BY <2>1, <2>2
<1> QED
  BY <1>1, <1>2 DEF IInv

\* A call that only reads.
LEMMA ReadStep ==
    ASSUME IInv, NEW c \in Clients, NEW p, NEW l, Go(c, p, l),
           Calling(c), Reads, Remembers(p, l), Earned(p, l)
    PROVE  IInv'
<1>1. ObjectsType' /\ RestType' /\ Grows /\ docs' = docs
  BY DEF IInv, StoreOK, ObjectsType, RestType, Grows, Calling, Reads, store
<1>2. Earned(p, l)'
  BY DEF Earned, Retained, Reads, store
<1>3. StoreOK'
  BY <1>1, DocsKept DEF IInv
<1> QED
  BY <1>1, <1>2, <1>3, StepOK

-----------------------------------------------------------------------------
\* Client c goes on to a call that needs nothing of the store.
Earning == {"dest", "create", "swap", "clean", "unmark", "cleanSwap"}
GoesOn(c) == \E p, l : Go(c, p, l) /\ Remembers(p, l) /\ p \notin Earning

\* A step of c that leaves the store sound and lets c go on.
LEMMA GoesOnStep ==
    ASSUME IInv, NEW c \in Clients, GoesOn(c), StoreOK', RestType', Grows
    PROVE  IInv'
<1>1. PICK p, l : Go(c, p, l) /\ Remembers(p, l) /\ p \notin Earning
  BY DEF GoesOn
<1>2. Earned(p, l)'
  BY <1>1 DEF Earned, Earning
<1> QED
  BY <1>1, <1>2, StepOK

\* A call that only reads, after which c goes on.
LEMMA GoesOnReading ==
    ASSUME IInv, NEW c \in Clients, GoesOn(c), Calling(c), Reads
    PROVE  IInv'
<1>1. PICK p, l : Go(c, p, l) /\ Remembers(p, l) /\ p \notin Earning
  BY DEF GoesOn
<1>2. Earned(p, l)
  BY <1>1 DEF Earned, Earning
<1> QED
  BY <1>1, <1>2, ReadStep

\* A client with nothing under way remembers nothing.
LEMMA FreshOK == Fresh \in Locals
BY DEF Fresh, Locals

\* Each field of what a client remembers can be set.
LEMMA SetFields ==
    ASSUME NEW l \in Locals
    PROVE  /\ \A x \in OpNames \cup {None} : [l EXCEPT !.op = x] \in Locals
           /\ \A x \in Placements \cup {None} : [l EXCEPT !.want = x] \in Locals
           /\ \A x \in {"source", "loop", "refuse", "answer", "body", "end"} :
                [l EXCEPT !.ret = x] \in Locals
           /\ \A x \in Request \cup {None} : [l EXCEPT !.rq = x] \in Locals
           /\ \A x \in LiveDoc \cup {None} : [l EXCEPT !.src = x] \in Locals
           /\ \A x \in Record \cup {None} : /\ [l EXCEPT !.cand = x] \in Locals
                                           /\ [l EXCEPT !.rv = x] \in Locals
                                           /\ [l EXCEPT !.seen = x] \in Locals
                                           /\ [l EXCEPT !.tr = x] \in Locals
           /\ \A x \in Doc \cup {None} : [l EXCEPT !.dv = x] \in Locals
           /\ \A x \in BOOLEAN : [l EXCEPT !.ans = x] \in Locals
           /\ \A x \in 1..6 : [l EXCEPT !.k = x] \in Locals
BY DEF Locals

\* An operation that ends.
LEMMA IdleOK == ASSUME NEW c \in Clients, Idle(c) PROVE GoesOn(c)
<1>1. Remembers("idle", Fresh)
  BY FreshOK DEF Remembers, PCs, Carrying, Recovering, Preparing, Admitting
<1> QED
  BY <1>1 DEF Idle, GoesOn, Earning

\* recover_job_transition called with a request still to be answered, or none
\* needed.
LEMMA CallRecoverOK ==
    ASSUME NEW c \in Clients, NEW l \in Locals,
           NEW ret \in {"source", "loop", "refuse", "answer", "body", "end"},
           CallRecover(c, l, ret),
           ret \in {"source", "loop", "refuse", "answer"} => l.rq \in Request,
           ret = "body" /\ l.op = "admit" => l.want \in Placements
    PROVE  GoesOn(c)
<1> DEFINE m == [l EXCEPT !.ret = ret]
<1>1. m \in Locals /\ m.ret = ret /\ m.rq = l.rq /\ m.op = l.op /\ m.want = l.want
  BY DEF Locals
<1>2. Remembers("record", m)
  BY <1>1 DEF Remembers, PCs, Carrying, Recovering, Preparing, Admitting
<1> QED
  BY <1>2 DEF CallRecover, GoesOn, Earning

\* transition_job_if_version called with a request.
LEMMA CallTransitionOK ==
    ASSUME IInv, NEW c \in Clients, NEW q \in Request, CallTransition(c, q)
    PROVE  GoesOn(c)
<1> DEFINE m == [Fresh EXCEPT !.op = lv[c].op, !.rq = q]
<1>1. lv[c].op \in OpNames \cup {None}
  BY DEF IInv, Locals
<1>2. m \in Locals
  BY <1>1, FreshOK, SetFields, Zenon
<1>3. m.rq = q
  BY Zenon DEF Fresh
<1> QED
  BY <1>2, <1>3, CallRecoverOK DEF CallTransition

\* The answer of transition_job_if_version reaches its operation.
LEMMA AnswerOK ==
    ASSUME IInv, NEW c \in Clients, NEW b \in BOOLEAN, Answer(c, b)
    PROVE  GoesOn(c)
<1> DEFINE m == [Fresh EXCEPT !.op = lv[c].op, !.ans = b]
<1>1. lv[c].op \in OpNames \cup {None}
  BY DEF IInv, Locals
<1>2. m \in Locals
  BY <1>1, FreshOK, SetFields, Zenon
<1>3. Idle(c) \/ \E p \in {"recheck", "follow", "settled"} : Go(c, p, m)
  BY DEF Answer
<1>4. ASSUME NEW p \in {"recheck", "follow", "settled"} PROVE Remembers(p, m)
  BY <1>2 DEF Remembers, PCs, Carrying, Recovering, Preparing, Admitting
<1> QED
  BY <1>3, <1>4, IdleOK DEF GoesOn, Earning

\* The answer of recover_job_transition reaches the point that called it.
LEMMA RecoveredOK ==
    ASSUME IInv, NEW c \in Clients, pc[c] \in Recovering, NEW b \in BOOLEAN,
           Recovered(c, b)
    PROVE  GoesOn(c)
<1> DEFINE m == [lv[c] EXCEPT !.tr = None, !.dv = None, !.ans = FALSE, !.k = 1]
<1>1. lv[c] \in Locals /\ Remembers(pc[c], lv[c])
  BY DEF IInv, ClientOK
<1>2. m \in Locals
  <2>1. 1 \in 1..6
    OBVIOUS
  <2> QED
    BY <1>1, <2>1, SetFields, Zenon
<1>3. /\ m.rq = lv[c].rq /\ m.op = lv[c].op
      /\ m.ret = lv[c].ret /\ m.want = lv[c].want
  BY <1>1, Zenon DEF Locals
<1>4. m.ret \in {"source", "loop", "refuse", "answer", "body", "end"}
  BY <1>2 DEF Locals
<1>5. /\ m.ret \in {"source", "loop", "refuse", "answer"} => m.rq \in Request
      /\ m.ret = "body" /\ m.op = "admit" => m.want \in Placements
  BY <1>1, <1>3 DEF Remembers
<1>6. CASE m.ret = "source"
  <2>1. Go(c, "source", m)
    BY <1>6 DEF Recovered
  <2>2. Remembers("source", m)
    BY <1>2, <1>5, <1>6 DEF Remembers, PCs, Carrying, Recovering, Preparing, Admitting
  <2> QED
    BY <2>1, <2>2 DEF GoesOn, Earning
<1>7. CASE m.ret = "loop" \/ (m.ret = "answer" /\ ~b)
  <2>1. CallRecover(c, m, "source")
    BY <1>7 DEF Recovered
  <2> QED
    BY <1>2, <1>5, <1>7, <2>1, CallRecoverOK
<1>8. CASE m.ret = "refuse" \/ (m.ret = "answer" /\ b)
  <2>1. Answer(c, FALSE) \/ Answer(c, TRUE)
    BY <1>8 DEF Recovered
  <2> QED
    BY <2>1, AnswerOK
<1>9. CASE m.ret = "body"
  <2>1. /\ m.op = "admit" => Go(c, "admit", m)
        /\ m.op # "admit" => Go(c, "body", m)
    BY <1>9 DEF Recovered
  <2>2. /\ m.op = "admit" => Remembers("admit", m)
        /\ Remembers("body", m)
    BY <1>2, <1>5, <1>9 DEF Remembers, PCs, Carrying, Recovering, Preparing, Admitting
  <2> QED
    BY <2>1, <2>2 DEF GoesOn, Earning
<1>10. CASE m.ret = "end"
  BY <1>10, IdleOK DEF Recovered
<1> QED
  BY <1>4, <1>6, <1>7, <1>8, <1>9, <1>10

-----------------------------------------------------------------------------
\* Recovery goes on to its next call with the record it read.
LEMMA Onward ==
    ASSUME IInv, NEW c \in Clients, pc[c] \in Recovering, NEW p \in Carrying,
           NEW l \in Locals, l.tr \in Record, l.rq = lv[c].rq, l.ret = lv[c].ret,
           l.op = lv[c].op, l.want = lv[c].want,
           p \in {"finishSource", "outcome"} => l.dv \in LiveDoc /\ l.dv.st = l.tr.id.to
    PROVE  Remembers(p, l)
<1>1. Remembers(pc[c], lv[c])
  BY DEF IInv, ClientOK
<1> QED
  BY <1>1 DEF Remembers, PCs, Carrying, Recovering, Preparing, Admitting

\* The same when it remembers nothing more.
LEMMA OnwardSame ==
    ASSUME IInv, NEW c \in Clients, pc[c] \in Carrying,
           NEW p \in Carrying \ {"finishSource", "outcome"}
    PROVE  Remembers(p, lv[c])
<1>1. lv[c] \in Locals /\ lv[c].tr \in Record /\ pc[c] \in Recovering
  BY DEF IInv, ClientOK, Remembers, Recovering
<1> QED
  BY <1>1, Onward

\* So it does when it needs nothing of the store either.
LEMMA OnwardGoes ==
    ASSUME IInv, NEW c \in Clients, pc[c] \in Carrying,
           NEW p \in Carrying \ ({"finishSource", "outcome"} \cup Earning),
           Go(c, p, lv[c])
    PROVE  GoesOn(c)
<1>1. Remembers(p, lv[c])
  BY OnwardSame
<1> QED
  BY <1>1 DEF GoesOn

\* What recovery works on: a record, two prefixes, live documents.
LEMMA RecordParts ==
    ASSUME NEW r \in Record
    PROVE  /\ r.id \in TransitionId /\ r.id.from \in Prefix /\ r.id.to \in Prefix
           /\ r.id.src \in LiveDoc /\ r.id.dst \in LiveDoc
           /\ r.state \in {"prepared", "completed", "aborted", "retired"}
BY DEF Record, TransitionId

\* recover_job_transition reads the record.
LEMMA RecoverRecordStep ==
    ASSUME IInv, NEW c \in Clients, RecoverRecord(c) PROVE IInv'
<1>1. pc[c] \in Recovering /\ lv[c] \in Locals
  BY DEF RecoverRecord, At, Recovering, IInv
<1>2. CASE record = None \/ record.state = "retired"
  <2>1. Recovered(c, FALSE)
    BY <1>2 DEF RecoverRecord
  <2> QED
    BY <1>1, <2>1, RecoveredOK, GoesOnReading DEF RecoverRecord
<1>3. CASE record # None /\ record.state # "retired"
  <2> DEFINE m == [lv[c] EXCEPT !.tr = record]
  <2>1. record \in Record
    BY <1>3 DEF IInv, StoreOK, ObjectsType
  <2>2. /\ m \in Locals /\ m.tr = record /\ m.rq = lv[c].rq /\ m.ret = lv[c].ret
        /\ m.op = lv[c].op /\ m.want = lv[c].want
    BY <1>1, <2>1 DEF Locals
  <2>3. \E p \in {"abortDest", "finish", "fenceRead"} : Go(c, p, m)
    BY <1>3, <2>1, RecordParts DEF RecoverRecord
  <2>4. ASSUME NEW p \in {"abortDest", "finish", "fenceRead"} PROVE Remembers(p, m)
    BY <1>1, <2>1, <2>2, Onward DEF Carrying
  <2>5. GoesOn(c)
    BY <2>3, <2>4 DEF GoesOn, Earning
  <2> QED
    BY <2>5, GoesOnReading DEF RecoverRecord
<1> QED
  BY <1>2, <1>3

\* The judgement of an aborted record, and the probes of a missing source.
LEMMA AbortedDestinationStep ==
    ASSUME IInv, NEW c \in Clients, AbortedDestination(c) PROVE IInv'
<1>1. pc[c] \in Carrying /\ pc[c] \in Recovering
  BY DEF AbortedDestination, At, Carrying, Recovering
<1>2. Go(c, "abortSource", lv[c]) \/ Recovered(c, FALSE)
  BY DEF AbortedDestination
<1>3. GoesOn(c)
  BY <1>1, <1>2, OnwardGoes, RecoveredOK DEF Earning, Carrying
<1> QED
  BY <1>3, GoesOnReading DEF AbortedDestination

\* An aborted record whose move proves done is upgraded.
LEMMA AbortedSourceStep ==
    ASSUME IInv, NEW c \in Clients, AbortedSource(c) PROVE IInv'
<1>1. pc[c] \in Carrying /\ pc[c] \in Recovering
  BY DEF AbortedSource, At, Carrying, Recovering
<1>2. Go(c, "complete", lv[c]) \/ Recovered(c, FALSE)
  BY DEF AbortedSource
<1>3. GoesOn(c)
  BY <1>1, <1>2, OnwardGoes, RecoveredOK DEF Earning, Carrying
<1> QED
  BY <1>3, GoesOnReading DEF AbortedSource

\* A source already fenced by this move may have its destination written: the
\* sentinel proves that the fence landed.
LEMMA FenceReadStep ==
    ASSUME IInv, NEW c \in Clients, FenceRead(c) PROVE IInv'
<1> DEFINE id == lv[c].tr.id
<1>1. pc[c] \in Carrying
  BY DEF FenceRead, At, Carrying
<1>2. id \in TransitionId /\ id.from \in Prefix
  BY <1>1, RecordParts DEF IInv, ClientOK, Remembers
<1>3. \/ \E p \in {"goneDest", "fence", "abort"} : Go(c, p, lv[c])
      \/ Sentinel(docs[id.from], "fence", id) /\ Go(c, "dest", lv[c])
  BY DEF FenceRead
<1>4. CASE \E p \in {"goneDest", "fence", "abort"} : Go(c, p, lv[c])
  <2>1. GoesOn(c)
    BY <1>1, <1>4, OnwardGoes DEF Earning, Carrying
  <2> QED
    BY <2>1, GoesOnReading DEF FenceRead
<1>5. CASE Sentinel(docs[id.from], "fence", id) /\ Go(c, "dest", lv[c])
  <2>1. id \in fenced
    BY <1>2, <1>5 DEF IInv, StoreOK, DocOK, Sentinel
  <2>2. Remembers("dest", lv[c]) /\ Earned("dest", lv[c])
    BY <1>1, <2>1, OnwardSame DEF Earned, Carrying
  <2> QED
    BY <1>5, <2>2, ReadStep DEF FenceRead
<1> QED
  BY <1>3, <1>4, <1>5

\* The sentinel a document becomes keeps its worker and its placement.
LEMMA StampOK ==
    ASSUME NEW d \in Doc, NEW st \in {"fence", "cleaned"}, NEW id \in TransitionId
    PROVE  /\ Stamp(d, st, id) \in SentinelDoc
           /\ Stamp(d, st, id).st = st /\ Stamp(d, st, id).id = id
           /\ Stamp(d, st, id).by = d.by /\ Stamp(d, st, id).rev = d.rev
<1>1. /\ d.lease \in Nat /\ d.by \in Clients \cup {None} /\ d.rev \in Placements
      /\ d.restarts \in Nat /\ d.lost \in BOOLEAN
  BY DEF Doc, LiveDoc, SentinelDoc
<1>2. PICK x : x = [d EXCEPT !.st = st]
  OBVIOUS
<1>3. x = [st |-> st, id |-> d.id, lease |-> d.lease, by |-> d.by, rev |-> d.rev,
           restarts |-> d.restarts, lost |-> d.lost]
  BY <1>2 DEF Doc, LiveDoc, SentinelDoc
<1>4. Stamp(d, st, id) = [x EXCEPT !.id = id]
  BY <1>2, Zenon DEF Stamp
<1> QED
  BY <1>1, <1>3, <1>4 DEF SentinelDoc

\* The source fence lands on exactly the generation the record pinned.
LEMMA FenceSwapStep ==
    ASSUME IInv, NEW c \in Clients, FenceSwap(c) PROVE IInv'
<1>1. PICK l : l = lv[c]
  OBVIOUS
<1> DEFINE id == l.tr.id
<1>2. pc[c] \in Carrying /\ pc[c] \in Recovering
  BY DEF FenceSwap, At, Carrying, Recovering
<1>3. id \in TransitionId /\ id.from \in Prefix /\ id.src \in LiveDoc
  BY <1>1, <1>2, RecordParts DEF IInv, ClientOK, Remembers
<1>4. RestType'
  BY DEF IInv, RestType, FenceSwap, Calling
<1>5. CASE docs[id.from] = id.src
  <2>1. PICK d : d = Stamp(docs[id.from], "fence", id)
    OBVIOUS
  <2>2. /\ docs' = [docs EXCEPT ![id.from] = d]
        /\ fenced' = fenced \cup {id} /\ Go(c, "dest", l)
    BY <1>1, <1>3, <1>5, <2>1 DEF FenceSwap, IInv, StoreOK
  <2>3. ObjectsType' /\ Grows
    BY <1>3, <2>2 DEF FenceSwap, IInv, StoreOK, ObjectsType, Grows
  <2>4. docs[id.from] \in Doc
    BY <1>3, <1>5 DEF Doc
  <2>5. /\ d \in SentinelDoc /\ d.st = "fence" /\ d.id = id
        /\ d.by = docs[id.from].by /\ d.rev = docs[id.from].rev
    BY <1>3, <2>1, <2>4, StampOK
  <2>6. DocOK(id.from, docs[id.from]) /\ docs[id.from] # None
    BY <1>3, <1>5, NoneAssumption DEF IInv, StoreOK, Doc
  <2>7. DocOK(id.from, d)'
    BY <2>2, <2>5, <2>6 DEF DocOK, Doc
  <2>8. StoreOK'
    BY <1>3, <2>2, <2>3, <2>7, DocWritten DEF IInv
  <2>9. Remembers("dest", l) /\ Earned("dest", l)'
    BY <1>1, <1>2, <2>2, OnwardSame DEF Earned, Carrying
  <2> QED
    BY <1>4, <2>2, <2>3, <2>8, <2>9, StepOK
<1>6. CASE docs[id.from] # id.src
  <2>1. docs' = docs /\ fenced' = fenced /\ Recovered(c, FALSE)
    BY <1>1, <1>6 DEF FenceSwap
  <2>2. Reads /\ Calling(c)
    BY <2>1 DEF FenceSwap, Reads, store
  <2> QED
    BY <1>2, <2>1, <2>2, RecoveredOK, GoesOnReading
<1> QED
  BY <1>5, <1>6

\* The probes after a source is gone.
LEMMA GoneDestinationStep ==
    ASSUME IInv, NEW c \in Clients, GoneDestination(c) PROVE IInv'
<1> DEFINE m == [lv[c] EXCEPT !.k = 1]
<1>1. /\ pc[c] \in Carrying /\ pc[c] \in Recovering
      /\ lv[c] \in Locals /\ lv[c].tr \in Record
  BY DEF GoneDestination, At, Carrying, Recovering, IInv, ClientOK, Remembers
<1>2. /\ m \in Locals /\ m.tr = lv[c].tr /\ m.rq = lv[c].rq /\ m.ret = lv[c].ret
      /\ m.op = lv[c].op /\ m.want = lv[c].want
  BY <1>1 DEF Locals
<1>3. Remembers("goneProbe", m)
  BY <1>1, <1>2, Onward DEF Carrying
<1>4. Go(c, "complete", lv[c]) \/ Go(c, "goneProbe", m)
  BY DEF GoneDestination
<1>5. GoesOn(c)
  <2>1. CASE Go(c, "complete", lv[c])
    BY <1>1, <2>1, OnwardGoes DEF Carrying, Earning
  <2>2. CASE Go(c, "goneProbe", m)
    BY <1>3, <2>2 DEF GoesOn, Earning
  <2> QED
    BY <1>4, <2>1, <2>2
<1> QED
  BY <1>5, GoesOnReading DEF GoneDestination

\* A probe goes on to the next prefix.
NextProbe(c) == lv[c].k # 6 /\ Go(c, pc[c], [lv[c] EXCEPT !.k = @ + 1])

\* The client then remembers what the probe needs.
LEMMA NextProbeOK ==
    ASSUME IInv, NEW c \in Clients, NextProbe(c),
           pc[c] \in {"goneProbe", "finishProbe", "lookup", "admit"}
    PROVE  GoesOn(c)
<1> DEFINE m == [lv[c] EXCEPT !.k = @ + 1]
<1>1. /\ lv[c] \in Locals /\ lv[c].k \in 1..6 /\ lv[c].k # 6
      /\ Remembers(pc[c], lv[c]) /\ Go(c, pc[c], m)
  BY DEF IInv, Locals, ClientOK, NextProbe
<1>2. /\ m \in Locals /\ m.tr = lv[c].tr /\ m.rq = lv[c].rq /\ m.ret = lv[c].ret
      /\ m.op = lv[c].op /\ m.want = lv[c].want
  BY <1>1 DEF Locals
<1>3. Remembers(pc[c], m)
  BY <1>1, <1>2 DEF Remembers, Preparing, Admitting
<1> QED
  BY <1>1, <1>3 DEF GoesOn, Earning

\* A job found elsewhere aborts the move, a job found nowhere is an error.
LEMMA GoneProbeStep ==
    ASSUME IInv, NEW c \in Clients, GoneProbe(c) PROVE IInv'
<1>1. pc[c] = "goneProbe" /\ pc[c] \in Carrying
  BY DEF GoneProbe, At, Carrying
<1>2. Go(c, "abort", lv[c]) \/ Answer(c, FALSE) \/ NextProbe(c)
  BY DEF GoneProbe, Probe, Fail, NextProbe
<1>3. GoesOn(c)
  BY <1>1, <1>2, OnwardGoes, AnswerOK, NextProbeOK DEF Carrying, Earning
<1> QED
  BY <1>3, GoesOnReading DEF GoneProbe

\* The destination is read with the fence in place, which stays landed.
LEMMA DestinationReadStep ==
    ASSUME IInv, NEW c \in Clients, DestinationRead(c) PROVE IInv'
<1> DEFINE d == docs[lv[c].tr.id.to]
           m == [lv[c] EXCEPT !.dv = d]
<1>1. /\ pc[c] = "dest" /\ pc[c] \in Carrying /\ pc[c] \in Recovering
      /\ lv[c] \in Locals /\ lv[c].tr \in Record
  BY DEF DestinationRead, At, Carrying, Recovering, IInv, ClientOK, Remembers
<1>2. lv[c].tr.id \in fenced /\ d \in Doc \cup {None}
  BY <1>1, RecordParts DEF IInv, ClientOK, Earned, StoreOK
<1>3. /\ m \in Locals /\ m.tr = lv[c].tr /\ m.rq = lv[c].rq /\ m.ret = lv[c].ret
      /\ m.op = lv[c].op /\ m.want = lv[c].want
  BY <1>1, <1>2 DEF Locals
<1>4. \/ \E p \in {"create", "swap"} : Go(c, p, m)
      \/ Go(c, "index", lv[c]) \/ Answer(c, FALSE)
  BY DEF DestinationRead, Fail
<1>5. ASSUME NEW p \in {"create", "swap"}, Go(c, p, m) PROVE IInv'
  <2>1. Remembers(p, m) /\ Earned(p, m)
    BY <1>1, <1>2, <1>3, Onward DEF Earned, Carrying
  <2> QED
    BY <1>5, <2>1, ReadStep DEF DestinationRead
<1>6. CASE Go(c, "index", lv[c]) \/ Answer(c, FALSE)
  <2>1. GoesOn(c)
    BY <1>1, <1>6, OnwardGoes, AnswerOK DEF Carrying, Earning
  <2> QED
    BY <2>1, GoesOnReading DEF DestinationRead
<1> QED
  BY <1>4, <1>5, <1>6

\* The destination is written: the transition that promised it is fenced.
LEMMA DestinationWriteStep ==
    ASSUME IInv, NEW c \in Clients, DestinationWrite(c) PROVE IInv'
<1>1. PICK l : l = [lv[c] EXCEPT !.dv = None]
  OBVIOUS
<1> DEFINE id == l.tr.id
<1>2. /\ pc[c] \in {"create", "swap"} /\ pc[c] \in Carrying /\ pc[c] \in Recovering
      /\ lv[c] \in Locals /\ lv[c].tr \in Record
  BY DEF DestinationWrite, At, Carrying, Recovering, IInv, ClientOK, Remembers
<1>3. /\ l \in Locals /\ l.tr = lv[c].tr /\ l.rq = lv[c].rq /\ l.ret = lv[c].ret
      /\ l.op = lv[c].op /\ l.want = lv[c].want
  BY <1>1, <1>2 DEF Locals
<1>4. id \in fenced /\ id.to \in Prefix /\ id.dst \in LiveDoc
  BY <1>2, <1>3, RecordParts DEF IInv, ClientOK, Earned
<1>5. ObjectsType' /\ RestType' /\ Grows
  BY DEF DestinationWrite, Calling, IInv, StoreOK, ObjectsType, RestType, Grows
<1>6. Remembers("index", l) /\ Remembers("dest", l) /\ Earned("dest", l)'
  BY <1>2, <1>3, <1>4, <1>5, Onward DEF Carrying, Earned, Grows
<1>7. CASE docs' = [docs EXCEPT ![id.to] = id.dst] /\ Go(c, "index", l)
  <2>1. DocOK(id.to, id.dst)'
    BY <1>4, <1>5 DEF DocOK, Doc, LiveDoc, Prefix, Terminal, Grows
  <2>2. StoreOK'
    BY <1>4, <1>5, <1>7, <2>1, DocWritten DEF IInv
  <2>3. GoesOn(c)
    BY <1>6, <1>7 DEF GoesOn, Earning
  <2> QED
    BY <1>5, <2>2, <2>3, GoesOnStep
<1>8. CASE docs' = docs /\ Go(c, "dest", l)
  <2>1. StoreOK'
    BY <1>5, <1>8, DocsKept DEF IInv
  <2> QED
    BY <1>5, <1>6, <1>8, <2>1, StepOK
<1> QED
  BY <1>1, <1>3, <1>7, <1>8 DEF DestinationWrite

\* A step that leaves the documents alone and lets c go on.
LEMMA ObjectStep ==
    ASSUME IInv, NEW c \in Clients, GoesOn(c), docs' = docs, ObjectsType', RestType',
           Grows
    PROVE  IInv'
<1>1. StoreOK'
  BY DocsKept DEF IInv
<1> QED
  BY <1>1, GoesOnStep

\* The index marker.
LEMMA DestinationIndexStep ==
    ASSUME IInv, NEW c \in Clients, DestinationIndex(c) PROVE IInv'
<1>1. pc[c] \in Carrying
  BY DEF DestinationIndex, At, Carrying
<1>2. Go(c, "complete", lv[c]) \/ Answer(c, FALSE)
  BY DEF DestinationIndex, Fail
<1>3. GoesOn(c)
  BY <1>1, <1>2, OnwardGoes, AnswerOK DEF Carrying, Earning
<1>4. docs' = docs /\ ObjectsType' /\ RestType' /\ Grows
  BY DEF DestinationIndex, Calling, IInv, StoreOK, ObjectsType, RestType, Grows
<1> QED
  BY <1>3, <1>4, ObjectStep

\* set_transition_state keeps a record a record.
LEMMA SetStateOK ==
    ASSUME IInv, NEW c \in Clients, NEW st \in {"completed", "aborted"},
           SetState(c, st), Calling(c)
    PROVE  docs' = docs /\ ObjectsType' /\ RestType' /\ Grows
<1>1. record' \in Record \cup {None}
  BY DEF SetState, SameGeneration, IInv, StoreOK, ObjectsType, Record
<1> QED
  BY <1>1 DEF SetState, Calling, IInv, StoreOK, ObjectsType, RestType, Grows

\* The record is marked completed, or is of another generation.
LEMMA MarkCompletedStep ==
    ASSUME IInv, NEW c \in Clients, MarkCompleted(c) PROVE IInv'
<1>1. pc[c] \in Carrying /\ pc[c] \in Recovering
  BY DEF MarkCompleted, At, Carrying, Recovering
<1>2. Go(c, "finish", lv[c]) \/ Recovered(c, FALSE)
  BY DEF MarkCompleted
<1>3. GoesOn(c)
  BY <1>1, <1>2, OnwardGoes, RecoveredOK DEF Carrying, Earning
<1> QED
  BY <1>3, SetStateOK, ObjectStep DEF MarkCompleted

\* The record is marked aborted.
LEMMA MarkAbortedStep ==
    ASSUME IInv, NEW c \in Clients, MarkAborted(c) PROVE IInv'
<1>1. pc[c] \in Recovering /\ Recovered(c, FALSE)
  BY DEF MarkAborted, At, Carrying, Recovering
<1>2. GoesOn(c)
  BY <1>1, RecoveredOK
<1> QED
  BY <1>2, SetStateOK, ObjectStep DEF MarkAborted

-----------------------------------------------------------------------------
\* finish_completed_transition reads the destination it will retain.
LEMMA FinishDestinationStep ==
    ASSUME IInv, NEW c \in Clients, FinishDestination(c) PROVE IInv'
<1> DEFINE to == lv[c].tr.id.to
           m == [lv[c] EXCEPT !.dv = docs[to], !.ans = TRUE]
           n == [lv[c] EXCEPT !.k = 1]
<1>1. /\ pc[c] \in Carrying /\ pc[c] \in Recovering
      /\ lv[c] \in Locals /\ lv[c].tr \in Record /\ to \in Prefix
  BY RecordParts DEF FinishDestination, At, Carrying, Recovering, IInv, ClientOK, Remembers
<1>2. CASE Live(to)
  <2>1. docs[to] \in LiveDoc /\ docs[to].st = to
    BY <1>1, <1>2 DEF Live, IInv, StoreOK, Doc, SentinelDoc, Prefix, Terminal
  <2>2. m \in Locals
    <3>1. docs[to] \in Doc \cup {None}
      BY <2>1 DEF Doc
    <3> QED
      BY <1>1, <3>1, SetFields, Zenon
  <2>3. /\ m.tr = lv[c].tr /\ m.rq = lv[c].rq /\ m.ret = lv[c].ret
        /\ m.op = lv[c].op /\ m.want = lv[c].want /\ m.dv = docs[to]
    BY <1>1, Zenon DEF Locals
  <2>4. Remembers("finishSource", m)
    <3> HIDE DEF m
    <3> QED
      BY <1>1, <2>1, <2>2, <2>3, Onward DEF Carrying
  <2>5. Go(c, "finishSource", m)
    BY <1>2, Zenon DEF FinishDestination
  <2>6. GoesOn(c)
    <3> HIDE DEF m
    <3> QED
      BY <2>4, <2>5 DEF GoesOn, Earning
  <2> QED
    BY <2>6, GoesOnReading DEF FinishDestination
<1>3. CASE ~Live(to)
  <2>1. /\ n \in Locals /\ n.tr = lv[c].tr /\ n.rq = lv[c].rq /\ n.ret = lv[c].ret
        /\ n.op = lv[c].op /\ n.want = lv[c].want
    BY <1>1 DEF Locals
  <2>2. Remembers("finishProbe", n)
    BY <1>1, <2>1, Onward DEF Carrying
  <2>3. Go(c, "finishProbe", n)
    BY <1>3, Zenon DEF FinishDestination
  <2>4. GoesOn(c)
    BY <2>2, <2>3 DEF GoesOn, Earning
  <2> QED
    BY <2>4, GoesOnReading DEF FinishDestination
<1> QED
  BY <1>2, <1>3

\* A job that left this destination leaves nothing to finish.
LEMMA FinishProbeStep ==
    ASSUME IInv, NEW c \in Clients, FinishProbe(c) PROVE IInv'
<1>1. pc[c] = "finishProbe" /\ pc[c] \in Carrying
  BY DEF FinishProbe, At, Carrying
<1>2. Go(c, "retire", lv[c]) \/ Answer(c, FALSE) \/ NextProbe(c)
  BY DEF FinishProbe, Probe, Fail, NextProbe
<1>3. GoesOn(c)
  BY <1>1, <1>2, OnwardGoes, AnswerOK, NextProbeOK DEF Carrying, Earning
<1> QED
  BY <1>3, GoesOnReading DEF FinishProbe

\* A source is cleaned without an outcome only on the way to a prefix that is
\* not terminal.
LEMMA FinishSourceStep ==
    ASSUME IInv, NEW c \in Clients, FinishSource(c) PROVE IInv'
<1>1. /\ pc[c] = "finishSource" /\ pc[c] \in Carrying /\ pc[c] \in Recovering
      /\ lv[c] \in Locals /\ lv[c].tr \in Record
      /\ lv[c].dv \in LiveDoc /\ lv[c].dv.st = lv[c].tr.id.to
  BY DEF FinishSource, At, Carrying, Recovering, IInv, ClientOK, Remembers
<1>2. \/ Go(c, "retire", lv[c]) \/ Go(c, "outcome", lv[c])
      \/ lv[c].tr.id.to \notin Terminal /\ Go(c, "clean", lv[c])
  BY DEF FinishSource
<1>3. CASE Go(c, "retire", lv[c]) \/ Go(c, "outcome", lv[c])
  <2>1. Remembers("retire", lv[c]) /\ Remembers("outcome", lv[c])
    BY <1>1, Onward DEF Carrying
  <2>2. GoesOn(c)
    BY <1>3, <2>1 DEF GoesOn, Earning
  <2> QED
    BY <2>2, GoesOnReading DEF FinishSource
<1>4. CASE lv[c].tr.id.to \notin Terminal /\ Go(c, "clean", lv[c])
  <2>1. Remembers("clean", lv[c]) /\ Earned("clean", lv[c])
    BY <1>1, <1>4, OnwardSame DEF Carrying, Earned, Retained
  <2> QED
    BY <1>4, <2>1, ReadStep DEF FinishSource
<1> QED
  BY <1>2, <1>3, <1>4

\* record_terminal_outcome retains the outcome before the source is cleaned,
\* once, or refuses.
LEMMA RecordOutcomeStep ==
    ASSUME IInv, NEW c \in Clients, RecordOutcome(c) PROVE IInv'
<1>1. PICK l : l = lv[c]
  OBVIOUS
<1> DEFINE refused == \/ manifest = "unreadable"
                      \/ manifest = "present" /\ outcome \notin {None, l.dv}
<1>2. /\ pc[c] = "outcome" /\ pc[c] \in Carrying /\ pc[c] \in Recovering
      /\ l \in Locals /\ l.tr \in Record /\ l.dv \in LiveDoc /\ l.dv.st = l.tr.id.to
  BY <1>1 DEF RecordOutcome, At, Carrying, Recovering, IInv, ClientOK, Remembers
<1>3. l.dv # None
  BY <1>2, NoneAssumption DEF Doc
<1>4. /\ outcome' = IF manifest = "present" /\ ~refused THEN l.dv ELSE outcome
      /\ IF refused THEN Recovered(c, FALSE) ELSE Go(c, "clean", l)
  BY <1>1 DEF RecordOutcome
<1>5. docs' = docs /\ RestType' /\ ObjectsType' /\ Grows
  BY <1>2, <1>4 DEF RecordOutcome, Calling, IInv, StoreOK, ObjectsType, RestType, Grows
<1>6. CASE refused
  BY <1>2, <1>4, <1>5, <1>6, RecoveredOK, ObjectStep
<1>7. CASE ~refused
  <2>1. Remembers("clean", l)
    BY <1>1, <1>2, OnwardSame DEF Carrying
  <2>2. Earned("clean", l)'
    BY <1>2, <1>3, <1>4, <1>5, <1>7 DEF Earned, Retained, Grows
  <2>3. StoreOK'
    BY <1>5, DocsKept DEF IInv
  <2> QED
    BY <1>4, <1>5, <1>7, <2>1, <2>2, <2>3, StepOK
<1> QED
  BY <1>6, <1>7

\* Marking a fenced source cleaned, the outcome being retained, keeps the
\* documents sound.
LEMMA CleanOK ==
    ASSUME IInv, NEW id \in TransitionId, NEW d, Retained(id),
           Sentinel(docs[id.from], "fence", id),
           d = Stamp(docs[id.from], "cleaned", id),
           docs' = [docs EXCEPT ![id.from] = d], ObjectsType', Grows
    PROVE  StoreOK'
<1>1. /\ id.from \in Prefix /\ docs[id.from] \in Doc /\ docs[id.from] # None
      /\ DocOK(id.from, docs[id.from])
  BY DEF IInv, StoreOK, Sentinel, TransitionId
<1>2. /\ d \in SentinelDoc /\ d.st = "cleaned" /\ d.id = id
      /\ d.by = docs[id.from].by /\ d.rev = docs[id.from].rev
  BY <1>1, StampOK
<1>3. id \in fenced /\ Retained(id)'
  BY <1>1 DEF DocOK, Sentinel, Retained, Grows
<1>4. DocOK(id.from, d)'
  BY <1>1, <1>2, <1>3 DEF DocOK, Doc, Grows
<1> QED
  BY <1>1, <1>4, DocWritten DEF IInv

\* retire_transition_source, outside queue/ in one swap.
LEMMA CleanSourceStep ==
    ASSUME IInv, NEW c \in Clients, CleanSource(c) PROVE IInv'
<1>1. PICK l : l = lv[c]
  OBVIOUS
<1> DEFINE id == l.tr.id
<1>2. /\ pc[c] = "clean" /\ pc[c] \in Carrying /\ pc[c] \in Recovering
      /\ id \in TransitionId /\ Retained(id)
  BY <1>1, RecordParts DEF CleanSource, At, Carrying, Recovering, IInv, ClientOK,
                           Remembers, Earned
<1>3. ObjectsType' /\ RestType' /\ Grows
  BY DEF CleanSource, Calling, IInv, StoreOK, ObjectsType, RestType, Grows
<1>4. \/ docs' = docs /\ Go(c, "retire", l)
      \/ docs' = docs /\ Go(c, "unmark", l)
      \/ /\ Sentinel(docs[id.from], "fence", id) /\ Go(c, "retire", l)
         /\ docs' = [docs EXCEPT ![id.from] = Stamp(@, "cleaned", id)]
  BY <1>1 DEF CleanSource
<1>5. CASE docs' = docs /\ Go(c, "retire", l)
  BY <1>1, <1>2, <1>3, <1>5, OnwardGoes, ObjectStep DEF Carrying, Earning
<1>6. CASE docs' = docs /\ Go(c, "unmark", l)
  <2>1. Remembers("unmark", l) /\ Earned("unmark", l)'
    BY <1>1, <1>2, <1>3, OnwardSame DEF Carrying, Earned, Retained, Grows
  <2>2. StoreOK'
    BY <1>3, <1>6, DocsKept DEF IInv
  <2> QED
    BY <1>3, <1>6, <2>1, <2>2, StepOK
<1>7. CASE /\ Sentinel(docs[id.from], "fence", id) /\ Go(c, "retire", l)
           /\ docs' = [docs EXCEPT ![id.from] = Stamp(@, "cleaned", id)]
  <2>1. PICK d : d = Stamp(docs[id.from], "cleaned", id)
    OBVIOUS
  <2>2. docs' = [docs EXCEPT ![id.from] = d]
    BY <1>2, <1>7, <2>1 DEF TransitionId, IInv, StoreOK
  <2>3. StoreOK'
    BY <1>2, <1>3, <1>7, <2>1, <2>2, CleanOK
  <2>4. GoesOn(c)
    BY <1>1, <1>2, <1>7, OnwardGoes DEF Carrying, Earning
  <2> QED
    BY <1>3, <2>3, <2>4, GoesOnStep
<1> QED
  BY <1>4, <1>5, <1>6, <1>7

\* The marker of a job that leaves queue/ goes first.
LEMMA UnmarkStep ==
    ASSUME IInv, NEW c \in Clients, Unmark(c) PROVE IInv'
<1>1. PICK l : l = lv[c]
  OBVIOUS
<1>2. /\ pc[c] = "unmark" /\ pc[c] \in Carrying
      /\ Retained(l.tr.id) /\ Go(c, "cleanSwap", l)
  BY <1>1 DEF Unmark, At, Carrying, IInv, ClientOK, Earned
<1>3. docs' = docs /\ ObjectsType' /\ RestType' /\ Grows
  BY DEF Unmark, Calling, IInv, StoreOK, ObjectsType, RestType, Grows
<1>4. Remembers("cleanSwap", l) /\ Earned("cleanSwap", l)'
  BY <1>1, <1>2, <1>3, OnwardSame DEF Carrying, Earned, Retained, Grows
<1>5. StoreOK'
  BY <1>3, DocsKept DEF IInv
<1> QED
  BY <1>2, <1>3, <1>4, <1>5, StepOK

\* Then its source is marked cleaned, or read again.
LEMMA CleanSwapStep ==
    ASSUME IInv, NEW c \in Clients, CleanSwap(c) PROVE IInv'
<1>1. PICK l : l = lv[c]
  OBVIOUS
<1> DEFINE id == l.tr.id
<1>2. /\ pc[c] = "cleanSwap" /\ pc[c] \in Carrying
      /\ id \in TransitionId /\ Retained(id)
  BY <1>1, RecordParts DEF CleanSwap, At, Carrying, IInv, ClientOK, Remembers, Earned
<1>3. ObjectsType' /\ RestType' /\ Grows
  BY DEF CleanSwap, Calling, IInv, StoreOK, ObjectsType, RestType, Grows
<1>4. CASE Sentinel(docs[id.from], "fence", id)
  <2>1. PICK d : d = Stamp(docs[id.from], "cleaned", id)
    OBVIOUS
  <2>2. docs' = [docs EXCEPT ![id.from] = d] /\ Go(c, "retire", l)
    BY <1>1, <1>2, <1>4, <2>1 DEF CleanSwap, TransitionId, IInv, StoreOK
  <2>3. StoreOK'
    BY <1>2, <1>3, <1>4, <2>1, <2>2, CleanOK
  <2>4. GoesOn(c)
    BY <1>1, <1>2, <2>2, OnwardGoes DEF Carrying, Earning
  <2> QED
    BY <1>3, <2>3, <2>4, GoesOnStep
<1>5. CASE ~Sentinel(docs[id.from], "fence", id)
  <2>1. docs' = docs /\ Go(c, "clean", l)
    BY <1>1, <1>5 DEF CleanSwap
  <2>2. Remembers("clean", l) /\ Earned("clean", l)'
    BY <1>1, <1>2, <1>3, OnwardSame DEF Carrying, Earned, Retained, Grows
  <2>3. StoreOK'
    BY <1>3, <2>1, DocsKept DEF IInv
  <2> QED
    BY <1>3, <2>1, <2>2, <2>3, StepOK
<1> QED
  BY <1>4, <1>5

\* retire_transition_record.
LEMMA RetireRecordStep ==
    ASSUME IInv, NEW c \in Clients, RetireRecord(c) PROVE IInv'
<1>1. pc[c] \in Recovering /\ lv[c].ans \in BOOLEAN
  BY DEF RetireRecord, At, Carrying, Recovering, IInv, Locals
<1>2. Answer(c, FALSE) \/ Recovered(c, lv[c].ans)
  BY DEF RetireRecord, Fail
<1>3. GoesOn(c)
  BY <1>1, <1>2, AnswerOK, RecoveredOK
<1>4. record' \in Record \cup {None}
  BY DEF RetireRecord, SameGeneration, IInv, StoreOK, ObjectsType, Record
<1>5. docs' = docs /\ ObjectsType' /\ RestType' /\ Grows
  BY <1>4 DEF RetireRecord, Calling, IInv, StoreOK, ObjectsType, RestType, Grows
<1> QED
  BY <1>3, <1>5, ObjectStep

\* Recovery as a whole.
LEMMA RecoverSteps ==
    ASSUME IInv, NEW c \in Clients, RecoverStep(c) PROVE IInv'
BY RecoverRecordStep, AbortedDestinationStep, AbortedSourceStep, FenceReadStep,
   FenceSwapStep, GoneDestinationStep, GoneProbeStep, DestinationReadStep,
   DestinationWriteStep, DestinationIndexStep, MarkCompletedStep, MarkAbortedStep,
   FinishDestinationStep, FinishProbeStep, FinishSourceStep, RecordOutcomeStep,
   CleanSourceStep, UnmarkStep, CleanSwapStep, RetireRecordStep
   DEF RecoverStep

-----------------------------------------------------------------------------
\* What merge_transition_destination derives is a document of the destination.
LEMMA MergeOK ==
    ASSUME NEW cur \in LiveDoc, NEW basis \in Request \cup LiveDoc,
           NEW from \in Prefix, NEW to \in Prefix
    PROVE  Merge(cur, basis, from, to) \in LiveDoc
<1>1. /\ basis.lease \in Nat /\ basis.by \in Clients \cup {None}
      /\ basis.restarts \in Nat /\ basis.lost \in BOOLEAN
  BY DEF Request, LiveDoc
<1>2. /\ cur.by \in Clients \cup {None} /\ cur.rev \in Placements
      /\ cur.restarts \in Nat /\ cur.lost \in BOOLEAN
  BY DEF LiveDoc
<1>3. /\ (IF to = "running" THEN basis.lease ELSE 0) \in Nat
      /\ (IF to = "queue" /\ from # "running" THEN cur.by ELSE basis.by)
           \in Clients \cup {None}
      /\ (IF to = "queue" /\ from = "running"
          THEN Max2(cur.restarts, basis.restarts) ELSE cur.restarts) \in Nat
  BY <1>1, <1>2 DEF Max2
<1>4. (IF to \in Terminal \/ (to = "queue" /\ from = "running")
       THEN basis.lost ELSE cur.lost) \in BOOLEAN
  BY <1>1, <1>2
<1> QED
  BY <1>2, <1>3, <1>4 DEF Merge, LiveDoc

\* transition_job_if_version reads the source it will pin.
LEMMA PrepareSourceStep ==
    ASSUME IInv, NEW c \in Clients, PrepareSource(c) PROVE IInv'
<1> DEFINE q == lv[c].rq
           d == docs[q.from]
           m == [lv[c] EXCEPT !.src = d]
<1>1. lv[c] \in Locals /\ q \in Request /\ q.from \in Prefix
  BY DEF PrepareSource, At, Preparing, IInv, ClientOK, Remembers, Request
<1>2. \/ Go(c, "moved", lv[c]) \/ Answer(c, FALSE) \/ CallRecover(c, lv[c], "refuse")
      \/ d # None /\ d.st = q.from /\ Go(c, "basis", m)
  BY DEF PrepareSource
<1>3. CASE Go(c, "moved", lv[c])
  <2>1. Remembers("moved", lv[c])
    BY <1>1 DEF Remembers, PCs, Carrying, Recovering, Preparing, Admitting
  <2>2. GoesOn(c)
    BY <1>3, <2>1 DEF GoesOn, Earning
  <2> QED
    BY <2>2, GoesOnReading DEF PrepareSource
<1>4. CASE Answer(c, FALSE) \/ CallRecover(c, lv[c], "refuse")
  <2>1. GoesOn(c)
    BY <1>1, <1>4, AnswerOK, CallRecoverOK
  <2> QED
    BY <2>1, GoesOnReading DEF PrepareSource
<1>5. CASE d # None /\ d.st = q.from /\ Go(c, "basis", m)
  <2>1. d \in LiveDoc
    BY <1>1, <1>5 DEF IInv, StoreOK, Doc, SentinelDoc, Prefix, Terminal
  <2>2. m \in Locals /\ m.rq = q /\ m.src = d
    BY <1>1, <2>1 DEF Locals
  <2>3. Remembers("basis", m)
    BY <1>1, <2>1, <2>2 DEF Remembers, PCs, Carrying, Recovering, Preparing, Admitting
  <2>4. GoesOn(c)
    BY <1>5, <2>3 DEF GoesOn, Earning
  <2> QED
    BY <2>4, GoesOnReading DEF PrepareSource
<1> QED
  BY <1>2, <1>3, <1>4, <1>5

\* A source that is gone is answered by what the destination holds.
LEMMA PrepareMovedStep ==
    ASSUME IInv, NEW c \in Clients, PrepareMoved(c) PROVE IInv'
<1>1. Answer(c, TRUE) \/ Answer(c, FALSE)
  BY DEF PrepareMoved, Live
<1>2. GoesOn(c)
  BY <1>1, AnswerOK
<1> QED
  BY <1>2, GoesOnReading DEF PrepareMoved

\* The candidate record.
LEMMA PrepareBasisStep ==
    ASSUME IInv, NEW c \in Clients, PrepareBasis(c) PROVE IInv'
<1> DEFINE q == lv[c].rq
           d == docs[q.to]
           Candidate(basis, dver) ==
               [id |-> [from |-> q.from, to |-> q.to, src |-> lv[c].src,
                        dst |-> Merge(lv[c].src, basis, q.from, q.to)],
                owner |-> 0, dver |-> dver, state |-> "prepared"]
           m(r) == [lv[c] EXCEPT !.src = None, !.cand = r]
<1>1. /\ lv[c] \in Locals /\ q \in Request /\ lv[c].src \in LiveDoc
      /\ q.from \in Prefix /\ q.to \in Prefix
  BY DEF PrepareBasis, At, Preparing, IInv, ClientOK, Remembers, Request
<1>2. d \in Doc \cup {None}
  BY <1>1 DEF IInv, StoreOK
<1>3. ASSUME NEW basis \in Request \cup LiveDoc PROVE Candidate(basis, d) \in Record
  <2>1. Merge(lv[c].src, basis, q.from, q.to) \in LiveDoc
    BY <1>1, MergeOK
  <2> QED
    BY <1>1, <1>2, <2>1 DEF Record, TransitionId
<1>4. ASSUME NEW r \in Record, Go(c, "prepare", m(r)) PROVE GoesOn(c)
  <2>1. m(r) \in Locals
    BY <1>1, SetFields, Zenon
  <2>2. m(r).rq = q /\ m(r).cand = r
    BY <1>1, Zenon DEF Locals
  <2>3. PICK x : x = m(r)
    OBVIOUS
  <2> HIDE DEF m
  <2>4. Remembers("prepare", x)
    BY <1>1, <2>1, <2>2, <2>3 DEF Remembers, PCs, Carrying, Recovering, Preparing,
                                  Admitting
  <2> QED
    BY <1>4, <2>3, <2>4 DEF GoesOn, Earning
<1>5. \/ Go(c, "prepare", m(Candidate(q, d)))
      \/ d # None /\ d.st = q.to /\ Go(c, "prepare", m(Candidate(d, d)))
      \/ Fail(c)
  BY Zenon DEF PrepareBasis
<1>6. d # None /\ d.st = q.to => d \in LiveDoc
  BY <1>1, <1>2 DEF Doc, SentinelDoc, Prefix, Terminal
<1>7. GoesOn(c)
  <2> HIDE DEF m, Candidate
  <2> QED
    BY <1>1, <1>3, <1>4, <1>5, <1>6, AnswerOK DEF Fail
<1> QED
  BY <1>7, GoesOnReading DEF PrepareBasis

\* A prepared record is recovered first, any other one is replaced.
LEMMA PrepareRecordStep ==
    ASSUME IInv, NEW c \in Clients, PrepareRecord(c) PROVE IInv'
<1> DEFINE m == [lv[c] EXCEPT !.seen = record, !.cand = None]
           n == [lv[c] EXCEPT !.rv = record]
<1>1. lv[c] \in Locals /\ lv[c].rq \in Request /\ lv[c].cand \in Record
  BY DEF PrepareRecord, At, Preparing, IInv, ClientOK, Remembers
<1>2. record \in Record \cup {None}
  BY DEF IInv, StoreOK, ObjectsType
<1>3. Fail(c) \/ CallRecover(c, m, "loop") \/ Go(c, "install", n)
  BY Zenon DEF PrepareRecord
<1>4. CASE Fail(c)
  BY <1>4, AnswerOK, GoesOnReading DEF Fail, PrepareRecord
<1>5. CASE CallRecover(c, m, "loop")
  <2>1. m \in Locals
    BY <1>1, <1>2, SetFields, Zenon
  <2>2. m.rq = lv[c].rq
    BY <1>1, Zenon DEF Locals
  <2>3. PICK x : x = m
    OBVIOUS
  <2> HIDE DEF m
  <2>4. GoesOn(c)
    BY <1>1, <1>5, <2>1, <2>2, <2>3, CallRecoverOK
  <2> QED
    BY <2>4, GoesOnReading DEF PrepareRecord
<1>6. CASE Go(c, "install", n)
  <2>1. n \in Locals /\ n.rq = lv[c].rq /\ n.cand = lv[c].cand
    BY <1>1, <1>2 DEF Locals
  <2>2. Remembers("install", n)
    BY <1>1, <2>1 DEF Remembers, PCs, Carrying, Recovering, Preparing, Admitting
  <2>3. GoesOn(c)
    BY <1>6, <2>2 DEF GoesOn, Earning
  <2> QED
    BY <2>3, GoesOnReading DEF PrepareRecord
<1> QED
  BY <1>3, <1>4, <1>5, <1>6

\* The record is installed with an owner token of its own.
LEMMA InstallStep ==
    ASSUME IInv, NEW c \in Clients, Install(c) PROVE IInv'
<1> DEFINE m == [lv[c] EXCEPT !.cand = None, !.rv = None]
<1>1. lv[c] \in Locals /\ lv[c].rq \in Request /\ lv[c].cand \in Record
  BY DEF Install, At, Preparing, IInv, ClientOK, Remembers
<1>2. m \in Locals
  BY <1>1, SetFields, Zenon
<1>3. m.rq = lv[c].rq
  BY <1>1, Zenon DEF Locals
<1>4. CallRecover(c, m, "answer") \/ CallRecover(c, m, "source")
  BY Zenon DEF Install
<1>5. GoesOn(c)
  <2> HIDE DEF m
  <2> QED
    BY <1>1, <1>2, <1>3, <1>4, CallRecoverOK
<1>6. owners \in Nat /\ record \in Record \cup {None}
  BY DEF IInv, StoreOK, ObjectsType, RestType
<1>7. [lv[c].cand EXCEPT !.owner = owners + 1] \in Record
  BY <1>1, <1>6 DEF Record
<1>8. \/ owners' = owners + 1 /\ record' = [lv[c].cand EXCEPT !.owner = owners + 1]
      \/ owners' = owners /\ record' = record
  BY Zenon DEF Install
<1>9. docs' = docs /\ ObjectsType' /\ RestType' /\ Grows
  BY <1>6, <1>7, <1>8 DEF Install, Calling, IInv, StoreOK, ObjectsType, RestType, Grows
<1> QED
  BY <1>5, <1>9, ObjectStep

\* Preparation as a whole.
LEMMA PrepareSteps ==
    ASSUME IInv, NEW c \in Clients, PrepareStep(c) PROVE IInv'
BY PrepareSourceStep, PrepareMovedStep, PrepareBasisStep, PrepareRecordStep, InstallStep
   DEF PrepareStep

-----------------------------------------------------------------------------
\* An operation that starts at call p and leaves the store to its first call.
LEMMA StartOK ==
    ASSUME IInv, NEW c \in Clients, NEW op \in OpNames, NEW p, NEW l,
           Start(c, op, p, l), Remembers(p, [l EXCEPT !.op = op]), p \notin Earning,
           holds' = holds, docs' = docs, ObjectsType', Grows
    PROVE  IInv'
<1>1. left[c] \in Nat /\ left[c] > 0
  BY DEF IInv, RestType, Start
<1>2. RestType'
  BY <1>1 DEF IInv, RestType, Start
<1>3. GoesOn(c)
  BY DEF Start, GoesOn
<1> QED
  BY <1>2, <1>3, ObjectStep

\* A start that leaves the whole store alone.
LEMMA StartReading ==
    ASSUME IInv, NEW c \in Clients, NEW op \in OpNames, NEW p, NEW l,
           Start(c, op, p, l), Remembers(p, [l EXCEPT !.op = op]), p \notin Earning,
           UNCHANGED <<store, holds>>
    PROVE  IInv'
<1>1. holds' = holds /\ docs' = docs /\ ObjectsType' /\ Grows
  BY DEF IInv, StoreOK, ObjectsType, Grows, store
<1> QED
  BY <1>1, StartOK

\* What an operation remembers when it starts with a recovery: nothing yet,
LEMMA StartPlain ==
    ASSUME NEW op \in OpNames, op # "admit"
    PROVE  Remembers("record", [[Fresh EXCEPT !.ret = "body"] EXCEPT !.op = op])
<1>1. PICK l : l = [[Fresh EXCEPT !.ret = "body"] EXCEPT !.op = op]
  OBVIOUS
<1>2. "body" \in {"source", "loop", "refuse", "answer", "body", "end"}
      /\ "source" \in {"source", "loop", "refuse", "answer", "body", "end"}
  OBVIOUS
<1>3. l \in Locals
  BY <1>1, <1>2, FreshOK, SetFields, Zenon
<1>4. l.ret = "body" /\ l.op = op
  BY <1>1, Zenon DEF Fresh
<1>5. Remembers("record", l)
  BY <1>3, <1>4 DEF Remembers, PCs, Carrying, Recovering, Preparing, Admitting
<1> QED
  BY <1>1, <1>5, Zenon

\* a placement,
LEMMA StartWanting ==
    ASSUME NEW op \in OpNames, NEW w \in Placements
    PROVE  Remembers("record", [[Fresh EXCEPT !.ret = "body", !.want = w] EXCEPT !.op = op])
<1>1. PICK l : l = [[Fresh EXCEPT !.ret = "body", !.want = w] EXCEPT !.op = op]
  OBVIOUS
<1>2. "body" \in {"source", "loop", "refuse", "answer", "body", "end"}
      /\ "source" \in {"source", "loop", "refuse", "answer", "body", "end"}
  OBVIOUS
<1>3. l \in Locals
  BY <1>1, <1>2, FreshOK, SetFields, Zenon
<1>4. l.ret = "body" /\ l.want = w
  BY <1>1, Zenon DEF Fresh
<1>5. Remembers("record", l)
  BY <1>3, <1>4 DEF Remembers, PCs, Carrying, Recovering, Preparing, Admitting
<1> QED
  BY <1>1, <1>5, Zenon

\* or the move it asks for.
LEMMA StartMoving ==
    ASSUME NEW op \in OpNames, NEW q \in Request
    PROVE  Remembers("record", [[Fresh EXCEPT !.ret = "source", !.rq = q] EXCEPT !.op = op])
<1>1. PICK l : l = [[Fresh EXCEPT !.ret = "source", !.rq = q] EXCEPT !.op = op]
  OBVIOUS
<1>2. "body" \in {"source", "loop", "refuse", "answer", "body", "end"}
      /\ "source" \in {"source", "loop", "refuse", "answer", "body", "end"}
  OBVIOUS
<1>3. l \in Locals
  BY <1>1, <1>2, FreshOK, SetFields, Zenon
<1>4. l.ret = "source" /\ l.rq = q
  BY <1>1, Zenon DEF Fresh
<1>5. Remembers("record", l)
  BY <1>3, <1>4 DEF Remembers, PCs, Carrying, Recovering, Preparing, Admitting
<1> QED
  BY <1>1, <1>5, Zenon

\* A worker claims from its listing, or takes back the job it still runs.
LEMMA ClaimStarts ==
    ASSUME IInv, NEW c \in Clients, StartClaim(c) \/ StartTakeBack(c) PROVE IInv'
<1>1. PICK w : w = docs["queue"].rev
  OBVIOUS
<1>2. PICK l : l = [Fresh EXCEPT !.ret = "body", !.want = w]
  OBVIOUS
<1>3. Live("queue") /\ Start(c, "claim", "record", l) /\ UNCHANGED <<store, holds>>
  BY <1>1, <1>2, Zenon DEF StartClaim, StartTakeBack
<1>4. w \in Placements /\ "claim" \in OpNames /\ "record" \notin Earning
  BY <1>1, <1>3 DEF Live, IInv, StoreOK, Doc, LiveDoc, SentinelDoc, Prefix, OpNames,
                    Earning
<1>5. Remembers("record", [l EXCEPT !.op = "claim"])
  BY <1>2, <1>4, StartWanting, Zenon
<1> QED
  BY <1>3, <1>4, <1>5, StartReading

\* A submission carries the placement it plans.
LEMMA AdmitStarts ==
    ASSUME IInv, NEW c \in Clients, StartAdmit(c) PROVE IInv'
<1>1. PICK w \in Placements :
        Start(c, "admit", "record", [Fresh EXCEPT !.ret = "body", !.want = w])
  BY Zenon DEF StartAdmit
<1>2. PICK l : l = [Fresh EXCEPT !.ret = "body", !.want = w]
  OBVIOUS
<1>3. Start(c, "admit", "record", l) /\ UNCHANGED <<store, holds>>
  BY <1>1, <1>2, Zenon DEF StartAdmit
<1>4. "admit" \in OpNames /\ "record" \notin Earning
  BY DEF OpNames, Earning
<1>5. Remembers("record", [l EXCEPT !.op = "admit"])
  BY <1>2, <1>4, StartWanting, Zenon
<1> QED
  BY <1>3, <1>4, <1>5, StartReading

\* The workload exited.
LEMMA FinishStarts ==
    ASSUME IInv, NEW c \in Clients, StartFinish(c) PROVE IInv'
<1>1. PICK to \in {"completed", "failed"} :
        Start(c, "finish", "record",
              [Fresh EXCEPT !.ret = "source",
                 !.rq = [from |-> "running", to |-> to, exp |-> None,
                         lease |-> 0, by |-> c, restarts |-> 0, lost |-> FALSE]])
  BY Zenon DEF StartFinish
<1>2. PICK q : q = [from |-> "running", to |-> to, exp |-> None,
                    lease |-> 0, by |-> c, restarts |-> 0, lost |-> FALSE]
  OBVIOUS
<1>3. PICK l : l = [Fresh EXCEPT !.ret = "source", !.rq = q]
  OBVIOUS
<1>4. Start(c, "finish", "record", l) /\ UNCHANGED <<store, holds>>
  BY <1>1, <1>2, <1>3, Zenon DEF StartFinish
<1>5. q \in Request /\ "finish" \in OpNames /\ "record" \notin Earning
  BY <1>2 DEF Request, Prefix, Terminal, OpNames, Earning
<1>6. Remembers("record", [l EXCEPT !.op = "finish"])
  BY <1>3, <1>5, StartMoving, Zenon
<1> QED
  BY <1>4, <1>5, <1>6, StartReading

\* A pass of the reaper, of the cancellation settler or of a rewrite.
LEMMA PassStarts ==
    ASSUME IInv, NEW c \in Clients, StartReap(c) \/ StartSettle(c) \/ StartRewrite(c)
    PROVE  IInv'
<1>1. PICK l : l = [Fresh EXCEPT !.ret = "body"]
  OBVIOUS
<1>2. PICK op \in {"reap", "settle", "rewrite"} :
        Start(c, op, "record", l) /\ UNCHANGED <<store, holds>>
  BY <1>1 DEF StartReap, StartSettle, StartRewrite, StartRecovering
<1>3. op \in OpNames /\ op # "admit" /\ "record" \notin Earning
  BY DEF OpNames, Earning
<1>4. Remembers("record", [l EXCEPT !.op = op])
  BY <1>1, <1>3, StartPlain, Zenon
<1> QED
  BY <1>2, <1>3, <1>4, StartReading

\* A sweep remembers the sentinel it listed.
LEMMA SweepStarts ==
    ASSUME IInv, NEW c \in Clients, StartSweep(c) PROVE IInv'
<1>1. PICK p \in {"queue", "running"} :
        Start(c, "sweep", "sweep", [Fresh EXCEPT !.dv = docs[p]])
  BY Zenon DEF StartSweep
<1>2. PICK d : d = docs[p]
  OBVIOUS
<1>3. PICK l : l = [Fresh EXCEPT !.dv = d]
  OBVIOUS
<1>4. Start(c, "sweep", "sweep", l) /\ UNCHANGED <<store, holds>>
  BY <1>1, <1>2, <1>3, Zenon DEF StartSweep
<1>5. d \in Doc \cup {None} /\ "sweep" \in OpNames /\ "sweep" \notin Earning
  BY <1>2 DEF IInv, StoreOK, Prefix, OpNames, Earning
<1>6. PICK m : m = [l EXCEPT !.op = "sweep"]
  OBVIOUS
<1>7. m \in Locals
  BY <1>3, <1>5, <1>6, FreshOK, SetFields, Zenon
<1>8. Remembers("sweep", m)
  BY <1>7 DEF Remembers, PCs, Carrying, Recovering, Preparing, Admitting
<1>9. Remembers("sweep", [l EXCEPT !.op = "sweep"])
  BY <1>6, <1>8, Zenon
<1> QED
  BY <1>4, <1>5, <1>9, StartReading

\* A cancellation is durable before anything moves.
LEMMA CancelStarts ==
    ASSUME IInv, NEW c \in Clients, StartCancel(c) PROVE IInv'
<1>1. "cancel" \in OpNames /\ "lookup" \notin Earning
  BY DEF OpNames, Earning
<1>2. PICK l : l = [Fresh EXCEPT !.op = "cancel"]
  OBVIOUS
<1>3. l \in Locals
  BY <1>1, <1>2, FreshOK, SetFields, Zenon
<1>4. Remembers("lookup", l)
  BY <1>3 DEF Remembers, PCs, Carrying, Recovering, Preparing, Admitting
<1>5. Remembers("lookup", [Fresh EXCEPT !.op = "cancel"])
  BY <1>2, <1>4, Zenon
<1>6. holds' = holds /\ docs' = docs /\ ObjectsType' /\ Grows
  BY DEF StartCancel, IInv, StoreOK, ObjectsType, Grows
<1>7. Start(c, "cancel", "lookup", Fresh)
  BY DEF StartCancel
<1> QED
  BY <1>1, <1>5, <1>6, <1>7, StartOK

\* The starts as a whole.
LEMMA StartSteps ==
    ASSUME IInv, NEW c \in Clients, StartStep(c) PROVE IInv'
BY ClaimStarts, AdmitStarts, FinishStarts, PassStarts, SweepStarts, CancelStarts
   DEF StartStep

-----------------------------------------------------------------------------
\* A queued body that is claimed is a live document.
LEMMA ClaimBodyStep ==
    ASSUME IInv, NEW c \in Clients, ClaimBody(c) PROVE IInv'
<1>1. PICK d : d = docs["queue"]
  OBVIOUS
<1>2. PICK m : m = [lv[c] EXCEPT !.dv = d, !.want = None]
  OBVIOUS
<1>3. lv[c] \in Locals
  BY DEF IInv
<1>4. Idle(c) \/ (Live("queue") /\ Go(c, "check", m))
  BY <1>1, <1>2, Zenon DEF ClaimBody
<1>5. CASE Idle(c)
  BY <1>5, IdleOK, GoesOnReading DEF ClaimBody
<1>6. CASE Live("queue") /\ Go(c, "check", m)
  <2>1. d \in LiveDoc
    BY <1>1, <1>6 DEF Live, IInv, StoreOK, Doc, SentinelDoc, Prefix
  <2>2. d \in Doc \cup {None}
    BY <2>1 DEF Doc
  <2>3. m \in Locals
    BY <1>2, <1>3, <2>2, SetFields, Zenon
  <2>4. m.dv = d
    BY <1>2, <1>3, Zenon DEF Locals
  <2>5. Remembers("check", m)
    BY <2>1, <2>3, <2>4 DEF Remembers, PCs, Carrying, Recovering, Preparing, Admitting
  <2>6. GoesOn(c)
    BY <1>6, <2>5 DEF GoesOn, Earning
  <2> QED
    BY <2>6, GoesOnReading DEF ClaimBody
<1> QED
  BY <1>4, <1>5, <1>6

\* A step that only reads and then idles or asks for a move.
LEMMA AskStep ==
    ASSUME IInv, NEW c \in Clients, Calling(c), Reads,
           Idle(c) \/ \E q \in Request : CallTransition(c, q)
    PROVE  IInv'
<1>1. GoesOn(c)
  BY IdleOK, CallTransitionOK
<1> QED
  BY <1>1, GoesOnReading

\* The claim asks for its move with a promise in the future.
LEMMA ClaimCheckStep ==
    ASSUME IInv, NEW c \in Clients, ClaimCheck(c) PROVE IInv'
<1>1. PICK q : q = [from |-> "queue", to |-> "running", exp |-> lv[c].dv,
                    lease |-> now + Promise, by |-> c, restarts |-> 0, lost |-> FALSE]
  OBVIOUS
<1>2. lv[c].dv \in LiveDoc /\ now \in Nat
  BY DEF ClaimCheck, At, IInv, ClientOK, Remembers, RestType
<1>3. now + Promise \in Nat
  BY <1>2, ConstantsAssumption
<1>4. q \in Request
  BY <1>1, <1>2, <1>3 DEF Request, Prefix
<1>5. Idle(c) \/ CallTransition(c, q)
  BY <1>1, Zenon DEF ClaimCheck
<1> QED
  BY <1>4, <1>5, AskStep DEF ClaimCheck

\* A step that ends the operation and may change who executes the job.
LEMMA HoldStep ==
    ASSUME IInv, NEW c \in Clients, Idle(c), Calling(c), NEW b \in BOOLEAN,
           holds' = [holds EXCEPT ![c] = b], UNCHANGED <<store, owners>>
    PROVE  IInv'
<1>1. GoesOn(c)
  BY IdleOK
<1>2. docs' = docs /\ ObjectsType' /\ RestType' /\ Grows
  BY DEF IInv, StoreOK, ObjectsType, RestType, Grows, Calling, store
<1> QED
  BY <1>1, <1>2, ObjectStep

\* The claim that won, and the terminal move that was answered.
LEMMA SettledSteps ==
    ASSUME IInv, NEW c \in Clients, ClaimRecheck(c) \/ FinishSettled(c) PROVE IInv'
<1>1. CASE ClaimRecheck(c)
  <2>1. holds' = [holds EXCEPT ![c] = (holds[c] \/ ~Cancelled)]
    BY <1>1 DEF ClaimRecheck, IInv, RestType
  <2> QED
    BY <1>1, <2>1, HoldStep DEF ClaimRecheck
<1>2. CASE FinishSettled(c)
  BY <1>2, HoldStep DEF FinishSettled
<1> QED
  BY <1>1, <1>2

\* A live document whose promise or placement is rewritten in place stays
\* sound, outside queue/ with the placement it was promised with.
LEMMA Rewritten ==
    ASSUME IInv, NEW p \in {"queue", "running"}, NEW d, Live(p),
           \/ \E n \in Nat : d = [docs[p] EXCEPT !.lease = n]
           \/ p = "queue" /\ \E r \in Placements : d = [docs[p] EXCEPT !.rev = r],
           docs' = [docs EXCEPT ![p] = d], ObjectsType', Grows
    PROVE  StoreOK'
<1>1. p \in Prefix /\ docs[p] \in LiveDoc /\ docs[p] # None /\ DocOK(p, docs[p])
  BY DEF Live, IInv, StoreOK, Doc, SentinelDoc, Prefix
<1>2. /\ d \in LiveDoc /\ d.st = p /\ d.by = docs[p].by
      /\ p # "queue" => d.rev = docs[p].rev
  BY <1>1 DEF LiveDoc, Live
<1>3. DocOK(p, d)'
  BY <1>1, <1>2 DEF DocOK, Doc, Grows
<1> QED
  BY <1>1, <1>3, DocWritten DEF IInv

\* A step that writes the store and leaves every client where it is.
LEMMA StoreStep ==
    ASSUME IInv, StoreOK', RestType', Grows, UNCHANGED <<pc, lv>> PROVE IInv'
<1>1. ASSUME NEW d \in Clients PROVE ClientOK(d)'
  <2>1. ClientOK(d) /\ pc'[d] = pc[d] /\ lv'[d] = lv[d]
    BY DEF IInv
  <2> QED
    BY <2>1 DEF ClientOK, Remembers, Earned, Retained, Grows
<1> QED
  BY <1>1 DEF IInv

\* renew_running_lease.
LEMMA RenewStep ==
    ASSUME IInv, NEW c \in Clients, Renew(c) PROVE IInv'
<1>1. PICK d : d = [docs["running"] EXCEPT !.lease = now + Promise]
  OBVIOUS
<1>2. Live("running") /\ docs' = [docs EXCEPT !["running"] = d]
  BY <1>1 DEF Renew, IInv, StoreOK
<1>3. now + Promise \in Nat
  BY ConstantsAssumption DEF IInv, RestType
<1>4. ObjectsType' /\ RestType' /\ Grows
  BY DEF Renew, IInv, StoreOK, ObjectsType, RestType, Grows
<1>5. StoreOK'
  BY <1>1, <1>2, <1>3, <1>4, Rewritten
<1> QED
  BY <1>4, <1>5, StoreStep DEF Renew

\* A reaper moves a running document whose promise passed.
LEMMA ReapBodyStep ==
    ASSUME IInv, NEW c \in Clients, ReapBody(c) PROVE IInv'
<1> DEFINE d == docs["running"]
           Q(to, exp, by, restarts, lost) ==
               [from |-> "running", to |-> to, exp |-> exp, lease |-> 0, by |-> by,
                restarts |-> restarts, lost |-> lost]
<1>1. Calling(c) /\ Reads
  BY DEF ReapBody
<1>2. lv[c] \in Locals
  BY DEF IInv
<1>3. CASE CallRecover(c, lv[c], "end")
  BY <1>1, <1>2, <1>3, CallRecoverOK, GoesOnReading
<1>4. CASE Idle(c)
  BY <1>1, <1>4, AskStep
<1>5. CASE Live("running") /\
           \/ CallTransition(c, Q("completed", None, None, d.restarts, d.lost))
           \/ CallTransition(c, Q("completed", d, d.by, d.restarts, FALSE))
           \/ CallTransition(c, Q("failed", d, d.by, d.restarts, TRUE))
           \/ CallTransition(c, Q("queue", d, None, d.restarts + 1, TRUE))
  <2>1. d \in LiveDoc
    BY <1>5 DEF Live, IInv, StoreOK, Doc, SentinelDoc, Prefix
  <2>2. d.restarts \in Nat /\ d.lost \in BOOLEAN /\ d.by \in Clients \cup {None}
    BY <2>1 DEF LiveDoc
  <2>3. ASSUME NEW to \in {"completed", "failed", "queue"}, NEW exp \in {None, d},
               NEW by \in {None, d.by}, NEW n \in Nat, NEW b \in BOOLEAN
        PROVE  Q(to, exp, by, n, b) \in Request
    BY <2>1, <2>2 DEF Request, Prefix, Terminal
  <2>4. \E q \in Request : CallTransition(c, q)
    <3> HIDE DEF Q
    <3>1. d.restarts + 1 \in Nat
      BY <2>2
    <3> QED
      BY <1>5, <2>2, <2>3, <3>1
  <2> QED
    BY <1>1, <2>4, AskStep
<1> QED
  BY <1>3, <1>4, <1>5, Zenon DEF ReapBody, ReapSettle

\* settle_queued_cancellations, and a cancellation that follows a claim.
LEMMA SettleBodyStep ==
    ASSUME IInv, NEW c \in Clients, SettleBody(c) PROVE IInv'
<1>1. PICK q : q = [from |-> "queue", to |-> "cancelled", exp |-> docs["queue"],
                    lease |-> 0, by |-> None, restarts |-> 0, lost |-> FALSE]
  OBVIOUS
<1>2. Idle(c) \/ (Live("queue") /\ CallTransition(c, q))
  BY <1>1, Zenon DEF SettleBody
<1>3. Live("queue") => docs["queue"] \in LiveDoc
  BY DEF Live, IInv, StoreOK, Doc, SentinelDoc, Prefix
<1>4. Live("queue") => q \in Request
  BY <1>1, <1>3 DEF Request, Prefix, Terminal
<1> QED
  BY <1>2, <1>4, AskStep DEF SettleBody

\* A cancellation that finds the job queued or running.
LEMMA CancelSteps ==
    ASSUME IInv, NEW c \in Clients, CancelLookup(c) \/ CancelFollow(c) PROVE IInv'
<1> DEFINE Q(p) == [from |-> p, to |-> "cancelled", exp |-> None, lease |-> 0,
                    by |-> None, restarts |-> 0, lost |-> FALSE]
<1>1. ASSUME NEW p \in Prefix PROVE Q(p) \in Request
  BY DEF Request, Prefix, Terminal
<1>2. CASE CancelFollow(c)
  <2>1. Idle(c) \/ CallTransition(c, Q("running"))
    BY <1>2, Zenon DEF CancelFollow
  <2>2. Q("running") \in Request
    BY <1>1 DEF Prefix
  <2> QED
    BY <1>2, <2>1, <2>2, AskStep DEF CancelFollow
<1>3. CASE CancelLookup(c)
  <2> DEFINE p == JobPrefixes[lv[c].k]
  <2>1. lv[c].k \in 1..6 /\ pc[c] = "lookup" /\ Calling(c) /\ Reads
    BY <1>3 DEF CancelLookup, At, IInv, Locals
  <2>2. lv[c].k # 6 => p \in Prefix
    BY <2>1 DEF JobPrefixes, Prefix, Terminal
  <2>3. Idle(c) \/ (lv[c].k # 6 /\ CallTransition(c, Q(p))) \/ NextProbe(c)
    <3>1. lv[c].k < 6 => lv[c].k # 6
      OBVIOUS
    <3> QED
      BY <1>3, <2>1, <3>1 DEF CancelLookup, Probe, NextProbe
  <2>4. CASE NextProbe(c)
    BY <2>1, <2>4, NextProbeOK, GoesOnReading
  <2>5. CASE Idle(c) \/ (lv[c].k # 6 /\ CallTransition(c, Q(p)))
    <3> HIDE DEF Q, p
    <3> QED
      BY <1>1, <2>1, <2>2, <2>5, AskStep
  <2> QED
    BY <2>3, <2>4, <2>5
<1> QED
  BY <1>2, <1>3

\* rewrite_queued_job changes the placement of a queued body only.
LEMMA RewriteBodyStep ==
    ASSUME IInv, NEW c \in Clients, RewriteBody(c) PROVE IInv'
<1>1. GoesOn(c) /\ ObjectsType' /\ RestType' /\ Grows
  BY IdleOK DEF RewriteBody, Calling, IInv, StoreOK, ObjectsType, RestType, Grows
<1>2. CASE ~Live("queue")
  BY <1>1, <1>2, ObjectStep DEF RewriteBody
<1>3. CASE Live("queue")
  <2>1. PICK r \in Placements : docs' = [docs EXCEPT !["queue"].rev = r]
    BY <1>3 DEF RewriteBody
  <2>2. PICK d : d = [docs["queue"] EXCEPT !.rev = r]
    OBVIOUS
  <2>3. docs' = [docs EXCEPT !["queue"] = d]
    BY <2>1, <2>2 DEF IInv, StoreOK
  <2>4. StoreOK'
    BY <1>1, <1>3, <2>2, <2>3, Rewritten
  <2> QED
    BY <1>1, <2>4, GoesOnStep
<1> QED
  BY <1>2, <1>3

\* A prefix that is emptied is sound.
LEMMA Emptied ==
    ASSUME IInv, NEW p, docs' = [docs EXCEPT ![p] = None], ObjectsType', Grows
    PROVE  StoreOK'
<1>1. CASE p \in Prefix
  <2>1. DocOK(p, None)'
    BY DEF DocOK
  <2> QED
    BY <1>1, <2>1, DocWritten DEF IInv
<1>2. CASE p \notin Prefix
  <2>1. docs' = docs
    BY <1>2 DEF IInv, StoreOK
  <2> QED
    BY <2>1, DocsKept DEF IInv
<1> QED
  BY <1>1, <1>2

\* The sweep of a sentinel of a settled job.
LEMMA SweepSteps ==
    ASSUME IInv, NEW c \in Clients, SweepJudge(c) \/ SweepDelete(c) PROVE IInv'
<1>1. CASE SweepJudge(c)
  <2>1. Go(c, "delete", lv[c]) \/ Idle(c)
    BY <1>1 DEF SweepJudge
  <2>2. Remembers("delete", lv[c])
    BY DEF IInv, Remembers, PCs, Carrying, Recovering, Preparing, Admitting
  <2>3. GoesOn(c)
    <3>1. CASE Go(c, "delete", lv[c])
      BY <2>2, <3>1 DEF GoesOn, Earning
    <3> QED
      BY <2>1, <3>1, IdleOK
  <2> QED
    BY <1>1, <2>3, GoesOnReading DEF SweepJudge
<1>2. CASE SweepDelete(c)
  <2>1. PICK p : p = lv[c].dv.id.from
    OBVIOUS
  <2>2. docs' = [docs EXCEPT ![p] = None] /\ Idle(c)
    BY <1>2, <2>1 DEF SweepDelete
  <2>3. GoesOn(c) /\ ObjectsType' /\ RestType' /\ Grows
    BY <1>2, IdleOK DEF SweepDelete, Calling, IInv, StoreOK, ObjectsType, RestType, Grows
  <2>4. StoreOK'
    BY <2>2, <2>3, Emptied
  <2> QED
    BY <2>3, <2>4, GoesOnStep
<1> QED
  BY <1>1, <1>2

\* Admission goes on with the placement it wants.
LEMMA AdmitOn ==
    ASSUME IInv, NEW c \in Clients, pc[c] \in Admitting, NEW p \in Admitting,
           NEW l \in Locals, l.want = lv[c].want, Go(c, p, l)
    PROVE  GoesOn(c)
<1>1. l.want \in Placements
  BY DEF IInv, ClientOK, Remembers
<1>2. Remembers(p, l)
  BY <1>1 DEF Remembers, PCs, Carrying, Recovering, Preparing, Admitting
<1> QED
  BY <1>2 DEF GoesOn, Admitting, Earning

\* create_queued_job_if_absent looks for the job and its record.
LEMMA AdmitReads ==
    ASSUME IInv, NEW c \in Clients, AdmitProbe(c) \/ AdmitRecord(c) PROVE IInv'
<1>1. lv[c] \in Locals
  BY DEF IInv
<1>2. CASE AdmitRecord(c)
  <2>1. Idle(c) \/ Go(c, "admitMark", lv[c])
    BY <1>2 DEF AdmitRecord
  <2>2. pc[c] \in Admitting /\ "admitMark" \in Admitting
    BY <1>2 DEF AdmitRecord, At, Admitting
  <2>3. GoesOn(c)
    BY <1>1, <2>1, <2>2, IdleOK, AdmitOn
  <2> QED
    BY <1>2, <2>3, GoesOnReading DEF AdmitRecord
<1>3. CASE AdmitProbe(c)
  <2>1. PICK m : m = [lv[c] EXCEPT !.ans = TRUE, !.k = 1]
    OBVIOUS
  <2>2. PICK n : n = [lv[c] EXCEPT !.k = 1]
    OBVIOUS
  <2>3. 1 \in 1..6
    OBVIOUS
  <2>4. m \in Locals /\ n \in Locals
    BY <1>1, <2>1, <2>2, <2>3, SetFields, Zenon
  <2>5. m.want = lv[c].want /\ n.want = lv[c].want
    BY <1>1, <2>1, <2>2, Zenon DEF Locals
  <2>6. Go(c, "admitRecord", m) \/ Go(c, "admitRecord", n) \/ NextProbe(c)
    BY <1>3, <2>1, <2>2, Zenon DEF AdmitProbe, Probe, NextProbe
  <2>7. pc[c] = "admit" /\ pc[c] \in Admitting /\ "admitRecord" \in Admitting
    BY <1>3 DEF AdmitProbe, At, Admitting
  <2>8. GoesOn(c)
    BY <2>4, <2>5, <2>6, <2>7, AdmitOn, NextProbeOK
  <2> QED
    BY <1>3, <2>8, GoesOnReading DEF AdmitProbe
<1> QED
  BY <1>2, <1>3

\* Its marker goes before the document and is taken back from an empty queue/.
LEMMA AdmitMarks ==
    ASSUME IInv, NEW c \in Clients, AdmitMark(c) \/ AdmitCheck(c) PROVE IInv'
<1>1. Idle(c) \/ (pc[c] \in Admitting /\ Go(c, "admitCreate", lv[c]))
  BY DEF AdmitMark, AdmitCheck, At, Admitting
<1>2. lv[c] \in Locals /\ "admitCreate" \in Admitting
  BY DEF IInv, Admitting
<1>3. GoesOn(c)
  BY <1>1, <1>2, IdleOK, AdmitOn
<1>4. marker' \in BOOLEAN
  <2>1. CASE AdmitMark(c)
    BY <2>1 DEF AdmitMark
  <2>2. CASE AdmitCheck(c)
    BY <2>2 DEF AdmitCheck
  <2> QED
    BY <2>1, <2>2
<1>5. docs' = docs /\ ObjectsType' /\ RestType' /\ Grows
  BY <1>4 DEF AdmitMark, AdmitCheck, Calling, IInv, StoreOK, ObjectsType, RestType, Grows
<1> QED
  BY <1>3, <1>5, ObjectStep

\* The queued body a submission creates.
LEMMA QueuedOK == ASSUME NEW r \in Placements PROVE Queued(r) \in LiveDoc
BY DEF Queued, LiveDoc, Prefix

\* The document is created where queue/ is empty.
LEMMA AdmitCreateStep ==
    ASSUME IInv, NEW c \in Clients, AdmitCreate(c) PROVE IInv'
<1>1. /\ pc[c] \in Admitting /\ "admitCheck" \in Admitting
      /\ lv[c] \in Locals /\ lv[c].want \in Placements
  BY DEF AdmitCreate, At, Admitting, IInv, ClientOK, Remembers
<1>2. ObjectsType' /\ RestType' /\ Grows
  BY DEF AdmitCreate, Calling, IInv, StoreOK, ObjectsType, RestType, Grows
<1>3. CASE docs["queue"] = None
  <2>1. PICK d : d = Queued(lv[c].want)
    OBVIOUS
  <2>2. docs' = [docs EXCEPT !["queue"] = d] /\ Idle(c)
    BY <1>3, <2>1 DEF AdmitCreate
  <2>3. d \in LiveDoc /\ d.st = "queue"
    BY <1>1, <2>1, QueuedOK DEF Queued
  <2>4. DocOK("queue", d)'
    BY <2>3 DEF DocOK, Doc
  <2>5. StoreOK'
    BY <1>2, <2>2, <2>4, DocWritten DEF IInv, Prefix
  <2> QED
    BY <1>2, <2>2, <2>5, IdleOK, GoesOnStep
<1>4. CASE docs["queue"] # None
  <2>1. docs' = docs /\ Go(c, "admitCheck", lv[c])
    BY <1>4 DEF AdmitCreate
  <2> QED
    BY <1>1, <1>2, <2>1, AdmitOn, ObjectStep
<1> QED
  BY <1>3, <1>4

\* The operations as a whole.
LEMMA BodySteps ==
    ASSUME IInv, NEW c \in Clients, BodyStep(c) PROVE IInv'
BY ClaimBodyStep, ClaimCheckStep, SettledSteps, RenewStep, ReapBodyStep, SettleBodyStep,
   RewriteBodyStep, CancelSteps, SweepSteps, AdmitReads, AdmitMarks, AdmitCreateStep
   DEF BodyStep

\* A client that dies forgets everything; the store keeps what it wrote.
LEMMA CrashStep ==
    ASSUME IInv, NEW c \in Clients, Crash(c) PROVE IInv'
<1>1. GoesOn(c)
  BY IdleOK DEF Crash
<1>2. docs' = docs /\ ObjectsType' /\ RestType' /\ Grows
  BY DEF Crash, store, IInv, StoreOK, ObjectsType, RestType, Grows
<1> QED
  BY <1>1, <1>2, ObjectStep

\* The clock moves, or nothing does.
LEMMA QuietStep == ASSUME IInv, Tick \/ UNCHANGED vars PROVE IInv'
<1>1. /\ docs' = docs /\ ObjectsType' /\ RestType' /\ Grows
      /\ UNCHANGED <<pc, lv>>
  BY DEF Tick, vars, store, IInv, StoreOK, ObjectsType, RestType, Grows
<1>2. StoreOK'
  BY <1>1, DocsKept DEF IInv
<1> QED
  BY <1>1, <1>2, StoreStep

-----------------------------------------------------------------------------
\* A job just admitted, or none, with every client idle.
LEMMA InitOK == Init => IInv
<1> SUFFICES ASSUME Init PROVE IInv
  OBVIOUS
<1>1. PICK r \in Placements :
        docs = [p \in Prefix |-> IF p = "queue" /\ Admitted THEN Queued(r) ELSE None]
  BY DEF Init
<1>2. Queued(r) \in LiveDoc /\ Queued(r).st = "queue"
  BY QueuedOK DEF Queued
<1>3. docs \in [Prefix -> Doc \cup {None}]
  BY <1>1, <1>2 DEF Doc
<1>4. ASSUME NEW p \in Prefix PROVE DocOK(p, docs[p])
  <2>1. docs[p] = None \/ (p = "queue" /\ docs[p] = Queued(r))
    BY <1>1
  <2> QED
    BY <1>2, <2>1 DEF DocOK, Doc
<1>5. ObjectsType
  BY ConstantsAssumption DEF Init, ObjectsType
<1>6. RestType
  BY ConstantsAssumption DEF Init, RestType
<1>7. /\ pc = [c \in Clients |-> "idle"] /\ lv = [c \in Clients |-> Fresh]
      /\ "idle" \in PCs
  BY DEF Init, PCs
<1>8. pc \in [Clients -> PCs] /\ lv \in [Clients -> Locals]
  BY <1>7, FreshOK
<1>9. ASSUME NEW c \in Clients PROVE ClientOK(c)
  <2>1. pc[c] = "idle" /\ lv[c] = Fresh
    BY <1>7
  <2> QED
    BY <2>1, FreshOK DEF ClientOK, Remembers, Earned, PCs, Carrying, Recovering, Preparing,
                         Admitting
<1> QED
  BY <1>3, <1>4, <1>5, <1>6, <1>8, <1>9 DEF IInv, StoreOK

\* The invariant is inductive.
LEMMA Inductive == IInv /\ [Next]_vars => IInv'
<1> SUFFICES ASSUME IInv, [Next]_vars PROVE IInv'
  OBVIOUS
<1>1. CASE Tick \/ UNCHANGED vars
  BY <1>1, QuietStep
<1>2. ASSUME NEW c \in Clients, StartStep(c) \/ Step(c) \/ Crash(c) PROVE IInv'
  BY <1>2, StartSteps, RecoverSteps, PrepareSteps, BodySteps, CrashStep DEF Step
<1> QED
  BY <1>1, <1>2 DEF Next

\* What every reachable state satisfies, whatever the clients, the placements,
\* the crashes and the interleaving: the store is sound (a sentinel names a
\* landed fence, a destination was promised, a cleaned source left its
\* outcome), and every client remembers what its next storage call needs and
\* has earned the write it is about to make.
THEOREM Invariance == Spec => []IInv
BY InitOK, Inductive, PTL DEF Spec

\* The documents, the transition record and what clients remember keep their
\* types through every operation and crash.
THEOREM TypeCorrect == Spec => []TypeOK
<1>1. IInv => TypeOK
  BY DEF IInv, StoreOK, ObjectsType, RestType, TypeOK
<1> QED
  BY <1>1, Invariance, PTL

\* move_job and recover_job_transition never put a document under a prefix
\* before the fence of a transition that promised it landed on the source.
THEOREM FencedFirst == Spec => []DestinationAfterFence
<1>1. IInv => DestinationAfterFence
  BY DEF IInv, StoreOK, DocOK, DestinationAfterFence
<1> QED
  BY <1>1, Invariance, PTL

\* finish_completed_transition never marks a source cleaned towards a terminal
\* prefix before the run manifest, when present, retains the outcome.
THEOREM OutcomeKept == Spec => []OutcomeBeforeCleaning
<1>1. IInv => OutcomeBeforeCleaning
  BY DEF IInv, StoreOK, DocOK, Retained, Cleaned, OutcomeBeforeCleaning
<1> QED
  BY <1>1, Invariance, PTL

=============================================================================
