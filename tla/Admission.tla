------------------------------ MODULE Admission ------------------------------
(***************************************************************************)
(* Admission control of cgn-router (services/cgn-router/src/admission.rs): *)
(* one pool of at most MaxQueue slots for a (model, role) pair.  A request *)
(* takes a slot at once, or parks behind its tenant in a bounded FIFO and  *)
(* is handed the slot of a finishing request; released slots go to the     *)
(* tenants in turn.                                                        *)
(*                                                                         *)
(* The pool's mutex covers inflight, waiting and turn.  A request takes it *)
(* once in try_admit, a second time to park, and once more when its Permit *)
(* drops.  The one-shot channels on which slots are handed over are NOT    *)
(* under the mutex: waiters time out, receive and hang up while release()  *)
(* walks the queues.  So the walk is one action per iteration, with the    *)
(* mutex held by the releasing request, and channel steps interleave.      *)
(***************************************************************************)
EXTENDS Integers, Sequences, FiniteSets

CONSTANTS
    Requests,     \* requests, each entering admit() once
    Tenants,      \* tenants sharing the pool
    TenantOf,     \* the tenant of each request
    MaxQueue,     \* [router.admission] max_queue
    QueueCap,     \* [router.admission] wait_queue_per_tenant
    MayHangUp,    \* requests whose client may disconnect inside admit()
    NoRequest     \* "the mutex is free"

ASSUME AdmissionConstants ==
    /\ IsFiniteSet(Requests)
    /\ TenantOf \in [Requests -> Tenants]
    /\ MaxQueue \in Nat
    /\ QueueCap \in Nat
    /\ MayHangUp \subseteq Requests
    /\ NoRequest \notin Requests

VARIABLES
    inflight,     \* PoolInner.inflight
    waiting,      \* PoolInner.waiting; a missing queue is the empty one
    turn,         \* PoolInner.turn
    pc,           \* where each request stands (see Stage)
    holder        \* the request inside release(), holding the mutex

vars == <<inflight, waiting, turn, pc, holder>>

(***************************************************************************)
(* Stages of a request.  "retry": try_admit said no and the mutex is about *)
(* to be taken again.  "parked"/"handed": awaiting the one-shot, empty or  *)
(* holding a slot.  "admitted": owns a Permit.  "releasing": its Permit is *)
(* being dropped.  "full"/"timedout": Rejected.  "gone"/"lost": the future *)
(* was dropped at the await, before or after a slot was sent to it.        *)
(***************************************************************************)
Stage == {"new", "retry", "parked", "handed", "admitted", "releasing",
          "done", "full", "timedout", "gone", "lost"}

\* Requests a slot of the pool is counted for.
Owners == {r \in Requests : pc[r] \in {"handed", "admitted", "releasing", "lost"}}

TypeOK ==
    /\ inflight \in Nat
    /\ waiting \in [Tenants -> Seq(Requests)]
    /\ turn \in Seq(Tenants)
    /\ pc \in [Requests -> Stage]
    /\ holder \in Requests \cup {NoRequest}

Init ==
    /\ inflight = 0
    /\ waiting = [t \in Tenants |-> <<>>]
    /\ turn = <<>>
    /\ pc = [r \in Requests |-> "new"]
    /\ holder = NoRequest

-----------------------------------------------------------------------------
\* Mutant: one slot too many.
SlotIsFreeOffByOne == inflight <= MaxQueue /\ turn = <<>>

\* The test both locked sections of admit() make before taking a slot: the
\* pool has room and nobody is parked ahead.
SlotIsFree == inflight < MaxQueue /\ turn = <<>>

TakeSlot(r) ==
    /\ SlotIsFree
    /\ inflight' = inflight + 1
    /\ pc' = [pc EXCEPT ![r] = "admitted"]
    /\ UNCHANGED <<waiting, turn>>

\* Admission::try_admit, the fast path of admit().
TryAdmit(r) ==
    /\ pc[r] = "new"
    /\ holder = NoRequest
    /\ \/ TakeSlot(r)
       \/ /\ ~SlotIsFree
          /\ pc' = [pc EXCEPT ![r] = "retry"]
          /\ UNCHANGED <<inflight, waiting, turn>>
    /\ UNCHANGED holder

\* The second locked section of admit(): take a slot freed meanwhile, refuse
\* a tenant whose queue is at its cap, or park.
RejectFull(r) ==
    /\ ~SlotIsFree
    /\ Len(waiting[TenantOf[r]]) >= QueueCap
    /\ pc' = [pc EXCEPT ![r] = "full"]
    /\ UNCHANGED <<inflight, waiting, turn>>

\* Mutant: parking without looking again.
ParkBlindly(r) ==
    LET t == TenantOf[r] IN
    /\ Len(waiting[t]) < QueueCap
    /\ waiting' = [waiting EXCEPT ![t] = Append(@, r)]
    /\ turn' = IF waiting[t] = <<>> THEN Append(turn, t) ELSE turn
    /\ pc' = [pc EXCEPT ![r] = "parked"]
    /\ UNCHANGED inflight

\* A tenant enters the rotation with its first waiter.
Park(r) ==
    LET t == TenantOf[r] IN
    /\ ~SlotIsFree
    /\ Len(waiting[t]) < QueueCap
    /\ waiting' = [waiting EXCEPT ![t] = Append(@, r)]
    /\ turn' = IF waiting[t] = <<>> THEN Append(turn, t) ELSE turn
    /\ pc' = [pc EXCEPT ![r] = "parked"]
    /\ UNCHANGED inflight

Enqueue(r) ==
    /\ pc[r] = "retry"
    /\ holder = NoRequest
    /\ TakeSlot(r) \/ RejectFull(r) \/ Park(r)
    /\ UNCHANGED holder

\* The waiter finds the slot in its channel, whether its await resolved or
\* its timer fired first and try_recv found a slot sent before rx.close().
Receive(r) ==
    /\ pc[r] = "handed"
    /\ pc' = [pc EXCEPT ![r] = "admitted"]
    /\ UNCHANGED <<inflight, waiting, turn, holder>>

\* Mutant: a timeout that does not look for a slot sent meanwhile.
TimeoutMissesSlot(r) ==
    /\ pc[r] \in {"parked", "handed"}
    /\ pc' = [pc EXCEPT ![r] = "timedout"]
    /\ UNCHANGED <<inflight, waiting, turn, holder>>

\* The wait budget runs out on an empty channel.  rx.close() kills the
\* waiter, but its sender keeps its place in the tenant's queue.
WaitTimeout(r) ==
    /\ pc[r] = "parked"
    /\ pc' = [pc EXCEPT ![r] = "timedout"]
    /\ UNCHANGED <<inflight, waiting, turn, holder>>

\* The client disconnects and the server drops the future of admit() at its
\* await, receiver included: a slot already in the channel goes with it.
HangUp(r) ==
    /\ r \in MayHangUp
    /\ \/ pc[r] = "parked" /\ pc' = [pc EXCEPT ![r] = "gone"]
       \/ pc[r] = "handed" /\ pc' = [pc EXCEPT ![r] = "lost"]
    /\ UNCHANGED <<inflight, waiting, turn, holder>>

\* A Permit drops: release() takes the mutex.
BeginRelease(r) ==
    /\ pc[r] = "admitted"
    /\ holder = NoRequest
    /\ holder' = r
    /\ pc' = [pc EXCEPT ![r] = "releasing"]
    /\ UNCHANGED <<inflight, waiting, turn>>

\* Mutants of the walk: a dead waiter ends it; the tenant keeps its place at
\* the front.
DeadEndsWalk(r) ==
    LET t == Head(turn)
        w == Head(waiting[t])
        queueLeft == Tail(waiting[t])
    IN
    /\ holder = r /\ turn # <<>>
    /\ waiting' = [waiting EXCEPT ![t] = queueLeft]
    /\ turn' = IF queueLeft = <<>> THEN Tail(turn) ELSE Append(Tail(turn), t)
    /\ pc' = IF pc[w] = "parked" THEN [pc EXCEPT ![w] = "handed", ![r] = "done"]
                                 ELSE [pc EXCEPT ![r] = "done"]
    /\ holder' = NoRequest
    /\ UNCHANGED inflight
NoRotation(r) ==
    LET t == Head(turn)
        w == Head(waiting[t])
        queueLeft == Tail(waiting[t])
    IN
    /\ holder = r /\ turn # <<>>
    /\ waiting' = [waiting EXCEPT ![t] = queueLeft]
    /\ turn' = IF queueLeft = <<>> THEN Tail(turn) ELSE turn
    /\ IF pc[w] = "parked"
         THEN pc' = [pc EXCEPT ![w] = "handed", ![r] = "done"] /\ holder' = NoRequest
         ELSE UNCHANGED <<pc, holder>>
    /\ UNCHANGED inflight

\* One iteration of release(): the tenant at the front of the rotation gives
\* up its oldest waiter and goes to the back if it has more.  A live waiter
\* gets the slot and ends the walk; a dead one is skipped.
ServeTurn(r) ==
    LET t == Head(turn)
        w == Head(waiting[t])
        queueLeft == Tail(waiting[t])
    IN
    /\ holder = r
    /\ turn # <<>>
    /\ IF waiting[t] = <<>>
         THEN turn' = Tail(turn) /\ UNCHANGED <<waiting, pc, holder>>
         ELSE /\ waiting' = [waiting EXCEPT ![t] = queueLeft]
              /\ turn' = IF queueLeft = <<>> THEN Tail(turn) ELSE Append(Tail(turn), t)
              /\ IF pc[w] = "parked"
                   THEN /\ pc' = [pc EXCEPT ![w] = "handed", ![r] = "done"]
                        /\ holder' = NoRequest
                   ELSE UNCHANGED <<pc, holder>>
    /\ UNCHANGED inflight

\* Nobody is waiting: the slot returns to the pool (saturating_sub).
FreeSlot(r) ==
    /\ holder = r
    /\ turn = <<>>
    /\ inflight' = IF inflight = 0 THEN 0 ELSE inflight - 1
    /\ pc' = [pc EXCEPT ![r] = "done"]
    /\ holder' = NoRequest
    /\ UNCHANGED <<waiting, turn>>

Step(r) ==
    \/ TryAdmit(r) \/ Enqueue(r) \/ Receive(r) \/ WaitTimeout(r) \/ HangUp(r)
    \/ BeginRelease(r) \/ ServeTurn(r) \/ FreeSlot(r)

\* Every request has been answered and has returned what it held.
Terminated ==
    /\ \A r \in Requests : pc[r] \in {"done", "full", "timedout", "gone", "lost"}
    /\ UNCHANGED vars

Next == (\E r \in Requests : Step(r)) \/ Terminated

Spec == Init /\ [][Next]_vars

(***************************************************************************)
(* Fairness the runtime gives: a runnable task is polled, a served request *)
(* finishes and drops its Permit, and a release() in progress goes on.     *)
(* No fairness is assumed of timers, of clients hanging up, or of new      *)
(* requests arriving.                                                      *)
(***************************************************************************)
Progress(r) == Enqueue(r) \/ Receive(r) \/ BeginRelease(r) \/ ServeTurn(r) \/ FreeSlot(r)
LiveSpec == Spec /\ \A r \in Requests : WF_vars(Progress(r))

-----------------------------------------------------------------------------
(***************************************************************************)
(* Safety.                                                                 *)
(***************************************************************************)
\* The slot count is exactly the number of requests a slot is counted for,
\* and never passes max_queue: no interleaving of release(), a timeout and a
\* late receive frees a slot twice or grants one that does not exist.
SlotsAccounted ==
    /\ inflight = Cardinality(Owners)
    /\ inflight <= MaxQueue

\* Nobody waits beside a free slot: between the failed fast path and parking
\* another request may release, yet whoever is queued finds the pool full.
FullWhileWaiting == turn # <<>> => inflight = MaxQueue

\* The rotation names each tenant with a queue once and nobody else: release()
\* and admit() update turn and waiting together on every path.
RotationMatchesQueues ==
    /\ \A i, j \in DOMAIN turn : turn[i] = turn[j] => i = j
    /\ \A t \in Tenants : waiting[t] # <<>> <=> \E i \in DOMAIN turn : turn[i] = t

\* A request that still waits has a sender in its tenant's queue, so
\* the walk of release() reaches it: a dead neighbour never drops it.
NoOrphanedWaiter ==
    \A r \in Requests : pc[r] = "parked" =>
        \E i \in DOMAIN waiting[TenantOf[r]] : waiting[TenantOf[r]][i] = r

(***************************************************************************)
(* Liveness.                                                               *)
(***************************************************************************)
\* No lost wake-up: with served requests finishing, and without help from the
\* wait timeout, every request that entered the queue path leaves it.
EveryWaiterResolved ==
    \A r \in Requests : pc[r] \in {"retry", "parked", "handed"}
                            ~> pc[r] \notin {"retry", "parked", "handed"}

=============================================================================
