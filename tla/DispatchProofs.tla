--------------------------- MODULE DispatchProofs ---------------------------
(***************************************************************************)
(* Proofs about Dispatch, for any requests, nodes, models, roles, cascades *)
(* and bounds: who is charged, and that no attempt repeats a failed node.  *)
(***************************************************************************)
EXTENDS Dispatch, FiniteSetTheorems, TLAPS

\* The larger steps need more time than the backends have by default.
USE SMTT(30), ZenonT(30)

Stages == {"new", "admit", "parked", "emit"} \cup Admitted \cup Ends

-----------------------------------------------------------------------------
(* A request is charged when it becomes "answered", and text reaches a     *)
(* client only on the way there: in that step, or while it is pumped.      *)

ChargeInv ==
    /\ at \in [Requests -> Stages] /\ charged \in [Requests -> Nat]
    /\ \A r \in Requests : charged[r] = IF at[r] = "answered" THEN 1 ELSE 0
    /\ \A r \in sent : at[r] \in {"pump", "answered"}

\* A request moves on without text, charge or answer.
LEMMA QuietStep ==
    ASSUME ChargeInv, NEW r \in Requests, NEW stage \in Stages \ {"answered"},
           at[r] \notin {"pump", "answered"},
           Go(r, stage), charged' = charged, sent' = sent
    PROVE  ChargeInv'
BY DEF ChargeInv, Go

\* A request that was not charged becomes answered, with its charge.
LEMMA ChargedStep ==
    ASSUME ChargeInv, NEW r \in Requests, at[r] # "answered",
           Go(r, "answered"), Charge(r), sent' \in {sent, sent \cup {r}}
    PROVE  ChargeInv'
BY DEF ChargeInv, Go, Charge, Stages, Ends

\* open's error, and the end of an attempt, are quiet.
LEMMA FailureStep ==
    ASSUME ChargeInv, NEW r \in Requests, NEW n,
           at[r] \notin {"pump", "answered"}, OpenFails(r) \/ AttemptFails(r, n)
    PROVE  ChargeInv'
<1>1. charged' = charged /\ sent' = sent
  BY Zenon DEF OpenFails, AttemptFails, client, ledger
<1>2. Go(r, "admit") \/ Go(r, "failed") \/ Go(r, "pick")
  BY Zenon DEF OpenFails, AttemptFails, Advance
<1>. QED
  BY <1>1, <1>2, QuietStep, Zenon DEF Stages, Admitted, Ends

LEMMA ChargeInit == Init => ChargeInv
BY DEF Init, ChargeInv, Stages

LEMMA ChargeNext == ChargeInv /\ [Next]_vars => ChargeInv'
<1>. SUFFICES ASSUME ChargeInv, [Next]_vars PROVE ChargeInv'
  BY Zenon
<1>. USE DEF Stages, Admitted, OnNode, Ends
<1>1. CASE UNCHANGED vars
  BY <1>1, Zenon DEF ChargeInv, vars, client, ledger
<1>2. CASE \E n \in Nodes : Relist(n)
  BY <1>2, Zenon DEF ChargeInv, Relist, client, ledger
<1>3. ASSUME NEW r \in Requests,
             Begin(r) \/ CarbonRefuses(r) \/ Open(r) \/ Answer(r) \/ LostInHandOver(r) \/ Disconnect(r)
      PROVE  ChargeInv'
  <2>1. CASE Begin(r) \/ CarbonRefuses(r) \/ LostInHandOver(r)
    BY <2>1, QuietStep, Zenon DEF Begin, CarbonRefuses, LostInHandOver, New, client, ledger
  <2>2. CASE Admit(r) \/ Park(r) \/ Prefill(r)
    BY <2>2, QuietStep, Zenon DEF Admit, Park, Prefill, client, ledger
  <2>3. CASE AdmitRefused(r)
    BY <2>3, QuietStep, Zenon DEF AdmitRefused, Advance, client, ledger
  <2>4. CASE Pick(r)
    <3>1. Go(r, "prefill") \/ Go(r, "call")
      BY <2>4, Zenon DEF Pick
    <3>. QED
      BY <2>4, <3>1, QuietStep, Zenon DEF Pick, client, ledger
  <2>5. CASE DeadlineRefuses(r)
    BY <2>5, FailureStep, Zenon DEF DeadlineRefuses
  <2>6. CASE NoLocalNode(r)
    BY <2>6, FailureStep, QuietStep, Zenon DEF NoLocalNode, client, ledger
  <2>7. CASE Peer(r) \/ Call(r) \/ FirstToken(r)
    <3>1. CASE UNCHANGED <<client, ledger>> /\ (Go(r, "spawned") \/ Go(r, "collect") \/ Go(r, "first"))
      BY <2>7, <3>1, QuietStep, Zenon DEF Peer, Call, FirstToken, client, ledger
    <3>2. CASE OpenFails(r) \/ AttemptFails(r, node[r])
      BY <2>7, <3>2, FailureStep, Zenon DEF Peer, Call, FirstToken
    <3>. QED
      BY <2>7, <3>1, <3>2, Zenon DEF Peer, Call, FirstToken
  <2>8. CASE Embed(r)
    BY <2>8, FailureStep, ChargedStep, Zenon DEF Embed
  <2>9. CASE Collected(r)
    BY <2>9, QuietStep, ChargedStep, Zenon DEF Collected, Advance, client, ledger
  <2>10. CASE CollectFails(r)
    BY <2>10, FailureStep, Zenon DEF CollectFails
  <2>11. CASE Emit(r)
    BY <2>11, ChargedStep, Zenon DEF Emit
  <2>12. CASE PumpBegins(r)
    BY <2>12, QuietStep, Zenon DEF PumpBegins, client, ledger
  <2>13. CASE PumpToken(r)
    BY <2>13, Zenon DEF PumpToken, ChargeInv, ledger
  <2>14. CASE PumpEnds(r)
    BY <2>14, ChargedStep, Zenon DEF PumpEnds, client
  <2>15. CASE Disconnect(r)
    <3>1. CASE at[r] \in Handler /\ Go(r, "gone") /\ UNCHANGED <<client, ledger>>
      BY <3>1, QuietStep, Zenon DEF Handler, client, ledger
    <3>2. CASE UNCHANGED <<at, sent, ledger>>
      BY <3>2, Zenon DEF ChargeInv, ledger
    <3>. QED
      BY <2>15, <3>1, <3>2, Zenon DEF Disconnect
  <2>. QED
    BY <1>3, <2>1, <2>2, <2>3, <2>4, <2>5, <2>6, <2>7, <2>8, <2>9, <2>10, <2>11, <2>12, <2>13,
       <2>14, <2>15, Zenon DEF Open, Answer
<1>. QED
  BY <1>1, <1>2, <1>3, Zenon DEF Next

\* A client that got text from the model it was given is charged, once, and
\* one that got an error is not: generate.rs settles at the end of a stream or
\* of a collected answer and nowhere else.
THEOREM ChargesExact == Spec => []ChargedOnce
<1>1. ChargeInv => ChargedOnce
  BY DEF ChargeInv, ChargedOnce, Ends
<1>. QED
  BY <1>1, ChargeInit, ChargeNext, PTL DEF Spec

-----------------------------------------------------------------------------
(* A slot is owned exactly while the request is somewhere it holds its     *)
(* Permit, and a node counts exactly the requests dispatched to it.  That  *)
(* counts are given back once needs to know which requests have a node;    *)
(* that a retry meets a fresh node, that the failed ones were excluded.    *)

Holding == Admitted \cup {"lost"}
Served(n) == {r \in Requests : at[r] \in OnNode /\ node[r] = n}

HoldTypes ==
    /\ at \in [Requests -> Stages]
    /\ step \in [Requests -> Nat] /\ \A r \in Requests : step[r] \in DOMAIN Chain[r]
    /\ attempt \in [Requests -> Nat] /\ tried \in [Requests -> SUBSET Nodes]
    /\ node \in [Requests -> Nodes \cup {NoNode}]
    /\ owners \in [Pools -> SUBSET Requests] /\ inflight \in [Nodes -> Nat]

SlotsHeld ==
    \A p \in Pools : owners[p] = {r \in Requests : at[r] \in Holding /\ PoolOf(r) = p}

CountsHeld == \A n \in Nodes : inflight[n] = Cardinality(Served(n))

FreshRequest(r) ==
    /\ IsFiniteSet(tried[r])
    /\ at[r] \in {"new", "admit", "parked"} => tried[r] = {} /\ attempt[r] = 1
    /\ at[r] \in Admitted => Cardinality(tried[r]) = attempt[r] - 1
    /\ at[r] \in OnNode => node[r] \notin tried[r]
    /\ at[r] \in {"prefill", "call", "first"} => node[r] \in Nodes
    /\ at[r] \notin OnNode => node[r] = NoNode

HoldInv == HoldTypes /\ SlotsHeld /\ CountsHeld /\ \A r \in Requests : FreshRequest(r)

ListedNodes == listed \subseteq Nodes

LEMMA ModelInPool == ASSUME HoldTypes, NEW r \in Requests PROVE PoolOf(r) \in Pools
<1>1. Chain[r] \in Seq(Models) /\ step[r] \in DOMAIN Chain[r]
  BY DispatchConstants, Zenon DEF HoldTypes
<1>2. Model(r) \in Models
  BY <1>1 DEF Model
<1>3. IsSplit(r) \in BOOLEAN
  <2>1. CASE IsSplit(r)
    <3>1. IsSplit(r) = TRUE
      BY <2>1, Zenon DEF IsSplit
    <3>. QED
      BY <3>1, Zenon
  <2>2. CASE ~IsSplit(r)
    <3>1. IsSplit(r) = FALSE
      BY <2>2 DEF IsSplit
    <3>. QED
      BY <3>1, Zenon
  <2>. QED
    BY <2>1, <2>2, Zenon
<1>. QED
  BY <1>2, <1>3, Zenon DEF PoolOf, Pools

LEMMA ServedFinite == ASSUME NEW n PROVE IsFiniteSet(Served(n))
BY DispatchConstants, FS_Subset, Zenon DEF Served

LEMMA PoolKept ==
    ASSUME NEW q \in Requests, step'[q] = step[q] PROVE PoolOf(q)' = PoolOf(q)
BY Zenon DEF PoolOf, Model, IsSplit

\* Permits, when a request neither takes nor drops one, takes one, drops one.
LEMMA SlotKept ==
    ASSUME HoldTypes, SlotsHeld, NEW r \in Requests, NEW stage, Go(r, stage), owners' = owners,
           \A q \in Requests \ {r} : step'[q] = step[q],
           \/ at[r] \in Holding /\ stage \in Holding /\ step'[r] = step[r]
           \/ at[r] \notin Holding /\ stage \notin Holding
    PROVE  SlotsHeld'
<1>1. \A q \in Requests \ {r} : PoolOf(q)' = PoolOf(q)
  BY PoolKept, Zenon
<1>2. step'[r] = step[r] => PoolOf(r)' = PoolOf(r)
  BY PoolKept, Zenon
<1>. QED
  BY <1>1, <1>2, Zenon DEF SlotsHeld, Go, HoldTypes

LEMMA SlotTaken ==
    ASSUME HoldTypes, SlotsHeld, NEW r \in Requests, NEW stage \in Holding, Go(r, stage),
           step' = step, owners' = [owners EXCEPT ![PoolOf(r)] = @ \cup {r}]
    PROVE  SlotsHeld'
<1>1. \A q \in Requests : PoolOf(q)' = PoolOf(q)
  BY PoolKept, Zenon
<1>. QED
  BY <1>1, ModelInPool DEF SlotsHeld, Go, HoldTypes

LEMMA SlotDropped ==
    ASSUME HoldTypes, SlotsHeld, NEW r \in Requests, NEW stage, stage \notin Holding, Go(r, stage),
           \A q \in Requests \ {r} : step'[q] = step[q], DropPermit(r)
    PROVE  SlotsHeld'
<1>1. \A q \in Requests \ {r} : PoolOf(q)' = PoolOf(q)
  BY PoolKept, Zenon
<1>. QED
  BY <1>1, ModelInPool DEF SlotsHeld, Go, HoldTypes, DropPermit

\* Counts, when a request stays on its node or on none, is dispatched, drops
\* its guard.
LEMMA CountKept ==
    ASSUME HoldTypes, CountsHeld, NEW r \in Requests, NEW stage, Go(r, stage),
           UNCHANGED <<node, inflight>>,
           (at[r] \in OnNode <=> stage \in OnNode) \/ node[r] = NoNode
    PROVE  CountsHeld'
<1>1. \A n \in Nodes : Served(n)' = Served(n)
  BY DispatchConstants, Zenon DEF Served, Go, HoldTypes
<1>. QED
  BY <1>1, Zenon DEF CountsHeld

LEMMA CountTaken ==
    ASSUME HoldTypes, CountsHeld, NEW r \in Requests, NEW stage \in OnNode, Go(r, stage),
           at[r] \notin OnNode, NEW n \in Nodes, node' = [node EXCEPT ![r] = n],
           inflight' = [inflight EXCEPT ![n] = @ + 1]
    PROVE  CountsHeld'
<1>1. Served(n)' = Served(n) \cup {r} /\ r \notin Served(n)
  BY DEF Served, Go, HoldTypes
<1>2. \A k \in Nodes \ {n} : Served(k)' = Served(k)
  BY Zenon DEF Served, Go, HoldTypes
<1>3. Cardinality(Served(n)') = Cardinality(Served(n)) + 1
  BY <1>1, ServedFinite, FS_AddElement, Zenon
<1>. QED
  BY <1>2, <1>3, Zenon DEF CountsHeld, HoldTypes

LEMMA CountDropped ==
    ASSUME HoldTypes, CountsHeld, NEW r \in Requests, NEW stage, stage \notin OnNode, Go(r, stage),
           at[r] \in OnNode \/ node[r] = NoNode, DropGuard(r)
    PROVE  CountsHeld' /\ inflight' \in [Nodes -> Nat]
<1>1. CASE node[r] \notin Nodes
  <2>1. \A n \in Nodes : Served(n)' = Served(n)
    BY <1>1, DispatchConstants DEF Served, Go, HoldTypes, DropGuard
  <2>. QED
    BY <1>1, <2>1, Zenon DEF CountsHeld, HoldTypes, DropGuard
<1>2. CASE node[r] \in Nodes
  <2>. PICK n \in Nodes : n = node[r]
    BY <1>2, Zenon
  <2>1. r \in Served(n) /\ Served(n)' = Served(n) \ {r}
    BY <1>2, DispatchConstants, Zenon DEF Served, Go, HoldTypes, DropGuard
  <2>2. \A k \in Nodes \ {n} : Served(k)' = Served(k)
    BY <1>2, DispatchConstants, Zenon DEF Served, Go, HoldTypes, DropGuard
  <2>3. Cardinality(Served(n)') = Cardinality(Served(n)) - 1
    BY <2>1, ServedFinite, FS_RemoveElement, Zenon
  <2>4. Cardinality(Served(n)') \in Nat
    BY <2>1, ServedFinite, FS_RemoveElement, FS_CardinalityType, Zenon
  <2>5. inflight' = [inflight EXCEPT ![n] = @ - 1]
    BY <1>2, Zenon DEF DropGuard
  <2>. QED
    BY <1>2, <2>2, <2>3, <2>4, <2>5 DEF CountsHeld, HoldTypes
<1>. QED
  BY <1>1, <1>2, Zenon

-----------------------------------------------------------------------------
(* The shapes the steps of a request have.                                 *)

Waiting == {"new", "admit", "parked"}
Dispatched == {"prefill", "call", "first"}

LEMMA OthersFresh ==
    ASSUME NEW r \in Requests, NEW q \in Requests \ {r}, FreshRequest(q),
           at'[q] = at[q], tried'[q] = tried[q], attempt'[q] = attempt[q], node'[q] = node[q]
    PROVE  FreshRequest(q)'
BY Zenon DEF FreshRequest

\* It moves on with what it holds.
LEMMA MoveStep ==
    ASSUME HoldInv, NEW r \in Requests, NEW stage \in Stages \ {"lost"}, Go(r, stage),
           at[r] # "lost", UNCHANGED <<attempts, owners, inflight>>,
           at[r] \in Admitted <=> stage \in Admitted,
           (at[r] \in OnNode <=> stage \in OnNode) \/ node[r] = NoNode,
           stage \in Waiting => at[r] \in Waiting, stage \in Dispatched => at[r] \in Dispatched
    PROVE  HoldInv'
<1>. UNCHANGED <<step, attempt, tried, node, owners, inflight>>
  BY Zenon DEF attempts
<1>1. HoldTypes'
  BY Zenon DEF HoldInv, HoldTypes, Go
<1>2. SlotsHeld'
  BY SlotKept, Zenon DEF HoldInv, Holding
<1>3. CountsHeld'
  BY CountKept, Zenon DEF HoldInv
<1>4. at'[r] = stage /\ \A q \in Requests \ {r} : at'[q] = at[q]
  BY DEF HoldInv, HoldTypes, Go
<1>5. FreshRequest(r)'
  BY <1>4, DispatchConstants DEF HoldInv, HoldTypes, FreshRequest, Waiting, Dispatched
<1>. QED
  BY <1>1, <1>2, <1>3, <1>4, <1>5, OthersFresh, Zenon DEF HoldInv

\* It gets a slot, which reaches it or is lost.
LEMMA TakeStep ==
    ASSUME HoldInv, NEW r \in Requests, NEW stage \in {"pick", "lost"}, Go(r, stage),
           at[r] \in {"admit", "parked"}, UNCHANGED <<attempts, inflight>>,
           owners' = [owners EXCEPT ![PoolOf(r)] = @ \cup {r}]
    PROVE  HoldInv'
<1>. UNCHANGED <<step, attempt, tried, node, inflight>>
  BY Zenon DEF attempts
<1>. stage \in Holding /\ stage \in Stages /\ stage \notin OnNode /\ at[r] \notin OnNode
  BY Zenon DEF Holding, Admitted, Stages, Ends, OnNode
<1>1. HoldTypes'
  BY ModelInPool, Zenon DEF HoldInv, HoldTypes, Go
<1>2. SlotsHeld'
  BY SlotTaken, Zenon DEF HoldInv
<1>3. CountsHeld'
  BY CountKept, Zenon DEF HoldInv
<1>4. at'[r] = stage /\ \A q \in Requests \ {r} : at'[q] = at[q]
  BY Zenon DEF HoldInv, HoldTypes, Go
<1>5. FreshRequest(r)'
  <2>1. tried[r] = {} /\ attempt[r] = 1 /\ node[r] = NoNode
    BY Zenon DEF HoldInv, FreshRequest
  <2>2. IsFiniteSet(tried[r]) /\ Cardinality(tried[r]) = attempt[r] - 1
    BY <2>1, FS_EmptySet
  <2>. QED
    BY <1>4, <2>1, <2>2, Zenon DEF FreshRequest
<1>. QED
  BY <1>1, <1>2, <1>3, <1>4, <1>5, OthersFresh, Zenon DEF HoldInv

\* It drops what it holds and stays at its model.
LEMMA DropStep ==
    ASSUME HoldInv, NEW r \in Requests, NEW stage \in Ends \cup {"emit"}, stage # "lost",
           Go(r, stage), DropPermit(r), DropGuard(r), UNCHANGED <<step, attempt, tried>>
    PROVE  HoldInv'
<1>. stage \notin Holding /\ stage \in Stages /\ stage \notin OnNode \cup Waiting \cup Dispatched
  BY Zenon DEF Holding, Admitted, Stages, Ends, OnNode, Waiting, Dispatched
<1>1. CountsHeld' /\ inflight' \in [Nodes -> Nat]
  BY CountDropped, Zenon DEF HoldInv, FreshRequest
<1>2. HoldTypes'
  BY <1>1, ModelInPool, Zenon DEF HoldInv, HoldTypes, Go, DropPermit, DropGuard
<1>3. SlotsHeld'
  BY SlotDropped, Zenon DEF HoldInv
<1>4. at'[r] = stage /\ node'[r] = NoNode
      /\ \A q \in Requests \ {r} : at'[q] = at[q] /\ node'[q] = node[q]
  BY Zenon DEF HoldInv, HoldTypes, Go, DropGuard
<1>5. FreshRequest(r)'
  BY <1>4, ZenonT(30) DEF HoldInv, HoldTypes, FreshRequest, Waiting, Dispatched, Holding
<1>. QED
  BY <1>1, <1>2, <1>3, <1>4, <1>5, OthersFresh, Zenon DEF HoldInv

\* It goes on to the next model or fails, and holds nothing.
LEMMA AdvanceStep ==
    ASSUME HoldInv, NEW r \in Requests, Advance(r, "failed"),
           \/ DropPermit(r) /\ DropGuard(r)
           \/ at[r] \in Waiting /\ UNCHANGED <<owners, node, inflight>>
    PROVE  HoldInv'
<1>. PICK stage \in {"admit", "failed"} : Go(r, stage)
  BY Zenon DEF Advance
<1>. stage \notin Holding /\ stage \in Stages /\ stage \notin OnNode \cup Dispatched
  BY DEF Holding, Admitted, Stages, Ends, OnNode, Dispatched
<1>1. CountsHeld' /\ inflight' \in [Nodes -> Nat]
  <2>1. CASE DropGuard(r)
    BY <2>1, CountDropped, Zenon DEF HoldInv, FreshRequest
  <2>2. CASE at[r] \in Waiting /\ UNCHANGED <<node, inflight>>
    <3>1. at[r] \notin OnNode
      BY <2>2, Zenon DEF Waiting, OnNode
    <3>. QED
      BY <2>2, <3>1, CountKept DEF HoldInv, HoldTypes
  <2>. QED
    BY <2>1, <2>2, Zenon
<1>2. /\ \A q \in Requests \ {r} : step'[q] = step[q]
      /\ step' \in [Requests -> Nat] /\ \A q \in Requests : step'[q] \in DOMAIN Chain[q]
  <2>1. step \in [Requests -> Nat] /\ \A q \in Requests : step[q] \in DOMAIN Chain[q]
    BY DEF HoldInv, HoldTypes
  <2>2. CASE step' = step
    BY <2>1, <2>2, Zenon
  <2>3. CASE step[r] + 1 \in DOMAIN Chain[r] /\ step' = [step EXCEPT ![r] = @ + 1]
    BY <2>1, <2>3
  <2>. QED
    BY <2>2, <2>3, Zenon DEF Advance, IsLast
<1>3. HoldTypes'
  <2>1. owners' \in [Pools -> SUBSET Requests] /\ node' \in [Requests -> Nodes \cup {NoNode}]
    BY ModelInPool DEF HoldInv, HoldTypes, DropPermit, DropGuard
  <2>2. /\ at' \in [Requests -> Stages] /\ attempt' \in [Requests -> Nat]
        /\ tried' \in [Requests -> SUBSET Nodes]
    BY Zenon DEF HoldInv, HoldTypes, Go, Advance
  <2>. QED
    BY <1>1, <1>2, <2>1, <2>2 DEF HoldTypes
<1>4. SlotsHeld'
  <2>1. CASE DropPermit(r)
    BY <1>2, <2>1, SlotDropped, ZenonT(30) DEF HoldInv
  <2>2. CASE at[r] \in Waiting /\ owners' = owners
    <3>1. at[r] \notin Holding
      BY <2>2, Zenon DEF Waiting, Holding, Admitted, OnNode
    <3>. QED
      BY <1>2, <2>2, <3>1, SlotKept DEF HoldInv
  <2>. QED
    BY <2>1, <2>2, Zenon
<1>5. /\ at'[r] = stage /\ tried'[r] = {} /\ attempt'[r] = 1 /\ node'[r] = NoNode
      /\ \A q \in Requests \ {r} :
            at'[q] = at[q] /\ node'[q] = node[q] /\ tried'[q] = tried[q] /\ attempt'[q] = attempt[q]
  BY DEF HoldInv, HoldTypes, Go, Advance, DropGuard, FreshRequest, Waiting, OnNode
<1>6. FreshRequest(r)'
  BY <1>5, FS_EmptySet DEF FreshRequest, Dispatched, Holding
<1>. QED
  BY <1>1, <1>3, <1>4, <1>5, <1>6, OthersFresh, Zenon DEF HoldInv

\* Whatever is picked has not failed the request.
LEMMA PickedIsFresh ==
    ASSUME listed \subseteq Nodes, NEW r \in Requests, NEW pair \in Picks(r)
    PROVE  pair[2] \in Nodes /\ pair[2] \notin tried[r]
<1>1. CASE IsSplit(r)
  <2>1. pair \in Pairs(r)
    BY <1>1, Zenon DEF Picks
  <2>2. pair[1] \in Candidates(r, "prefill") /\ pair[2] \in Nodes
    BY <2>1, Zenon DEF Pairs
  <2>3. pair[2] = pair[1] \/ pair[2] \in Eligible(r, "decode")
    BY <2>1 DEF Pairs
  <2>. QED
    BY <2>2, <2>3, Zenon DEF Candidates, Eligible
<1>2. CASE ~IsSplit(r)
  BY <1>2 DEF Picks, Candidates, Eligible
<1>. QED
  BY <1>1, <1>2, Zenon

LEMMA PickStep ==
    ASSUME HoldInv, listed \subseteq Nodes, NEW r \in Requests, Pick(r) PROVE HoldInv'
<1>1. PICK pair \in Picks(r) : /\ node' = [node EXCEPT ![r] = pair[2]]
                               /\ inflight' = [inflight EXCEPT ![pair[2]] = @ + 1]
                               /\ Go(r, IF pair[1] # pair[2] THEN "prefill" ELSE "call")
  BY Zenon DEF Pick
<1>. PICK stage \in {"prefill", "call"} : Go(r, stage)
  BY <1>1, Zenon
<1>2. at[r] = "pick" /\ UNCHANGED <<step, attempt, tried, owners>>
  BY Zenon DEF Pick
<1>. at[r] \in Holding \ OnNode /\ stage \in Holding /\ stage \in Stages /\ stage \in OnNode
     /\ stage \notin Waiting
  BY <1>2, Zenon DEF Holding, Admitted, Stages, OnNode, Waiting
<1>3. pair[2] \in Nodes /\ pair[2] \notin tried[r]
  BY <1>1, PickedIsFresh, Zenon
<1>4. HoldTypes'
  BY <1>1, <1>2, <1>3 DEF HoldInv, HoldTypes, Go
<1>5. SlotsHeld'
  BY <1>2, SlotKept DEF HoldInv
<1>6. CountsHeld'
  BY <1>1, <1>3, CountTaken, Zenon DEF HoldInv
<1>7. at'[r] = stage /\ node'[r] = pair[2]
      /\ \A q \in Requests \ {r} : at'[q] = at[q] /\ node'[q] = node[q]
  BY <1>1 DEF HoldInv, HoldTypes, Go
<1>8. FreshRequest(r)'
  BY <1>2, <1>3, <1>7, ZenonT(30) DEF HoldInv, FreshRequest, Waiting, Admitted
<1>. QED
  BY <1>2, <1>4, <1>5, <1>6, <1>7, <1>8, OthersFresh DEF HoldInv

\* An attempt fails: the node is excluded, and the request is routed anew, or
\* open fails.
LEMMA RetryStep ==
    ASSUME HoldInv, NEW r \in Requests, NEW n \in Nodes, n \notin tried[r],
           at[r] \in Dispatched \cup {"pick"}, AttemptFails(r, n)
    PROVE  HoldInv'
<1>1. CASE OpenFails(r)
  BY <1>1, AdvanceStep DEF OpenFails
<1>2. CASE /\ attempt' = [attempt EXCEPT ![r] = @ + 1]
           /\ tried' = [tried EXCEPT ![r] = @ \cup {n}]
           /\ DropGuard(r) /\ Go(r, "pick") /\ UNCHANGED <<step, owners>>
  <2>. at[r] \in Holding /\ at[r] \in Admitted /\ "pick" \in Holding /\ "pick" \in Stages
       /\ "pick" \notin OnNode /\ "pick" \notin Waiting
    BY Zenon DEF Holding, Admitted, Stages, OnNode, Waiting, Dispatched
  <2>1. CountsHeld' /\ inflight' \in [Nodes -> Nat]
    BY <1>2, CountDropped DEF HoldInv, FreshRequest
  <2>2. HoldTypes'
    BY <1>2, <2>1 DEF HoldInv, HoldTypes, Go, DropGuard
  <2>3. SlotsHeld'
    BY <1>2, SlotKept, Zenon DEF HoldInv
  <2>4. /\ at'[r] = "pick" /\ node'[r] = NoNode
        /\ attempt'[r] = attempt[r] + 1 /\ tried'[r] = tried[r] \cup {n}
        /\ \A q \in Requests \ {r} :
              at'[q] = at[q] /\ node'[q] = node[q] /\ tried'[q] = tried[q] /\ attempt'[q] = attempt[q]
    BY <1>2 DEF HoldInv, HoldTypes, Go, DropGuard
  <2>5. IsFiniteSet(tried[r]) /\ Cardinality(tried[r]) = attempt[r] - 1 /\ attempt[r] \in Nat
    BY Zenon DEF HoldInv, HoldTypes, FreshRequest
  <2>6. IsFiniteSet(tried'[r]) /\ Cardinality(tried'[r]) = attempt'[r] - 1
    <3>. DEFINE more == tried[r] \cup {n}
    <3>1. IsFiniteSet(more) /\ Cardinality(more) = Cardinality(tried[r]) + 1
      BY <2>5, FS_AddElement, Zenon
    <3>2. tried'[r] = more /\ attempt'[r] = attempt[r] + 1
      BY <2>4
    <3>. HIDE DEF more
    <3>3. IsFiniteSet(tried'[r]) /\ Cardinality(tried'[r]) = Cardinality(tried[r]) + 1
      BY <3>1, <3>2, Zenon
    <3>4. attempt'[r] - 1 = attempt[r] /\ Cardinality(tried[r]) + 1 = attempt[r]
      BY <2>5, <3>2
    <3>. QED
      BY <3>3, <3>4, Zenon
  <2>7. FreshRequest(r)'
    BY <2>4, <2>6 DEF FreshRequest, OnNode, Waiting
  <2>. QED
    BY <2>1, <2>2, <2>3, <2>4, <2>7, OthersFresh, ZenonT(30) DEF HoldInv
<1>. QED
  BY <1>1, <1>2, Zenon DEF AttemptFails

\* Nothing the invariant speaks of changes.
LEMMA IdleStep ==
    ASSUME HoldInv, UNCHANGED <<at, attempts, owners, inflight>> PROVE HoldInv'
<1>. UNCHANGED <<at, step, attempt, tried, node, owners, inflight>>
  BY Zenon DEF attempts
<1>1. \A r \in Requests : PoolOf(r)' = PoolOf(r)
  BY PoolKept, Zenon
<1>2. \A n \in Nodes : Served(n)' = Served(n)
  BY DEF Served
<1>3. HoldTypes'
  BY DEF HoldInv, HoldTypes
<1>4. SlotsHeld'
  BY <1>1, Zenon DEF HoldInv, SlotsHeld
<1>5. CountsHeld'
  BY <1>2 DEF HoldInv, CountsHeld
<1>6. \A r \in Requests : FreshRequest(r)'
  BY DEF HoldInv, FreshRequest
<1>. QED
  BY <1>3, <1>4, <1>5, <1>6, Zenon DEF HoldInv

LEMMA HoldInit == Init => HoldInv /\ ListedNodes
<1>. SUFFICES ASSUME Init PROVE HoldInv
  BY DEF Init, ListedNodes
<1>1. HoldTypes
  BY DispatchConstants DEF Init, HoldTypes, Stages
<1>2. SlotsHeld
  BY Zenon DEF Init, SlotsHeld, Holding, Admitted, OnNode
<1>3. CountsHeld
  <2>1. \A n \in Nodes : Served(n) = {}
    BY Zenon DEF Init, Served, OnNode
  <2>. QED
    BY <2>1, FS_EmptySet, Zenon DEF Init, CountsHeld
<1>4. \A r \in Requests : FreshRequest(r)
  BY FS_EmptySet, Zenon DEF Init, FreshRequest, Admitted, OnNode
<1>. QED
  BY <1>1, <1>2, <1>3, <1>4 DEF HoldInv

LEMMA HoldNext == HoldInv /\ ListedNodes /\ [Next]_vars => HoldInv' /\ ListedNodes'
<1>. SUFFICES ASSUME HoldInv, listed \subseteq Nodes, [Next]_vars
              PROVE  HoldInv' /\ listed' \subseteq Nodes
  BY DEF ListedNodes
<1>1. CASE UNCHANGED vars
  BY <1>1, IdleStep, Zenon DEF vars
<1>2. CASE \E n \in Nodes : Relist(n)
  BY <1>2, IdleStep DEF Relist
<1>3. ASSUME NEW r \in Requests,
             Begin(r) \/ CarbonRefuses(r) \/ Open(r) \/ Answer(r) \/ LostInHandOver(r) \/ Disconnect(r)
      PROVE  HoldInv' /\ listed' = listed
  <2>. USE DEF Stages, Admitted, OnNode, Ends, Waiting, Dispatched
  <2>1. CASE Begin(r) \/ CarbonRefuses(r) \/ Park(r) \/ Prefill(r)
    BY <2>1, MoveStep, Zenon DEF Begin, CarbonRefuses, New, Park, Prefill
  <2>2. CASE Admit(r) \/ LostInHandOver(r)
    BY <2>2, TakeStep DEF Admit, LostInHandOver
  <2>3. CASE AdmitRefused(r)
    BY <2>3, AdvanceStep, Zenon DEF AdmitRefused
  <2>4. CASE Pick(r)
    BY <2>4, PickStep, Zenon DEF Pick
  <2>5. CASE DeadlineRefuses(r)
    <3>1. PICK pair \in Picks(r) : AttemptFails(r, pair[2])
      BY <2>5 DEF DeadlineRefuses
    <3>2. at[r] = "pick"
      BY <2>5 DEF DeadlineRefuses
    <3>. QED
      BY <3>1, <3>2, PickedIsFresh, RetryStep DEF AttemptFails, OpenFails
  <2>6. CASE NoLocalNode(r) \/ Peer(r)
    <3>1. node[r] = NoNode /\ at[r] \in {"pick", "peer"}
      BY <2>6 DEF NoLocalNode, Peer, HoldInv, FreshRequest
    <3>2. CASE OpenFails(r)
      BY <3>2, AdvanceStep DEF OpenFails
    <3>3. CASE UNCHANGED <<attempts, owners, inflight, listed>>
               /\ (Go(r, "peer") \/ Go(r, "spawned") \/ Go(r, "collect"))
      BY <3>1, <3>3, MoveStep
    <3>. QED
      BY <2>6, <3>2, <3>3, Zenon DEF NoLocalNode, Peer
  <2>7. CASE Call(r) \/ FirstToken(r)
    <3>1. at[r] \in {"call", "first"} /\ node[r] \in Nodes /\ node[r] \notin tried[r]
      BY <2>7, ZenonT(30) DEF Call, FirstToken, HoldInv, FreshRequest
    <3>2. CASE OpenFails(r)
      BY <3>2, AdvanceStep, Zenon DEF OpenFails
    <3>3. CASE AttemptFails(r, node[r])
      BY <3>1, <3>3, RetryStep, Zenon DEF AttemptFails, OpenFails
    <3>4. CASE /\ UNCHANGED <<attempts, owners, inflight, listed>>
               /\ \/ at[r] = "call" /\ Go(r, "first")
                  \/ Go(r, "spawned") \/ Go(r, "collect")
      BY <3>1, <3>4, MoveStep, Zenon
    <3>. QED
      BY <2>7, <3>2, <3>3, <3>4 DEF Call, FirstToken
  <2>8. CASE Embed(r)
    BY <2>8, DropStep, AdvanceStep DEF Embed, OpenFails
  <2>9. CASE Collected(r)
    BY <2>9, DropStep, AdvanceStep DEF Collected
  <2>10. CASE CollectFails(r)
    BY <2>10, AdvanceStep, Zenon DEF CollectFails, OpenFails
  <2>11. CASE Emit(r)
    BY <2>11, MoveStep DEF Emit
  <2>12. CASE PumpBegins(r)
    BY <2>12, MoveStep, DropStep DEF PumpBegins, attempts
  <2>13. CASE PumpToken(r)
    BY <2>13, IdleStep, Zenon DEF PumpToken
  <2>14. CASE PumpEnds(r)
    BY <2>14, DropStep DEF PumpEnds
  <2>15. CASE Disconnect(r)
    <3>1. CASE at[r] \in {"admit", "parked"} /\ Go(r, "gone")
               /\ UNCHANGED <<attempts, owners, inflight, listed>>
      BY <3>1, MoveStep
    <3>2. CASE DropPermit(r) /\ DropGuard(r) /\ Go(r, "gone") /\ UNCHANGED <<step, attempt, tried, listed>>
      BY <3>2, DropStep, Zenon
    <3>3. CASE UNCHANGED <<at, attempts, owners, inflight, listed>>
      BY <3>3, IdleStep, Zenon
    <3>. QED
      BY <2>15, <3>1, <3>2, <3>3 DEF Disconnect, attempts
  <2>. QED
    BY <1>3, <2>1, <2>2, <2>3, <2>4, <2>5, <2>6, <2>7, <2>8, <2>9, <2>10, <2>11, <2>12, <2>13,
       <2>14, <2>15 DEF Open, Answer
<1>. QED
  BY <1>1, <1>2, <1>3 DEF Next

\* No retry, escalation, failure or disconnect leaks an admission slot or a
\* node's in-flight count, or gives one back twice: Permit and NodeGuard live
\* exactly as long as the request is served.
THEOREM SlotsAndCountsExact == Spec => []HeldWhileServed
<1>1. HoldInv => HeldWhileServed
  BY DEF HoldInv, SlotsHeld, CountsHeld, HeldWhileServed, Holding, Served
<1>. QED
  BY <1>1, HoldInit, HoldNext, PTL DEF Spec

\* The attempts generate.rs makes for one model reach different nodes.
THEOREM RetriesReachFreshNodes == Spec => []FreshNodeEachAttempt
<1>1. HoldInv => FreshNodeEachAttempt
  BY Zenon DEF HoldInv, FreshRequest, FreshNodeEachAttempt
<1>. QED
  BY <1>1, HoldInit, HoldNext, PTL DEF Spec

=============================================================================
