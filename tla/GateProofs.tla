----------------------------- MODULE GateProofs -----------------------------
(***************************************************************************)
(* Proofs about Gate, for any callers, keys, settings and number of        *)
(* restarts: how often an unknown kid may reach the identity provider,     *)
(* that the usage file never runs ahead of the ledger, and by how much the *)
(* requests in flight may overrun a key's limits.                          *)
(***************************************************************************)
EXTENDS Gate, FiniteSetTheorems, TLAPS

\* The larger steps need more time than the backends have by default.
USE SMTT(30), ZenonT(30)

-----------------------------------------------------------------------------
(* The cooldown: a fetch for an unknown kid needs a cache that is not      *)
(* fresh, and makes it count as fresh before it is sent.                   *)
CooldownInv == missFetches \in {0, 1} /\ (age # "fresh" => missFetches = 0)

LEMMA CooldownKept ==
    ASSUME CooldownInv,
           \/ UNCHANGED <<age, missFetches>>
           \/ age' = "fresh" /\ missFetches' = missFetches
           \/ missFetches' = 0
           \/ age # "fresh" /\ age' = "fresh" /\ missFetches' = missFetches + 1
    PROVE  CooldownInv'
BY DEF CooldownInv

LEMMA CooldownNext == CooldownInv /\ [Next]_vars => CooldownInv'
<1>. SUFFICES ASSUME CooldownInv, [Next]_vars PROVE CooldownInv'
  BY Zenon
<1>1. CASE UNCHANGED oidcVars
  BY <1>1, CooldownKept, Zenon DEF oidcVars
<1>2. CASE UNCHANGED vars
  BY <1>1, <1>2, Zenon DEF vars
<1>3. CASE ProviderStep
  BY <1>3, CooldownKept, Zenon DEF ProviderStep, Rotate, Older
<1>4. CASE KeyStep \/ CarbonStep \/ Poll \/ NextMinute
  BY <1>1, <1>4, Zenon DEF KeyStep, CarbonStep, Poll, NextMinute
<1>5. CASE \E c \in Caller : RequestStep(c)
  <2>1. PICK c \in Caller : RequestStep(c)
    BY <1>5, Zenon
  <2>2. CASE \E r : ArriveOpen(c, r)
    BY <1>1, <2>2, Zenon DEF ArriveOpen
  <2>3. CASE \E r, token : Authenticate(c, r, token)
    <3>1. UNCHANGED oidcVars \/ \E token : Verify(c, token)
      BY <2>3, Zenon DEF Authenticate
    <3>. QED
      BY <1>1, <3>1, CooldownKept, Zenon DEF Verify, Decide, MayRefreshOnMiss, Claimed
  <2>4. CASE Verifying(c)
    BY <2>4, CooldownKept, Zenon DEF Verifying, FetchAnswered, FetchFails, FetchStored
  <2>5. CASE Verified(c)
    BY <2>5, CooldownKept, Zenon DEF Verified
  <2>6. CASE \/ \E model \in {"a", "b"}, priority \in Priority : Authorize(c, model, priority)
             \/ \E tokens \in 1 .. MaxCost : Answered(c, tokens)
             \/ Failed(c)
    BY <1>1, <2>6, Zenon DEF Authorize, Answered, Failed
  <2>. QED
    BY <2>1, <2>2, <2>3, <2>4, <2>5, <2>6, Zenon DEF RequestStep, Arrive
<1>6. CASE \E p \in DOMAIN persister : PersistStep(p)
  BY <1>1, <1>6, Zenon DEF PersistStep, PersistSnaps, PersistOpens, PersistWrites, PersistRenames,
                    PersistFails, Persisting
<1>7. CASE Signalled \/ ServerExits \/ Drained \/ DrainTimeout \/ Restart
  BY <1>1, <1>7, Zenon DEF Signalled, ServerExits, Drained, DrainTimeout, Restart, MainStep
<1>8. CASE Exit \/ Crash
  BY <1>8, CooldownKept, Zenon DEF Exit, Crash, Stopped, NewVerifier
<1>. QED
  BY <1>2, <1>3, <1>4, <1>5, <1>6, <1>7, <1>8, Zenon DEF Next

\* However many requests carry an unknown kid at the same time, the verifier
\* asks the provider once per cooldown (oidc.rs, may_refresh_on_miss).
THEOREM OneMissFetchPerCooldown == Spec => []MissFetchesLimited
<1>1. Init => CooldownInv
  BY Zenon DEF Init, OidcInit, CooldownInv
<1>2. CooldownInv => MissFetchesLimited
  BY DEF CooldownInv, MissFetchesLimited
<1>. QED
  BY <1>1, <1>2, CooldownNext, PTL DEF Spec

-----------------------------------------------------------------------------
(* The usage file.  Two persists share a tmp file, a writer may find its   *)
(* file renamed, and a crash leaves the tmp file of a process whose ledger *)
(* is gone: what matters of tmp is what it holds while somebody has it     *)
(* open, since opening truncates it.                                       *)
Entry == [total : Nat, minute : {"now", "past"}, window : Nat]

Special(f) == f \in {Torn, NoFile}

Numbers(f) == ~Special(f) => \A s \in DOMAIN f : f[s] \in Nat
Covers(f) == ~Special(f) => \A s \in DOMAIN f : s \in DOMAIN ledger /\ f[s] <= ledger[s].total

Writing(p) == persister[p].pc \in {"snapped", "opened", "written"}
Opened(p) == persister[p].pc \in {"opened", "written"}

Writers ==
    /\ DOMAIN persister = {"tick", "final"}
    /\ persister = [p \in {"tick", "final"} |-> persister[p]]
    /\ \A p \in {"tick", "final"} :
          /\ persister[p] = [pc |-> persister[p].pc, snap |-> persister[p].snap, at |-> persister[p].at]
          /\ phase = "down" => ~Writing(p)

Contents ==
    /\ \A s \in DOMAIN ledger : ledger[s] \in Entry
    /\ Numbers(usageFile) /\ (phase # "down" => Covers(usageFile))
    /\ \A p \in {"tick", "final"} :
          /\ Writing(p) => Numbers(persister[p].snap) /\ Covers(persister[p].snap)
          /\ Opened(p) => Numbers(tmp) /\ Covers(tmp)

LedgerInv == Writers /\ Contents

\* The ledger only grows.
LEMMA LedgerGrows ==
    ASSUME LedgerInv, UNCHANGED <<phase, persister, tmp, usageFile>>,
           \A s \in DOMAIN ledger' : ledger'[s] \in Entry,
           \A s \in DOMAIN ledger : s \in DOMAIN ledger' /\ ledger[s].total <= ledger'[s].total
    PROVE  LedgerInv'
<1>1. ASSUME NEW f, Numbers(f), Covers(f)
      PROVE  ~Special(f) => \A s \in DOMAIN f : s \in DOMAIN ledger' /\ f[s] <= ledger'[s].total
  BY <1>1 DEF Numbers, Covers, LedgerInv, Contents, Entry
<1>2. Writers'
  BY Zenon DEF LedgerInv, Writers, Writing
<1>3. Numbers(usageFile)' /\ (phase' # "down" => Covers(usageFile)')
  BY <1>1, Zenon DEF LedgerInv, Contents, Numbers, Covers
<1>4. ASSUME NEW p \in {"tick", "final"}
      PROVE  /\ Writing(p)' => Numbers(persister[p].snap)' /\ Covers(persister[p].snap)'
             /\ Opened(p)' => Numbers(tmp)' /\ Covers(tmp)'
  BY <1>1, Zenon DEF LedgerInv, Contents, Numbers, Covers, Writing, Opened
<1>. QED
  BY <1>2, <1>3, <1>4, Zenon DEF LedgerInv, Contents

LEMMA LedgerKept ==
    ASSUME LedgerInv, UNCHANGED <<ledger, phase, persister, tmp, usageFile>> PROVE LedgerInv'
<1>1. \A s \in DOMAIN ledger : ledger[s].total <= ledger[s].total
  BY DEF LedgerInv, Contents, Entry
<1>. QED
  BY <1>1, LedgerGrows, Zenon DEF LedgerInv, Contents

LEMMA ChargeKeeps ==
    ASSUME LedgerInv, NEW c \in Caller, NEW tokens \in 1 .. MaxCost, Answered(c, tokens)
    PROVE  LedgerInv'
<1>. DEFINE subject == request[c].subject
<1>1. /\ ledger' = ledger \/ ledger' = ChargeAt(subject, tokens)
      /\ UNCHANGED <<phase, persister, tmp, usageFile>>
  BY Zenon DEF Answered
<1>. HIDE DEF subject
<1>2. tokens \in Nat /\ EntryOf(subject) \in Entry
  BY GateConstants DEF EntryOf, NoEntry, Entry, LedgerInv, Contents
<1>3. CASE ledger' = ledger
  BY <1>1, <1>3, LedgerKept, Zenon
<1>4. CASE ledger' = ChargeAt(subject, tokens)
  <2>1. ASSUME NEW s \in DOMAIN ledger' PROVE ledger'[s] \in Entry
    BY <1>2, <1>4 DEF ChargeAt, LedgerInv, Contents, Entry
  <2>2. ASSUME NEW s \in DOMAIN ledger
        PROVE  s \in DOMAIN ledger' /\ ledger[s].total <= ledger'[s].total
    BY <1>2, <1>4 DEF ChargeAt, EntryOf, LedgerInv, Contents, Entry
  <2>. QED
    BY <1>1, <2>1, <2>2, LedgerGrows, Zenon
<1>. QED
  BY <1>1, <1>3, <1>4, Zenon

LEMMA MinuteTurns ==
    ASSUME LedgerInv, NextMinute
    PROVE  /\ DOMAIN ledger' = DOMAIN ledger
           /\ \A s \in DOMAIN ledger :
                 ledger'[s] = [total |-> ledger[s].total, minute |-> "past", window |-> 0]
<1>1. ledger' = [s \in DOMAIN ledger |-> [ledger[s] EXCEPT !.minute = "past", !.window = 0]]
  BY Zenon DEF NextMinute
<1>2. ASSUME NEW e \in Entry
      PROVE  [e EXCEPT !.minute = "past", !.window = 0]
               = [total |-> e.total, minute |-> "past", window |-> 0]
  <2>1. PICK x : x = [e EXCEPT !.minute = "past"]
    BY Zenon
  <2>2. x = [total |-> e.total, minute |-> "past", window |-> e.window]
    BY <2>1, Zenon DEF Entry
  <2>3. [x EXCEPT !.window = 0] = [total |-> e.total, minute |-> "past", window |-> 0]
    BY <2>2
  <2>4. [e EXCEPT !.minute = "past", !.window = 0] = [[e EXCEPT !.minute = "past"] EXCEPT !.window = 0]
    BY Zenon
  <2>. QED
    BY <2>1, <2>3, <2>4, Zenon
<1>3. \A s \in DOMAIN ledger : ledger[s] \in Entry
  BY Zenon DEF LedgerInv, Contents
<1>. QED
  BY <1>1, <1>2, <1>3, Zenon

LEMMA MinuteKeeps == ASSUME LedgerInv, NextMinute PROVE LedgerInv'
<1>1. UNCHANGED <<phase, persister, tmp, usageFile>>
  BY Zenon DEF NextMinute
<1>2. ASSUME NEW s \in DOMAIN ledger
      PROVE  ledger'[s] \in Entry /\ ledger[s].total <= ledger'[s].total
  <2>1. ledger[s].total \in Nat
    BY Zenon DEF LedgerInv, Contents, Entry
  <2>2. ledger'[s] = [total |-> ledger[s].total, minute |-> "past", window |-> 0]
    BY MinuteTurns, Zenon
  <2>. QED
    BY <2>1, <2>2 DEF Entry
<1>3. DOMAIN ledger' = DOMAIN ledger
  BY MinuteTurns, Zenon
<1>. QED
  BY <1>1, <1>2, <1>3, LedgerGrows, Zenon

Good(f) == Numbers(f) /\ Covers(f)

\* A step of persist p: the other one's record changes at most in where its file
\* is, and what is in a file somebody may still rename is good.
PersistShape(p) ==
    /\ UNCHANGED <<ledger, phase>> /\ phase # "down"
    /\ DOMAIN persister' = {"tick", "final"}
    /\ persister' = [q \in {"tick", "final"} |-> persister'[q]]
    /\ \A q \in {"tick", "final"} :
          /\ persister'[q] = [pc |-> persister'[q].pc, snap |-> persister'[q].snap, at |-> persister'[q].at]
          /\ q # p => persister'[q].pc = persister[q].pc /\ persister'[q].snap = persister[q].snap

LEMMA PersistKeeps ==
    ASSUME LedgerInv, NEW p \in {"tick", "final"}, PersistShape(p),
           Writing(p)' => Good(persister'[p].snap), Good(usageFile'),
           \A q \in {"tick", "final"} : Opened(q)' => Good(tmp')
    PROVE  LedgerInv'
<1>1. ASSUME NEW f, Good(f)
      PROVE  /\ ~Special(f) => \A s \in DOMAIN f : f[s] \in Nat
             /\ ~Special(f) => \A s \in DOMAIN f : s \in DOMAIN ledger' /\ f[s] <= ledger'[s].total
  BY <1>1, Zenon DEF Good, Numbers, Covers, PersistShape
<1>2. ASSUME NEW q \in {"tick", "final"}, Writing(q)' PROVE Good(persister'[q].snap)
  BY <1>2, Zenon DEF LedgerInv, Contents, Writing, PersistShape, Good
<1>3. Writers'
  BY Zenon DEF Writers, PersistShape
<1>4. Contents'
  BY <1>1, <1>2, Zenon DEF LedgerInv, Contents, Numbers, Covers, PersistShape
<1>. QED
  BY <1>3, <1>4, Zenon DEF LedgerInv

LEMMA SpecialGood == Good(Torn) /\ Good(NoFile)
BY DEF Good, Numbers, Covers, Special

LEMMA Running == ASSUME LedgerInv, NEW p \in {"tick", "final"}, Writing(p) PROVE phase # "down"
BY DEF LedgerInv, Writers

LEMMA SnapsKeeps == ASSUME LedgerInv, NEW p \in {"tick", "final"}, PersistSnaps(p) PROVE LedgerInv'
<1>1. PersistShape(p) /\ persister'[p].snap = Snapshot /\ ~Opened(p)' /\ UNCHANGED <<tmp, usageFile>>
  BY Zenon DEF PersistSnaps, Persisting, PersistShape, LedgerInv, Writers, Opened
<1>2. Good(Snapshot)
  BY DEF Good, Numbers, Covers, Snapshot, LedgerInv, Contents, Entry
<1>3. ASSUME NEW q \in {"tick", "final"}, Opened(q)' PROVE Good(tmp')
  BY <1>1, <1>3, Zenon DEF LedgerInv, Contents, PersistShape, Opened, Good
<1>4. Good(usageFile')
  BY <1>1 DEF LedgerInv, Contents, PersistShape, Good
<1>. QED
  BY <1>1, <1>2, <1>3, <1>4, PersistKeeps, Zenon

LEMMA OpensKeeps == ASSUME LedgerInv, NEW p \in {"tick", "final"}, PersistOpens(p) PROVE LedgerInv'
<1>. DEFINE w == persister[p]
<1>1. /\ persister' = [persister EXCEPT ![p] = [pc |-> "opened", snap |-> w.snap, at |-> "tmp"]]
      /\ w.pc = "snapped" /\ tmp' = Torn /\ UNCHANGED <<usageFile, ledger, phase>>
  BY Zenon DEF PersistOpens, Persisting
<1>2. /\ DOMAIN persister = {"tick", "final"} /\ w = [pc |-> w.pc, snap |-> w.snap, at |-> w.at]
  BY Zenon DEF LedgerInv, Writers
<1>3. Writing(p) /\ phase # "down"
  BY <1>1, Running, Zenon DEF Writing
<1>4. PersistShape(p) /\ persister'[p].snap = persister[p].snap
  BY <1>1, <1>2, <1>3, Zenon DEF PersistShape, LedgerInv, Writers
<1>5. Good(persister[p].snap) /\ Good(usageFile')
  BY <1>1, <1>3 DEF LedgerInv, Contents, Good
<1>. QED
  BY <1>1, <1>4, <1>5, SpecialGood, PersistKeeps, Zenon

LEMMA WritesKeeps == ASSUME LedgerInv, NEW p \in {"tick", "final"}, PersistWrites(p) PROVE LedgerInv'
<1>. DEFINE w == persister[p]
<1>1. /\ persister' = [persister EXCEPT ![p] = [w EXCEPT !.pc = "written"]]
      /\ w.pc = "opened" /\ UNCHANGED <<ledger, phase>>
  BY Zenon DEF PersistWrites, Persisting
<1>2. tmp' \in {tmp, Torn, w.snap} /\ usageFile' \in {usageFile, Torn, w.snap}
  BY DEF PersistWrites, Content
<1>3. Writing(p) /\ Opened(p) /\ phase # "down"
  BY <1>1, Running, Zenon DEF Writing, Opened
<1>4. PersistShape(p) /\ persister'[p].snap = persister[p].snap
  <2>1. w = [pc |-> w.pc, snap |-> w.snap, at |-> w.at]
    BY Zenon DEF LedgerInv, Writers
  <2>2. [w EXCEPT !.pc = "written"] = [pc |-> "written", snap |-> w.snap, at |-> w.at]
    BY <2>1
  <2>3. persister' = [persister EXCEPT ![p] = [pc |-> "written", snap |-> w.snap, at |-> w.at]]
    BY <1>1, <2>2, Zenon
  <2>. QED
    BY <1>1, <1>3, <2>3, ZenonT(30) DEF PersistShape, LedgerInv, Writers
<1>5. Good(persister[p].snap) /\ Good(tmp) /\ Good(usageFile)
  BY <1>3, Zenon DEF LedgerInv, Contents, Good
<1>6. Good(tmp') /\ Good(usageFile')
  BY <1>2, <1>5, SpecialGood
<1>. QED
  BY <1>4, <1>5, <1>6, PersistKeeps, Zenon

LEMMA EndsKeeps ==
    ASSUME LedgerInv, NEW p \in {"tick", "final"}, PersistRenames(p) \/ PersistFails(p)
    PROVE  LedgerInv'
<1>1. /\ \/ UNCHANGED <<tmp, usageFile>>
         \/ persister[p].pc = "written" /\ usageFile' = tmp /\ tmp' = NoFile
      /\ persister[p].pc \in {"snapped", "opened", "written"}
      /\ UNCHANGED <<ledger, phase>>
  BY Zenon DEF PersistRenames, PersistFails, Persisting
<1>2. Writing(p) /\ phase # "down"
  BY <1>1, Running, Zenon DEF Writing
<1>3. /\ DOMAIN persister' = {"tick", "final"} /\ persister'[p] = Done(p)
      /\ persister' = [q \in {"tick", "final"} |-> persister'[q]]
  BY DEF PersistRenames, PersistFails, LedgerInv, Writers
<1>4. ASSUME NEW q \in {"tick", "final"}, q # p
      PROVE  persister'[q] = [pc |-> persister[q].pc, snap |-> persister[q].snap, at |-> persister'[q].at]
  <2>1. persister[q] = [pc |-> persister[q].pc, snap |-> persister[q].snap, at |-> persister[q].at]
    BY Zenon DEF LedgerInv, Writers
  <2>2. persister'[q] = persister[q] \/ persister'[q] = [persister[q] EXCEPT !.at = Moved(@)]
    BY <1>4 DEF PersistRenames, PersistFails, LedgerInv, Writers
  <2>. QED
    BY <2>1, <2>2, Zenon
<1>5. /\ Done(p) = [pc |-> Done(p).pc, snap |-> NoFile, at |-> "none"]
      /\ Done(p).pc \in {"idle", "done"}
  BY DEF Done, Idle
<1>6. PersistShape(p) /\ ~Writing(p)' /\ ~Opened(p)'
  BY <1>1, <1>2, <1>3, <1>4, <1>5 DEF PersistShape, Writing, Opened
<1>7. Good(usageFile) /\ (Opened(p) => Good(tmp))
  BY <1>2, Zenon DEF LedgerInv, Contents, Good
<1>8. Good(usageFile')
  BY <1>1, <1>7, Zenon DEF Opened
<1>9. ASSUME NEW q \in {"tick", "final"}, Opened(q)' PROVE Good(tmp')
  <2>1. Opened(q)
    BY <1>6, <1>9, Zenon DEF Opened, PersistShape
  <2>2. Good(tmp)
    BY <2>1, Zenon DEF LedgerInv, Contents, Good
  <2>. QED
    BY <1>1, <2>2, SpecialGood
<1>. QED
  BY <1>6, <1>8, <1>9, PersistKeeps, Zenon

\* The process ends with its ledger and its persists.
LEMMA StoppedKeeps == ASSUME LedgerInv, Stopped PROVE LedgerInv'
<1>1. /\ phase' = "down" /\ ledger' = <<>> /\ UNCHANGED usageFile
      /\ persister' = [p \in DOMAIN persister |-> Idle]
  BY Zenon DEF Stopped
<1>2. \A p \in {"tick", "final"} : persister'[p] = Idle /\ ~Writing(p)' /\ ~Opened(p)'
  BY <1>1, Zenon DEF LedgerInv, Writers, Writing, Opened, Idle
<1>3. Writers'
  BY <1>1, <1>2 DEF LedgerInv, Writers, Idle
<1>4. Contents'
  BY <1>1, <1>2 DEF LedgerInv, Contents, Numbers
<1>. QED
  BY <1>3, <1>4 DEF LedgerInv

LEMMA RestoredEntry ==
    ASSUME NEW n PROVE [NoEntry EXCEPT !.total = n] = [total |-> n, minute |-> "past", window |-> 0]
BY DEF NoEntry

\* The next one starts from the file.
LEMMA RestartKeeps == ASSUME LedgerInv, Restart PROVE LedgerInv'
<1>1. /\ phase = "down" /\ usageFile # Torn /\ ledger' = Open /\ phase' = "up"
      /\ UNCHANGED <<persister, tmp, usageFile>>
  BY DEF Restart
<1>2. \A p \in {"tick", "final"} : ~Writing(p)' /\ ~Opened(p)'
  BY <1>1 DEF LedgerInv, Writers, Writing, Opened
<1>3. Writers'
  BY <1>1, <1>2, Zenon DEF LedgerInv, Writers
<1>4. CASE usageFile = NoFile
  <2>1. ledger' = <<>> /\ Special(usageFile)'
    BY <1>1, <1>4 DEF Open, Special
  <2>. QED
    BY <1>1, <1>2, <1>3, <2>1 DEF LedgerInv, Contents, Numbers, Covers
<1>5. CASE usageFile # NoFile
  <2>1. ~Special(usageFile) /\ \A s \in DOMAIN usageFile : usageFile[s] \in Nat
    BY <1>1, <1>5, Zenon DEF LedgerInv, Contents, Numbers, Special
  <2>2. ledger' = [s \in DOMAIN usageFile |-> [NoEntry EXCEPT !.total = usageFile[s]]]
    BY <1>1, <1>5, Zenon DEF Open
  <2>3. ASSUME NEW s \in DOMAIN usageFile
        PROVE  ledger'[s] = [total |-> usageFile[s], minute |-> "past", window |-> 0]
    <3>1. ledger'[s] = [NoEntry EXCEPT !.total = usageFile[s]]
      BY <2>2
    <3>. QED
      BY <3>1, RestoredEntry
  <2>4. \A s \in DOMAIN usageFile :
           s \in DOMAIN ledger' /\ ledger'[s] \in Entry /\ usageFile[s] <= ledger'[s].total
    <3>1. DOMAIN ledger' = DOMAIN usageFile
      BY <2>2, Zenon
    <3>. QED
      BY <2>1, <2>3, <3>1 DEF Entry
  <2>5. Numbers(usageFile)' /\ Covers(usageFile)'
    BY <1>1, <2>1, <2>4, Zenon DEF Numbers, Covers
  <2>. QED
    BY <1>2, <1>3, <2>2, <2>4, <2>5, Zenon DEF LedgerInv, Contents
<1>. QED
  BY <1>4, <1>5, Zenon

LEMMA MainKeeps ==
    ASSUME LedgerInv, Signalled \/ ServerExits \/ Drained \/ DrainTimeout PROVE LedgerInv'
<1>1. phase # "down" /\ phase' # "down" /\ UNCHANGED <<ledger, persister, tmp, usageFile>>
  BY DEF Signalled, ServerExits, Drained, DrainTimeout, MainStep
<1>. QED
  BY <1>1 DEF LedgerInv, Writers, Contents, Numbers, Covers, Writing, Opened

LEMMA LedgerNext == LedgerInv /\ [Next]_vars => LedgerInv'
<1>. SUFFICES ASSUME LedgerInv, [Next]_vars PROVE LedgerInv'
  BY Zenon
<1>1. CASE UNCHANGED gateVars
  BY <1>1, LedgerKept DEF gateVars
<1>2. CASE UNCHANGED vars \/ KeyStep \/ ProviderStep \/ CarbonStep \/ Poll
  BY <1>1, <1>2, Zenon DEF vars, KeyStep, ProviderStep, CarbonStep, Poll
<1>3. CASE NextMinute
  BY <1>3, MinuteKeeps, Zenon
<1>4. CASE \E c \in Caller : RequestStep(c)
  <2>1. PICK c \in Caller : RequestStep(c)
    BY <1>4, Zenon
  <2>2. CASE \E tokens \in 1 .. MaxCost : Answered(c, tokens)
    BY <2>2, ChargeKeeps
  <2>3. CASE Arrive(c)
    BY <2>3, LedgerKept, Zenon DEF Arrive, ArriveOpen, Authenticate, Arrival
  <2>4. CASE Verifying(c) \/ Verified(c) \/ Failed(c)
             \/ \E model \in {"a", "b"}, priority \in Priority : Authorize(c, model, priority)
    BY <1>1, <2>4, LedgerKept DEF Verifying, Verified, Failed, Authorize
  <2>. QED
    BY <2>1, <2>2, <2>3, <2>4 DEF RequestStep
<1>5. CASE \E p \in DOMAIN persister : PersistStep(p)
  BY <1>5, SnapsKeeps, OpensKeeps, WritesKeeps, EndsKeeps, Zenon DEF PersistStep, LedgerInv, Writers
<1>6. CASE Signalled \/ ServerExits \/ Drained \/ DrainTimeout
  BY <1>6, MainKeeps
<1>7. CASE Exit \/ Crash
  BY <1>7, StoppedKeeps DEF Exit, Crash
<1>8. CASE Restart
  BY <1>8, RestartKeeps, Zenon
<1>. QED
  BY <1>2, <1>3, <1>4, <1>5, <1>6, <1>7, <1>8 DEF Next

LEMMA LedgerInit == Init => LedgerInv
<1>. SUFFICES ASSUME Init PROVE LedgerInv
  BY Zenon
<1>1. /\ ledger = <<>> /\ phase = "up" /\ persister = [p \in {"tick", "final"} |-> Idle]
      /\ usageFile = NoFile
  BY Zenon DEF Init
<1>2. \A p \in {"tick", "final"} : persister[p] = Idle /\ ~Writing(p) /\ ~Opened(p)
  BY <1>1, Zenon DEF Writing, Opened, Idle
<1>3. Writers
  BY <1>1, <1>2 DEF Writers, Idle
<1>4. Contents
  BY <1>1, <1>2 DEF Contents, Numbers, Covers, Special
<1>. QED
  BY <1>3, <1>4, Zenon DEF LedgerInv

\* The file never records a total its ledger has not reached, for any sequence
\* of charges, crashes, restarts and failed persists, and any interleaving of
\* the tick's persist with the last one (usage.rs).
THEOREM LedgerNeverBelowFile == Spec => []LedgerCoversFile
<1>1. LedgerInv => LedgerCoversFile
  BY Zenon DEF LedgerInv, Contents, Covers, Special, LedgerCoversFile
<1>. QED
  BY <1>1, LedgerInit, LedgerNext, PTL DEF Spec

-----------------------------------------------------------------------------
(* The limits.  A slot's request carries the bucket it drew on; a process  *)
(* that is down serves nobody; and since a restart takes the totals from   *)
(* the file, the bound has to hold of what the file records as well.       *)
Shaped(q) ==
    q = [pc |-> q.pc, subject |-> q.subject, scopes |-> q.scopes, bucket |-> q.bucket,
         from |-> q.from, peer |-> q.peer, xff |-> q.xff]

OwnBucket(q) ==
    /\ q.pc \in {"body", "serving"} => q.bucket = IF config.enabled THEN q.subject ELSE q.from
    /\ q.subject = "none" => q.scopes = <<>>

Slots ==
    /\ request = [c \in Caller |-> request[c]] /\ call = [c \in Caller |-> call[c]]
    /\ \A c \in Caller :
          /\ Shaped(request[c]) /\ OwnBucket(request[c])
          /\ call[c].pc # "none" => config.enabled
          /\ phase = "down" => request[c].pc = "free" /\ call[c].pc = "none"

Most == MaxCost * Cardinality(Caller)
OwedBy(s) == MaxCost * Cardinality(Serving(s))

WithinLimits(s) ==
    /\ ledger[s].total + OwedBy(s) <= Budget - 1 + Most
    /\ ledger[s].window + OwedBy(s) <= Tpm - 1 + Most

Spent ==
    /\ \A s \in DOMAIN ledger : ledger[s].minute = "past" => ledger[s].window = 0
    /\ \A s \in DOMAIN ledger \ uncapped : WithinLimits(s)

FileWithin ==
    ~Special(usageFile) => \A s \in DOMAIN usageFile \ uncapped : usageFile[s] <= Budget - 1 + Most

LimitsInv == LedgerInv /\ Slots /\ Spent /\ FileWithin

Hop == Ip \cup {"junk"}
Walk(peer, xff) == <<peer>> \o Backwards(xff)

LEMMA WalkStops ==
    ASSUME NEW peer, NEW xff, NEW n, NEW hops \in Seq(Hop), hops = Walk(peer, xff),
           n \in 1 .. Len(hops), hops[n] \notin Proxies,
           \A j \in 1 .. n - 1 : hops[j] \in Proxies /\ hops[j + 1] \in Ip
    PROVE  ClientIp(peer, xff) = hops[n]
<1>. DEFINE Passes(i) == IsTrusted(hops[i]) /\ i < Len(hops) /\ hops[i + 1] \in Ip
            Stops(i) == ~Passes(i) /\ \A j \in 1 .. i - 1 : Passes(j)
<1>1. DOMAIN hops = 1 .. Len(hops) /\ Len(hops) \in Nat
  OBVIOUS
<1>2. ~Passes(n) /\ \A j \in 1 .. n - 1 : Passes(j)
  BY <1>1 DEF IsTrusted
<1>. HIDE DEF Passes
<1>3. \A i \in 1 .. Len(hops) : Stops(i) => i = n
  <2>. SUFFICES ASSUME NEW i \in 1 .. Len(hops), Stops(i) PROVE i = n
    OBVIOUS
  <2>1. ~(i < n)
    <3>1. i < n => i \in 1 .. n - 1
      BY <1>1
    <3>. QED
      BY <1>2, <3>1, Zenon
  <2>2. ~(n < i)
    <3>1. n < i => n \in 1 .. i - 1
      BY <1>1
    <3>. QED
      BY <1>2, <3>1
  <2>. QED
    BY <1>1, <2>1, <2>2
<1>4. Stops(n)
  BY <1>2
<1>. HIDE DEF Stops
<1>5. (CHOOSE i \in DOMAIN hops : Stops(i)) = n
  BY <1>1, <1>3, <1>4, Zenon
<1>6. ClientIp(peer, xff) = hops[CHOOSE i \in DOMAIN hops : Stops(i)]
  BY DEF ClientIp, Walk, Stops, Passes
<1>. QED
  BY <1>5, <1>6, Zenon

LEMMA Reversed ==
    ASSUME NEW s \in Seq(Hop)
    PROVE  /\ Backwards(s) \in Seq(Hop) /\ Len(Backwards(s)) = Len(s)
           /\ Len(s) > 0 => Backwards(s)[1] = s[Len(s)]
<1>1. \A i \in 1 .. Len(s) : Len(s) - i + 1 \in 1 .. Len(s)
  OBVIOUS
<1>2. Backwards(s) = [i \in 1 .. Len(s) |-> s[Len(s) - i + 1]]
  BY Zenon DEF Backwards
<1>3. \A i \in 1 .. Len(s) : s[Len(s) - i + 1] \in Hop
  BY <1>1
<1>4. Backwards(s) \in Seq(Hop) /\ Len(Backwards(s)) = Len(s)
  BY <1>2, <1>3
<1>5. Len(s) > 0 => Backwards(s)[1] = s[Len(s)]
  BY <1>2
<1>. QED
  BY <1>4, <1>5, Zenon

\* The address the first untrusted hop has is the sender's.
LEMMA SentFrom ==
    ASSUME NEW from \in Ip \ Proxies, NEW via \in Proxies \cup {"direct"}, NEW forged \in Seq(Hop),
           NEW r, r = Incoming(from, via, forged)
    PROVE  /\ Shaped(r) /\ r.from = from /\ r.subject = "none" /\ r.scopes = <<>>
           /\ ClientIp(r.peer, r.xff) = from
<1>. DEFINE peer == IF via = "direct" THEN from ELSE via
            xff == IF via = "direct" THEN forged ELSE Append(forged, from)
<1>1. r = [pc |-> "free", subject |-> "none", scopes |-> <<>>, bucket |-> "none",
            from |-> from, peer |-> peer, xff |-> xff]
  BY Zenon DEF Incoming
<1>2. peer \in Hop /\ xff \in Seq(Hop) /\ from \in Hop
  BY GateConstants DEF Hop
<1>3. CASE via = "direct"
  <2>1. PICK hops : hops = Walk(peer, xff)
    BY Zenon
  <2>2. hops \in Seq(Hop) /\ 1 \in 1 .. Len(hops) /\ hops[1] = from
    BY <1>2, <1>3, <2>1, Reversed DEF Walk
  <2>3. ClientIp(peer, xff) = from
    <3>. HIDE DEF peer, xff
    <3>1. PICK n \in 1 .. Len(hops) : n = 1
      BY <2>2
    <3>2. hops[n] \notin Proxies /\ \A j \in 1 .. n - 1 : hops[j] \in Proxies /\ hops[j + 1] \in Ip
      BY <2>2, <3>1
    <3>3. ClientIp(peer, xff) = hops[n]
      BY <2>1, <2>2, <3>2, WalkStops
    <3>. QED
      BY <2>2, <3>1, <3>3, Zenon
  <2>. QED
    BY <1>1, <2>3 DEF Shaped
<1>4. CASE via # "direct"
  <2>1. PICK hops : hops = Walk(peer, xff)
    BY Zenon
  <2>2. xff = Append(forged, from) /\ peer = via
    BY <1>4, Zenon
  <2>3. Len(xff) \in Nat /\ Len(xff) > 0 /\ xff[Len(xff)] = from
    BY <2>2
  <2>. HIDE DEF xff, peer
  <2>4. Backwards(xff) \in Seq(Hop) /\ Len(Backwards(xff)) > 0 /\ Backwards(xff)[1] = from
    BY <1>2, <2>3, Reversed
  <2>5. hops \in Seq(Hop) /\ 2 \in 1 .. Len(hops) /\ hops[1] = via /\ hops[2] = from
    BY <1>2, <2>1, <2>2, <2>4 DEF Walk
  <2>6. \A j \in 1 .. 2 - 1 : hops[j] \in Proxies /\ hops[j + 1] \in Ip
    BY <1>4, <2>5
  <2>7. ClientIp(peer, xff) = from
    <3>1. PICK n \in 1 .. Len(hops) : n = 2
      BY <2>5, Zenon
    <3>2. hops[n] \notin Proxies /\ \A j \in 1 .. n - 1 : hops[j] \in Proxies /\ hops[j + 1] \in Ip
      BY <2>5, <2>6, <3>1
    <3>3. ClientIp(peer, xff) = hops[n]
      BY <2>1, <2>5, <3>2, WalkStops
    <3>. QED
      BY <2>5, <3>1, <3>3, Zenon
  <2>8. r.peer = peer /\ r.xff = xff
    BY <1>1
  <2>9. /\ Shaped(r) /\ r.from = from
        /\ r.subject = "none" /\ r.scopes = <<>>
    BY <1>1 DEF Shaped
  <2>. QED
    BY <2>7, <2>8, <2>9, Zenon
<1>. QED
  BY <1>3, <1>4, Zenon

\* One slot takes another request, or a call moves on.
LEMMA SlotsKept ==
    ASSUME Slots, config' = config, phase' # "down", request' = [c \in Caller |-> request'[c]],
           call' = [c \in Caller |-> call'[c]],
           \A c \in Caller : request'[c] = request[c] \/ (Shaped(request'[c]) /\ OwnBucket(request'[c])),
           \A c \in Caller : call'[c].pc = call[c].pc \/ config.enabled
    PROVE  Slots'
<1>1. ASSUME NEW c \in Caller PROVE Shaped(request[c])' /\ OwnBucket(request[c])'
  BY DEF Slots, Shaped, OwnBucket
<1>2. ASSUME NEW c \in Caller PROVE call'[c].pc # "none" => config'.enabled
  BY DEF Slots
<1>. QED
  BY <1>1, <1>2, Zenon DEF Slots

LEMMA FreeFine == Shaped(Free) /\ OwnBucket(Free) /\ Free.pc = "free"
BY Zenon DEF Shaped, OwnBucket, Free

Fields(pc, subject, scopes, bucket, from, peer, xff) ==
    [pc |-> pc, subject |-> subject, scopes |-> scopes, bucket |-> bucket,
     from |-> from, peer |-> peer, xff |-> xff]

LEMMA FieldsShaped ==
    ASSUME NEW a, NEW b, NEW d, NEW e, NEW f, NEW g, NEW h
    PROVE  LET q == Fields(a, b, d, e, f, g, h)
           IN  /\ Shaped(q) /\ q.pc = a /\ q.subject = b /\ q.scopes = d /\ q.bucket = e
               /\ q.from = f /\ q.peer = g /\ q.xff = h
BY DEF Shaped, Fields

LEMMA BodyRead ==
    ASSUME NEW r, Shaped(r), NEW k
    PROVE  [r EXCEPT !.pc = "body", !.bucket = k]
              = Fields("body", r.subject, r.scopes, k, r.from, r.peer, r.xff)
<1>1. PICK x : x = [r EXCEPT !.pc = "body"]
  BY Zenon
<1>2. x = [pc |-> "body", subject |-> r.subject, scopes |-> r.scopes, bucket |-> r.bucket,
           from |-> r.from, peer |-> r.peer, xff |-> r.xff]
  BY <1>1 DEF Shaped
<1>3. [x EXCEPT !.bucket = k] = Fields("body", r.subject, r.scopes, k, r.from, r.peer, r.xff)
  BY <1>2 DEF Fields
<1>4. [r EXCEPT !.pc = "body", !.bucket = k] = [[r EXCEPT !.pc = "body"] EXCEPT !.bucket = k]
  BY Zenon
<1>. QED
  BY <1>1, <1>3, <1>4, Zenon

LEMMA Principal ==
    ASSUME NEW r, Shaped(r), NEW s, NEW sc
    PROVE  [r EXCEPT !.subject = s, !.scopes = sc]
              = Fields(r.pc, s, sc, r.bucket, r.from, r.peer, r.xff)
<1>1. PICK x : x = [r EXCEPT !.subject = s]
  BY Zenon
<1>2. x = [pc |-> r.pc, subject |-> s, scopes |-> r.scopes, bucket |-> r.bucket,
           from |-> r.from, peer |-> r.peer, xff |-> r.xff]
  BY <1>1 DEF Shaped
<1>3. [x EXCEPT !.scopes = sc] = Fields(r.pc, s, sc, r.bucket, r.from, r.peer, r.xff)
  BY <1>2 DEF Fields
<1>4. [r EXCEPT !.subject = s, !.scopes = sc] = [[r EXCEPT !.subject = s] EXCEPT !.scopes = sc]
  BY Zenon
<1>. QED
  BY <1>1, <1>3, <1>4, Zenon

LEMMA PcSet ==
    ASSUME NEW r, Shaped(r), NEW a
    PROVE  [r EXCEPT !.pc = a] = Fields(a, r.subject, r.scopes, r.bucket, r.from, r.peer, r.xff)
BY DEF Shaped, Fields

\* A slot's request is replaced by one that is not being served.
Rests(c) ==
    /\ request' = [d \in Caller |-> request'[d]]
    /\ \A d \in Caller \ {c} : request'[d] = request[d]
    /\ Shaped(request'[c]) /\ OwnBucket(request'[c]) /\ request'[c].pc # "serving"

\* ratelimit_middleware.
LEMMA LimitStep ==
    ASSUME Slots, NEW c \in Caller, NEW r, Shaped(r), Limit(c, r),
           r.subject = "none" => r.scopes = <<>>,
           KeyFor(r.subject, r.peer, r.xff) = IF config.enabled THEN r.subject ELSE r.from
    PROVE  Rests(c)
<1>1. PICK k : k = KeyFor(r.subject, r.peer, r.xff)
  OBVIOUS
<1>2. PICK p \in BOOLEAN : request' = [request EXCEPT ![c] =
                                        IF p THEN [r EXCEPT !.pc = "body", !.bucket = k] ELSE Free]
  BY <1>1, Zenon DEF Limit, RateCheck
<1>3. PICK q : q = IF p THEN [r EXCEPT !.pc = "body", !.bucket = k] ELSE Free
  BY Zenon
<1>a. request' = [request EXCEPT ![c] = q]
  BY <1>2, <1>3, Zenon
<1>4. /\ request' = [d \in Caller |-> request'[d]] /\ request'[c] = q
      /\ \A d \in Caller \ {c} : request'[d] = request[d]
  BY <1>a DEF Slots
<1>5. CASE p
  <2>1. q = [r EXCEPT !.pc = "body", !.bucket = k]
    BY <1>3, <1>5, Zenon
  <2>2. q = Fields("body", r.subject, r.scopes, k, r.from, r.peer, r.xff)
    BY <2>1, BodyRead, ZenonT(30)
  <2>3. /\ Shaped(q) /\ q.pc = "body" /\ q.bucket = k /\ q.subject = r.subject /\ q.from = r.from
        /\ q.scopes = r.scopes
    BY <2>2, FieldsShaped
  <2>4. OwnBucket(q)
    BY <1>1, <2>3, Zenon DEF OwnBucket
  <2>. QED
    BY <1>4, <2>3, <2>4, Zenon DEF Rests
<1>6. CASE ~p
  <2>1. q = Free
    BY <1>3, <1>6, Zenon
  <2>. QED
    BY <1>4, <2>1, FreeFine DEF Rests
<1>. QED
  BY <1>5, <1>6, Zenon

LEMMA RestsKeepsSlots ==
    ASSUME Slots, NEW c \in Caller, Rests(c), config' = config, phase' # "down",
           call' = [d \in Caller |-> call'[d]],
           \A d \in Caller : call'[d].pc = call[d].pc \/ config.enabled
    PROVE  Slots'
<1>3. \A d \in Caller : request'[d] = request[d] \/ (Shaped(request'[d]) /\ OwnBucket(request'[d]))
  BY DEF Rests
<1>4. request' = [d \in Caller |-> request'[d]]
  BY DEF Rests
<1>. QED
  BY <1>3, <1>4, SlotsKept, Zenon

LEMMA ArriveRests ==
    ASSUME Slots, NEW c \in Caller, Arrive(c)
    PROVE  Rests(c) \/ request' = request
<1>1. PICK from \in Ip \ Proxies, via \in Proxies \cup {"direct"},
           forged \in {<<>>} \cup {<<h>> : h \in Ip \cup {"junk"}} :
         \/ ArriveOpen(c, Incoming(from, via, forged))
         \/ \E token \in Key \cup Kid : Authenticate(c, Incoming(from, via, forged), token)
  BY Zenon DEF Arrive
<1>2. forged \in Seq(Hop)
  <2>1. \A h \in Ip \cup {"junk"} : <<h>> \in Seq(Hop)
    BY DEF Hop
  <2>2. <<>> \in Seq(Hop)
    OBVIOUS
  <2>. QED
    BY <2>1, <2>2, Zenon
<1>3. PICK r : r = Incoming(from, via, forged)
  BY Zenon
<1>4. /\ Shaped(r) /\ r.from = from /\ r.subject = "none" /\ r.scopes = <<>>
      /\ ClientIp(r.peer, r.xff) = from
  BY <1>2, <1>3, SentFrom
<1>5. CASE ArriveOpen(c, r)
  <2>1. ~config.enabled /\ Limit(c, r)
    BY <1>5 DEF ArriveOpen
  <2>2. KeyFor(r.subject, r.peer, r.xff) = IF config.enabled THEN r.subject ELSE r.from
    BY <1>4, <2>1, Zenon DEF KeyFor
  <2>. QED
    BY <1>4, <2>1, <2>2, LimitStep, Zenon
<1>6. ASSUME NEW token \in Key \cup Kid, Authenticate(c, r, token)
      PROVE  Rests(c) \/ request' = request
  <2>0. config.enabled /\ token # "none"
    BY <1>6, GateConstants DEF Authenticate
  <2>1. CASE token \in DOMAIN keyStore
             /\ Limit(c, [r EXCEPT !.subject = token, !.scopes = keyStore[token]])
    <3>1. PICK q : q = [r EXCEPT !.subject = token, !.scopes = keyStore[token]]
      BY Zenon
    <3>2. q = Fields(r.pc, token, keyStore[token], r.bucket, r.from, r.peer, r.xff)
      BY <1>4, <3>1, Principal, ZenonT(30)
    <3>3. Shaped(q) /\ q.subject = token
      BY <3>2, FieldsShaped
    <3>4. KeyFor(q.subject, q.peer, q.xff) = IF config.enabled THEN q.subject ELSE q.from
      BY <2>0, <3>3 DEF KeyFor
    <3>5. Limit(c, q)
      BY <2>1, <3>1, Zenon
    <3>. QED
      BY <2>0, <3>3, <3>4, <3>5, LimitStep, Zenon
  <2>2. CASE request' = [request EXCEPT ![c] = [r EXCEPT !.pc = "verify"]]
    <3>1. PICK q : q = [r EXCEPT !.pc = "verify"]
      BY Zenon
    <3>2. q = Fields("verify", r.subject, r.scopes, r.bucket, r.from, r.peer, r.xff)
      BY <1>4, <3>1, PcSet, Zenon
    <3>3. Shaped(q) /\ q.pc = "verify" /\ q.scopes = r.scopes
      BY <3>2, FieldsShaped
    <3>4. request' = [request EXCEPT ![c] = q]
      BY <2>2, <3>1, Zenon
    <3>5. /\ request' = [d \in Caller |-> request'[d]] /\ request'[c] = q
          /\ \A d \in Caller \ {c} : request'[d] = request[d]
      BY <3>4 DEF Slots
    <3>. QED
      BY <1>4, <3>3, <3>5 DEF Rests, OwnBucket
  <2>. QED
    BY <1>6, <2>1, <2>2 DEF Authenticate
<1>. QED
  BY <1>1, <1>3, <1>5, <1>6, Zenon

LEMMA VerifiedRests ==
    ASSUME Slots, NEW c \in Caller, Verified(c)
    PROVE  Rests(c)
<1>1. Shaped(request[c]) /\ config.enabled
  BY DEF Slots, Verified
<1>2. CASE Limit(c, [request[c] EXCEPT !.subject = "oidc", !.scopes = <<"chat">>])
  <2>1. PICK r : r = request[c]
    OBVIOUS
  <2>2. PICK q : q = [r EXCEPT !.subject = "oidc", !.scopes = <<"chat">>]
    BY Zenon
  <2>3. q = Fields(r.pc, "oidc", <<"chat">>, r.bucket, r.from, r.peer, r.xff)
    BY <1>1, <2>1, <2>2, Principal, Zenon
  <2>4. Shaped(q) /\ q.subject = "oidc"
    BY <2>3, FieldsShaped
  <2>5. KeyFor(q.subject, q.peer, q.xff) = IF config.enabled THEN q.subject ELSE q.from
    BY <1>1, <2>4 DEF KeyFor
  <2>6. Limit(c, q)
    BY <1>2, <2>1, <2>2, Zenon
  <2>. QED
    BY <2>4, <2>5, <2>6, LimitStep
<1>3. CASE request' = [request EXCEPT ![c] = Free]
  BY <1>3, FreeFine DEF Slots, Rests
<1>. QED
  BY <1>2, <1>3, Zenon DEF Verified

\* A call of verify only exists with authentication on.
CallsFine ==
    /\ call' = [d \in Caller |-> call'[d]]
    /\ \A d \in Caller : call'[d].pc = call[d].pc \/ config.enabled

LEMMA CallsKept == ASSUME Slots, call' = call PROVE CallsFine
BY DEF Slots, CallsFine

LEMMA VerifyCalls ==
    ASSUME Slots, NEW c \in Caller, NEW token, config.enabled, Verify(c, token)
    PROVE  CallsFine
<1>1. PICK a : call' = [call EXCEPT ![c] = a]
  BY Zenon DEF Verify, Decide
<1>. QED
  BY <1>1 DEF CallsFine, Slots

LEMMA VerifyingCalls ==
    ASSUME Slots, NEW c \in Caller, Verifying(c)
    PROVE  CallsFine
<1>1. config.enabled
  BY DEF Verifying, FetchAnswered, FetchFails, FetchStored, Slots
<1>2. call' = [d \in Caller |-> call'[d]]
  BY DEF Verifying, FetchAnswered, FetchFails, FetchStored, Slots
<1>. QED
  BY <1>1, <1>2 DEF CallsFine

LEMMA VerifiedCalls ==
    ASSUME Slots, NEW c \in Caller, Verified(c)
    PROVE  CallsFine
<1>1. config.enabled
  BY DEF Verified, Slots
<1>2. call' = [d \in Caller |-> call'[d]]
  BY DEF Verified, Slots
<1>. QED
  BY <1>1, <1>2, Zenon DEF CallsFine

-----------------------------------------------------------------------------
(* What may still be charged.                                              *)
LEMMA Priced ==
    ASSUME NEW S, S \subseteq Caller
    PROVE  /\ IsFiniteSet(S) /\ Cardinality(S) \in Nat /\ Most \in Nat
           /\ MaxCost * Cardinality(S) \in Nat /\ MaxCost * Cardinality(S) <= Most
<1>1. MaxCost \in Nat /\ IsFiniteSet(S) /\ IsFiniteSet(Caller)
  BY GateConstants, FS_Subset
<1>2. PICK n \in Nat, k \in Nat : n = Cardinality(S) /\ k = Cardinality(Caller) /\ n <= k
  BY <1>1, FS_Subset, FS_CardinalityType
<1>3. k - n \in Nat /\ k = n + (k - n)
  BY <1>2
<1>4. MaxCost * k = MaxCost * n + MaxCost * (k - n)
  BY <1>1, <1>3
<1>5. MaxCost * n \in Nat /\ MaxCost * (k - n) \in Nat /\ MaxCost * k \in Nat
  BY <1>1, <1>3
<1>. QED
  BY <1>1, <1>2, <1>4, <1>5 DEF Most

LEMMA Owing ==
    ASSUME NEW s
    PROVE  /\ IsFiniteSet(Serving(s)) /\ Cardinality(Serving(s)) \in Nat /\ Most \in Nat
           /\ OwedBy(s) \in Nat /\ OwedBy(s)' \in Nat /\ OwedBy(s)' <= Most
<1>1. Serving(s) \subseteq Caller /\ Serving(s)' \subseteq Caller
  BY DEF Serving
<1>2. OwedBy(s)' = MaxCost * Cardinality(Serving(s)')
  BY Zenon DEF OwedBy
<1>. QED
  BY <1>1, <1>2, Priced DEF OwedBy

\* Fewer are served: less is owed.
LEMMA OwedShrinks ==
    ASSUME NEW s, Serving(s)' \subseteq Serving(s)
    PROVE  OwedBy(s)' \in Nat /\ OwedBy(s)' <= OwedBy(s)
<1>1. MaxCost \in Nat /\ IsFiniteSet(Serving(s))
  BY GateConstants, Owing
<1>2. PICK n \in Nat, k \in Nat : n = Cardinality(Serving(s)') /\ k = Cardinality(Serving(s)) /\ n <= k
  BY <1>1, FS_Subset, FS_CardinalityType
<1>3. k - n \in Nat /\ k = n + (k - n)
  BY <1>2
<1>4. MaxCost * k = MaxCost * n + MaxCost * (k - n)
  BY <1>1, <1>3
<1>5. MaxCost * n \in Nat /\ MaxCost * (k - n) \in Nat
  BY <1>1, <1>3
<1>. QED
  BY <1>2, <1>4, <1>5 DEF OwedBy

LEMMA EntryNumbers ==
    ASSUME LedgerInv, NEW s \in DOMAIN ledger
    PROVE  /\ ledger[s].total \in Nat /\ ledger[s].window \in Nat
           /\ ledger[s].minute \in {"now", "past"}
BY DEF LedgerInv, Contents, Entry

LEMMA SpentKept ==
    ASSUME LedgerInv, Spent, UNCHANGED <<ledger, uncapped>>,
           \A s : Serving(s)' \subseteq Serving(s)
    PROVE  Spent'
<1>1. ASSUME NEW s \in DOMAIN ledger, s \notin uncapped PROVE WithinLimits(s)'
  <2>1. OwedBy(s)' \in Nat /\ OwedBy(s)' <= OwedBy(s) /\ OwedBy(s) \in Nat
    BY OwedShrinks, Owing
  <2>2. ledger[s].total \in Nat /\ ledger[s].window \in Nat
    BY EntryNumbers, Zenon
  <2>3. WithinLimits(s)
    BY <1>1 DEF Spent
  <2>4. Most' = Most /\ Most \in Nat /\ Budget \in Nat /\ Tpm \in Nat
    BY Owing, GateConstants, Zenon DEF Most
  <2>. QED
    BY <2>1, <2>2, <2>3, <2>4 DEF WithinLimits
<1>. QED
  BY <1>1 DEF Spent

LEMMA RestsShrinks ==
    ASSUME Slots, NEW c \in Caller, Rests(c), NEW s
    PROVE  Serving(s)' \subseteq Serving(s)
BY DEF Rests, Serving

\* check_at lets a request in only while both limits have room; with the
\* requests already let in, that is one answer per slot.
LEMMA GrantedWithin ==
    ASSUME LedgerInv, Spent, NEW s \in DOMAIN ledger, NEW scopes,
           Limited(scopes) = {"budget", "tpm"}, CheckAt(s, scopes), ledger' = ledger
    PROVE  WithinLimits(s)'
<1>1. /\ ledger[s].total \in Nat /\ ledger[s].window \in Nat
      /\ ledger[s].minute \in {"now", "past"}
  BY EntryNumbers
<1>2. "budget" \in Range(scopes) /\ "tpm" \in Range(scopes)
  BY Zenon DEF Limited
<1>3. ledger[s].total < Budget /\ ~(ledger[s].minute = "now" /\ ledger[s].window >= Tpm)
  BY <1>2 DEF CheckAt
<1>4. Budget \in Nat \ {0} /\ Tpm \in Nat \ {0}
  BY GateConstants, Zenon
<1>5. ledger[s].total <= Budget - 1
  BY <1>1, <1>3, <1>4
<1>6. ledger[s].window <= Tpm - 1
  BY <1>1, <1>3, <1>4 DEF Spent
<1>7. Most' = Most
  BY DEF Most
<1>8. OwedBy(s)' \in Nat /\ OwedBy(s)' <= Most /\ Most \in Nat
  BY Owing
<1>. QED
  BY <1>1, <1>4, <1>5, <1>6, <1>7, <1>8 DEF WithinLimits

LEMMA AuthorizeKeeps ==
    ASSUME LimitsInv, NEW c \in Caller, NEW model \in {"a", "b"}, NEW priority \in Priority,
           Authorize(c, model, priority)
    PROVE  Slots' /\ Spent'
<1>0. LedgerInv /\ Slots /\ Spent
  BY DEF LimitsInv
<1>1. PICK r : r = request[c]
  OBVIOUS
<1>2. /\ r.pc = "body" /\ UNCHANGED <<config, phase, ledger>> /\ call' = call
      /\ phase # "down" /\ Shaped(r) /\ OwnBucket(r)
  BY <1>0, <1>1, Zenon DEF Authorize, oidcVars, Slots
<1>3. CallsFine
  BY <1>0, <1>2, CallsKept
<1>4. CASE request' = [request EXCEPT ![c] = Free] /\ uncapped' = uncapped
  <2>1. Rests(c)
    BY <1>0, <1>4, FreeFine, Zenon DEF Slots, Rests
  <2>2. Slots'
    BY <1>0, <1>2, <1>3, <2>1, RestsKeepsSlots DEF CallsFine
  <2>3. \A s : Serving(s)' \subseteq Serving(s)
    BY <1>0, <2>1, RestsShrinks
  <2>4. Spent'
    BY <1>0, <1>2, <1>4, <2>3, SpentKept
  <2>. QED
    BY <2>2, <2>4
<1>5. CASE /\ request' = [request EXCEPT ![c] = [r EXCEPT !.pc = "serving"]] /\ Granted(r, model)
           /\ uncapped' = IF Limited(r.scopes) # {"budget", "tpm"} THEN uncapped \cup {r.subject}
                                                                 ELSE uncapped
  <2>1. PICK q : q = [r EXCEPT !.pc = "serving"]
    BY Zenon
  <2>2. q = Fields("serving", r.subject, r.scopes, r.bucket, r.from, r.peer, r.xff)
    BY <1>2, <2>1, PcSet, ZenonT(30)
  <2>3. /\ Shaped(q) /\ q.pc = "serving" /\ q.subject = r.subject /\ q.bucket = r.bucket
        /\ q.from = r.from /\ q.scopes = r.scopes
    BY <2>2, FieldsShaped
  <2>4. OwnBucket(q)
    BY <1>2, <2>3, Zenon DEF OwnBucket
  <2>5. request' = [request EXCEPT ![c] = q]
    BY <1>5, <2>1, Zenon
  <2>6. /\ request' = [d \in Caller |-> request'[d]] /\ request'[c] = q
        /\ \A d \in Caller \ {c} : request'[d] = request[d]
    BY <1>0, <2>5, Zenon DEF Slots
  <2>7. \A d \in Caller : request'[d] = request[d] \/ (Shaped(request'[d]) /\ OwnBucket(request'[d]))
    BY <2>3, <2>4, <2>6
  <2>8. Slots'
    BY <1>0, <1>2, <1>3, <2>6, <2>7, SlotsKept DEF CallsFine
  <2>9. ASSUME NEW s \in DOMAIN ledger, s \notin uncapped' PROVE WithinLimits(s)'
    <3>1. CASE s = r.subject
      <4>1. Limited(r.scopes) = {"budget", "tpm"}
        BY <1>5, <2>9, <3>1
      <4>2. Limited(<<>>) = {}
        BY DEF Limited, Range
      <4>a. r.scopes # <<>>
        BY <4>1, <4>2
      <4>3. r.subject # "none"
        BY <1>2, <4>a DEF OwnBucket
      <4>4. CheckAt(s, r.scopes)
        BY <1>5, <3>1, <4>3, Zenon DEF Granted
      <4>. QED
        BY <1>0, <1>2, <4>1, <4>4, GrantedWithin, Zenon
    <3>2. CASE s # r.subject
      <4>1. Serving(s)' \subseteq Serving(s)
        BY <2>3, <2>6, <3>2 DEF Serving
      <4>2. OwedBy(s)' \in Nat /\ OwedBy(s)' <= OwedBy(s) /\ OwedBy(s) \in Nat
        BY <4>1, OwedShrinks, Owing
      <4>3. ledger[s].total \in Nat /\ ledger[s].window \in Nat
        BY <1>0, EntryNumbers
      <4>4. WithinLimits(s)
        BY <1>0, <1>5, <2>9, Zenon DEF Spent
      <4>5. Most' = Most /\ Most \in Nat /\ Budget \in Nat /\ Tpm \in Nat
        BY Owing, GateConstants DEF Most
      <4>. QED
        BY <1>2, <4>2, <4>3, <4>4, <4>5 DEF WithinLimits
    <3>. QED
      BY <3>1, <3>2
  <2>10. Spent'
    BY <1>0, <1>2, <2>9, Zenon DEF Spent
  <2>. QED
    BY <2>8, <2>10, Zenon
<1>. QED
  BY <1>1, <1>4, <1>5, Zenon DEF Authorize

\* One request fewer is served: one answer less is owed.
LEMMA OneLess ==
    ASSUME Slots, NEW c \in Caller, Rests(c), request[c].pc = "serving",
           NEW s, s = request[c].subject
    PROVE  /\ OwedBy(s)' \in Nat /\ OwedBy(s) \in Nat /\ OwedBy(s) <= Most /\ Most \in Nat
           /\ OwedBy(s)' + MaxCost = OwedBy(s)
<1>1. Serving(s)' = Serving(s) \ {c} /\ c \in Serving(s) /\ Serving(s) \subseteq Caller
  BY DEF Rests, Serving
<1>2. IsFiniteSet(Serving(s)) /\ MaxCost \in Nat
  BY GateConstants, Owing
<1>3. PICK n \in Nat, k \in Nat : n = Cardinality(Serving(s)') /\ k = Cardinality(Serving(s)) /\ k = n + 1
  <2>1. PICK S : S = Serving(s)
    OBVIOUS
  <2>a. IsFiniteSet(S) /\ c \in S
    BY <1>1, <1>2, <2>1
  <2>2. IsFiniteSet(S \ {c}) /\ Cardinality(S \ {c}) = Cardinality(S) - 1
    BY <2>a, FS_RemoveElement
  <2>3. Cardinality(S) \in Nat /\ Cardinality(S \ {c}) \in Nat
    BY <1>2, <2>1, <2>2, FS_CardinalityType, Zenon
  <2>4. Cardinality(Serving(s)') = Cardinality(S \ {c})
    BY <1>1, <2>1
  <2>. QED
    BY <2>1, <2>2, <2>3, <2>4
<1>4. MaxCost * k = MaxCost * n + MaxCost
  BY <1>2, <1>3
<1>5. OwedBy(s)' = MaxCost * n /\ OwedBy(s) = MaxCost * k
  BY <1>3 DEF OwedBy
<1>6. OwedBy(s) <= Most
  BY <1>1, Priced, Zenon DEF OwedBy
<1>. QED
  BY <1>4, <1>5, <1>6, Owing

\* What the ledger holds for a limited subject, an entry or none yet.
LEMMA EntryWithin ==
    ASSUME LedgerInv, Spent, NEW s, s \notin uncapped, OwedBy(s) <= Most,
           NEW e, e = EntryOf(s)
    PROVE  /\ e.total \in Nat /\ e.window \in Nat /\ (e.minute # "now" => e.window = 0)
           /\ e.total + OwedBy(s) <= Budget - 1 + Most
           /\ e.window + OwedBy(s) <= Tpm - 1 + Most
<1>1. CASE s \in DOMAIN ledger
  <2>1. e = ledger[s]
    BY <1>1 DEF EntryOf
  <2>2. e.total \in Nat /\ e.window \in Nat /\ e.minute \in {"now", "past"}
    BY <1>1, <2>1, EntryNumbers
  <2>. QED
    BY <1>1, <2>1, <2>2, Zenon DEF Spent, WithinLimits
<1>2. CASE s \notin DOMAIN ledger
  <2>1. e.total = 0 /\ e.window = 0
    BY <1>2, Zenon DEF EntryOf, NoEntry
  <2>2. OwedBy(s) \in Nat /\ Most \in Nat /\ Budget \in Nat \ {0} /\ Tpm \in Nat \ {0}
    BY Owing, GateConstants, Zenon
  <2>. QED
    BY <2>1, <2>2
<1>. QED
  BY <1>1, <1>2

\* Where a subject's entry and those served for it do not change for the worse.
LEMMA WithinKept ==
    ASSUME LedgerInv, Spent, NEW s \in DOMAIN ledger, s \notin uncapped,
           Serving(s)' \subseteq Serving(s), ledger'[s] = ledger[s]
    PROVE  WithinLimits(s)'
<1>1. OwedBy(s)' \in Nat /\ OwedBy(s)' <= OwedBy(s) /\ OwedBy(s) \in Nat
  BY OwedShrinks, Owing, Zenon
<1>2. ledger[s].total \in Nat /\ ledger[s].window \in Nat
  BY EntryNumbers
<1>3. WithinLimits(s)
  BY Zenon DEF Spent
<1>4. Most' = Most /\ Most \in Nat /\ Budget \in Nat /\ Tpm \in Nat
  BY Owing, GateConstants DEF Most
<1>. QED
  BY <1>1, <1>2, <1>3, <1>4 DEF WithinLimits

\* A charge turns what was owed into what is spent.
LEMMA ChargedWithin ==
    ASSUME LedgerInv, Slots, Spent, NEW c \in Caller, NEW tokens \in 1 .. MaxCost, Rests(c),
           request[c].pc = "serving", ledger' = ChargeAt(request[c].subject, tokens),
           uncapped' = uncapped
    PROVE  Spent'
<1>1. PICK s : s = request[c].subject
  OBVIOUS
<1>2. PICK e : e = EntryOf(s)
  OBVIOUS
<1>3. PICK f : f = [total |-> e.total + tokens, minute |-> "now",
                    window |-> IF e.minute = "now" THEN e.window + tokens ELSE tokens]
  BY ZenonT(30)
<1>4. ledger' = [t \in DOMAIN ledger \cup {s} |-> IF t # s THEN ledger[t] ELSE f]
  BY <1>1, <1>2, <1>3 DEF ChargeAt
<1>5. /\ DOMAIN ledger' = DOMAIN ledger \cup {s} /\ ledger'[s] = f
      /\ \A t \in DOMAIN ledger : t # s => ledger'[t] = ledger[t]
  BY <1>4, Zenon
<1>6. f.minute = "now" /\ f.total = e.total + tokens
      /\ f.window = IF e.minute = "now" THEN e.window + tokens ELSE tokens
  BY <1>3
<1>7. ASSUME NEW t \in DOMAIN ledger', ledger'[t].minute = "past" PROVE ledger'[t].window = 0
  BY <1>5, <1>6, <1>7 DEF Spent
<1>8. ASSUME NEW t \in DOMAIN ledger', t \notin uncapped PROVE WithinLimits(t)'
  <2>1. CASE t # s
    <3>1. t \in DOMAIN ledger /\ ledger'[t] = ledger[t] /\ Serving(t)' \subseteq Serving(t)
      BY <1>5, <2>1, RestsShrinks
    <3>. QED
      BY <1>8, <3>1, WithinKept, Zenon
  <2>2. CASE t = s
    <3>1. /\ OwedBy(s)' \in Nat /\ OwedBy(s) \in Nat /\ OwedBy(s) <= Most /\ Most \in Nat
          /\ OwedBy(s)' + MaxCost = OwedBy(s)
      BY <1>1, OneLess
    <3>2. /\ e.total \in Nat /\ e.window \in Nat /\ (e.minute # "now" => e.window = 0)
          /\ e.total + OwedBy(s) <= Budget - 1 + Most
          /\ e.window + OwedBy(s) <= Tpm - 1 + Most
      BY <1>2, <1>8, <2>2, <3>1, EntryWithin, Zenon
    <3>3. tokens \in Nat /\ tokens <= MaxCost /\ MaxCost \in Nat /\ Budget \in Nat /\ Tpm \in Nat
      BY GateConstants
    <3>a. PICK o \in Nat, o1 \in Nat, total \in Nat, window \in Nat :
            o = OwedBy(s) /\ o1 = OwedBy(s)' /\ total = e.total /\ window = e.window
      BY <3>1, <3>2, Zenon
    <3>b. /\ o1 + MaxCost = o /\ total + o <= Budget - 1 + Most /\ window + o <= Tpm - 1 + Most
          /\ Most \in Nat
      BY <3>1, <3>2, <3>a, Zenon
    <3>c. f.total = total + tokens
      BY <1>6, <3>a, Zenon
    <3>4. f.total + OwedBy(s)' <= Budget - 1 + Most
      <4>1. total + tokens + o1 <= Budget - 1 + Most
        BY <3>3, <3>b
      <4>. QED
        BY <3>a, <3>c, <4>1, Zenon
    <3>5. f.window = window + tokens
      <4>1. 0 + tokens = tokens
        BY <3>3
      <4>. QED
        BY <1>6, <3>2, <3>a, <4>1, Zenon
    <3>6. f.window + OwedBy(s)' <= Tpm - 1 + Most
      <4>1. window + tokens + o1 <= Tpm - 1 + Most
        BY <3>3, <3>b
      <4>. QED
        BY <3>5, <3>a, <4>1, ZenonT(30)
    <3>7. Most' = Most
      BY Zenon DEF Most
    <3>. QED
      BY <1>5, <2>2, <3>4, <3>6, <3>7, ZenonT(60) DEF WithinLimits
  <2>. QED
    BY <2>1, <2>2
<1>. QED
  BY <1>7, <1>8 DEF Spent

LEMMA AnsweredKeeps ==
    ASSUME LimitsInv, NEW c \in Caller, NEW tokens \in 1 .. MaxCost, Answered(c, tokens)
    PROVE  Slots' /\ Spent'
<1>0. LedgerInv /\ Slots /\ Spent
  BY Zenon DEF LimitsInv
<1>1. /\ request[c].pc = "serving" /\ UNCHANGED <<config, phase, uncapped>> /\ call' = call
      /\ request' = [request EXCEPT ![c] = Free]
  BY DEF Answered, oidcVars
<1>2. phase # "down"
  BY <1>0, <1>1 DEF Slots
<1>3. CallsFine
  BY <1>0, <1>1, CallsKept, Zenon
<1>4. Rests(c)
  BY <1>0, <1>1, FreeFine DEF Slots, Rests
<1>5. Slots'
  BY <1>0, <1>1, <1>2, <1>3, <1>4, RestsKeepsSlots, Zenon DEF CallsFine
<1>6. CASE ledger' = ledger
  <2>1. \A s : Serving(s)' \subseteq Serving(s)
    BY <1>0, <1>4, RestsShrinks
  <2>. QED
    BY <1>0, <1>1, <1>5, <1>6, <2>1, SpentKept
<1>7. CASE ledger' = ChargeAt(request[c].subject, tokens)
  BY <1>0, <1>1, <1>4, <1>5, <1>7, ChargedWithin, Zenon
<1>. QED
  BY <1>6, <1>7, Zenon DEF Answered

\* The steps of a request that admit and charge nothing.
LEMMA RestingKeeps ==
    ASSUME LimitsInv, NEW c \in Caller, Arrive(c) \/ Verifying(c) \/ Verified(c) \/ Failed(c)
    PROVE  Slots' /\ Spent' /\ UNCHANGED <<phase, usageFile, uncapped>>
<1>0. LedgerInv /\ Slots /\ Spent
  BY Zenon DEF LimitsInv
<1>1. UNCHANGED <<config, phase, ledger, usageFile, uncapped>>
  BY Zenon DEF Arrive, ArriveOpen, Authenticate, Arrival, Verifying, Verified, Failed, gateVars
<1>2. phase # "down"
  <2>1. CASE Arrive(c)
    BY <2>1, Zenon DEF Arrive, ArriveOpen, Authenticate, Arrival
  <2>2. CASE Verifying(c)
    BY <1>0, <2>2 DEF Verifying, FetchAnswered, FetchFails, FetchStored, Slots
  <2>3. CASE Verified(c) \/ Failed(c)
    BY <1>0, <2>3 DEF Verified, Failed, Slots
  <2>. QED
    BY <2>1, <2>2, <2>3
<1>3. CallsFine
  <2>1. CASE Arrive(c)
    <3>1. call' = call \/ \E token : config.enabled /\ Verify(c, token)
      BY <2>1, Zenon DEF Arrive, ArriveOpen, Authenticate, oidcVars
    <3>. QED
      BY <1>0, <3>1, CallsKept, VerifyCalls
  <2>2. CASE Failed(c)
    BY <1>0, <2>2, CallsKept DEF Failed, oidcVars
  <2>. QED
    BY <1>0, <2>1, <2>2, VerifyingCalls, VerifiedCalls, Zenon
<1>4. Rests(c) \/ request' = request
  <2>1. CASE Failed(c)
    BY <1>0, <2>1, FreeFine DEF Failed, Slots, Rests
  <2>2. CASE Verifying(c)
    BY <2>2 DEF Verifying, gateVars
  <2>. QED
    BY <1>0, <2>1, <2>2, ArriveRests, VerifiedRests
<1>5. Slots'
  <2>1. CASE Rests(c)
    BY <1>0, <1>1, <1>2, <1>3, <2>1, RestsKeepsSlots, Zenon DEF CallsFine
  <2>2. CASE request' = request
    <3>1. request' = [d \in Caller |-> request'[d]]
      BY <1>0, <2>2 DEF Slots
    <3>. QED
      BY <1>0, <1>1, <1>2, <1>3, <2>2, <3>1, SlotsKept DEF CallsFine
  <2>. QED
    BY <1>4, <2>1, <2>2
<1>6. \A s : Serving(s)' \subseteq Serving(s)
  BY <1>0, <1>4, RestsShrinks, ZenonT(30) DEF Serving
<1>. QED
  BY <1>0, <1>1, <1>5, <1>6, SpentKept

LEMMA SlotsSame == ASSUME Slots, UNCHANGED <<config, phase, request, call>> PROVE Slots'
BY Zenon DEF Slots, Shaped, OwnBucket

\* A step that leaves slots, ledger and limits alone.
LEMMA BystanderKeeps ==
    ASSUME LimitsInv, UNCHANGED <<request, ledger, uncapped>>,
           UNCHANGED <<config, call>>, phase' = phase \/ phase' # "down"
    PROVE  Slots' /\ Spent'
<1>0. LedgerInv /\ Slots /\ Spent
  BY DEF LimitsInv
<1>1. Slots'
  <2>1. CASE phase' = phase
    BY <1>0, <2>1, SlotsSame, Zenon
  <2>2. CASE phase' # "down"
    BY <1>0, <2>2, SlotsKept DEF Slots
  <2>. QED
    BY <2>1, <2>2
<1>2. \A s : Serving(s)' \subseteq Serving(s)
  BY DEF Serving
<1>. QED
  BY <1>0, <1>1, <1>2, SpentKept

LEMMA MinuteWithin == ASSUME LimitsInv, NextMinute PROVE Slots' /\ Spent'
<1>0. LedgerInv /\ Slots /\ Spent
  BY DEF LimitsInv
<1>1. UNCHANGED <<config, phase, request, uncapped>> /\ call' = call
  BY Zenon DEF NextMinute, oidcVars
<1>2. Slots'
  BY <1>0, <1>1, SlotsSame, Zenon
<1>3. ASSUME NEW s \in DOMAIN ledger
      PROVE  ledger'[s].window = 0 /\ ledger'[s].total = ledger[s].total
  <2>1. ledger'[s] = [total |-> ledger[s].total, minute |-> "past", window |-> 0]
    BY <1>0, MinuteTurns
  <2>. QED
    BY <2>1
<1>4. DOMAIN ledger' = DOMAIN ledger
  BY <1>0, MinuteTurns, Zenon
<1>5. ASSUME NEW s \in DOMAIN ledger, s \notin uncapped PROVE WithinLimits(s)'
  <2>1. OwedBy(s)' = OwedBy(s) /\ OwedBy(s)' \in Nat /\ OwedBy(s)' <= Most /\ Most \in Nat
    <3>1. Serving(s)' = Serving(s)
      BY <1>1 DEF Serving
    <3>. QED
      BY <3>1, Owing, Zenon DEF OwedBy
  <2>2. Tpm \in Nat \ {0} /\ Most' = Most
    BY GateConstants DEF Most
  <2>3. ledger[s].total + OwedBy(s) <= Budget - 1 + Most
    BY <1>0, <1>5 DEF Spent, WithinLimits
  <2>. QED
    BY <1>3, <2>1, <2>2, <2>3 DEF WithinLimits
<1>6. Spent'
  BY <1>1, <1>3, <1>4, <1>5 DEF Spent
<1>. QED
  BY <1>2, <1>6, Zenon

LEMMA StoppedWithin == ASSUME Stopped PROVE Slots' /\ Spent'
<1>1. /\ phase' = "down" /\ request' = [c \in Caller |-> Free] /\ ledger' = <<>>
      /\ call' = [c \in Caller |-> Quiet] /\ config' = config
  BY DEF Stopped, NewVerifier
<1>2. \A c \in Caller : request'[c] = Free /\ call'[c].pc = "none"
  BY <1>1 DEF Quiet
<1>3. \A c \in Caller : Shaped(request[c])' /\ OwnBucket(request[c])'
  BY <1>2, FreeFine, ZenonT(30) DEF Shaped, OwnBucket, Free
<1>4. Slots'
  BY <1>1, <1>2, <1>3, FreeFine DEF Slots
<1>5. DOMAIN ledger' = {}
  BY <1>1
<1>6. Spent'
  BY <1>5, Zenon DEF Spent
<1>. QED
  BY <1>4, <1>6, Zenon

\* A restart takes the totals of the file, with nobody being served.
LEMMA RestartWithin == ASSUME LimitsInv, Restart PROVE Slots' /\ Spent'
<1>0. LedgerInv /\ Slots /\ FileWithin
  BY DEF LimitsInv
<1>1. /\ phase = "down" /\ usageFile # Torn /\ phase' = "up" /\ ledger' = Open
      /\ UNCHANGED <<config, request, uncapped>> /\ call' = call
  BY DEF Restart, oidcVars
<1>2. Slots'
  BY <1>0, <1>1, SlotsKept DEF Slots
<1>3. ASSUME NEW s PROVE OwedBy(s)' = 0
  <2>1. Serving(s)' = {}
    BY <1>0, <1>1 DEF Serving, Slots
  <2>2. MaxCost \in Nat /\ Cardinality({}) = 0
    BY GateConstants, FS_EmptySet
  <2>. QED
    BY <2>1, <2>2 DEF OwedBy
<1>4. CASE usageFile = NoFile
  <2>1. DOMAIN ledger' = {}
    BY <1>1, <1>4 DEF Open
  <2>. QED
    BY <1>2, <2>1, Zenon DEF Spent
<1>5. CASE usageFile # NoFile
  <2>1. ~Special(usageFile)
    BY <1>1, <1>5 DEF Special
  <2>2. ledger' = [s \in DOMAIN usageFile |-> [NoEntry EXCEPT !.total = usageFile[s]]]
    BY <1>1, <1>5, Zenon DEF Open
  <2>3. ASSUME NEW s \in DOMAIN usageFile
        PROVE  ledger'[s].total = usageFile[s] /\ ledger'[s].window = 0
    <3>1. ledger'[s] = [NoEntry EXCEPT !.total = usageFile[s]]
      BY <2>2, Zenon
    <3>2. ledger'[s] = [total |-> usageFile[s], minute |-> "past", window |-> 0]
      BY <3>1, RestoredEntry, ZenonT(30)
    <3>. QED
      BY <3>2
  <2>4. DOMAIN ledger' = DOMAIN usageFile
    BY <2>2, Zenon
  <2>5. ASSUME NEW s \in DOMAIN usageFile, s \notin uncapped PROVE WithinLimits(s)'
    <3>1. usageFile[s] \in Nat /\ usageFile[s] <= Budget - 1 + Most
      BY <1>0, <2>1, <2>5, Zenon DEF FileWithin, LedgerInv, Contents, Numbers
    <3>2. Most \in Nat /\ Most' = Most /\ Tpm \in Nat \ {0}
      BY Owing, GateConstants DEF Most
    <3>3. OwedBy(s)' = 0
      BY <1>3
    <3>. QED
      BY <2>3, <3>1, <3>2, <3>3 DEF WithinLimits
  <2>. QED
    BY <1>1, <1>2, <2>3, <2>4, <2>5 DEF Spent
<1>. QED
  BY <1>4, <1>5, Zenon

\* While the process runs, its ledger bounds its file.
LEMMA FileKept ==
    ASSUME LimitsInv, LedgerInv', Spent', phase' # "down" \/ UNCHANGED <<usageFile, uncapped>>
    PROVE  FileWithin'
<1>1. Most' = Most
  BY DEF Most
<1>2. CASE UNCHANGED <<usageFile, uncapped>>
  BY <1>1, <1>2 DEF LimitsInv, FileWithin, Special
<1>3. CASE phase' # "down"
  <2>. SUFFICES ASSUME ~Special(usageFile'), NEW s \in DOMAIN usageFile', s \notin uncapped'
                PROVE  usageFile'[s] <= Budget - 1 + Most
    BY <1>1 DEF FileWithin, Special
  <2>1. s \in DOMAIN ledger' /\ usageFile'[s] <= ledger'[s].total /\ usageFile'[s] \in Nat
    BY <1>3 DEF LedgerInv, Contents, Covers, Numbers, Special
  <2>2. ledger'[s].total \in Nat
    BY <2>1 DEF LedgerInv, Contents, Entry
  <2>3. ledger'[s].total + OwedBy(s)' <= Budget - 1 + Most
    BY <1>1, <2>1, Zenon DEF Spent, WithinLimits
  <2>4. OwedBy(s)' \in Nat /\ Most \in Nat /\ Budget \in Nat
    BY Owing, GateConstants
  <2>. QED
    BY <2>1, <2>2, <2>3, <2>4
<1>. QED
  BY <1>2, <1>3, Zenon

LEMMA LimitsInit == Init => LimitsInv
<1>. SUFFICES ASSUME Init PROVE LimitsInv
  BY Zenon
<1>1. /\ request = [c \in Caller |-> Free] /\ call = [c \in Caller |-> Quiet]
      /\ ledger = <<>> /\ phase = "up" /\ usageFile = NoFile
  BY DEF Init, OidcInit
<1>2. \A c \in Caller : request[c] = Free /\ call[c].pc = "none"
  BY <1>1 DEF Quiet
<1>3. Slots
  BY <1>1, <1>2, FreeFine, Zenon DEF Slots
<1>4. DOMAIN ledger = {}
  BY <1>1
<1>5. Spent /\ FileWithin
  BY <1>1, <1>4 DEF Spent, FileWithin, Special
<1>. QED
  BY <1>3, <1>5, LedgerInit, Zenon DEF LimitsInv

LEMMA LimitsNext == LimitsInv /\ [Next]_vars => LimitsInv'
<1>. SUFFICES ASSUME LimitsInv, [Next]_vars PROVE LimitsInv'
  BY Zenon
<1>0. LedgerInv'
  BY LedgerNext DEF LimitsInv
<1>a. (Slots' /\ Spent' /\ (phase' # "down" \/ UNCHANGED <<usageFile, uncapped>>)) => LimitsInv'
  BY <1>0, FileKept DEF LimitsInv
<1>1. CASE UNCHANGED gateVars /\ call' = call
  BY <1>1, <1>a, BystanderKeeps, Zenon DEF gateVars
<1>2. CASE UNCHANGED vars \/ KeyStep \/ ProviderStep \/ CarbonStep \/ Poll
  BY <1>1, <1>2 DEF vars, KeyStep, ProviderStep, CarbonStep, Poll, Rotate, Older, oidcVars
<1>3. CASE NextMinute
  <2>1. UNCHANGED <<usageFile, uncapped>>
    BY <1>3, Zenon DEF NextMinute
  <2>. QED
    BY <1>3, <1>a, <2>1, MinuteWithin, Zenon
<1>4. CASE \E c \in Caller : RequestStep(c)
  <2>1. PICK c \in Caller : RequestStep(c)
    BY <1>4, Zenon
  <2>2. CASE \E tokens \in 1 .. MaxCost : Answered(c, tokens)
    <3>1. UNCHANGED <<usageFile, uncapped>>
      BY <2>2, Zenon DEF Answered
    <3>. QED
      BY <1>a, <2>2, <3>1, AnsweredKeeps
  <2>3. CASE \E model \in {"a", "b"}, priority \in Priority : Authorize(c, model, priority)
    <3>1. phase' # "down"
      BY <2>3 DEF Authorize, LimitsInv, Slots
    <3>. QED
      BY <1>a, <2>3, <3>1, AuthorizeKeeps
  <2>4. CASE Arrive(c) \/ Verifying(c) \/ Verified(c) \/ Failed(c)
    BY <1>a, <2>4, RestingKeeps
  <2>. QED
    BY <2>1, <2>2, <2>3, <2>4 DEF RequestStep
<1>5. CASE \E p \in DOMAIN persister : PersistStep(p)
  <2>1. PICK p \in {"tick", "final"} : PersistStep(p)
    BY <1>5 DEF LimitsInv, LedgerInv, Writers
  <2>2. UNCHANGED <<config, request, ledger, phase, uncapped>> /\ call' = call
    BY <2>1 DEF PersistStep, PersistSnaps, PersistOpens, PersistWrites, PersistRenames,
                PersistFails, Persisting, oidcVars
  <2>3. phase # "down"
    BY <2>1, Running DEF LimitsInv, PersistStep, PersistSnaps, PersistOpens, PersistWrites,
                         PersistRenames, PersistFails, Writing
  <2>. QED
    BY <1>a, <2>2, <2>3, BystanderKeeps, Zenon
<1>6. CASE Signalled \/ ServerExits \/ Drained \/ DrainTimeout
  <2>1. UNCHANGED <<config, request, ledger, uncapped>> /\ call' = call /\ phase' # "down"
    BY <1>6 DEF Signalled, ServerExits, Drained, DrainTimeout, MainStep, oidcVars
  <2>. QED
    BY <1>a, <2>1, BystanderKeeps, Zenon
<1>7. CASE Exit \/ Crash
  <2>1. Stopped /\ UNCHANGED <<usageFile, uncapped>>
    BY <1>7, Zenon DEF Exit, Crash, Stopped
  <2>. QED
    BY <1>a, <2>1, StoppedWithin
<1>8. CASE Restart
  <2>1. phase' # "down"
    BY <1>8 DEF Restart
  <2>. QED
    BY <1>8, <1>a, <2>1, RestartWithin
<1>. QED
  BY <1>2, <1>3, <1>4, <1>5, <1>6, <1>7, <1>8, Zenon DEF Next

\* For any number of requests in flight and any limits: a subject whose every
\* admission was checked (check_at, usage.rs) is never charged past its budget
\* or its minute by more than one answer per slot, whatever the order of
\* checks and charges, and across crashes and restarts of the router; and the
\* bucket a request draws on is its principal's, or the address client_ip
\* finds behind the trusted proxies, whatever the client wrote in
\* X-Forwarded-For (cgn-ratelimit).
THEOREM LimitsHold == Spec => []LimitsOvershootBounded
<1>1. LimitsInv => LimitsOvershootBounded
  BY Zenon DEF LimitsInv, Slots, OwnBucket, Spent, WithinLimits, Most, OwedBy, LimitsOvershootBounded
<1>. QED
  BY <1>1, LimitsInit, LimitsNext, PTL DEF Spec

=============================================================================
