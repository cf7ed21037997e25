----------------------------- MODULE FleetProofs -----------------------------
(***************************************************************************)
(* Proofs about what keeps the fleet: the processes an agent runs (Agent), *)
(* the confirmed-KV keys it publishes (ConfirmedKv) and the planner of the *)
(* Kubernetes operator (Operator).                                         *)
(*                                                                         *)
(* About Agent, for any group of processes, any number of restarts,        *)
(* deaths, failed spawns, Drain calls and generations.  That no process is *)
(* orphaned needs to know who may hold handles when: a killer that takes   *)
(* the group must have killed what it took before, since taking overwrites *)
(* it.  That no two rounds run together needs one round among all the      *)
(* handles held, not only among the processes that run, and that nothing   *)
(* is left to kill when the loop spawns.                                   *)
(*                                                                         *)
(* About ConfirmedKv, for any set of digests and any number of sessions,   *)
(* keys and failed writes: what a session's list names is in etcd under    *)
(* the session's lease.  The step that could break it is an eviction,      *)
(* which deletes the key of the digest that leaves the list; it does not   *)
(* because the list names a digest once.                                   *)
(*                                                                         *)
(* About Operator, for any queue, limits, floors, ceilings, edits,         *)
(* failures and restarts: what the planner decides fits the queue it read. *)
(* One scale per cooldown needs that a scale since the last cooldown means *)
(* that one is running.                                                    *)
(***************************************************************************)
EXTENDS Agent, ConfirmedKv, Operator, TLAPS

\* The larger steps need more time than the backends have by default.
USE SMTT(30), ZenonT(30)

Held == children \cup fresh \cup UNION {taken[k] : k \in Killers}

HandleTypes ==
    /\ children \subseteq Process /\ fresh \subseteq Process
    /\ taken \in [Killers -> SUBSET Process] /\ round \in 1 .. MaxRounds
    /\ rpc \in [DrainCalls -> {"uncalled", "killing", "answered"}]

\* Who may hold handles when.
Holders ==
    /\ loop # "spawn" => fresh = {}
    /\ loop # "kill" => taken["loop"] = {}
    /\ main # "run" => loop = "off"
    /\ main \in {"run", "drain", "take"} => taken["main"] = {}
    /\ \A d \in DrainCalls : rpc[d] = "uncalled" => taken[d] = {}
    /\ \A p \in fresh : p[2] = round

NoOrphan == alive \subseteq Held

OneRound ==
    NoDrainCall => /\ loop \in {"kill", "spawn"} => children = {}
                   /\ \A p, q \in Held : p[2] = q[2]

GroupInv == HandleTypes /\ Holders /\ NoOrphan /\ OneRound

-----------------------------------------------------------------------------
LEMMA KillersOf == "loop" \in Killers /\ "main" \in Killers /\ DrainCalls \subseteq Killers
                   /\ \A d \in DrainCalls : d # "loop" /\ d # "main"
BY AgentConstants, Zenon DEF Killers

LEMMA GroupInit == Init => GroupInv
<1>. SUFFICES ASSUME Init PROVE GroupInv
  BY Zenon
<1>1. children \subseteq Process /\ \A p \in children : p[2] = 1
  BY AgentConstants DEF Init, Process
<1>2. fresh = {} /\ taken = [k \in Killers |-> {}] /\ alive = children /\ loop = "watch" /\ main = "run"
  BY Zenon DEF Init
<1>3. Held = children
  BY <1>2, Zenon DEF Held
<1>4. round \in 1 .. MaxRounds
  BY AgentConstants DEF Init
<1>. QED
  BY <1>1, <1>2, <1>3, <1>4, KillersOf, Zenon DEF Init, GroupInv, HandleTypes, Holders, NoOrphan, OneRound

\* A step that neither spawns nor moves handles may only end processes.
LEMMA QuietKeeps ==
    ASSUME GroupInv, UNCHANGED <<children, taken, fresh, round>>, alive' \subseteq alive,
           rpc' = rpc, UNCHANGED <<loop, main>>
    PROVE  GroupInv'
BY DEF GroupInv, HandleTypes, Holders, NoOrphan, OneRound, Held, NoDrainCall

\* kill_children by k: the handles change hands ...
LEMMA TakeKeeps ==
    ASSUME HandleTypes, NEW k \in Killers, taken[k] = {}, Take(k), fresh' = fresh
    PROVE  /\ Held' = Held /\ children' = {} /\ taken' \in [Killers -> SUBSET Process]
           /\ \A j \in Killers \ {k} : taken'[j] = taken[j]
<1>1. taken' = [taken EXCEPT ![k] = children] /\ children' = {} /\ taken \in [Killers -> SUBSET Process]
  BY Zenon DEF Take, HandleTypes
<1>2. taken'[k] = children /\ \A j \in Killers \ {k} : taken'[j] = taken[j]
  BY <1>1, Zenon
<1>3. UNION {taken'[j] : j \in Killers} = children \cup UNION {taken[j] : j \in Killers}
  BY <1>2, Zenon
<1>. QED
  BY <1>1, <1>2, <1>3, Zenon DEF Held, HandleTypes

\* ... and one that is killed leaves them.
LEMMA KillKeeps == ASSUME GroupInv, NEW k \in Killers, Kill(k) PROVE GroupInv'
<1>1. PICK p \in taken[k] : alive' = alive \ {p} /\ taken' = [taken EXCEPT ![k] = @ \ {p}]
  BY Zenon DEF Kill
<1>2. UNCHANGED <<children, fresh, loop, round, main, rpc>>
  BY Zenon DEF Kill
<1>3. \A j \in Killers : taken'[j] \subseteq taken[j] /\ taken[j] \ {p} \subseteq taken'[j]
  BY <1>1, Zenon DEF GroupInv, HandleTypes
<1>4. HandleTypes' /\ Held' \subseteq Held /\ Held \ {p} \subseteq Held'
  BY <1>1, <1>2, <1>3 DEF GroupInv, HandleTypes, Held
<1>5. Holders'
  BY <1>2, <1>3, KillersOf, Zenon DEF GroupInv, Holders
<1>6. NoOrphan'
  BY <1>1, <1>4, Zenon DEF GroupInv, NoOrphan
<1>7. OneRound'
  BY <1>2, <1>4, Zenon DEF GroupInv, OneRound, NoDrainCall
<1>. QED
  BY <1>4, <1>5, <1>6, <1>7, Zenon DEF GroupInv

LEMMA LoopTakeKeeps == ASSUME GroupInv, LoopTake PROVE GroupInv'
<1>1. /\ loop = "died" /\ loop' = "kill" /\ Take("loop")
      /\ UNCHANGED <<alive, fresh, round, main, rpc>>
  BY Zenon DEF LoopTake
<1>2. taken["loop"] = {} /\ fresh = {}
  BY <1>1, Zenon DEF GroupInv, Holders
<1>3. /\ Held' = Held /\ children' = {} /\ taken' \in [Killers -> SUBSET Process]
      /\ \A j \in Killers \ {"loop"} : taken'[j] = taken[j]
  BY <1>1, <1>2, TakeKeeps, KillersOf, Zenon DEF GroupInv
<1>. QED
  BY <1>1, <1>2, <1>3, KillersOf, Zenon
  DEF GroupInv, HandleTypes, Holders, NoOrphan, OneRound, NoDrainCall

LEMMA PauseKeeps == ASSUME GroupInv, LoopPause PROVE GroupInv'
<1>1. /\ loop = "kill" /\ taken["loop"] = {} /\ loop' = "spawn"
      /\ UNCHANGED <<alive, children, taken, fresh, main, rpc>>
  BY Zenon DEF LoopPause, group
<1>2. fresh = {} /\ Held' = Held
  BY <1>1, Zenon DEF GroupInv, Holders, Held
<1>3. round' \in 1 .. MaxRounds
  BY AgentConstants DEF LoopPause, GroupInv, HandleTypes
<1>. QED
  BY <1>1, <1>2, <1>3, Zenon DEF GroupInv, HandleTypes, Holders, NoOrphan, OneRound, NoDrainCall

\* Without a Drain call the loop spawns when no other handle is held.
LEMMA SpawnKeeps == ASSUME GroupInv, NEW m \in Members, Spawn(m) PROVE GroupInv'
<1>. DEFINE p == <<m, round>>
<1>1. /\ loop = "spawn" /\ fresh' = fresh \cup {p} /\ alive' = alive \cup {p}
      /\ UNCHANGED <<children, taken, loop, round, main, rpc>>
  BY Zenon DEF Spawn
<1>2. p[2] = round /\ Held' = Held \cup {p}
  BY <1>1, Zenon DEF Held
<1>3. NoDrainCall => Held = fresh
  BY <1>1 DEF GroupInv, Holders, OneRound, Held, Killers, NoDrainCall
<1>4. p \in Process
  BY Zenon DEF Process, GroupInv, HandleTypes
<1>. QED
  BY <1>1, <1>2, <1>3, <1>4, Zenon DEF GroupInv, HandleTypes, Holders, NoOrphan, OneRound, NoDrainCall

LEMMA SpawnFailsKeeps == ASSUME GroupInv, SpawnFails PROVE GroupInv'
<1>1. /\ loop = "spawn" /\ loop' = "watch" /\ alive' = alive \ fresh /\ fresh' = {}
      /\ UNCHANGED <<children, taken, round, main, rpc>>
  BY Zenon DEF SpawnFails
<1>2. Held' \subseteq Held /\ Held \ fresh \subseteq Held'
  BY <1>1, Zenon DEF Held
<1>. QED
  BY <1>1, <1>2, Zenon DEF GroupInv, HandleTypes, Holders, NoOrphan, OneRound, NoDrainCall

LEMMA InstallKeeps == ASSUME GroupInv, Install PROVE GroupInv'
<1>1. /\ loop = "spawn" /\ loop' = "watch" /\ alive' = alive \ children
      /\ children' = fresh /\ fresh' = {}
      /\ UNCHANGED <<taken, round, main, rpc>>
  BY Zenon DEF Install
<1>2. Held' \subseteq Held /\ Held \ children \subseteq Held'
  BY <1>1, Zenon DEF Held
<1>. QED
  BY <1>1, <1>2, Zenon DEF GroupInv, HandleTypes, Holders, NoOrphan, OneRound, NoDrainCall

LEMMA DrainRpcKeeps == ASSUME GroupInv, NEW d \in DrainCalls, DrainRpc(d) PROVE GroupInv'
<1>1. /\ rpc[d] = "uncalled" /\ rpc' = [rpc EXCEPT ![d] = "killing"] /\ Take(d)
      /\ UNCHANGED <<alive, fresh, loop, round, main>>
  BY Zenon DEF DrainRpc
<1>2. taken[d] = {} /\ d \in Killers /\ d # "loop" /\ d # "main"
  BY <1>1, KillersOf, Zenon DEF GroupInv, Holders
<1>3. /\ Held' = Held /\ children' = {} /\ taken' \in [Killers -> SUBSET Process]
      /\ \A j \in Killers \ {d} : taken'[j] = taken[j]
  BY <1>1, <1>2, TakeKeeps, Zenon DEF GroupInv
<1>4. HandleTypes' /\ rpc'[d] = "killing" /\ \A e \in DrainCalls \ {d} : rpc'[e] = rpc[e]
  BY <1>1, <1>3, Zenon DEF GroupInv, HandleTypes
<1>5. Holders'
  BY <1>1, <1>2, <1>3, <1>4, KillersOf, Zenon DEF GroupInv, Holders
<1>. QED
  BY <1>1, <1>3, <1>4, <1>5, Zenon DEF GroupInv, NoOrphan, OneRound, NoDrainCall

LEMMA SigtermKeeps == ASSUME GroupInv, Sigterm PROVE GroupInv'
<1>1. /\ main = "run" /\ main' = "drain" /\ loop' = "off" /\ fresh' = {}
      /\ alive' = alive \ (taken["loop"] \cup fresh)
      /\ taken' = [taken EXCEPT !["loop"] = {}]
      /\ UNCHANGED <<children, round, rpc>>
  BY Zenon DEF Sigterm
<1>2. taken'["loop"] = {} /\ \A j \in Killers \ {"loop"} : taken'[j] = taken[j]
  BY <1>1, KillersOf, Zenon DEF GroupInv, HandleTypes
<1>3. HandleTypes' /\ Held' \subseteq Held /\ Held \ (taken["loop"] \cup fresh) \subseteq Held'
  BY <1>1, <1>2, KillersOf DEF GroupInv, HandleTypes, Held
<1>. QED
  BY <1>1, <1>2, <1>3, KillersOf DEF GroupInv, Holders, NoOrphan, OneRound, NoDrainCall

LEMMA ShutdownKeeps == ASSUME GroupInv, Shutdown PROVE GroupInv'
<1>1. /\ main = "take" /\ main' = "kill" /\ Take("main")
      /\ UNCHANGED <<alive, fresh, loop, round, rpc>>
  BY Zenon DEF Shutdown
<1>2. taken["main"] = {}
  BY <1>1, Zenon DEF GroupInv, Holders
<1>3. /\ Held' = Held /\ children' = {} /\ taken' \in [Killers -> SUBSET Process]
      /\ \A j \in Killers \ {"main"} : taken'[j] = taken[j]
  BY <1>1, <1>2, TakeKeeps, KillersOf, Zenon DEF GroupInv
<1>. QED
  BY <1>1, <1>3, KillersOf, Zenon
  DEF GroupInv, HandleTypes, Holders, NoOrphan, OneRound, NoDrainCall

LEMMA ExitKeeps == ASSUME GroupInv, Exit PROVE GroupInv'
<1>1. /\ main = "kill" /\ main' = "exit" /\ alive' = {} /\ taken' = [k \in Killers |-> {}]
      /\ rpc' = [d \in DrainCalls |-> IF rpc[d] = "killing" THEN "answered" ELSE rpc[d]]
      /\ UNCHANGED <<children, fresh, loop, round>>
  BY Zenon DEF Exit
<1>2. Held' \subseteq Held /\ HandleTypes' /\ (NoDrainCall' => NoDrainCall)
  BY <1>1, Zenon DEF GroupInv, HandleTypes, Held, NoDrainCall
<1>. QED
  BY <1>1, <1>2, KillersOf DEF GroupInv, Holders, NoOrphan, OneRound

LEMMA GroupNext == GroupInv /\ [Next]_vars => GroupInv'
<1>. SUFFICES ASSUME GroupInv, [Next]_vars PROVE GroupInv'
  BY Zenon
<1>1. CASE UNCHANGED vars
  BY <1>1, QuietKeeps, Zenon DEF vars, group
<1>2. CASE Expire \/ \E r \in Requests : Begin(r) \/ Finish(r)
  BY <1>2, QuietKeeps, Zenon DEF Expire, Begin, Finish, group
<1>3. CASE \E p \in Process : Die(p)
  BY <1>3, QuietKeeps, Zenon DEF Die
<1>4. CASE Watch \/ Drained
  BY <1>4 DEF Watch, Drained, group, GroupInv, HandleTypes, Holders, NoOrphan, OneRound, Held,
              NoDrainCall
<1>5. CASE \E d \in DrainCalls : DrainAnswer(d)
  BY <1>5 DEF DrainAnswer, group, GroupInv, HandleTypes, Holders, NoOrphan, OneRound, Held,
              NoDrainCall
<1>6. CASE Kill("loop") \/ Kill("main") \/ \E d \in DrainCalls : Kill(d)
  BY <1>6, KillKeeps, KillersOf, Zenon
<1>. QED
  BY <1>1, <1>2, <1>3, <1>4, <1>5, <1>6, LoopTakeKeeps, PauseKeeps, SpawnKeeps, SpawnFailsKeeps,
     InstallKeeps, DrainRpcKeeps, SigtermKeeps, ShutdownKeeps, ExitKeeps, Zenon
  DEF Next, Supervise, Stop

\* No engine process ever runs without a handle that can kill it, and without a
\* Drain call no two generations of the process group run at the same time:
\* supervisor.rs kills the whole group before it spawns the next.
THEOREM EngineGroupHeld == Spec => []GroupHeld
<1>1. GroupInv => GroupHeld
  BY DEF GroupInv, NoOrphan, OneRound, Held, GroupHeld
<1>. QED
  BY <1>1, GroupInit, GroupNext, PTL DEF Spec

-----------------------------------------------------------------------------
(* The drain: until it is over nothing is cut, and what it waited for has  *)
(* ended by itself unless the deadline has passed.                         *)
DrainInv ==
    /\ rpc \in [DrainCalls -> {"uncalled", "killing", "answered"}]
    /\ gen \in [Requests -> {"new", "running", "done", "failed", "cut"}]
    /\ owed \subseteq Requests /\ \A r \in owed : gen[r] # "new"
    /\ NoDrainCall /\ ~expired =>
          /\ main \in {"run", "drain"} => \A r \in Requests : gen[r] # "cut"
          /\ main \notin {"run", "drain"} => \A r \in owed : gen[r] \in {"done", "failed"}

LEMMA DrainNext == DrainInv /\ [Next]_vars => DrainInv'
<1>. SUFFICES ASSUME DrainInv, [Next]_vars PROVE DrainInv'
  BY Zenon
<1>1. CASE UNCHANGED <<main, rpc, gen, expired, owed>>
  BY <1>1, Zenon DEF DrainInv, NoDrainCall
<1>2. CASE UNCHANGED vars \/ Supervise \/ Kill("main") \/ (\E p \in Process : Die(p))
             \/ \E d \in DrainCalls : Kill(d)
  BY <1>1, <1>2, Zenon DEF vars, group, Supervise, Watch, LoopTake, Kill, LoopPause, SpawnFails, Install,
                    Spawn, Die
<1>3. CASE \E r \in Requests : Begin(r) \/ Finish(r)
  BY <1>3 DEF Begin, Finish, DrainInv, NoDrainCall
<1>4. CASE \E d \in DrainCalls : DrainRpc(d)
  BY <1>4 DEF DrainRpc, DrainInv, NoDrainCall
<1>5. CASE \E d \in DrainCalls : DrainAnswer(d)
  BY <1>5, Zenon DEF DrainAnswer, DrainInv, NoDrainCall
<1>6. CASE Sigterm
  BY <1>6, Zenon DEF Sigterm, Running, DrainInv, NoDrainCall
<1>7. CASE Expire
  BY <1>7, Zenon DEF Expire, DrainInv
<1>8. CASE Drained
  BY <1>8, Zenon DEF Drained, Running, DrainInv, NoDrainCall
<1>9. CASE Shutdown
  BY <1>9, Zenon DEF Shutdown, DrainInv, NoDrainCall
<1>10. CASE Exit
  BY <1>10, Zenon DEF Exit, DrainInv, NoDrainCall
<1>. QED
  BY <1>2, <1>3, <1>4, <1>5, <1>6, <1>7, <1>8, <1>9, <1>10, Zenon DEF Next, Stop

\* A generation that ran when SIGTERM arrived is cut only after drain_timeout
\* (main.rs, drain), whatever begins, dies or is respawned meanwhile.
THEOREM DrainCutsOnlyLate == Spec => []DrainWaits
<1>1. Init => DrainInv
  BY DEF Init, DrainInv
<1>2. DrainInv => DrainWaits
  BY Zenon DEF DrainInv, DrainWaits
<1>. QED
  BY <1>1, <1>2, DrainNext, PTL DEF Spec

-----------------------------------------------------------------------------
(* The confirmed-KV keys.                                                  *)
TrackInv ==
    /\ queue \in Seq(Digests) /\ batch \in Seq(Digests) /\ published \in Seq(Digests)
    /\ session \in Nat /\ target \in Nat
    /\ DOMAIN key = Digests
    /\ TrackedKeysLive

\* A step that changes neither the list nor a live key of it.
LEMMA ListKept ==
    ASSUME TrackInv, queue' \in Seq(Digests), batch' \in Seq(Digests), DOMAIN key' = Digests,
           target' \in Nat, UNCHANGED <<published, session>>,
           at = "broken" => at' = "broken",
           at' # "broken" => \A d \in Digests : key'[d] = key[d] \/ key[d] # session
    PROVE  TrackInv'
<1>1. ASSUME NEW i \in DOMAIN published', at' # "broken" PROVE key'[published'[i]] = session'
  <2>1. published[i] \in Digests /\ key[published[i]] = session
    BY <1>1 DEF TrackInv, TrackedKeysLive
  <2>. QED
    BY <1>1, <2>1, Zenon
<1>. QED
  BY <1>1, Zenon DEF TrackInv, TrackedKeysLive, IsInjective

LEMMA PutKeyKeeps == ASSUME TrackInv, PutKey PROVE TrackInv'
<1>. DEFINE d == Head(batch)
<1>1. /\ at = "put" /\ batch # <<>> /\ d \notin Range(published) /\ at' = at
      /\ key' = [key EXCEPT ![d] = session] /\ published' = Append(published, d)
      /\ batch' = Tail(batch) /\ UNCHANGED <<queue, session, target>>
  BY Zenon DEF PutKey
<1>2. d \in Digests /\ batch' \in Seq(Digests) /\ published \in Seq(Digests)
      /\ Len(published) \in Nat /\ DOMAIN published = 1 .. Len(published)
  BY <1>1 DEF TrackInv
<1>3. \A i \in 1 .. Len(published) : published[i] # d
  BY <1>1, <1>2, Zenon DEF Range
<1>. HIDE DEF d
<1>4. /\ published' \in Seq(Digests) /\ DOMAIN published' = 1 .. Len(published) + 1
      /\ published'[Len(published) + 1] = d
      /\ \A i \in 1 .. Len(published) : published'[i] = published[i] /\ published[i] \in Digests
  BY <1>1, <1>2
<1>5. ASSUME NEW i \in DOMAIN published', NEW j \in DOMAIN published', published'[i] = published'[j]
      PROVE  i = j
  <2>1. CASE i \in 1 .. Len(published) /\ j \in 1 .. Len(published)
    BY <1>2, <1>4, <1>5, <2>1 DEF TrackInv, TrackedKeysLive, IsInjective
  <2>2. CASE i = Len(published) + 1 \/ j = Len(published) + 1
    BY <1>2, <1>3, <1>4, <1>5, <2>2
  <2>. QED
    BY <1>2, <1>4, <2>1, <2>2
<1>6. ASSUME NEW i \in DOMAIN published' PROVE key'[published'[i]] = session
  <2>1. CASE i = Len(published) + 1
    BY <1>1, <1>2, <1>4, <2>1, Zenon DEF TrackInv
  <2>2. CASE i \in 1 .. Len(published)
    BY <1>1, <1>2, <1>3, <1>4, <2>2 DEF TrackInv, TrackedKeysLive
  <2>. QED
    BY <1>2, <1>4, <2>1, <2>2
<1>. QED
  BY <1>1, <1>2, <1>4, <1>5, <1>6, Zenon DEF TrackInv, TrackedKeysLive, IsInjective

LEMMA EvictKeyKeeps == ASSUME TrackInv, EvictKey PROVE TrackInv'
<1>. DEFINE d == Head(published)
<1>1. /\ at = "evict" /\ Len(published) > target /\ published' = Tail(published)
      /\ key' = [key EXCEPT ![d] = NoLease] \/ key' = key
      /\ at' # "broken" /\ UNCHANGED <<queue, batch, session, target>>
  BY Zenon DEF EvictKey
<1>2. /\ published \in Seq(Digests) /\ Len(published) \in Nat \ {0}
      /\ DOMAIN published = 1 .. Len(published)
  BY <1>1 DEF TrackInv
<1>3. published # <<>>
  BY <1>2
<1>4. /\ published' \in Seq(Digests) /\ DOMAIN published' = 1 .. Len(published) - 1
      /\ d = published[1] /\ d \in Digests
      /\ \A i \in 1 .. Len(published) - 1 : published'[i] = published[i + 1]
  BY <1>1, <1>2, <1>3
<1>. HIDE DEF d
<1>5. ASSUME NEW i \in DOMAIN published'
      PROVE  /\ published'[i] = published[i + 1] /\ published'[i] # d
             /\ i + 1 \in DOMAIN published
             /\ key'[published'[i]] = session
  <2>1. /\ i + 1 \in DOMAIN published /\ 1 \in DOMAIN published /\ i + 1 # 1
        /\ published'[i] = published[i + 1]
    BY <1>2, <1>4
  <2>2. published[i + 1] # published[1] /\ key[published[i + 1]] = session
    BY <1>1, <2>1, Zenon DEF TrackInv, TrackedKeysLive, IsInjective
  <2>3. published[i + 1] \in Digests /\ DOMAIN key = Digests
    BY <1>2, <2>1 DEF TrackInv
  <2>4. key'[published[i + 1]] = key[published[i + 1]]
    BY <1>1, <1>4, <2>2, <2>3, Zenon
  <2>. QED
    BY <1>4, <2>1, <2>2, <2>4
<1>6. ASSUME NEW i \in DOMAIN published', NEW j \in DOMAIN published', published'[i] = published'[j]
      PROVE  i = j
  <2>1. i + 1 = j + 1
    BY <1>5, <1>6 DEF TrackInv, TrackedKeysLive, IsInjective
  <2>. QED
    BY <1>4, <2>1
<1>. QED
  BY <1>1, <1>4, <1>5, <1>6, Zenon DEF TrackInv, TrackedKeysLive, IsInjective

LEMMA TrackNext == TrackInv /\ [FeedNext]_feedVars => TrackInv'
<1>. SUFFICES ASSUME TrackInv, [FeedNext]_feedVars PROVE TrackInv'
  BY Zenon
<1>1. CASE UNCHANGED feedVars
  BY <1>1, ListKept DEF feedVars, agent, TrackInv
<1>2. CASE TakeQueue \/ SkipKnown \/ PutFails \/ ChooseTarget \/ EndPublish \/ Break
  <2>1. queue' \in Seq(Digests) /\ batch' \in Seq(Digests)
    <3>1. CASE SkipKnown
      BY <3>1 DEF SkipKnown, TrackInv
    <3>2. CASE ~SkipKnown
      <4>1. batch' \in {queue, batch, <<>>} /\ queue' \in {queue, <<>>}
        BY <1>2, <3>2, Zenon DEF TakeQueue, PutFails, ChooseTarget, EndPublish, Break
      <4>2. <<>> \in Seq(Digests) /\ queue \in Seq(Digests) /\ batch \in Seq(Digests)
        BY DEF TrackInv
      <4>. QED
        BY <4>1, <4>2, Zenon
    <3>. QED
      BY <3>1, <3>2, Zenon
  <2>2. UNCHANGED <<published, session, key>> /\ at # "broken"
    BY <1>2, Zenon DEF TakeQueue, SkipKnown, PutFails, ChooseTarget, EndPublish, Break
  <2>3. target' \in Nat
    BY <1>2, ConfirmedConstants
    DEF TakeQueue, SkipKnown, PutFails, ChooseTarget, EndPublish, Break, TrackInv
  <2>. QED
    BY <2>1, <2>2, <2>3, ListKept, Zenon DEF TrackInv
<1>3. CASE Mirror \/ Forget
  BY <1>3, ListKept, Zenon DEF Mirror, Forget, agent, TrackInv
<1>4. CASE \E d \in Digests : Complete(d)
  BY <1>4, ListKept DEF Complete, TrackInv
<1>5. CASE \E d \in Digests : ExpireKey(d)
  <2>1. PICK d \in Digests : ExpireKey(d)
    BY <1>5, Zenon
  <2>2. at # "broken" => key[d] # session
    BY <2>1 DEF ExpireKey, TrackInv, Sessions
  <2>3. UNCHANGED agent /\ key' = [key EXCEPT ![d] = NoLease]
    BY <2>1, Zenon DEF ExpireKey
  <2>. QED
    BY <2>2, <2>3, ListKept, Zenon DEF agent, TrackInv
<1>6. CASE Reconnect
  BY <1>6 DEF Reconnect, TrackInv, TrackedKeysLive, IsInjective
<1>. QED
  BY <1>1, <1>2, <1>3, <1>4, <1>5, <1>6, PutKeyKeeps, EvictKeyKeeps DEF FeedNext, Publish

\* A session's list of published keys names each once, and each is in etcd under
\* its lease: publish_kv_confirmed never evicts a key that it still tracks, and
\* never keeps one it has lost, across failed puts and deletes, pressure and
\* broken sessions.
THEOREM TrackedKeysAreLive == FeedSpec => []TrackedKeysLive
<1>1. FeedInit => TrackInv
  BY ConfirmedConstants DEF FeedInit, TrackInv, TrackedKeysLive, IsInjective
<1>2. TrackInv => TrackedKeysLive
  BY Zenon DEF TrackInv
<1>. QED
  BY <1>1, <1>2, TrackNext, PTL DEF FeedSpec

-----------------------------------------------------------------------------
(* The operator's planner.                                                 *)
\* A count fits a total: it is between the floor and the ceiling, it is enough
\* unless it is the ceiling, and one less is too few unless it is the floor.
Fits(d, total, per, min, top) ==
    /\ d \in Nat /\ d \in min .. top
    /\ d * per >= total \/ d = top
    /\ (d - 1) * per < total \/ d = min

\* What planner.rs promises of a plan p, given the pool's slo block.
Fitting(p) == Fits(p.to, p.total, slo.perReplica, slo.min, Max({slo.min, Ceiling(p.current)}))

PlannerInv ==
    /\ slo.perReplica \in Nat /\ slo.min \in Nat /\ slo.max \subseteq Nat
    /\ spec \in [Kind -> [version : Nat, metrics : BOOLEAN]]
    /\ queued \in Nat /\ planner.current \in Nat /\ planner.total \in Nat
    /\ scales \in {0, 1} /\ (scales = 1 => cooling)
    /\ \A i \in DOMAIN plan : Fitting(plan[i])

-----------------------------------------------------------------------------
(* desired_replicas.                                                       *)
LEMMA MaxPair ==
    ASSUME NEW a \in Int, NEW b \in Int
    PROVE  Max({a, b}) = IF a >= b THEN a ELSE b
<1>. DEFINE m == IF a >= b THEN a ELSE b
<1>1. m \in {a, b} /\ \A y \in {a, b} : m >= y
  OBVIOUS
<1>2. \A x \in {a, b} : (\A y \in {a, b} : x >= y) => x = m
  OBVIOUS
<1>. QED
  BY <1>1, <1>2, Zenon DEF Max

LEMMA MinPair ==
    ASSUME NEW a \in Int, NEW b \in Int
    PROVE  Min({a, b}) = IF a <= b THEN a ELSE b
<1>. DEFINE m == IF a <= b THEN a ELSE b
<1>1. m \in {a, b} /\ \A y \in {a, b} : m <= y
  OBVIOUS
<1>2. \A x \in {a, b} : (\A y \in {a, b} : x <= y) => x = m
  OBVIOUS
<1>. QED
  BY <1>1, <1>2, Zenon DEF Min

LEMMA TimesGrows ==
    ASSUME NEW x \in Int, NEW y \in Int, x <= y, NEW p \in Nat
    PROVE  x * p <= y * p
<1>1. PICK d \in Nat : y = x + d
  <2>1. y - x \in Nat /\ y = x + (y - x)
    OBVIOUS
  <2>. QED
    BY <2>1, Zenon
<1>2. y * p = x * p + d * p
  BY <1>1
<1>3. d * p \in Nat /\ x * p \in Int
  OBVIOUS
<1>. QED
  BY <1>2, <1>3

\* The division rounds up.
LEMMA Ceil ==
    ASSUME NEW t \in Nat, NEW p \in Nat \ {0}, NEW q, q = (t + p - 1) \div p
    PROVE  q \in Nat /\ q * p >= t /\ (q - 1) * p < t
<1>1. PICK a \in Nat : a = t + p - 1
  <2>1. t + p - 1 \in Nat
    OBVIOUS
  <2>. QED
    BY <2>1, Zenon
<1>2. a = p * (a \div p) + (a % p) /\ a \div p \in Nat /\ a % p \in 0 .. p - 1
  OBVIOUS
<1>3. q \in Nat
  BY <1>1, <1>2, Zenon
<1>4. PICK m \in Int : m = p * q
  BY <1>3
<1>5. a = m + (a % p)
  BY <1>1, <1>2, <1>4, Zenon
<1>6. m >= t /\ m - p < t
  BY <1>1, <1>2, <1>5
<1>7. q * p = m /\ (q - 1) * p = m - p
  BY <1>3, <1>4
<1>. QED
  BY <1>3, <1>6, <1>7, Zenon

LEMMA DesiredFits ==
    ASSUME NEW t \in Nat, NEW per \in Nat, per # 0, NEW min \in Nat, NEW max \in Nat,
           NEW top, top = Max({min, max})
    PROVE  Fits(DesiredReplicas(t, per, min, max), t, per, min, top)
<1>. PICK d : d = DesiredReplicas(t, per, min, max)
  BY Zenon
<1>1. PICK q : q = (t + per - 1) \div per
  BY Zenon
<1>2. q \in Nat /\ q * per >= t /\ (q - 1) * per < t
  BY <1>1, Ceil, Zenon
<1>3. top \in Nat /\ top = (IF min >= max THEN min ELSE max) /\ Max({max, min}) = top
  BY MaxPair
<1>4. Max({per, 1}) = per
  BY MaxPair
<1>5. PICK a \in Nat : a = Max({q, min}) /\ a = IF q >= min THEN q ELSE min
  BY <1>2, MaxPair
<1>6. d = Min({a, top})
  <2>1. d = Min({Max({(t + Max({per, 1}) - 1) \div Max({per, 1}), min}), Max({max, min})})
    BY Zenon DEF DesiredReplicas
  <2>2. PICK c : c = (t + Max({per, 1}) - 1) \div Max({per, 1})
    BY Zenon
  <2>3. c = q
    BY <1>1, <1>4, <2>2, Zenon
  <2>4. d = Min({Max({c, min}), Max({max, min})})
    BY <2>1, <2>2, Zenon
  <2>5. Max({c, min}) = a
    BY <1>5, <2>3, Zenon
  <2>. QED
    BY <1>3, <2>4, <2>5, Zenon
<1>7. d = IF a <= top THEN a ELSE top
  <2>1. a \in Int /\ top \in Int
    BY <1>3, <1>5
  <2>2. Min({a, top}) = IF a <= top THEN a ELSE top
    BY <2>1, MinPair, Zenon
  <2>. QED
    BY <1>6, <2>2, Zenon
<1>8. d \in Nat /\ d \in min .. top
  BY <1>3, <1>5, <1>7
<1>9. d * per >= t \/ d = top
  <2>1. CASE d # top
    <3>1. q <= d
      BY <1>2, <1>5, <1>7, <2>1
    <3>2. q * per <= d * per
      BY <1>2, <1>8, <3>1, TimesGrows
    <3>3. q * per \in Int /\ d * per \in Int
      BY <1>2, <1>8
    <3>. QED
      BY <1>2, <3>2, <3>3
  <2>. QED
    BY <2>1
<1>10. (d - 1) * per < t \/ d = min
  <2>1. CASE d # min
    <3>1. d - 1 <= q - 1 /\ d - 1 \in Int /\ q - 1 \in Int
      BY <1>2, <1>3, <1>5, <1>7, <1>8, <2>1
    <3>2. (d - 1) * per <= (q - 1) * per
      BY <3>1, TimesGrows, Zenon
    <3>3. (d - 1) * per \in Int /\ (q - 1) * per \in Int
      BY <3>1
    <3>. QED
      BY <1>2, <3>2, <3>3
  <2>. QED
    BY <2>1
<1>. QED
  BY <1>8, <1>9, <1>10, Zenon DEF Fits

-----------------------------------------------------------------------------
(* The steps.                                                              *)
LEMMA CeilingNat == ASSUME PlannerInv, NEW n \in Nat PROVE Ceiling(n) \in Nat
<1>1. slo.max \subseteq Nat
  BY Zenon DEF PlannerInv
<1>2. ASSUME slo.max # {} PROVE (CHOOSE m \in slo.max : TRUE) \in slo.max
  BY <1>2, Zenon
<1>. QED
  BY <1>1, <1>2, Zenon DEF Ceiling

\* What the steps that neither plan nor edit the pool leave alone.
Aside == UNCHANGED <<slo, spec, queued, planner, cooling, plan, scales>>

LEMMA PlansKept ==
    ASSUME PlannerInv, slo' = slo, plan' = plan
    PROVE  /\ slo'.perReplica \in Nat /\ slo'.min \in Nat /\ slo'.max \subseteq Nat
           /\ \A i \in DOMAIN plan' : Fitting(plan[i])'
BY Zenon DEF PlannerInv, Fitting, Ceiling

LEMMA AsideKeeps == ASSUME PlannerInv, Aside PROVE PlannerInv'
BY PlansKept, Zenon DEF PlannerInv, Aside

LEMMA PlanPoolStep == ASSUME PlannerInv, PlanPool PROVE PlannerInv'
<1>1. PICK desired : desired = DesiredReplicas(planner.total, slo.perReplica, slo.min,
                                               Ceiling(planner.current))
  OBVIOUS
<1>2. /\ planner' = Asleep /\ slo' = slo /\ queued' = queued
      /\ \/ UNCHANGED <<spec, due, cooling, plan, scales>>
         \/ /\ slo.perReplica # 0 /\ ~cooling
            /\ spec' = [spec EXCEPT !["pool"].version = desired]
            /\ plan' = <<[to |-> desired, current |-> planner.current, total |-> planner.total]>>
            /\ scales' = scales + 1 /\ cooling' = TRUE
  BY <1>1, Zenon DEF PlanPool, Controllers
<1>3. planner'.current \in Nat /\ planner'.total \in Nat
  BY <1>2, Zenon DEF Asleep
<1>4. CASE UNCHANGED <<spec, due, cooling, plan, scales>>
  BY <1>2, <1>3, <1>4, PlansKept DEF PlannerInv
<1>5. CASE /\ slo.perReplica # 0 /\ ~cooling
           /\ spec' = [spec EXCEPT !["pool"].version = desired]
           /\ plan' = <<[to |-> desired, current |-> planner.current, total |-> planner.total]>>
           /\ scales' = scales + 1 /\ cooling' = TRUE
  <2>1. PICK p : p = [to |-> desired, current |-> planner.current, total |-> planner.total]
    BY Zenon
  <2>2. p.to = desired /\ p.current = planner.current /\ p.total = planner.total
    BY <2>1
  <2>3. plan' = <<p>> /\ scales' = scales + 1 /\ cooling' /\ ~cooling /\ slo.perReplica # 0
    BY <1>5, <2>1, Zenon
  <2>4. DOMAIN plan' = {1} /\ plan'[1] = p
    BY <2>3
  <2>5. /\ planner.total \in Nat /\ slo.perReplica \in Nat /\ slo.perReplica # 0 /\ slo.min \in Nat
        /\ Ceiling(planner.current) \in Nat
    BY <2>3, CeilingNat DEF PlannerInv
  <2>6. Fits(desired, planner.total, slo.perReplica, slo.min,
             Max({slo.min, Ceiling(planner.current)}))
    <3>1. PICK total, per, min, max, top :
            /\ total = planner.total /\ per = slo.perReplica /\ min = slo.min
            /\ max = Ceiling(planner.current) /\ top = Max({min, max})
      BY Zenon
    <3>2. /\ total \in Nat /\ per \in Nat /\ per # 0 /\ min \in Nat /\ max \in Nat
          /\ desired = DesiredReplicas(total, per, min, max) /\ top = Max({min, max})
      BY <1>1, <2>5, <3>1, Zenon
    <3>3. Fits(desired, total, per, min, top)
      BY <3>2, DesiredFits, Zenon
    <3>. QED
      BY <3>1, <3>3, Zenon
  <2>7. Fitting(p)
    BY <2>2, <2>6, Zenon DEF Fitting
  <2>8. \A i \in DOMAIN plan' : Fitting(plan[i])'
    <3>1. Fitting(p)'
      BY <1>2, <2>7, Zenon DEF Fitting, Ceiling
    <3>. QED
      BY <2>4, <3>1
  <2>9. spec' \in [Kind -> [version : Nat, metrics : BOOLEAN]]
    BY <1>5, <2>6 DEF PlannerInv, Kind, Fits
  <2>10. scales' \in {0, 1}
    BY <2>3 DEF PlannerInv
  <2>. QED
    BY <1>2, <1>3, <2>3, <2>8, <2>9, <2>10 DEF PlannerInv
<1>. QED
  BY <1>2, <1>4, <1>5, Zenon

LEMMA PlannerStep == ASSUME PlannerInv, Planner PROVE PlannerInv'
<1>1. CASE PlannerLists
  <2>1. spec["pool"].version \in Nat
    BY Zenon DEF PlannerInv, Kind
  <2>2. UNCHANGED <<slo, spec, queued, cooling, plan, scales>>
    BY <1>1, ZenonT(30) DEF PlannerLists, Controllers
  <2>3. planner'.current \in Nat /\ planner'.total \in Nat
    BY <1>1, <2>1, Zenon DEF PlannerLists
  <2>. QED
    BY <2>2, <2>3, PlansKept, Zenon DEF PlannerInv
<1>2. CASE FetchHeartbeats
  <2>1. planner'.current = planner.current /\ planner'.total = queued
    BY <1>2 DEF FetchHeartbeats
  <2>2. UNCHANGED <<slo, spec, queued, cooling, plan, scales>>
    BY <1>2, Zenon DEF FetchHeartbeats, Controllers
  <2>. QED
    BY <2>1, <2>2, PlansKept, Zenon DEF PlannerInv
<1>3. CASE PlanPool
  BY <1>3, PlanPoolStep
<1>4. CASE PlannerFails
  <2>1. planner'.current \in Nat /\ planner'.total \in Nat
    BY <1>4 DEF PlannerFails, Asleep
  <2>2. UNCHANGED <<spec, queued, cooling, plan, scales, slo>>
    BY <1>4, Zenon DEF PlannerFails, Controllers
  <2>. QED
    BY <2>1, <2>2, PlansKept, Zenon DEF PlannerInv
<1>5. CASE CooldownOver
  <2>1. UNCHANGED <<spec, queued, planner, plan, slo>> /\ scales' = 0
    BY <1>5, Zenon DEF CooldownOver, Controllers
  <2>2. scales' # 1
    BY <2>1
  <2>. QED
    BY <2>1, <2>2, PlansKept, Zenon DEF PlannerInv
<1>6. CASE QueueMoves
  <2>1. queued' \in Nat
    BY <1>6, OperatorConstants DEF QueueMoves
  <2>2. UNCHANGED <<slo, spec, planner, cooling, plan, scales>>
    BY <1>6, Zenon DEF QueueMoves, Controllers
  <2>. QED
    BY <2>1, <2>2, PlansKept, Zenon DEF PlannerInv
<1>. QED
  BY <1>1, <1>2, <1>3, <1>4, <1>5, <1>6, Zenon DEF Planner

LEMMA ControllerStep == ASSUME PlannerInv, NEW k \in Kind, Controller(k) PROVE PlannerInv'
<1>1. CASE Reconcile(k) \/ ApplyObject(k) \/ ApplyFails(k) \/ PatchStatus(k) \/ Requeue(k)
  <2>1. Aside
    BY <1>1, ZenonT(30) DEF Reconcile, ApplyObject, ApplyFails, PatchStatus, Requeue, Planning, Aside
  <2>. QED
    BY <2>1, AsideKeeps, Zenon
<1>2. ASSUME NEW version \in Replicas, NEW metrics \in BOOLEAN, EditSpec(k, version, metrics)
      PROVE  PlannerInv'
  <2>1. /\ spec' = [spec EXCEPT ![k] = [version |-> version, metrics |-> metrics]]
        /\ UNCHANGED <<slo, queued, planner, cooling, plan, scales>>
    BY <1>2, Zenon DEF EditSpec, Planning
  <2>2. PICK s \in [version : Nat, metrics : BOOLEAN] : s = [version |-> version, metrics |-> metrics]
    BY OperatorConstants, ZenonT(30)
  <2>3. spec' \in [Kind -> [version : Nat, metrics : BOOLEAN]]
    BY <2>1, <2>2, Zenon DEF PlannerInv
  <2>. QED
    BY <2>1, <2>3, PlansKept, Zenon DEF PlannerInv
<1>. QED
  BY <1>1, <1>2, Zenon DEF Controller

LEMMA PlannerInvNext == PlannerInv /\ [OperatorNext]_everything => PlannerInv'
<1>. SUFFICES ASSUME PlannerInv, [OperatorNext]_everything PROVE PlannerInv'
  BY Zenon
<1>1. ASSUME NEW k \in Kind, Controller(k) PROVE PlannerInv'
  BY <1>1, ControllerStep
<1>2. CASE Planner
  BY <1>2, PlannerStep
<1>3. CASE CordonLoop \/ UNCHANGED everything
  <2>1. Aside
    BY <1>3, Zenon DEF CordonLoop, InCordons, operatorVars, everything, Aside
  <2>. QED
    BY <2>1, AsideKeeps, Zenon
<1>4. CASE OperatorRestarts
  <2>1. UNCHANGED <<slo, spec, queued, plan>> /\ scales' = 0
    BY <1>4, Zenon DEF OperatorRestarts
  <2>2. planner'.current \in Nat /\ planner'.total \in Nat
    BY <1>4 DEF OperatorRestarts, Asleep
  <2>3. scales' # 1
    BY <2>1
  <2>. QED
    BY <2>1, <2>2, <2>3, PlansKept, Zenon DEF PlannerInv
<1>. QED
  BY <1>1, <1>2, <1>3, <1>4 DEF OperatorNext

LEMMA PlannerInvInit == OperatorInit => PlannerInv
<1>. SUFFICES ASSUME OperatorInit PROVE PlannerInv
  BY Zenon
<1>1. slo.perReplica \in Nat /\ slo.min \in Nat /\ slo.max \subseteq Nat
  BY OperatorConstants DEF OperatorInit
<1>2. spec \in [Kind -> [version : Nat, metrics : BOOLEAN]]
  BY Zenon DEF OperatorInit
<1>3. queued = 0 /\ planner = Asleep /\ cooling = FALSE /\ plan = <<>> /\ scales = 0
  BY Zenon DEF OperatorInit
<1>4. planner.current \in Nat /\ planner.total \in Nat
  BY <1>3 DEF Asleep
<1>5. queued \in Nat /\ DOMAIN plan = {} /\ scales # 1
  BY <1>3
<1>. QED
  BY <1>1, <1>2, <1>3, <1>4, <1>5, Zenon DEF PlannerInv

\* planner.rs: every scale the planner makes leaves no replica above the queue
\* limit unless the pool is at its ceiling and no replica more than needed unless
\* it is at its floor, and a cooldown passes between two scales.
THEOREM PlansFit == OperatorSpec => []PlanFitsQueue
<1>1. ASSUME PlannerInv PROVE PlanFitsQueue
  <2>1. scales <= 1
    BY <1>1 DEF PlannerInv
  <2>2. \A i \in DOMAIN plan : Fitting(plan[i])
    BY <1>1, Zenon DEF PlannerInv
  <2>. QED
    BY <2>1, <2>2, Zenon DEF PlanFitsQueue, Fitting, Fits
<1>. QED
  BY <1>1, PlannerInvInit, PlannerInvNext, PTL DEF OperatorSpec

=============================================================================
