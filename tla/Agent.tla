-------------------------------- MODULE Agent --------------------------------
(***************************************************************************)
(* cgn-agent: the supervision of the engine's process group                *)
(* (supervisor.rs), the generations served meanwhile (grpc.rs), and how    *)
(* the agent stops, by SIGTERM (main.rs) or by the Drain RPC (grpc.rs).    *)
(* A process is a member of the group and the round it was spawned in; a   *)
(* handle that is dropped kills its process (kill_on_drop).                *)
(***************************************************************************)
EXTENDS Integers, FiniteSets

CONSTANTS
    Members,       \* pipeline workers, coordinator (and LMCache server)
    Requests,
    MaxRounds,     \* bound on spawns of the group
    MaxDeaths,     \* bound on processes that die by themselves
    MaxFailures,   \* bound on spawns that fail
    DrainCalls,    \* Drain RPCs that may be called
    MayStop,       \* whether SIGTERM may arrive
    MaxBackoff     \* 30 s in the code

ASSUME AgentConstants ==
    /\ IsFiniteSet(Members) /\ Members # {}
    /\ MaxRounds \in Nat \ {0} /\ MaxDeaths \in Nat /\ MaxFailures \in Nat
    /\ MaxBackoff \in Nat \ {0} /\ MayStop \in BOOLEAN
    /\ DrainCalls \cap {"loop", "main"} = {}

Process == Members \X (1 .. MaxRounds)

\* Who kills processes: the supervision loop, a Drain call, main on its way out.
Killers == {"loop", "main"} \cup DrainCalls

VARIABLES
    alive,      \* processes that run
    children,   \* Supervisor.children: handles of the current group
    taken,      \* per killer: handles it took and has not killed yet
    fresh,      \* handles of the group being spawned
    loop,       \* where supervise is
    backoff,
    round,      \* group spawned last
    main,       \* where main is
    rpc,        \* Drain calls: "uncalled", "killing", "answered"
    gen,        \* each generation: "new", "running", "done", "failed", "cut"
    expired,    \* drain_timeout has passed
    owed,       \* generations that ran when the drain began
    deaths, failures

group == <<alive, children, taken, fresh>>
vars == <<group, loop, backoff, round, main, rpc, gen, expired, owed, deaths, failures>>

\* Supervisor::new has spawned the first group.
Init ==
    /\ children = Members \X {1} /\ alive = children
    /\ taken = [k \in Killers |-> {}] /\ fresh = {}
    /\ loop = "watch" /\ backoff = 1 /\ round = 1
    /\ main = "run" /\ rpc = [d \in DrainCalls |-> "uncalled"]
    /\ gen = [r \in Requests |-> "new"]
    /\ expired = FALSE /\ owed = {} /\ deaths = 0 /\ failures = 0

Running == {r \in Requests : gen[r] = "running"}

-----------------------------------------------------------------------------
(* The engine and its clients (external).                                  *)
Die(p) ==
    /\ p \in alive /\ deaths < MaxDeaths
    /\ alive' = alive \ {p} /\ deaths' = deaths + 1
    /\ UNCHANGED <<children, taken, fresh, loop, backoff, round, main, rpc, gen, expired, owed,
                   failures>>

\* Generate takes an InflightGuard and spawns the generation.
Begin(r) ==
    /\ gen[r] = "new" /\ main # "exit"
    /\ gen' = [gen EXCEPT ![r] = "running"]
    /\ UNCHANGED <<group, loop, backoff, round, main, rpc, expired, owed, deaths, failures>>

\* It ends well only while a whole group serves it.
Finish(r) ==
    /\ gen[r] = "running"
    /\ \/ (\E k \in 1 .. MaxRounds : Members \X {k} \subseteq alive)
          /\ gen' = [gen EXCEPT ![r] = "done"]
       \/ ~(children # {} /\ children \subseteq alive)
          /\ gen' = [gen EXCEPT ![r] = "failed"]
    /\ UNCHANGED <<group, loop, backoff, round, main, rpc, expired, owed, deaths, failures>>

-----------------------------------------------------------------------------
(* kill_children: take the handles, then kill one after the other.         *)
Take(k) ==
    /\ taken' = [taken EXCEPT ![k] = children]
    /\ children' = {}

Kill(k) ==
    /\ \E p \in taken[k] :
          /\ alive' = alive \ {p}
          /\ taken' = [taken EXCEPT ![k] = @ \ {p}]
    /\ UNCHANGED <<children, fresh, loop, backoff, round, main, rpc, gen, expired, owed,
                   deaths, failures>>

\* Mutant: the group counts as whole while any member runs.
WatchLast ==
    /\ loop = "watch" /\ children # {}
    /\ IF children \cap alive # {}
         THEN backoff' = 1 /\ loop' = loop
         ELSE loop' = "died" /\ backoff' = backoff
    /\ UNCHANGED <<group, round, main, rpc, gen, expired, owed, deaths, failures>>

\* supervise, once per second: a group without members is not watched; a whole
\* one resets the backoff; otherwise the group is restarted.
Watch ==
    /\ loop = "watch" /\ children # {}
    /\ IF children \subseteq alive
         THEN backoff' = 1 /\ loop' = loop
         ELSE loop' = "died" /\ backoff' = backoff
    /\ UNCHANGED <<group, round, main, rpc, gen, expired, owed, deaths, failures>>

LoopTake ==
    /\ loop = "died" /\ loop' = "kill"
    /\ Take("loop")
    /\ UNCHANGED <<alive, fresh, backoff, round, main, rpc, gen, expired, owed, deaths, failures>>

\* Mutant: the survivors are not waited for.
LoopHurries ==
    /\ loop = "kill" /\ round < MaxRounds
    /\ loop' = "spawn" /\ round' = round + 1
    /\ backoff' = IF 2 * backoff < MaxBackoff THEN 2 * backoff ELSE MaxBackoff
    /\ UNCHANGED <<group, main, rpc, gen, expired, owed, deaths, failures>>

\* Sleep for the backoff, then double it.
LoopPause ==
    /\ loop = "kill" /\ taken["loop"] = {} /\ round < MaxRounds
    /\ loop' = "spawn" /\ round' = round + 1
    /\ backoff' = IF 2 * backoff < MaxBackoff THEN 2 * backoff ELSE MaxBackoff
    /\ UNCHANGED <<group, main, rpc, gen, expired, owed, deaths, failures>>

Spawn(m) ==
    /\ loop = "spawn" /\ <<m, round>> \notin fresh
    /\ fresh' = fresh \cup {<<m, round>>}
    /\ alive' = alive \cup {<<m, round>>}
    /\ UNCHANGED <<children, taken, loop, backoff, round, main, rpc, gen, expired, owed,
                   deaths, failures>>

\* A spawn that fails drops the handles of the members spawned before it.
SpawnFails ==
    /\ loop = "spawn" /\ failures < MaxFailures /\ Cardinality(fresh) < Cardinality(Members)
    /\ failures' = failures + 1
    /\ alive' = alive \ fresh /\ fresh' = {}
    /\ loop' = "watch"
    /\ UNCHANGED <<children, taken, backoff, round, main, rpc, gen, expired, owed, deaths>>

\* The new group replaces the handles held, which are dropped.
Install ==
    /\ loop = "spawn" /\ fresh = Members \X {round}
    /\ alive' = alive \ children
    /\ children' = fresh /\ fresh' = {}
    /\ loop' = "watch"
    /\ UNCHANGED <<taken, backoff, round, main, rpc, gen, expired, owed, deaths, failures>>

Supervise == Watch \/ LoopTake \/ Kill("loop") \/ LoopPause \/ SpawnFails \/ Install
                \/ \E m \in Members : Spawn(m)

-----------------------------------------------------------------------------
\* Agent.Drain: Supervisor::shutdown, which kills the group, then an answer.
DrainRpc(d) ==
    /\ rpc[d] = "uncalled" /\ main # "exit"
    /\ rpc' = [rpc EXCEPT ![d] = "killing"]
    /\ Take(d)
    /\ gen' = [r \in Requests |-> IF gen[r] = "running" /\ children # {} THEN "cut" ELSE gen[r]]
    /\ UNCHANGED <<alive, fresh, loop, backoff, round, main, expired, owed, deaths, failures>>

DrainAnswer(d) ==
    /\ rpc[d] = "killing" /\ taken[d] = {}
    /\ rpc' = [rpc EXCEPT ![d] = "answered"]
    /\ UNCHANGED <<group, loop, backoff, round, main, gen, expired, owed, deaths, failures>>

\* SIGTERM: the select drops the supervise future (and the handles it holds);
\* the drain is advertised.
Sigterm ==
    /\ MayStop /\ main = "run"
    /\ main' = "drain" /\ owed' = Running
    /\ loop' = "off"
    /\ alive' = alive \ (taken["loop"] \cup fresh)
    /\ taken' = [taken EXCEPT !["loop"] = {}] /\ fresh' = {}
    /\ UNCHANGED <<children, backoff, round, rpc, gen, expired, deaths, failures>>

Expire ==
    /\ main = "drain" /\ ~expired
    /\ expired' = TRUE
    /\ UNCHANGED <<group, loop, backoff, round, main, rpc, gen, owed, deaths, failures>>

\* Mutants: drain does not wait; drain has no deadline.
DrainedAtOnce ==
    /\ main = "drain" /\ main' = "take"
    /\ UNCHANGED <<group, loop, backoff, round, rpc, gen, expired, owed, deaths, failures>>
DrainedNoDeadline ==
    /\ main = "drain" /\ Running = {}
    /\ main' = "take"
    /\ UNCHANGED <<group, loop, backoff, round, rpc, gen, expired, owed, deaths, failures>>

\* drain returns when it reads a count of zero, or at the deadline.
Drained ==
    /\ main = "drain" /\ (Running = {} \/ expired)
    /\ main' = "take"
    /\ UNCHANGED <<group, loop, backoff, round, rpc, gen, expired, owed, deaths, failures>>

\* Supervisor::shutdown cuts what still runs.
Shutdown ==
    /\ main = "take" /\ main' = "kill"
    /\ Take("main")
    /\ gen' = [r \in Requests |-> IF gen[r] = "running" THEN "cut" ELSE gen[r]]
    /\ UNCHANGED <<alive, fresh, loop, backoff, round, rpc, expired, owed, deaths, failures>>

\* main returns: every handle left, and every task, is dropped.
Exit ==
    /\ main = "kill" /\ taken["main"] = {}
    /\ main' = "exit"
    /\ alive' = {} /\ taken' = [k \in Killers |-> {}]
    /\ gen' = [r \in Requests |-> IF gen[r] = "running" THEN "cut" ELSE gen[r]]
    /\ rpc' = [d \in DrainCalls |-> IF rpc[d] = "killing" THEN "answered" ELSE rpc[d]]
    /\ UNCHANGED <<children, fresh, loop, backoff, round, expired, owed, deaths, failures>>

Stop == Sigterm \/ Drained \/ Shutdown \/ Kill("main") \/ Exit

Next ==
    \/ Supervise \/ Stop \/ Expire
    \/ \E p \in Process : Die(p)
    \/ \E r \in Requests : Begin(r) \/ Finish(r)
    \/ \E d \in DrainCalls : DrainRpc(d) \/ Kill(d) \/ DrainAnswer(d)

Spec == Init /\ [][Next]_vars

LiveSpec ==
    /\ Spec /\ WF_vars(Supervise)
    /\ WF_vars(Drained \/ Shutdown \/ Kill("main") \/ Exit) /\ WF_vars(Expire)
    /\ \A d \in DrainCalls : WF_vars(Kill(d) \/ DrainAnswer(d))

-----------------------------------------------------------------------------
NoDrainCall == \A d \in DrainCalls : rpc[d] = "uncalled"
Whole == children # {} /\ children \subseteq alive

\* Every engine process that runs is held by some handle, so that the agent can
\* still kill it: a spawn that fails half way, a restart, a Drain call during
\* either, or a stop orphans none.  And "the whole group is killed and respawned
\* when any member dies, since surviving members hold KV state that is
\* inconsistent with a fresh peer": unless a Drain call meddles, processes of two
\* rounds never run at the same time.
GroupHeld ==
    /\ alive \subseteq children \cup fresh \cup UNION {taken[k] : k \in Killers}
    /\ NoDrainCall => \A p, q \in alive : p[2] = q[2]

\* A generation that ran when SIGTERM arrived is cut only after drain_timeout,
\* unless a Drain call takes its engine away.
DrainWaits == NoDrainCall => \A r \in owed : gen[r] = "cut" => expired

\* While nobody stops or drains the agent and no spawn fails, an engine whose
\* members die comes back as a whole group, for good once they stop dying.
EngineRecovers == [](main = "run" /\ NoDrainCall /\ failures = 0) => <>[]Whole

\* An agent told to stop does stop, with no engine process left behind, though
\* generations may never end and Drain calls may be under way.
Stops == main = "drain" ~> (main = "exit" /\ alive = {})

=============================================================================
