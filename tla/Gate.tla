-------------------------------- MODULE Gate --------------------------------
(***************************************************************************)
(* What a request passes before it is routed, and who pays for it:         *)
(* authentication (ApiKeys, Oidc), the rate limiter's bucket, the scope,   *)
(* model and token limits of authorize, the grid's intensity (Carbon), the *)
(* usage ledger, its file, and the router's shutdown, crash and restart    *)
(* around them.                                                            *)
(*                                                                         *)
(* Every await of a request is a step boundary: the fetches of verify, the *)
(* body read between the middlewares and the handler, the model's answer.  *)
(***************************************************************************)
EXTENDS ApiKeys, Oidc, Carbon, Integers, FiniteSetsExt

CONSTANTS
    Ip, Proxies,        \* addresses; those [router.rate_limit].trusted_proxies lists
    Budget, Tpm,        \* the numbers of the "budget" and "tpm" scopes
    MaxCost,            \* most tokens one answer is charged
    Config              \* the [auth] settings considered, each with the bounds on
                        \* requests (arrivals) and on everything else (events)

ASSUME GateConstants ==
    /\ Budget \in Nat \ {0} /\ Tpm \in Nat \ {0} /\ MaxCost \in Nat
    /\ IsFiniteSet(Caller)         \* requests in flight
    /\ Proxies \subseteq Ip        \* trusted_proxies is a list of parsed addresses
    /\ "none" \notin Key \cup Kid  \* stands for the absence of a principal

VARIABLES
    config,             \* [auth]: enabled, api_keys_file, oidc_issuer, usage_file set?
                        \* and [carbon].enabled
    request,            \* Caller -> the request in that slot
    arrivals,           \* requests still to come
    ledger,             \* UsageLedger: subject -> [total, minute, window]
    phase,              \* main: "up", "draining", "final", "down"
    persister,          \* "tick" and "final": [pc, snap, at]
    tmp, usageFile,     \* the two files: a snapshot, Torn or NoFile
    uncapped            \* subjects ever admitted without a limit to check

gateVars == <<config, request, arrivals, ledger, phase, persister,
              tmp, usageFile, uncapped>>
vars == <<keyVars, oidcVars, carbonVars, gateVars>>

Free == [pc |-> "free", subject |-> "none", scopes |-> <<>>, bucket |-> "none",
         from |-> "none", peer |-> "none", xff |-> <<>>]

Torn == [total |-> "torn"]
NoFile == [total |-> "absent"]

---------------------------------------------------------------------------
(* Rate limiter. *)

IsTrusted(ip) == ip \in Proxies

\* The header's hops, the last one first.
Backwards(xff) == [i \in 1 .. Len(xff) |-> xff[Len(xff) - i + 1]]

\* client_ip walks from the socket peer through X-Forwarded-For, right to
\* left: on while the hop is a trusted proxy and the next one parses.
ClientIp(peer, xff) ==
    LET hops == <<peer>> \o Backwards(xff)
        Passes(i) == IsTrusted(hops[i]) /\ i < Len(hops) /\ hops[i + 1] \in Ip
    IN  hops[CHOOSE i \in DOMAIN hops : ~Passes(i) /\ \A j \in 1 .. i - 1 : Passes(j)]

KeyFor(subject, peer, xff) ==
    IF subject = "none" THEN ClientIp(peer, xff) ELSE subject

\* RateLimit::check asks the token bucket of the governor crate, which lets
\* the request pass or does not.
RateCheck(k) == BOOLEAN

---------------------------------------------------------------------------
(* Usage ledger. *)

HasScope(scopes, s) == \E i \in DOMAIN scopes : scopes[i] \in {s, "*"}

Limited(scopes) == {"budget", "tpm"} \cap Range(scopes)

\* Mutant: a spent limit still lets one request through.
CheckAtLate(subject, scopes) ==
    subject \in DOMAIN ledger =>
      /\ "budget" \in Range(scopes) => ledger[subject].total <= Budget
      /\ "tpm" \in Range(scopes) =>
           ~(ledger[subject].minute = "now" /\ ledger[subject].window >= Tpm)

\* check_at: refused once the total, or this minute's window, is spent.
CheckAt(subject, scopes) ==
    subject \in DOMAIN ledger =>
      /\ "budget" \in Range(scopes) => ledger[subject].total < Budget
      /\ "tpm" \in Range(scopes) =>
           ~(ledger[subject].minute = "now" /\ ledger[subject].window >= Tpm)

NoEntry == [total |-> 0, minute |-> "past", window |-> 0]

EntryOf(subject) == IF subject \in DOMAIN ledger THEN ledger[subject] ELSE NoEntry

ChargeAt(subject, tokens) ==
    [s \in DOMAIN ledger \cup {subject} |->
       IF s # subject THEN ledger[s]
       ELSE LET e == EntryOf(s)
            IN  [total |-> e.total + tokens, minute |-> "now",
                 window |-> IF e.minute = "now" THEN e.window + tokens ELSE tokens]]

\* The clock enters the next minute: every window is of a past one.
NextMinute ==
    /\ Event
    /\ ledger' = [s \in DOMAIN ledger |->
                    [ledger[s] EXCEPT !.minute = "past", !.window = 0]]
    /\ UNCHANGED <<storeVars, oidcVars, carbonVars, config, request,
                   arrivals, phase, persister, tmp, usageFile, uncapped>>
---------------------------------------------------------------------------
(* A request's way through the gateway. *)

\* ratelimit_middleware, then the handler's wait for the body.
Limit(c, r) ==
    LET k == KeyFor(r.subject, r.peer, r.xff) IN
    \E pass \in RateCheck(k) :
      request' = [request EXCEPT ![c] =
                    IF pass THEN [r EXCEPT !.pc = "body", !.bucket = k] ELSE Free]

\* A request from `from`, directly or through a proxy that appends the
\* address; what is left of that is the client's to choose.
Incoming(from, via, forged) ==
    [pc |-> "free", subject |-> "none", scopes |-> <<>>, bucket |-> "none", from |-> from,
     peer |-> IF via = "direct" THEN from ELSE via,
     xff  |-> IF via = "direct" THEN forged ELSE Append(forged, from)]

Arrival ==
    /\ phase = "up" /\ arrivals > 0
    /\ arrivals' = arrivals - 1
    /\ UNCHANGED <<keyVars, carbonVars, config, ledger, phase, persister, tmp, usageFile, uncapped>>

\* [auth].enabled = false: no middleware, no principal.
ArriveOpen(c, r) ==
    /\ ~config.enabled /\ request[c] = Free /\ Arrival
    /\ Limit(c, r)
    /\ UNCHANGED oidcVars

\* auth_middleware: a known API key, else the token is verified, else 401.
Authenticate(c, r, token) ==
    /\ config.enabled /\ request[c] = Free /\ Arrival
    /\ \/ /\ token \in DOMAIN keyStore
          /\ Limit(c, [r EXCEPT !.subject = token, !.scopes = keyStore[token]])
          /\ UNCHANGED oidcVars
       \/ /\ token \notin DOMAIN keyStore /\ config.oidc
          /\ request' = [request EXCEPT ![c] = [r EXCEPT !.pc = "verify"]]
          /\ Verify(c, token)
       \/ /\ token \notin DOMAIN keyStore /\ ~config.oidc
          /\ UNCHANGED <<request, oidcVars>>

Verifying(c) ==
    /\ FetchAnswered(c) \/ FetchFails(c) \/ FetchStored(c)
    /\ UNCHANGED <<keyVars, carbonVars, gateVars>>

\* verify returned: a principal with the scopes its groups map to, or 401.
Verified(c) ==
    /\ call[c].pc \in {"good", "bad"}
    /\ IF call[c].pc = "good"
         THEN Limit(c, [request[c] EXCEPT !.subject = "oidc", !.scopes = <<"chat">>])
         ELSE request' = [request EXCEPT ![c] = Free]
    /\ call' = [call EXCEPT ![c] = Quiet]
    /\ UNCHANGED <<keyVars, idp, jwks, age, missFetches, carbonVars, config, arrivals, ledger,
                   phase,
                   persister, tmp, usageFile, uncapped>>

\* allows_model: no model scope means any model.
AllowsModel(scopes, model) ==
    \/ Range(scopes) \cap {"a", "b"} = {}
    \/ model \in Range(scopes)
    \/ HasScope(scopes, "*")

\* authorize, once the body names the model; without a principal it grants
\* everything and bills nobody.
Granted(r, model) ==
    \/ r.subject = "none"
    \/ /\ HasScope(r.scopes, "chat")
       /\ AllowsModel(r.scopes, model)
       /\ CheckAt(r.subject, r.scopes)

\* authorize, then serve's look at the grid, with nothing awaited in between.
Authorize(c, model, priority) ==
    LET r == request[c]
        granted == Granted(r, model) /\ (config.carbon => CheckAdmission(priority))
    IN  /\ r.pc = "body"
        /\ request' = [request EXCEPT ![c] = IF granted THEN [r EXCEPT !.pc = "serving"] ELSE Free]
        /\ uncapped' = IF granted /\ Limited(r.scopes) # {"budget", "tpm"}
                         THEN uncapped \cup {r.subject} ELSE uncapped
        /\ UNCHANGED <<keyVars, oidcVars, carbonVars, config, arrivals, ledger, phase, persister,
                       tmp, usageFile>>

\* The answer is complete: what the engine reported is charged.
Answered(c, tokens) ==
    /\ request[c].pc = "serving"
    /\ ledger' = IF request[c].subject = "none" THEN ledger
                 ELSE ChargeAt(request[c].subject, tokens)
    /\ request' = [request EXCEPT ![c] = Free]
    /\ UNCHANGED <<keyVars, oidcVars, carbonVars, config, arrivals, phase, persister, tmp,
                   usageFile, uncapped>>

\* The request fails before the engine reports anything.
Failed(c) ==
    /\ request[c].pc \in {"body", "serving"}
    /\ request' = [request EXCEPT ![c] = Free]
    /\ UNCHANGED <<keyVars, oidcVars, carbonVars, config, arrivals, ledger, phase, persister, tmp,
                   usageFile, uncapped>>
---------------------------------------------------------------------------
(* The usage file.  persist runs on the 30 s tick and once more when main  *)
(* ends; both write the same tmp file.  fs::write opens with truncation    *)
(* and then writes, so the file is torn in between; a rename moves the     *)
(* file under the feet of a writer that has it open.                       *)

Idle == [pc |-> "idle", snap |-> NoFile, at |-> "none"]

Snapshot == [s \in DOMAIN ledger |-> ledger[s].total]

Persisting(p) == UNCHANGED <<keyVars, oidcVars, carbonVars, config, request, arrivals, ledger,
                             phase, uncapped>>

PersistSnaps(p) ==
    /\ config.usage
    /\ persister[p].pc = "idle" /\ phase # "down"
    /\ p = "final" => phase = "final"
    /\ persister' = [persister EXCEPT ![p] = [pc |-> "snapped", snap |-> Snapshot, at |-> "none"]]
    /\ UNCHANGED <<tmp, usageFile>>
    /\ Persisting(p)

PersistOpens(p) ==
    /\ persister[p].pc = "snapped"
    /\ tmp' = Torn
    /\ persister' = [persister EXCEPT ![p] = [pc |-> "opened", snap |-> @.snap, at |-> "tmp"]]
    /\ UNCHANGED usageFile
    /\ Persisting(p)

\* Over what another writer has put there, a shorter text leaves a torn end.
Content(p, old) == IF old = Torn THEN {persister[p].snap} ELSE {persister[p].snap, Torn}

PersistWrites(p) ==
    /\ persister[p].pc = "opened"
    /\ IF persister[p].at = "tmp" THEN tmp' \in Content(p, tmp) ELSE UNCHANGED tmp
    /\ IF persister[p].at = "path" THEN usageFile' \in Content(p, usageFile)
                                  ELSE UNCHANGED usageFile
    /\ persister' = [persister EXCEPT ![p] = [@ EXCEPT !.pc = "written"]]
    /\ Persisting(p)

Done(p) == [Idle EXCEPT !.pc = IF p = "final" THEN "done" ELSE "idle"]

Moved(at) == CASE at = "tmp" -> "path" [] at = "path" -> "gone" [] OTHER -> at

PersistRenames(p) ==
    /\ persister[p].pc = "written"
    /\ IF tmp = NoFile
         THEN /\ persister' = [persister EXCEPT ![p] = Done(p)]
              /\ UNCHANGED <<tmp, usageFile>>
         ELSE /\ usageFile' = tmp /\ tmp' = NoFile
              /\ persister' = [q \in DOMAIN persister |->
                                 IF q = p THEN Done(p)
                                 ELSE [persister[q] EXCEPT !.at = Moved(@)]]
    /\ Persisting(p)

\* An I/O error: the totals stay where they were, a tmp file may be left.
PersistFails(p) ==
    /\ persister[p].pc \in {"snapped", "opened"}
    /\ Event
    /\ persister' = [persister EXCEPT ![p] = Done(p)]
    /\ UNCHANGED <<tmp, usageFile, storeVars, oidcVars, carbonVars, config,
                   request, arrivals, ledger, phase, uncapped>>

---------------------------------------------------------------------------
(* main: serve, drain, exit; a crash; a restart. *)

MainStep == UNCHANGED <<keyVars, oidcVars, carbonVars, config, request, arrivals, ledger, persister,
                        tmp, usageFile, uncapped>>

\* SIGTERM: readiness fails and the listener takes no more connections.
Signalled ==
    /\ phase = "up"
    /\ phase' = "draining"
    /\ MainStep

\* A server task ends on its own: main goes on to the last persist.
ServerExits ==
    /\ phase = "up" /\ Event
    /\ phase' = "final"
    /\ UNCHANGED <<storeVars, oidcVars, carbonVars, config, request,
                   arrivals, ledger, persister, tmp, usageFile, uncapped>>

Drained ==
    /\ phase = "draining" /\ \A c \in Caller : request[c] = Free
    /\ phase' = "final"
    /\ MainStep

\* Mutant: the drain waits for the streams, however long.
NoDrainTimeout ==
    /\ phase = "draining" /\ \A c \in Caller : request[c] = Free
    /\ phase' = "final"
    /\ MainStep

DrainTimeout ==
    /\ phase = "draining"
    /\ phase' = "final"
    /\ MainStep

Stopped ==
    /\ phase' = "down"
    /\ request' = [c \in Caller |-> Free]
    /\ ledger' = <<>> /\ keyStore' = NoStore
    /\ persister' = [p \in DOMAIN persister |-> Idle]
    /\ NewVerifier /\ NewTracker
    /\ UNCHANGED <<keyFile, editor, issued, revoked, config, arrivals, tmp, usageFile, uncapped>>

\* main returns; the runtime waits for a tick's persist, which never yields.
Exit ==
    /\ phase = "final"
    /\ config.usage => persister["final"].pc = "done" /\ persister["tick"].pc = "idle"
    /\ Stopped
    /\ UNCHANGED events

Crash ==
    /\ phase # "down" /\ Event
    /\ Stopped

\* Mutant: a restart that starts counting from nothing.
OpenEmpty == <<>>

\* UsageLedger::open restores the totals; minutes start over.
Open ==
    IF usageFile = NoFile THEN <<>>
    ELSE [s \in DOMAIN usageFile |-> [NoEntry EXCEPT !.total = usageFile[s]]]

\* A torn usage file is a startup error; an unreadable key file is not.
Restart ==
    /\ phase = "down" /\ usageFile # Torn
    /\ phase' = "up"
    /\ ledger' = Open
    /\ IF config.keys THEN keyStore' \in FromFile ELSE UNCHANGED keyStore
    /\ UNCHANGED <<keyFile, editor, issued, revoked, events, oidcVars, carbonVars, config,
                   request, arrivals, persister, tmp, usageFile, uncapped>>

---------------------------------------------------------------------------

Init ==
    /\ config \in Config
    /\ KeyInit /\ OidcInit
    /\ IF config.keys THEN keyStore \in FromFile ELSE keyFile = EmptyFile /\ keyStore = NoStore
    /\ config.oidc \/ idp = {}
    /\ CarbonInit /\ (config.carbon \/ grid = "low")
    /\ request = [c \in Caller |-> Free]
    /\ arrivals = config.arrivals /\ events = config.events
    /\ ledger = <<>>
    /\ phase = "up"
    /\ persister = [p \in {"tick", "final"} |-> Idle]
    /\ tmp = NoFile /\ usageFile = NoFile
    /\ uncapped = {}

\* The key file's other users: the tool and the 15 s reload.
KeyStep ==
    /\ config.keys
    /\ Edit \/ (phase # "down" /\ (Reload \/ ReloadFails))
    /\ UNCHANGED <<oidcVars, carbonVars, gateVars>>

\* The provider rotates its keys; time passes.
ProviderStep ==
    \/ /\ config.oidc /\ Event
       /\ \E kids \in SUBSET Kid : Rotate(kids)
       /\ UNCHANGED <<storeVars, carbonVars, gateVars>>
    \/ config.oidc /\ phase # "down" /\ Older /\ UNCHANGED <<keyVars, carbonVars, gateVars>>

\* The poller's loop.
Poll ==
    /\ config.carbon /\ phase # "down"
    /\ Fetch \/ Store
    /\ UNCHANGED <<keyVars, oidcVars, gateVars>>

\* The grid.
CarbonStep ==
    /\ config.carbon
    /\ Event /\ Shifts
    /\ UNCHANGED <<storeVars, oidcVars, gateVars>>

Arrive(c) ==
    \E from \in Ip \ Proxies, via \in Proxies \cup {"direct"},
       forged \in {<<>>} \cup {<<h>> : h \in Ip \cup {"junk"}} :
      LET r == Incoming(from, via, forged) IN
      \/ ArriveOpen(c, r)
      \/ forged = <<>> /\ via = "direct" /\ \E token \in Key \cup Kid : Authenticate(c, r, token)

RequestStep(c) ==
    \/ Arrive(c) \/ Verifying(c) \/ Verified(c)
    \/ \E model \in {"a", "b"}, priority \in Priority : Authorize(c, model, priority)
    \/ \E tokens \in 1..MaxCost : Answered(c, tokens)
    \/ Failed(c)

PersistStep(p) ==
    \/ PersistSnaps(p) \/ PersistOpens(p) \/ PersistWrites(p)
    \/ PersistRenames(p) \/ PersistFails(p)

Next ==
    \/ KeyStep \/ ProviderStep \/ CarbonStep \/ Poll
    \/ NextMinute
    \/ \E c \in Caller : RequestStep(c)
    \/ \E p \in DOMAIN persister : PersistStep(p)
    \/ Signalled \/ ServerExits \/ Drained \/ DrainTimeout \/ Exit \/ Crash \/ Restart

Spec == Init /\ [][Next]_vars

\* The reload timer keeps ticking, main and a running persist keep running,
\* the drain's timer fires, a running command goes on, and a poll of the grid
\* succeeds now and then; no request need ever be answered.
Fairness ==
    /\ WF_vars(/\ config.keys /\ phase # "down" /\ Reload
               /\ UNCHANGED <<oidcVars, carbonVars, gateVars>>)
    /\ WF_vars(Drained \/ DrainTimeout) /\ SF_vars(Exit)
    /\ \A p \in {"tick", "final"} :
         WF_vars(PersistOpens(p) \/ PersistWrites(p) \/ PersistRenames(p))
    /\ WF_vars(PersistSnaps("final")) /\ WF_vars(Poll)

LiveSpec == Spec /\ Fairness
---------------------------------------------------------------------------

Serving(subject) == {c \in Caller : request[c].pc = "serving" /\ request[c].subject = subject}

(***************************************************************************)
(* A limit is overshot by what is in flight and by no more: the ledger,    *)
(* plus the most the requests being served may still be charged, stays     *)
(* under the limit by one less than itself plus one answer per slot.  The  *)
(* check reads what is already spent, so requests admitted together all    *)
(* pass it.  Keys whose limits the key file lost are set aside.  And a     *)
(* request draws on the bucket of whoever sent it: its principal, or       *)
(* without one the address the trusted proxies saw, whatever else the      *)
(* client wrote into X-Forwarded-For.                                      *)
(***************************************************************************)
LimitsOvershootBounded ==
  /\ \A c \in Caller : request[c].pc \in {"body", "serving"} =>
       request[c].bucket = IF config.enabled THEN request[c].subject ELSE request[c].from
  /\ \A s \in DOMAIN ledger \ uncapped :
      LET most == MaxCost * Cardinality(Caller)
          due == MaxCost * Cardinality(Serving(s))
      IN  /\ ledger[s].total + due <= Budget - 1 + most
          /\ ledger[s].window + due <= Tpm - 1 + most

(***************************************************************************)
(* The running ledger is never below what its file records: totals survive *)
(* a restart, and no interleaving of the two persists saves a total that   *)
(* was not reached.                                                        *)
(***************************************************************************)
LedgerCoversFile ==
    (phase # "down" /\ usageFile \notin {Torn, NoFile}) =>
      \A s \in DOMAIN usageFile :
        s \in DOMAIN ledger /\ usageFile[s] <= ledger[s].total

(***************************************************************************)
(* A key `cgn-ctl key revoke` took out of the file is refused from some    *)
(* reload on, for ever, across failed reloads, later edits and restarts.   *)
(***************************************************************************)
RevokedKeyStops ==
    \A k \in Key : (k \in revoked) ~> [](k \notin DOMAIN keyStore)

(***************************************************************************)
(* A router told to stop stops, though a stream may never end.             *)
(***************************************************************************)
DrainEnds == (phase = "draining") ~> (phase = "down")

(***************************************************************************)
(* Once the grid is below the threshold for good, requests of low priority *)
(* are let through for good: no reading that was on its way, no failed     *)
(* poll and no crash keeps the gate shut.                                  *)
(***************************************************************************)
CarbonGateReopens == <>[](grid = "low") => <>[]CheckAdmission("low")
=============================================================================
