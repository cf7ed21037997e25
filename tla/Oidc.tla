-------------------------------- MODULE Oidc --------------------------------
(***************************************************************************)
(* Bearer tokens checked against the identity provider's published keys.   *)
(* The provider (external) publishes a set of kids and may rotate it.  The *)
(* verifier caches the set; it refetches when the cache is empty or over   *)
(* an hour old, and on an unknown kid at most once per 30 s.  A fetch has  *)
(* two moments: the provider answers, the verifier stores the answer; of   *)
(* two concurrent fetches either may be stored last.                       *)
(***************************************************************************)
EXTENDS Naturals, FiniteSets

CONSTANTS Caller,       \* concurrent calls of verify
          Kid           \* key ids; a token that is no JWT has none of them

VARIABLES
    idp,            \* kids the provider publishes
    jwks,           \* kids in the cache
    age,            \* time since `refresh`: fresh (< 30 s), cooled, stale (> 1 h)
    call,           \* per caller: [pc, kid, answer]
    missFetches     \* fetches for an unknown kid since the last cooldown ran out

oidcVars == <<idp, jwks, age, call, missFetches>>

Quiet == [pc |-> "none", kid |-> "none", answer |-> {}]

Due == jwks = {} \/ age = "stale"

\* Mutant: the slot is claimed only when the answer is stored.
ClaimedLate == age

\* may_refresh_on_miss: past the cooldown it claims the slot, before the
\* fetch, by setting the refresh time to now.
MayRefreshOnMiss == age # "fresh"

Claimed == "fresh"

\* The part of verify from the kid check on: fetch once more, or look it up.
Decide(c, kid, cache) ==
    IF kid \in Kid \ cache /\ MayRefreshOnMiss
      THEN /\ call' = [call EXCEPT ![c] = [pc |-> "missFetch", kid |-> kid, answer |-> {}]]
           /\ age' = Claimed
           /\ missFetches' = missFetches + 1
      ELSE /\ call' = [call EXCEPT ![c] = [pc |-> IF kid \in cache THEN "good" ELSE "bad",
                                           kid |-> kid, answer |-> {}]]
           /\ UNCHANGED <<age, missFetches>>

Verify(c, kid) ==
    /\ call[c].pc = "none"
    /\ IF Due
         THEN /\ call' = [call EXCEPT ![c] = [pc |-> "dueFetch", kid |-> kid, answer |-> {}]]
              /\ UNCHANGED <<age, missFetches>>
         ELSE Decide(c, kid, jwks)
    /\ UNCHANGED <<idp, jwks>>

\* The provider answers the discovery and key requests.
FetchAnswered(c) ==
    /\ call[c].pc \in {"dueFetch", "missFetch"}
    /\ call' = [call EXCEPT ![c].pc = IF @ = "dueFetch" THEN "dueStore" ELSE "missStore",
                            ![c].answer = idp]
    /\ UNCHANGED <<idp, jwks, age, missFetches>>

\* Unreachable, unparsable, or 5 s without an answer: verify is an error.
FetchFails(c) ==
    /\ call[c].pc \in {"dueFetch", "missFetch"}
    /\ call' = [call EXCEPT ![c].pc = "bad", ![c].answer = {}]
    /\ UNCHANGED <<idp, jwks, age, missFetches>>

\* refresh_jwks replaces the cache and its time, and verify goes on.
FetchStored(c) ==
    /\ call[c].pc \in {"dueStore", "missStore"}
    /\ jwks' = call[c].answer
    /\ age' = "fresh"
    /\ call' = [call EXCEPT ![c].pc = IF call[c].kid \in call[c].answer THEN "good" ELSE "bad",
                            ![c].answer = {}]
    /\ UNCHANGED <<idp, missFetches>>

Rotate(kids) ==
    /\ idp' = kids
    /\ UNCHANGED <<jwks, age, call, missFetches>>

\* Time passes the cooldown, then the hour.
Older ==
    /\ age # "stale"
    /\ age' = IF age = "fresh" THEN "cooled" ELSE "stale"
    /\ missFetches' = 0
    /\ UNCHANGED <<idp, jwks, call>>

\* OidcVerifier::new: an empty cache dated a day back.
NewVerifier ==
    /\ jwks' = {} /\ age' = "stale" /\ missFetches' = 0
    /\ call' = [c \in Caller |-> Quiet]
    /\ UNCHANGED idp

OidcInit ==
    /\ idp \in SUBSET Kid
    /\ jwks = {} /\ age = "stale" /\ missFetches = 0
    /\ call = [c \in Caller |-> Quiet]

(***************************************************************************)
(* An unknown kid makes the verifier ask the provider at most once per     *)
(* cooldown, however many calls meet it at the same time: the slot is      *)
(* claimed before the fetch, not when its answer arrives.                  *)
(***************************************************************************)
MissFetchesLimited == missFetches <= 1
=============================================================================
