------------------------------- MODULE MCGate -------------------------------
\* Two request slots; one key with both limits, one bound to a model; one
\* client address and one trusted proxy; two kids.  The settings, each with
\* room for what it is about: no auth; a key file that is edited; keys whose
\* limits are spent; a usage file; OIDC with a rotation, and with three tokens;
\* carbon-aware admission.
EXTENDS Gate, TLC

MCKeyScopes == ("k1" :> <<"chat", "tpm", "budget">>) @@ ("k2" :> <<"chat", "a">>)

Off == [enabled |-> FALSE, keys |-> FALSE, oidc |-> FALSE, usage |-> FALSE,
        carbon |-> FALSE,
        events |-> 0, arrivals |-> 1]
Keys == [Off EXCEPT !.enabled = TRUE, !.keys = TRUE]

MCConfig ==
    {Off,
     [Keys EXCEPT !.events = 4],
     [Keys EXCEPT !.events = 1, !.arrivals = 4],
     [Keys EXCEPT !.usage = TRUE, !.events = 1],
     [Off EXCEPT !.enabled = TRUE, !.oidc = TRUE, !.events = 1, !.arrivals = 2],
     [Off EXCEPT !.enabled = TRUE, !.oidc = TRUE, !.arrivals = 3],
     [Off EXCEPT !.carbon = TRUE, !.events = 3]}
=============================================================================
