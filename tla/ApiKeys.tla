------------------------------ MODULE ApiKeys ------------------------------
(***************************************************************************)
(* The API key file: `cgn-ctl key create | revoke | lock` edit it, the     *)
(* router re-reads it every 15 s and answers from its last good parse.     *)
(* A digest and the key it is the digest of are one value, the key; a line *)
(* holds it in the clear (plain) or hashed.  The tool writes with          *)
(* fs::write, which truncates and then writes: two steps, and a reload may *)
(* fall between them.  A file whose last line lacks its newline is not     *)
(* `ended`; what is appended to it lands on that line.                     *)
(***************************************************************************)
EXTENDS Integers, Sequences, FiniteSets, Functions

CONSTANTS
    Key,            \* API keys
    KeyScopes       \* the scopes `key create` is given, a sequence per key

VARIABLES
    keyFile,        \* [lines, ended] on disk
    editor,         \* the running cgn-ctl command, <<>> when none
    keyStore,       \* ApiKeyStore: key -> scopes, as of the last good parse; or NoStore
    issued,         \* keys ever created
    revoked,        \* keys whose line a finished `key revoke` left out
    events          \* edits, faults, restarts and rotations still to come: a bound

storeVars == <<keyFile, editor, keyStore, issued, revoked>>
keyVars == <<storeVars, events>>

Event == events > 0 /\ events' = events - 1

Line(k, plain) == [key |-> k, plain |-> plain, scopes |-> KeyScopes[k]]

EmptyFile == [lines |-> <<>>, ended |-> TRUE]

\* parse: one entry per line, a later line for the same key wins.
Parse(f) ==
    [k \in {f.lines[i].key : i \in DOMAIN f.lines} |->
        f.lines[CHOOSE i \in DOMAIN f.lines :
                  /\ f.lines[i].key = k
                  /\ \A j \in DOMAIN f.lines : f.lines[j].key = k => j <= i].scopes]

\* Text appended to an unended line runs into its last scope.
Glue(line) == [line EXCEPT !.scopes[Len(line.scopes)] = "garbled"]

AppendLine(f, line) ==
    IF f.ended \/ f.lines = <<>>
      THEN [lines |-> Append(f.lines, line), ended |-> TRUE]
      ELSE [lines |-> [f.lines EXCEPT ![Len(f.lines)] = Glue(@)], ended |-> TRUE]

Create(k) ==
    /\ editor = <<>>
    /\ k \notin issued
    /\ Event
    /\ keyFile' = AppendLine(keyFile, Line(k, FALSE))
    /\ issued' = issued \cup {k}
    /\ UNCHANGED <<editor, keyStore, revoked>>

\* revoke reads the file and drops the lines whose first word starts with
\* the digest: a line in the clear is never one of them.
Matches(line, k) == line.key = k /\ ~line.plain

Revoke(k) ==
    /\ editor = <<>>
    /\ Event
    /\ editor' = <<[drops |-> {l \in Range(keyFile.lines) : Matches(l, k)},
                    text |-> [lines |-> SelectSeq(keyFile.lines, LAMBDA l : ~Matches(l, k)),
                              ended |-> FALSE],
                    pc |-> "truncate"]>>
    /\ UNCHANGED <<keyFile, keyStore, issued, revoked>>

\* lock reads the file and hashes the lines in the clear.
Lock ==
    /\ editor = <<>>
    /\ Event
    /\ editor' = <<[drops |-> {},
                    text |-> [lines |-> [i \in DOMAIN keyFile.lines |->
                                           [keyFile.lines[i] EXCEPT !.plain = FALSE]],
                              ended |-> TRUE],
                    pc |-> "truncate"]>>
    /\ UNCHANGED <<keyFile, keyStore, issued, revoked>>

Truncate ==
    /\ editor # <<>> /\ editor[1].pc = "truncate"
    /\ keyFile' = EmptyFile
    /\ editor' = <<[editor[1] EXCEPT !.pc = "write"]>>
    /\ UNCHANGED <<keyStore, issued, revoked, events>>

WriteKept ==
    /\ editor # <<>> /\ editor[1].pc = "write"
    /\ keyFile' = editor[1].text
    /\ revoked' = revoked \cup {l.key : l \in editor[1].drops}
    /\ editor' = <<>>
    /\ UNCHANGED <<keyStore, issued, events>>

\* The command is killed between two of its steps.
EditorDies ==
    /\ editor # <<>>
    /\ Event
    /\ editor' = <<>>
    /\ UNCHANGED <<keyFile, keyStore, issued, revoked>>

\* No key file configured, or one that could not be read at startup.
NoStore == [none |-> <<>>]

\* from_file at startup; an unreadable file leaves the router without a
\* store, and without the reload that would bring one.
FromFile == {Parse(keyFile), NoStore}

\* Mutant: a reload that merges into the map instead of replacing it.
ReloadForgetsNothing ==
    /\ keyStore # NoStore
    /\ keyStore' = [k \in DOMAIN keyStore \cup DOMAIN Parse(keyFile) |->
                      IF k \in DOMAIN Parse(keyFile) THEN Parse(keyFile)[k] ELSE keyStore[k]]
    /\ UNCHANGED <<keyFile, editor, issued, revoked, events>>

Reload ==
    /\ keyStore # NoStore
    /\ keyStore' = Parse(keyFile)
    /\ UNCHANGED <<keyFile, editor, issued, revoked, events>>

\* An unreadable file keeps the previous keys.
ReloadFails ==
    /\ keyStore # NoStore
    /\ Event
    /\ UNCHANGED storeVars

KeyInit ==
    /\ \/ keyFile = EmptyFile /\ issued = {}
       \/ \E plain \in BOOLEAN, k \in Key :
            keyFile = [lines |-> <<Line(k, plain)>>, ended |-> TRUE] /\ issued = {k}
    /\ editor = <<>> /\ revoked = {}

Edit ==
    \/ \E k \in Key : Create(k) \/ Revoke(k)
    \/ Lock \/ Truncate \/ WriteKept \/ EditorDies
=============================================================================
