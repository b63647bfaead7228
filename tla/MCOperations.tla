------------------------------ MODULE MCOperations ------------------------------
(* A small instance of Operations for TLC. *)
EXTENDS Operations

CONSTANTS i, j
TwoIntents == {i, j}
OneExecution == {<<1, j>>}

NoColumn == << >>
OneProvenance == <<"resource">>
OneOwner == <<"owner_subject">>

\* Before HMAC credentials, roles, grants and executions
FirstRelease ==
    [Blank EXCEPT !.tables = {"board"},
                  !.columns = {"public_key", "conversation_uuid"},
                  !.messages = TRUE]

\* Executions, but no participant on a delivery: one intent that two
\* participants have executed, and one that only the second has
BeforeAttribution ==
    [Blank EXCEPT !.tables = ToSet(Schema),
                  !.columns = {"auth_secret", "role", "status",
                               "conversation_ref", "grants", "admin_events"},
                  !.messages = TRUE, !.channel = TRUE, !.admin = TRUE,
                  !.evidence = [e \in {<<1, i>>, <<2, i>>, <<2, j>>} |->
                                   [participant |-> NULL, capability |-> FALSE]]]

SmallReleases == {FirstRelease, BeforeAttribution}
================================================================================
