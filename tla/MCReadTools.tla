------------------------------ MODULE MCReadTools ------------------------------
(* A small instance of ReadTools for TLC. *)
EXTENDS ReadTools

CONSTANTS p1, p2, u1, u2, i1, c1, b1, w1

AllResources ==
  {c1, i1} \cup {AdminResource[capability] : capability \in DOMAIN AdminResource}

Hmac(p) == [provider |-> "participant-hmac", subject |-> p]
Web(p) == [provider |-> "human-web", subject |-> p]
Token(p) == [provider |-> "bearer", subject |-> p]
Oidc == [provider |-> "oidc", subject |-> u1]
OtherOidc == [provider |-> "oidc", subject |-> u2]

Read(surface, tool, principal, participant) ==
  [surface |-> surface, tool |-> tool, principal |-> principal,
   participant |-> participant, intent |-> i1, channel |-> c1,
   capability |-> "read_authorization_policy"]

\* Every tool on every surface that has it, each with callers that can pass some of
\* its checks.  p2 is the instance of a token and at first no participant.
SomeReads ==
  {Read("mcp", tool, Oidc, p1) :
     tool \in {"receipt", "audit", "integrity", "sweep", "policy_integrity"}}
  \cup {Read("mcp", tool, Hmac(p1), p1) :
          tool \in {"access_context", "decision", "history", "policy", "messages"}}
  \cup {Read("mcp", tool, NULL, p1) : tool \in {"messages", "policy"}}
  \cup {Read("rest", tool, Web(p1), p1) :
          tool \in {"access_context", "sweep", "policy", "policy_integrity", "channels",
                    "whoami"}}
  \cup {Read("rest", tool, Hmac(p1), p1) : tool \in {"audit", "integrity"}}
  \cup {Read("rest", tool, Token(p2), p2) :
          tool \in {"receipt", "decision", "history", "messages"}}
  \cup {Read("rest", "messages", NULL, p1), Read("navigation", "messages", NULL, p1)}
  \cup {Read("cli", tool, NULL, p1) : tool \in {"sweep", "policy_integrity", "history"}}

\* Two Bearer principals execute one intent; their deliveries have the same id, so
\* the second one is refused.
BearerRequests ==
  {[via |-> "mcp-bearer", principal |-> principal, participant |-> p1, intent |-> i1,
    issue |-> NULL, content |-> [channel |-> c1, body |-> b1, replyTo |-> 0]] :
     principal \in {Oidc, OtherOidc}}

OneShot ==
  {[principal |-> Oidc, participant |-> p1, capability |-> "post_message",
    resource |-> NULL, intent |-> NULL, expires |-> 1, oneShot |-> TRUE,
    consumed |-> NULL, status |-> "active"]}

Durable(principal, participant, capability, resource) ==
  [principal |-> principal, participant |-> participant, capability |-> capability,
   resource |-> resource, status |-> "active"]

\* Nothing depends on the last request and answer of an idle worker.
IdleForgotten ==
  <<policy, channels, messages, evidence, writer, fresh, pc, decision, visibility,
    credentials, reader, commits,
    [w \in Workers |-> IF pc[w] = "idle" THEN NULL ELSE req[w]]>>

\* A grant that permits a post, and one that takes an administrator's implicit
\* authority away.
StandingGrants ==
  {Durable(OtherOidc, p1, "post_message", NULL),
   Durable(Web(p1), p1, "read_authorization_policy", c1)}

\* One that permits a read, and one for a participant that is provisioned late.
SomeGrants ==
  StandingGrants
  \cup {Durable(Oidc, p1, "read_execution_audit", i1),
        Durable(Token(p2), p2, "read_authorization_decision", NULL)}
================================================================================
