------------------------------ MODULE MCExecution ------------------------------
(* Small instances of Execution for TLC. *)
EXTENDS ExecutionAudit, TLC

CONSTANTS p1, u1, u2, i1, i2, c1, b1, b2, w1, w2

Hmac(p) == [provider |-> "participant-hmac", subject |-> p]
Oidc == [provider |-> "oidc", subject |-> u1]
Github == [provider |-> "github", subject |-> u1]

Request(via, principal, intent, issue, body, replyTo) ==
  [via |-> via, principal |-> principal, participant |-> p1, intent |-> intent,
   issue |-> issue, content |-> [channel |-> c1, body |-> body, replyTo |-> replyTo]]

Grant(intent, expires, oneShot) ==
  [principal |-> Oidc, participant |-> p1, capability |-> "post_message",
   resource |-> NULL, intent |-> intent, expires |-> expires, oneShot |-> oneShot,
   consumed |-> NULL, status |-> "active"]

\* Two intents of one delegate compete for a one-shot grant; the second replies
\* to the first message, so it can also fail on its reply target.
DelegateRequests ==
  {Request("oidc", Oidc, i1, NULL, b1, 0),
   Request("oidc", Oidc, i2, NULL, b2, 1)}

\* One intent through three transports, once with another content.
TransportRequests ==
  {Request("rest-hmac", Hmac(p1), i1, NULL, b1, 0),
   Request("mcp-hmac", Hmac(p1), i1, NULL, b2, 0),
   Request("github", Github, i1, 7, b1, 0)}

\* A signed request and a navigation write of the same nonce and content, both a
\* reply to the message that an unsigned post leaves behind, if it is there.
LiveRequests ==
  {Request("rest-hmac", Hmac(p1), i1, NULL, b1, 1),
   Request("navigation", Hmac(p1), i1, NULL, b1, 1),
   Request("plain", Hmac(p1), NULL, NULL, b2, 0)}

\* The older write paths next to an execution of the same nonce.
LegacyRequests ==
  {Request("navigation", Hmac(p1), i1, NULL, b1, 0),
   Request("navigation", Hmac(p1), i1, NULL, b2, 1),
   Request("rest-hmac", Hmac(p1), i1, NULL, b1, 0),
   Request("plain", Hmac(p1), NULL, NULL, b2, 0),
   Request("plain", Hmac(p1), NULL, NULL, b2, 2)}

\* An explicit grant replaces the owner's implicit authority to post.
OwnerGrant ==
  {[principal |-> Github, participant |-> p1, capability |-> "post_message",
    resource |-> c1, status |-> "active"]}

OneShotGrants == {Grant(NULL, 1, TRUE)}

None == {}
WorkerSymmetry == Permutations(Workers)
================================================================================
