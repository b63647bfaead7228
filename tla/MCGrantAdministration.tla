------------------------ MODULE MCGrantAdministration --------------------------
(* A small instance of GrantAdministration for TLC. *)
EXTENDS GrantAdministration, TLC

CONSTANTS p1, u1, c1, w1, w2

\* A participant that can become a Human Web administrator.
Admin == [principal |-> [provider |-> "human-web", subject |-> p1], participant |-> p1]
OneActor == {Admin}

AdminResources == {c1, AdminResource["manage_authorization_policy"]}

\* A grant on every resource: UNIQUE does not keep it from being inserted twice.
Anywhere ==
  [principal |-> [provider |-> "oidc", subject |-> u1], participant |-> p1,
   capability |-> "post_message", resource |-> NULL, status |-> "active"]

\* An explicit grant that narrows the administrator's implicit authority away.
Elsewhere ==
  [principal |-> Admin.principal, participant |-> p1,
   capability |-> "manage_authorization_policy", resource |-> c1, status |-> "active"]

Once ==
  [principal |-> [provider |-> "oidc", subject |-> u1], participant |-> p1,
   capability |-> "other", resource |-> NULL, intent |-> NULL, expires |-> 1,
   oneShot |-> TRUE, consumed |-> NULL, status |-> "active"]

TwoDurable == {Anywhere, Elsewhere}
OneDelegated == {Once}

Run(op, actor, grant, id) == [op |-> op, actor |-> actor, grant |-> grant, id |-> id]

AllCommands ==
  {Run("create_durable", NULL, Anywhere, 0),
   Run("create_durable", Admin, Anywhere, 0),
   Run("create_durable", Admin, Elsewhere, 0),
   Run("deactivate_durable", NULL, NULL, 1),
   Run("deactivate_durable", Admin, NULL, 2),
   Run("create_delegated", Admin, Once, 0),
   Run("deactivate_delegated", NULL, NULL, 1)}

CallerSymmetry == Permutations(Callers)
================================================================================
