-------------------------- MODULE AuthorizationProofs --------------------------
(* Facts about the evaluator that hold for every policy. *)
EXTENDS Authorization, NaturalsInduction, WellFoundedInduction, SequenceTheorems, TLAPS

\* ORDER BY id LIMIT 1 returns a row of the set it orders.
LEMMA LeastIdInSet ==
  ASSUME NEW S, S \subseteq Nat, S # {}
  PROVE  LeastId(S) \in S
<1>1. PICK g \in S : \A h \in S : ~(<<h, g>> \in OpToRel(<, Nat))
  BY NatLessThanWellFounded, WFMin
<1>2. ASSUME NEW h \in S PROVE g <= h
  <2>1. <<h, g>> \in Nat \X Nat /\ <<h, g>>[1] = h /\ <<h, g>>[2] = g
    OBVIOUS
  <2>2. ~(h < g)
    BY <1>1, <2>1, Zenon DEF OpToRel
  <2> QED
    BY <2>2
<1> QED
  BY <1>2 DEF LeastId

\* Preferring some rows keeps a nonempty choice among the rows there were.
LEMMA PreferInSet ==
  ASSUME NEW S, NEW T, S # {}
  PROVE  Prefer(S, T) \subseteq S /\ Prefer(S, T) # {}
BY DEF Prefer

\* The row that FirstExplicit returns is one of the rows.
LEMMA FirstExplicitInSet ==
  ASSUME NEW S, S \subseteq Nat, S # {}
  PROVE  FirstExplicit(S) \in S
BY LeastIdInSet, PreferInSet DEF FirstExplicit

\* The grant that FirstDelegated returns is one of the candidates.
LEMMA FirstDelegatedInSet ==
  ASSUME NEW S, S \subseteq Nat, S # {}
  PROVE  FirstDelegated(S) \in S
<1> DEFINE bound  == Prefer(S, {g \in DOMAIN delegated : delegated[g].intent # NULL})
           scoped == Prefer(bound, {g \in DOMAIN delegated : delegated[g].resource # NULL})
           single == Prefer(scoped, {g \in DOMAIN delegated : delegated[g].oneShot})
<1>1. bound \subseteq S /\ bound # {}
  BY PreferInSet
<1>2. scoped \subseteq bound /\ scoped # {}
  BY <1>1, PreferInSet
<1>3. single \subseteq scoped /\ single # {}
  BY <1>2, PreferInSet
<1>4. LeastId(single) \in single
  BY <1>1, <1>2, <1>3, LeastIdInSet
<1> QED
  BY <1>1, <1>2, <1>3, <1>4 DEF FirstDelegated

--------------------------------------------------------------------------------

\* Grant ids are positions, so they are natural numbers.
LEMMA GrantIdsNat ==
  ASSUME PolicyTypeOK
  PROVE  DOMAIN durable \subseteq Nat /\ DOMAIN delegated \subseteq Nat
BY DEF PolicyTypeOK

\* A grant is denied with a reason, or not at all.
LEMMA DenialTyped ==
  ASSUME NEW g, NEW resource, NEW intent, NEW now
  PROVE  \/ Denial(g, resource, intent, now) = NULL
         \/ Denial(g, resource, intent, now) \in DenialReasons
BY DEF Denial, DenialReasons

\* Implicit authority is a reason, or none.
LEMMA ImplicitReasonTyped ==
  ASSUME NEW principal, NEW participant, NEW capability, NEW resource
  PROVE  \/ ImplicitReason(principal, participant, capability, resource) = NULL
         \/ ImplicitReason(principal, participant, capability, resource) \in ImplicitReasons
BY DEF ImplicitReason, ImplicitReasons

\* How the grant an allowing decision names is used: an unspent one-shot grant is
\* to be consumed, one this intent has spent only serves its committed replay, and
\* any other grant is not consumed.
GrantUse(d, intent, committed) ==
  LET grant == delegated[d.grant]
  IN \/ grant.oneShot /\ grant.consumed = NULL /\ d.consume = d.grant
     \/ grant.oneShot /\ grant.consumed = intent /\ committed /\ d.consume = NULL
     \/ ~grant.oneShot /\ d.consume = NULL

\* A consumption is only asked for with an allowing delegated decision, and such a
\* decision names an active grant of that principal, participant and capability.
DecisionSound(d, principal, participant, capability, intent, committed) ==
  /\ d \in Decisions
  /\ d.consume # NULL => d.allowed /\ d.source = "delegated_grants"
  /\ d.allowed /\ d.source = "delegated_grants" =>
       /\ d.grant \in DOMAIN delegated
       /\ delegated[d.grant].principal = principal
       /\ delegated[d.grant].participant = participant
       /\ delegated[d.grant].capability = capability
       /\ delegated[d.grant].status = "active"
       /\ GrantUse(d, intent, committed)

\* The loop over delegated grants answers with one of the candidates.
LEMMA EvaluateDelegatedSound ==
  ASSUME PolicyTypeOK,
         NEW candidates, candidates \subseteq DOMAIN delegated, candidates # {},
         NEW resource, NEW intent, intent # NULL, NEW now, NEW committed
  PROVE  LET d == EvaluateDelegated(candidates, resource, intent, now, committed)
         IN /\ d \in Decisions
            /\ d.source = "delegated_grants"
            /\ d.grant \in candidates
            /\ d.allowed => GrantUse(d, intent, committed)
            /\ ~d.allowed => d.consume = NULL
<1> DEFINE usable == {g \in candidates : Denial(g, resource, intent, now) = NULL}
           d == EvaluateDelegated(candidates, resource, intent, now, committed)
<1>1. candidates \subseteq Nat
  BY GrantIdsNat
<1>2. CASE usable = {}
  <2> DEFINE first == FirstDelegated(candidates)
  <2>1. first \in candidates
    BY <1>1, FirstDelegatedInSet
  <2>2. Denial(first, resource, intent, now) \in DenialReasons
    BY <1>2, <2>1, DenialTyped
  <2>3. d = Deny("delegated_grants", Denial(first, resource, intent, now), first)
    BY <1>2 DEF EvaluateDelegated
  <2> QED
    BY <1>1, <2>1, <2>2, <2>3 DEF Deny, Decisions, Sources, Reasons, OrNull
<1>3. CASE usable # {}
  <2> DEFINE g == FirstDelegated(usable)
  <2>1. g \in usable
    BY <1>1, <1>3, FirstDelegatedInSet
  <2>2. g \in Nat /\ g \in candidates /\ g \in DOMAIN delegated
    BY <1>1, <2>1
  <2>3. delegated[g].oneShot => delegated[g].consumed \in {NULL, intent}
    BY <2>1, NullIsNoReason DEF Denial, Reasons, DenialReasons
  <2>4. delegated[g].oneShot \in BOOLEAN
    <3>1. delegated[g] \in DelegatedGrants
      BY <2>2 DEF PolicyTypeOK
    <3> QED
      BY <3>1, Zenon DEF DelegatedGrants
  <2>5. d = IF delegated[g].oneShot /\ delegated[g].consumed # NULL
              THEN IF committed
                     THEN Allow("delegated_grants", "delegated_committed_replay", g, NULL)
                     ELSE Deny("delegated_grants",
                               "delegated_consumed_without_committed_receipt", g)
            ELSE Allow("delegated_grants", "delegated_grant_match", g,
                       IF delegated[g].oneShot THEN g ELSE NULL)
    BY <1>3 DEF EvaluateDelegated
  <2>6. g # NULL
    BY <2>2, NullIsNoValue
  <2> QED
    BY <2>2, <2>3, <2>4, <2>5, <2>6
       DEF GrantUse, Allow, Deny, Decisions, Sources, Reasons, OrNull
<1> QED
  BY <1>2, <1>3

\* Every answer of evaluate_authorization is sound: whatever the policy, a decision
\* that asks for a consumption rests on an active, unspent one-shot grant of that
\* principal, participant and capability, and a spent one-shot grant only ever
\* allows the committed replay of the intent that spent it.
THEOREM EvaluateSound ==
  ASSUME PolicyTypeOK,
         NEW principal, NEW participant \in Participants, NEW capability,
         NEW resource, NEW intent, NEW now, NEW committed
  PROVE  DecisionSound(
           Evaluate(principal, participant, capability, resource, intent, now, committed),
           principal, participant, capability, intent, committed)
<1> DEFINE explicit == ExplicitGrants(principal, participant, capability)
           matches == ExplicitMatches(principal, participant, capability, resource)
           implicit == ImplicitReason(principal, participant, capability, resource)
           candidates == DelegatedCandidates(principal, participant, capability)
           d == Evaluate(principal, participant, capability, resource, intent,
                         now, committed)
           consulted == /\ participants[participant].status \notin {"missing", "inactive"}
                        /\ matches = {}
                        /\ ~(explicit = {} /\ implicit # NULL)
                        /\ intent # NULL /\ candidates # {}
<1>1. CASE consulted
  <2>1. d = EvaluateDelegated(candidates, resource, intent, now, committed)
    BY <1>1 DEF Evaluate
  <2>2. candidates \subseteq DOMAIN delegated
    BY DEF DelegatedCandidates
  <2>3. \A g \in candidates :
          /\ delegated[g].principal = principal
          /\ delegated[g].participant = participant
          /\ delegated[g].capability = capability
          /\ delegated[g].status = "active"
    BY DEF DelegatedCandidates
  <2> HIDE DEF candidates, d
  <2>4. /\ d \in Decisions
        /\ d.source = "delegated_grants"
        /\ d.grant \in candidates
        /\ d.allowed => GrantUse(d, intent, committed)
        /\ ~d.allowed => d.consume = NULL
    BY <1>1, <2>1, <2>2, EvaluateDelegatedSound
  <2>5. d.allowed \in BOOLEAN
    BY <2>4 DEF Decisions
  <2> QED
    BY <2>2, <2>3, <2>4, <2>5, Zenon DEF d, DecisionSound
<1>2. CASE ~consulted
  <2>1. /\ d \in Decisions
        /\ d.consume = NULL
        /\ d.allowed => d.source # "delegated_grants"
    <3>1. matches # {} => FirstExplicit(matches) \in Nat
      <4>1. matches \subseteq Nat
        BY GrantIdsNat DEF ExplicitMatches, ExplicitGrants
      <4> HIDE DEF matches
      <4> QED
        BY <4>1, FirstExplicitInSet
    <3>2. implicit # NULL => implicit \in ImplicitReasons
      BY ImplicitReasonTyped
    <3> HIDE DEF explicit, matches, implicit, candidates
    <3> QED
      BY <1>2, <3>1, <3>2 DEF Evaluate, Allow, Deny, Decisions, Sources, Reasons, OrNull,
         explicit, matches, implicit, candidates
  <2> QED
    BY <2>1, Zenon DEF DecisionSound
<1> QED
  BY <1>1, <1>2

\* A delegated grant covers an intent on a resource at a time: its scope and its
\* intent, where it names them, are these, and it has not expired, unless this
\* intent has spent it.
Covers(g, resource, intent, now) ==
  /\ delegated[g].resource \in {NULL, resource}
  /\ delegated[g].intent \in {NULL, intent}
  /\ delegated[g].oneShot => delegated[g].consumed \in {NULL, intent}
  /\ \/ delegated[g].expires = NULL
     \/ ~(delegated[g].expires <= now)
     \/ delegated[g].oneShot /\ delegated[g].consumed = intent

\* What an allowing decision rests on: an active participant, and a durable grant
\* for the resource; or, where no durable grant narrows the capability, a rule that
\* needs no grant; or, on the write path and where no durable grant matches, a
\* delegated grant that covers the intent.
Backed(d, principal, participant, capability, resource, intent, now) ==
  /\ participants[participant].status = "active"
  /\ \/ /\ d.source = "principal_grants"
        /\ d.grant \in ExplicitMatches(principal, participant, capability, resource)
     \/ /\ d.source = "implicit_authority"
        /\ ExplicitGrants(principal, participant, capability) = {}
        /\ d.reason = ImplicitReason(principal, participant, capability, resource)
        /\ d.reason # NULL
     \/ /\ d.source = "delegated_grants"
        /\ intent # NULL
        /\ ExplicitMatches(principal, participant, capability, resource) = {}
        /\ d.grant \in DelegatedCandidates(principal, participant, capability)
        /\ Covers(d.grant, resource, intent, now)

\* The loop over the delegated grants denies a grant exactly when it does not cover.
LEMMA DenialExact ==
  ASSUME NEW g, NEW resource, NEW intent, NEW now
  PROVE  Denial(g, resource, intent, now) = NULL <=> Covers(g, resource, intent, now)
BY NullIsNoReason DEF Denial, Covers, Reasons, DenialReasons

\* The loop allows on a grant that covers, and after the commit it allows whenever
\* there is one.
LEMMA EvaluateDelegatedCovers ==
  ASSUME PolicyTypeOK,
         NEW candidates, candidates \subseteq DOMAIN delegated,
         NEW resource, NEW intent, NEW now, NEW committed
  PROVE  LET d == EvaluateDelegated(candidates, resource, intent, now, committed)
         IN /\ d.source = "delegated_grants"
            /\ d.allowed => d.grant \in candidates /\ Covers(d.grant, resource, intent, now)
            /\ committed /\ (\E g \in candidates : Covers(g, resource, intent, now))
                 => d.allowed
<1> DEFINE usable == {g \in candidates : Denial(g, resource, intent, now) = NULL}
           g == FirstDelegated(usable)
<1>1. usable \subseteq Nat /\ \A h \in candidates : h \in usable <=> Covers(h, resource, intent, now)
  BY GrantIdsNat, DenialExact
<1>2. usable # {} => g \in usable /\ g \in candidates
  BY <1>1, FirstDelegatedInSet
<1>3. usable = {} => EvaluateDelegated(candidates, resource, intent, now, committed) =
        Deny("delegated_grants", Denial(FirstDelegated(candidates), resource, intent, now),
             FirstDelegated(candidates))
  BY DEF EvaluateDelegated
<1>4. usable # {} => EvaluateDelegated(candidates, resource, intent, now, committed) \in
        {Allow("delegated_grants", "delegated_committed_replay", g, NULL),
         Allow("delegated_grants", "delegated_grant_match", g, g),
         Allow("delegated_grants", "delegated_grant_match", g, NULL)}
        \/ (~committed /\ EvaluateDelegated(candidates, resource, intent, now, committed) =
              Deny("delegated_grants", "delegated_consumed_without_committed_receipt", g))
  BY DEF EvaluateDelegated
<1> HIDE DEF usable, g
<1> QED
  BY <1>1, <1>2, <1>3, <1>4 DEF Allow, Deny

\* Whatever evaluate_authorization allows is backed: by an active participant and by
\* a durable grant, an implicit rule that nothing narrows, or a delegated grant that
\* covers the intent (the order of the checks in evaluate_authorization).
THEOREM AllowedIsBacked ==
  ASSUME PolicyTypeOK,
         NEW principal, NEW participant \in Participants, NEW capability,
         NEW resource, NEW intent, NEW now, NEW committed,
         Evaluate(principal, participant, capability, resource, intent, now, committed).allowed
  PROVE  Backed(Evaluate(principal, participant, capability, resource, intent, now, committed),
                principal, participant, capability, resource, intent, now)
<1> DEFINE explicit == ExplicitGrants(principal, participant, capability)
           matches == ExplicitMatches(principal, participant, capability, resource)
           implicit == ImplicitReason(principal, participant, capability, resource)
           candidates == DelegatedCandidates(principal, participant, capability)
           d == Evaluate(principal, participant, capability, resource, intent, now, committed)
<1>1. participants[participant].status \in {"missing", "active", "inactive"}
  BY DEF PolicyTypeOK, ParticipantRows
<1>2. participants[participant].status = "active"
  BY <1>1 DEF Evaluate, Deny
<1>3. CASE matches # {}
  <2>1. matches \subseteq Nat
    BY GrantIdsNat DEF ExplicitMatches, ExplicitGrants
  <2>2. d = Allow("principal_grants", "explicit_durable_grant_match", FirstExplicit(matches), NULL)
    BY <1>2, <1>3 DEF Evaluate
  <2>3. FirstExplicit(matches) \in matches
    BY <1>3, <2>1, FirstExplicitInSet
  <2> QED
    BY <1>2, <2>2, <2>3 DEF Backed, Allow
<1>4. CASE matches = {} /\ explicit = {} /\ implicit # NULL
  <2>1. d = Allow("implicit_authority", implicit, NULL, NULL)
    BY <1>2, <1>4 DEF Evaluate
  <2> QED
    BY <1>2, <1>4, <2>1 DEF Backed, Allow
<1>5. CASE /\ matches = {} /\ ~(explicit = {} /\ implicit # NULL)
           /\ intent # NULL /\ candidates # {}
  <2>1. d = EvaluateDelegated(candidates, resource, intent, now, committed)
    BY <1>2, <1>5 DEF Evaluate
  <2>2. candidates \subseteq DOMAIN delegated
    BY DEF DelegatedCandidates
  <2> HIDE DEF candidates
  <2>3. d.source = "delegated_grants" /\ d.grant \in candidates
        /\ Covers(d.grant, resource, intent, now)
    BY <2>1, <2>2, EvaluateDelegatedCovers
  <2> QED
    BY <1>2, <1>5, <2>3 DEF Backed, candidates
<1>6. CASE /\ matches = {} /\ ~(explicit = {} /\ implicit # NULL)
           /\ ~(intent # NULL /\ candidates # {})
  BY <1>2, <1>6 DEF Evaluate, Deny
<1> QED
  BY <1>3, <1>4, <1>5, <1>6

\* A committed intent is allowed for as long as its participant is active and some
\* active delegated grant covers it, whatever other grants there are.
LEMMA CoveredReplayAllowed ==
  ASSUME PolicyTypeOK,
         NEW principal, NEW participant, NEW capability,
         NEW resource, NEW intent, intent # NULL, NEW now,
         participants[participant].status = "active",
         NEW g \in DelegatedCandidates(principal, participant, capability),
         Covers(g, resource, intent, now)
  PROVE  Evaluate(principal, participant, capability, resource, intent, now, TRUE).allowed
<1> DEFINE explicit == ExplicitGrants(principal, participant, capability)
           matches == ExplicitMatches(principal, participant, capability, resource)
           implicit == ImplicitReason(principal, participant, capability, resource)
           candidates == DelegatedCandidates(principal, participant, capability)
<1>1. CASE matches # {} \/ (explicit = {} /\ implicit # NULL)
  BY <1>1 DEF Evaluate, Allow
<1>2. CASE ~(matches # {} \/ (explicit = {} /\ implicit # NULL))
  <2>1. Evaluate(principal, participant, capability, resource, intent, now, TRUE) =
          EvaluateDelegated(candidates, resource, intent, now, TRUE)
    BY <1>2 DEF Evaluate
  <2>2. candidates \subseteq DOMAIN delegated
    BY DEF DelegatedCandidates
  <2>3. EvaluateDelegated(candidates, resource, intent, now, TRUE).allowed
    BY <2>2, EvaluateDelegatedCovers
  <2> QED
    BY <2>1, <2>3
<1> QED
  BY <1>1, <1>2

--------------------------------------------------------------------------------
(* The listing of effective grants *)

\* The capabilities are of three kinds.
LEMMA CapabilityKinds ==
  ASSUME NEW c \in KnownCapabilities
  PROVE  \/ c \in DOMAIN AdminResource /\ c # "manage_channels" /\ c \notin UserCapabilities
         \/ c = "manage_channels" /\ c \notin DOMAIN AdminResource /\ c \notin UserCapabilities
         \/ c \in UserCapabilities /\ c \notin DOMAIN AdminResource /\ c # "manage_channels"
<1>1. DOMAIN AdminResource =
        {"read_authorization_policy", "read_authorization_policy_integrity",
         "read_authorization_decision", "manage_authorization_policy",
         "read_authorization_administration_history", "read_execution_audit_sweep"}
  BY DEF AdminResource
<1> QED
  BY <1>1 DEF KnownCapabilities, UserCapabilities

\* Implicit authority on a resource is implicit authority on the fixed resource of
\* the capability, if it has one and this is it.
LEMMA ImplicitOnFixed ==
  ASSUME NEW principal, NEW participant, NEW c \in KnownCapabilities, NEW r \in Resources
  PROVE  ImplicitReason(principal, participant, c, r) # NULL <=>
           /\ ImplicitReason(principal, participant, c, FixedResource(c)) # NULL
           /\ FixedResource(c) \in {NULL, r}
<1>1. CASE c \in DOMAIN AdminResource
  <2>1. FixedResource(c) = AdminResource[c] /\ FixedResource(c) # NULL
    BY <1>1, NullIsNoResource DEF FixedResource
  <2>2. c # "manage_channels" /\ c \notin UserCapabilities
    BY <1>1, CapabilityKinds
  <2>3. "implicit_human_web_admin_resource" # NULL
    BY NullIsNoReason DEF Reasons, ImplicitReasons
  <2> QED
    BY <1>1, <2>1, <2>2, <2>3 DEF ImplicitReason
<1>2. CASE c \notin DOMAIN AdminResource
  <2>1. FixedResource(c) = NULL
    BY <1>2 DEF FixedResource
  <2>2. ImplicitReason(principal, participant, c, r) =
          ImplicitReason(principal, participant, c, NULL)
    <3>1. CASE c = "manage_channels" /\ c \notin UserCapabilities
      BY <1>2, <3>1 DEF ImplicitReason
    <3>2. CASE c \in UserCapabilities /\ c # "manage_channels"
      BY <1>2, <3>2 DEF ImplicitReason
    <3> QED
      BY <1>2, <3>1, <3>2, CapabilityKinds
  <2> QED
    BY <2>1, <2>2
<1> QED
  BY <1>1, <1>2

\* Without an intent, an active participant is allowed what a durable grant matches
\* and, where it has no durable grant for the capability, what is implicit.
LEMMA ReadDecision ==
  ASSUME PolicyTypeOK, NEW principal, NEW participant \in Participants, NEW c, NEW r, NEW t,
         participants[participant].status = "active"
  PROVE  Evaluate(principal, participant, c, r, NULL, t, FALSE).allowed <=>
           \/ ExplicitMatches(principal, participant, c, r) # {}
           \/ /\ ExplicitGrants(principal, participant, c) = {}
              /\ ImplicitReason(principal, participant, c, r) # NULL
BY DEF Evaluate, Allow, Deny

\* effective_grants lists a grant that covers a resource exactly when
\* evaluate_authorization allows the capability on it without an intent, for every
\* policy: what is listed can be done and nothing else can.
THEOREM ListingExact ==
  ASSUME PolicyTypeOK, NEW principal, NEW participant \in Participants,
         NEW c \in KnownCapabilities, NEW r \in Resources, NEW t
  PROVE  (\E e \in EffectiveGrants(principal, participant) :
            e.capability = c /\ e.resource \in {NULL, r})
         <=> Evaluate(principal, participant, c, r, NULL, t, FALSE).allowed
<1> DEFINE Listed == \E e \in EffectiveGrants(principal, participant) :
                       e.capability = c /\ e.resource \in {NULL, r}
           explicit == ExplicitGrants(principal, participant, c)
           matches == ExplicitMatches(principal, participant, c, r)
<1>1. CASE participants[participant].status # "active"
  <2>1. ~Listed
    BY <1>1 DEF EffectiveGrants
  <2>2. participants[participant].status \in {"missing", "inactive"}
    BY <1>1 DEF PolicyTypeOK, ParticipantRows
  <2>3. ~Evaluate(principal, participant, c, r, NULL, t, FALSE).allowed
    BY <2>2 DEF Evaluate, Deny
  <2> QED
    BY <2>1, <2>3
<1>2. CASE participants[participant].status = "active"
  <2> DEFINE held == {i \in DOMAIN durable :
                        /\ durable[i].principal = principal
                        /\ durable[i].participant = participant
                        /\ durable[i].status = "active"}
             implicit == {d \in KnownCapabilities \ {durable[i].capability : i \in held} :
                            Evaluate(principal, participant, d, FixedResource(d), NULL, 0,
                                     FALSE).allowed}
             shown == {[capability |-> durable[i].capability, resource |-> durable[i].resource,
                        origin |-> "explicit"] : i \in held}
             implied == {[capability |-> d, resource |-> FixedResource(d),
                          origin |-> "implicit"] : d \in implicit}
  <2>1. EffectiveGrants(principal, participant) = shown \cup implied
    <3>1. ListedGrants(principal, participant) = shown \cup implied
      BY DEF ListedGrants
    <3> QED
      BY <1>2, <3>1 DEF EffectiveGrants
  <2>2. (\E e \in shown : e.capability = c /\ e.resource \in {NULL, r}) <=> matches # {}
    <3>0. matches = {i \in held : durable[i].capability = c /\ durable[i].resource \in {NULL, r}}
      BY DEF ExplicitMatches, ExplicitGrants
    <3> HIDE DEF held, matches
    <3>1. ASSUME NEW e \in shown, e.capability = c, e.resource \in {NULL, r}
          PROVE  matches # {}
      <4>1. PICK i \in held : e = [capability |-> durable[i].capability,
                                   resource |-> durable[i].resource, origin |-> "explicit"]
        OBVIOUS
      <4>2. durable[i].capability = e.capability /\ durable[i].resource = e.resource
        BY <4>1
      <4> QED
        BY <3>0, <3>1, <4>2
    <3>2. ASSUME NEW i \in matches
          PROVE  \E e \in shown : e.capability = c /\ e.resource \in {NULL, r}
      <4> DEFINE e == [capability |-> durable[i].capability, resource |-> durable[i].resource,
                       origin |-> "explicit"]
      <4>1. i \in held /\ durable[i].capability = c /\ durable[i].resource \in {NULL, r}
        BY <3>0, <3>2
      <4>2. e \in shown /\ e.capability = c /\ e.resource = durable[i].resource
        BY <4>1
      <4> QED
        BY <4>1, <4>2
    <3> QED
      BY <3>1, <3>2
  <2>3. (\E e \in implied : e.capability = c /\ e.resource \in {NULL, r})
          <=> c \in implicit /\ FixedResource(c) \in {NULL, r}
    <3> HIDE DEF implicit
    <3>1. ASSUME NEW e \in implied, e.capability = c, e.resource \in {NULL, r}
          PROVE  c \in implicit /\ FixedResource(c) \in {NULL, r}
      <4>1. PICK d \in implicit : e = [capability |-> d, resource |-> FixedResource(d),
                                       origin |-> "implicit"]
        OBVIOUS
      <4>2. d = c /\ e.resource = FixedResource(d)
        BY <3>1, <4>1
      <4> QED
        BY <3>1, <4>2
    <3>2. ASSUME c \in implicit, FixedResource(c) \in {NULL, r}
          PROVE  \E e \in implied : e.capability = c /\ e.resource \in {NULL, r}
      <4> DEFINE e == [capability |-> c, resource |-> FixedResource(c), origin |-> "implicit"]
      <4>1. e \in implied /\ e.capability = c /\ e.resource = FixedResource(c)
        BY <3>2
      <4> QED
        BY <3>2, <4>1
    <3> QED
      BY <3>1, <3>2
  <2>4. c \in {durable[i].capability : i \in held} <=> explicit # {}
    BY DEF ExplicitGrants
  <2>5. explicit = {} => ExplicitMatches(principal, participant, c, FixedResource(c)) = {}
    BY DEF ExplicitMatches
  <2>6. c \in implicit <=>
          /\ explicit = {}
          /\ ImplicitReason(principal, participant, c, FixedResource(c)) # NULL
    <3>1. Evaluate(principal, participant, c, FixedResource(c), NULL, 0, FALSE).allowed <=>
            \/ ExplicitMatches(principal, participant, c, FixedResource(c)) # {}
            \/ /\ explicit = {}
               /\ ImplicitReason(principal, participant, c, FixedResource(c)) # NULL
      BY <1>2, ReadDecision
    <3> HIDE DEF held, explicit
    <3> QED
      BY <2>4, <2>5, <3>1
  <2>7. Listed <=> \/ matches # {}
                   \/ explicit = {} /\ ImplicitReason(principal, participant, c, r) # NULL
    <3> HIDE DEF shown, implied, implicit, held, explicit, matches
    <3> QED
      BY <2>1, <2>2, <2>3, <2>6, ImplicitOnFixed
  <2> QED
    BY <1>2, <2>7, ReadDecision
<1> QED
  BY <1>1, <1>2

--------------------------------------------------------------------------------
(* What grant administration leaves in the tables. *)

\* A row rewritten in place leaves a table of the same length.
LEMMA RowReplaced ==
  ASSUME NEW Rows, NEW table \in Seq(Rows), NEW id \in DOMAIN table, NEW row \in Rows
  PROVE  /\ [table EXCEPT ![id] = row] \in Seq(Rows)
         /\ DOMAIN [table EXCEPT ![id] = row] = DOMAIN table
         /\ Len([table EXCEPT ![id] = row]) = Len(table)
<1>1. id \in 1..Len(table)
  OBVIOUS
<1> QED
  BY <1>1, ExceptSeq

\* create_durable_grant keeps the table well formed: it reactivates or inserts.
LEMMA DurableAfterCreateTyped ==
  ASSUME PolicyTypeOK, NEW g \in DurableGrants
  PROVE  DurableAfterCreate(g) \in Seq(DurableGrants)
<1> DEFINE rows == ScopeRows(g)
<1>1. CASE ScopeActive(g)
  BY <1>1 DEF DurableAfterCreate, PolicyTypeOK
<1>2. CASE ~ScopeActive(g) /\ rows # {}
  <2> DEFINE id == LeastId(rows)
             row == [durable[id] EXCEPT !.status = "active"]
  <2>1. rows \subseteq DOMAIN durable /\ rows \subseteq Nat
    BY GrantIdsNat DEF ScopeRows
  <2>2. id \in DOMAIN durable
    <3> HIDE DEF rows
    <3> QED
      BY <1>2, <2>1, LeastIdInSet
  <2>3. durable[id] \in DurableGrants
    BY <2>2 DEF PolicyTypeOK
  <2>4. row \in DurableGrants
    BY <2>3 DEF DurableGrants
  <2>5. DurableAfterCreate(g) = [durable EXCEPT ![id] = row]
    BY <1>2 DEF DurableAfterCreate
  <2> HIDE DEF id, row
  <2> QED
    BY <2>2, <2>4, <2>5, RowReplaced DEF PolicyTypeOK
<1>3. CASE ~ScopeActive(g) /\ rows = {}
  BY <1>3 DEF DurableAfterCreate, PolicyTypeOK
<1> QED
  BY <1>1, <1>2, <1>3

\* deactivate_durable_grant keeps the table well formed.
LEMMA DurableAfterDeactivateTyped ==
  ASSUME PolicyTypeOK, NEW id
  PROVE  DurableAfterDeactivate(id) \in Seq(DurableGrants)
<1> DEFINE row(i) == IF SameScope(durable[i], durable[id])
                       THEN [durable[i] EXCEPT !.status = "inactive"] ELSE durable[i]
<1>1. DOMAIN durable = 1..Len(durable) /\ Len(durable) \in Nat
  BY DEF PolicyTypeOK
<1>2. \A i \in 1..Len(durable) : durable[i] \in DurableGrants
  BY DEF PolicyTypeOK
<1>3. \A i \in 1..Len(durable) : row(i) \in DurableGrants
  BY <1>2 DEF DurableGrants
<1>4. DurableAfterDeactivate(id) = [i \in 1..Len(durable) |-> row(i)]
  BY <1>1 DEF DurableAfterDeactivate
<1> HIDE DEF row
<1>5. DurableAfterDeactivate(id) \in [1..Len(durable) -> DurableGrants]
  BY <1>3, <1>4
<1> QED
  BY <1>1, <1>5, SeqDef

\* No two durable rows have one scope.
OneRowPerScope ==
  \A i, j \in DOMAIN durable : SameScope(durable[i], durable[j]) => i = j

\* Rows that keep their terms keep their scopes apart.
LEMMA ScopesKept ==
  ASSUME OneRowPerScope, DOMAIN durable' = DOMAIN durable,
         \A i \in DOMAIN durable :
           /\ durable'[i].principal = durable[i].principal
           /\ durable'[i].participant = durable[i].participant
           /\ durable'[i].capability = durable[i].capability
           /\ durable'[i].resource = durable[i].resource
  PROVE  OneRowPerScope'
BY DEF OneRowPerScope, SameScope

\* create_durable_grant adds a row only for a scope that has none, and no row for
\* another participant than the one it names.
LEMMA DurableAfterCreateScopes ==
  ASSUME PolicyTypeOK, OneRowPerScope, NEW g \in DurableGrants,
         durable' = DurableAfterCreate(g)
  PROVE  /\ OneRowPerScope'
         /\ \A i \in DOMAIN durable' :
              \/ durable'[i].participant = g.participant
              \/ i \in DOMAIN durable /\ durable'[i].participant = durable[i].participant
<1>1. \A i \in DOMAIN durable : durable[i] \in DurableGrants
  BY DEF PolicyTypeOK
<1>2. CASE ScopeActive(g)
  BY <1>2, ScopesKept DEF DurableAfterCreate
<1>3. CASE ~ScopeActive(g) /\ ScopeRows(g) # {}
  <2>1. durable' = [durable EXCEPT ![LeastId(ScopeRows(g))].status = "active"]
    BY <1>3 DEF DurableAfterCreate
  <2>2. ASSUME NEW i \in DOMAIN durable
        PROVE  /\ durable'[i].principal = durable[i].principal
               /\ durable'[i].participant = durable[i].participant
               /\ durable'[i].capability = durable[i].capability
               /\ durable'[i].resource = durable[i].resource
    BY <1>1, <2>1, <2>2 DEF DurableGrants
  <2> QED
    BY <2>1, <2>2, ScopesKept
<1>4. CASE ~ScopeActive(g) /\ ScopeRows(g) = {}
  <2>1. /\ DOMAIN durable' = DOMAIN durable \cup {Len(durable) + 1}
        /\ durable'[Len(durable) + 1] = g
        /\ \A i \in DOMAIN durable : durable'[i] = durable[i]
    BY <1>4 DEF DurableAfterCreate, PolicyTypeOK
  <2>2. \A i \in DOMAIN durable : ~SameScope(durable[i], g) /\ ~SameScope(g, durable[i])
    BY <1>4 DEF ScopeRows, SameScope
  <2>3. ASSUME NEW i \in DOMAIN durable', NEW j \in DOMAIN durable',
               SameScope(durable'[i], durable'[j])
        PROVE  i = j
    BY <2>1, <2>2, <2>3 DEF OneRowPerScope
  <2>4. OneRowPerScope'
    BY <2>3 DEF OneRowPerScope, SameScope
  <2> QED
    BY <2>1, <2>4
<1> QED
  BY <1>2, <1>3, <1>4

\* deactivate_durable_grant changes no scope.
LEMMA DurableAfterDeactivateScopes ==
  ASSUME PolicyTypeOK, OneRowPerScope, NEW id, durable' = DurableAfterDeactivate(id)
  PROVE  /\ OneRowPerScope'
         /\ DOMAIN durable' = DOMAIN durable
         /\ \A i \in DOMAIN durable : durable'[i].participant = durable[i].participant
<1>1. \A i \in DOMAIN durable : durable[i] \in DurableGrants
  BY DEF PolicyTypeOK
<1>2. DOMAIN durable' = DOMAIN durable
  BY DEF DurableAfterDeactivate
<1>3. ASSUME NEW i \in DOMAIN durable
      PROVE  /\ durable'[i].principal = durable[i].principal
             /\ durable'[i].participant = durable[i].participant
             /\ durable'[i].capability = durable[i].capability
             /\ durable'[i].resource = durable[i].resource
  BY <1>1, <1>3 DEF DurableAfterDeactivate, DurableGrants
<1> QED
  BY <1>2, <1>3, ScopesKept

\* Creating a durable grant gives one to the participant it names, and to no other.
LEMMA DurableAfterCreateGrows ==
  ASSUME PolicyTypeOK, NEW g \in DurableGrants, durable' = DurableAfterCreate(g),
         NEW principal, NEW participant, NEW c,
         ExplicitGrants(principal, participant, c)' # {}
  PROVE  ExplicitGrants(principal, participant, c) # {} \/ participant = g.participant
<1> SUFFICES ASSUME participant # g.participant PROVE ExplicitGrants(principal, participant, c) # {}
  OBVIOUS
<1>1. PICK i \in DOMAIN durable' :
        /\ durable'[i].principal = principal /\ durable'[i].participant = participant
        /\ durable'[i].capability = c /\ durable'[i].status = "active"
  BY DEF ExplicitGrants
<1>2. DOMAIN durable = 1..Len(durable) /\ Len(durable) \in Nat
  BY DEF PolicyTypeOK
<1>3. i \in DOMAIN durable /\ durable'[i] = durable[i]
  <2>1. CASE ScopeActive(g)
    BY <1>1, <2>1 DEF DurableAfterCreate
  <2>2. CASE ~ScopeActive(g) /\ ScopeRows(g) # {}
    <3> DEFINE id == LeastId(ScopeRows(g))
    <3>1. ScopeRows(g) \subseteq DOMAIN durable /\ ScopeRows(g) \subseteq Nat
      BY <1>2 DEF ScopeRows
    <3>2. id \in ScopeRows(g)
      BY <2>2, <3>1, LeastIdInSet
    <3>3. durable[id].participant = g.participant /\ id \in DOMAIN durable
      BY <3>2 DEF ScopeRows, SameScope
    <3>4. durable[id] \in DurableGrants
      BY <3>3 DEF PolicyTypeOK
    <3>5. durable' = [durable EXCEPT ![id].status = "active"]
      BY <2>2 DEF DurableAfterCreate
    <3> HIDE DEF id
    <3>6. durable'[id].participant = g.participant
      BY <3>3, <3>4, <3>5 DEF DurableGrants
    <3> QED
      BY <1>1, <3>5, <3>6
  <2>3. CASE ~ScopeActive(g) /\ ScopeRows(g) = {}
    <3>1. /\ DOMAIN durable' = DOMAIN durable \cup {Len(durable) + 1}
          /\ durable'[Len(durable) + 1] = g
          /\ \A j \in DOMAIN durable : durable'[j] = durable[j]
      BY <2>3 DEF DurableAfterCreate, PolicyTypeOK
    <3> QED
      BY <1>1, <3>1
  <2> QED
    BY <2>1, <2>2, <2>3
<1> QED
  BY <1>1, <1>3 DEF ExplicitGrants

\* Deactivating one gives nobody anything.
LEMMA DurableAfterDeactivateShrinks ==
  ASSUME PolicyTypeOK, NEW id, durable' = DurableAfterDeactivate(id),
         NEW principal, NEW participant, NEW c
  PROVE  ExplicitGrants(principal, participant, c)'
           \subseteq ExplicitGrants(principal, participant, c)
<1>1. DOMAIN durable' = DOMAIN durable
  BY DEF DurableAfterDeactivate
<1>2. ASSUME NEW i \in DOMAIN durable, durable'[i].status = "active"
      PROVE  durable'[i] = durable[i]
  <2>1. durable[i] \in DurableGrants
    BY DEF PolicyTypeOK
  <2> QED
    BY <1>2, <2>1 DEF DurableAfterDeactivate, DurableGrants
<1> QED
  BY <1>1, <1>2 DEF ExplicitGrants

\* Where scopes are apart, what the policy audit can find in the durable grants is
\* participants that are missing.
LEMMA DurableViolationKinds ==
  ASSUME PolicyTypeOK, OneRowPerScope, NEW v \in DurableViolations
  PROVE  v[1] = "missing_participant"
<1>1. ASSUME NEW i \in DOMAIN durable PROVE durable[i].capability \in KnownCapabilities
  <2>1. durable[i] \in DurableGrants
    BY DEF PolicyTypeOK
  <2> QED
    BY <2>1 DEF DurableGrants
<1>2. \A j, k \in DOMAIN durable : k > j => ~SameScope(durable[k], durable[j])
  BY GrantIdsNat DEF OneRowPerScope
<1> QED
  BY <1>1, <1>2 DEF DurableViolations

\* Delegated grants are inserted as given.
LEMMA DelegatedAfterCreateTyped ==
  ASSUME PolicyTypeOK, NEW g \in DelegatedGrants
  PROVE  /\ DelegatedAfterCreate(g) \in Seq(DelegatedGrants)
         /\ DOMAIN DelegatedAfterCreate(g) = 1..(Len(delegated) + 1)
         /\ Len(DelegatedAfterCreate(g)) = Len(delegated) + 1
         /\ DelegatedAfterCreate(g)[Len(delegated) + 1] = g
         /\ \A i \in DOMAIN delegated : DelegatedAfterCreate(g)[i] = delegated[i]
BY DEF DelegatedAfterCreate, PolicyTypeOK

\* Deactivating a delegated grant changes its status and nothing else.
LEMMA DelegatedAfterDeactivateTyped ==
  ASSUME PolicyTypeOK, NEW id \in DOMAIN delegated
  PROVE  LET row == [delegated[id] EXCEPT !.status = "inactive"]
         IN /\ DelegatedAfterDeactivate(id) = [delegated EXCEPT ![id] = row]
            /\ DelegatedAfterDeactivate(id) \in Seq(DelegatedGrants)
            /\ DOMAIN DelegatedAfterDeactivate(id) = DOMAIN delegated
            /\ Len(DelegatedAfterDeactivate(id)) = Len(delegated)
<1> DEFINE row == [delegated[id] EXCEPT !.status = "inactive"]
<1>1. DelegatedAfterDeactivate(id) = [delegated EXCEPT ![id] = row]
  BY DEF DelegatedAfterDeactivate
<1>2. delegated[id] \in DelegatedGrants
  BY DEF PolicyTypeOK
<1>3. row \in DelegatedGrants
  BY <1>2 DEF DelegatedGrants
<1> HIDE DEF row
<1>4. /\ [delegated EXCEPT ![id] = row] \in Seq(DelegatedGrants)
      /\ DOMAIN [delegated EXCEPT ![id] = row] = DOMAIN delegated
      /\ Len([delegated EXCEPT ![id] = row]) = Len(delegated)
  BY <1>3, RowReplaced DEF PolicyTypeOK
<1> QED
  BY <1>1, <1>4 DEF row
================================================================================
