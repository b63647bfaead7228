---------------------------- MODULE ExecutionProofs ----------------------------
(******************************************************************************)
(* Posting, for every set of workers, requests, grants and administrators.      *)
(*                                                                             *)
(* First types and control: an execution that holds the lock acts on a decision *)
(* that is right now.  Then what posting leaves behind: a step changes          *)
(* messages, evidence and delegated grants in one of six ways (StepKinds), each *)
(* invariant is shown for each of them, and Execution implements IntentLedger.  *)
(* Then what posting promises to the client that asked and to the auditor that  *)
(* comes later; three of these promises hold for executions only, and are       *)
(* stated under what they need of the requests: OnlyExecutions, NoNavigation,   *)
(* OneMeaning.                                                                  *)
(*                                                                             *)
(* Last the readers of ReadTools, which see one statement's moment after the    *)
(* other.  Every program identifies its caller, asks what the request needs and *)
(* fetches only then, and an audit opens what it looks at first                 *)
(* (ProgramChains).  What an audit has found stays true while others commit     *)
(* (ReadKinds, EvidenceKept, KnownKept), and so its report is clean; and since  *)
(* a commit changes participants or grants, never both, an evaluation that sees *)
(* one commit permits only what was permitted at some moment (JudgedCommit).    *)
(******************************************************************************)
EXTENDS ReadTools, AuthorizationProofs

--------------------------------------------------------------------------------
(* Rows that requests and decisions are turned into *)

\* The rows built from a request are well typed.
LEMMA RequestRows ==
  ASSUME NEW r \in Requests
  PROVE  /\ r.participant \in Participants
         /\ r.principal \in Principals
         /\ r.content \in Contents
         /\ r.content.channel \in Channels
         /\ r.content.replyTo \in Nat
         /\ [participant |-> r.participant, content |-> r.content] \in MessageRows
         /\ ExecutionHash(r.content) \in Hashes
         /\ NavigationHash(r.content) \in Hashes
<1>1. r \in RequestType
  BY RequestsTyped
<1>2. /\ r.participant \in Participants
      /\ r.principal \in Principals
      /\ r.content \in Contents
  BY <1>1 DEF RequestType
<1> QED
  BY <1>2 DEF Contents, MessageRows, Hashes, ExecutionHash, NavigationHash

\* A request with an intent has a key.
LEMMA RequestKey ==
  ASSUME NEW r \in Requests, r.via # "plain"
  PROVE  /\ r.intent \in Intents
         /\ KeyOf(r) = <<r.participant, r.intent>>
         /\ KeyOf(r) \in Keys
         /\ KeyOf(r)[1] = r.participant /\ KeyOf(r)[2] = r.intent
<1>1. r.intent \in Intents
  BY RequestsTyped
<1> QED
  BY <1>1, RequestRows DEF KeyOf, Keys

\* A request to execute has a key, a delivery and an ingress row.
LEMMA ExecuteRows ==
  ASSUME NEW r \in Requests, r.via \in ExecuteTransports
  PROVE  /\ r.via # "plain"
         /\ DeliveryId(r) \in Deliveries
         /\ IngressRow(r) \in IngressRows
<1>1. r.via # "plain" /\ r.via \in Transports
  BY DEF ExecuteTransports, Transports
<1>2. DeliveryId(r) \in Deliveries
  BY DEF Deliveries
<1>3. IngressRow(r) \in IngressRows
  BY <1>1, RequestRows, RequestKey DEF IngressRow, IngressRows
<1> QED
  BY <1>1, <1>2, <1>3

\* The evaluator's answer for a request is sound for the tables at hand.
LEMMA DecisionForSound ==
  ASSUME PolicyTypeOK, NEW r \in Requests, NEW t
  PROVE  DecisionSound(DecisionFor(r, t), r.principal, r.participant, "post_message",
                       r.intent, receipts[KeyOf(r)] # NULL)
<1>1. r.participant \in Participants
  BY RequestRows
<1> QED
  BY <1>1, EvaluateSound DEF DecisionFor

\* And it is backed, when it allows.
LEMMA DecisionForBacked ==
  ASSUME PolicyTypeOK, NEW r \in Requests, NEW t, DecisionFor(r, t).allowed
  PROVE  Backed(DecisionFor(r, t), r.principal, r.participant, "post_message",
                r.content.channel, r.intent, t)
<1>1. r.participant \in Participants
  BY RequestRows
<1>2. Evaluate(r.principal, r.participant, "post_message", r.content.channel,
               r.intent, t, receipts[KeyOf(r)] # NULL).allowed
  BY DEF DecisionFor
<1> QED
  BY <1>1, <1>2, AllowedIsBacked DEF DecisionFor

\* Authorization provenance records a decision for a channel.
LEMMA AuthorityRowTyped ==
  ASSUME NEW r \in Requests, NEW d \in Decisions
  PROVE  AuthorityRow(r, d) \in ProvenanceRows
BY RequestRows, ChannelsAreResources DEF AuthorityRow, ProvenanceRows, Decisions

\* An INSERT OR IGNORE of a channel leaves every channel with a status.
LEMMA ChannelsWithTyped ==
  ASSUME channels \in [Channels -> {"missing", "active", "archived"}], NEW c \in Channels
  PROVE  ChannelsWith(c) \in [Channels -> {"missing", "active", "archived"}]
BY DEF ChannelsWith

--------------------------------------------------------------------------------
(* Types and control *)

LocalTypeOK ==
  /\ writer \in OrNull(Workers)
  /\ fresh \subseteq Workers
  /\ pc \in [Workers -> Steps]
  /\ req \in [Workers -> OrNull(Requests)]
  /\ decision \in [Workers -> OrNull(Decisions)]
  /\ response \in [Workers -> [status : Statuses, message : Nat]]

TableTypeOK ==
  /\ PolicyTypeOK
  /\ channels \in [Channels -> {"missing", "active", "archived"}]
  /\ messages \in Seq(MessageRows)
  /\ nav \in [Keys -> OrNull(NavRows)]
  /\ receipts \in [Keys -> OrNull(ReceiptRows)]
  /\ ingress \in [Deliveries -> OrNull(IngressRows)]
  /\ provenance \in [Keys -> OrNull(ProvenanceRows)]

\* The type invariant is about the tables, the clock and the workers.
LEMMA TypeSplit == TypeOK <=> TableTypeOK /\ now \in Nat /\ LocalTypeOK
BY DEF TypeOK, TableTypeOK, LocalTypeOK

\* Init is well typed and has no worker in a transaction.
LEMMA TypeInit == Init => TypeOK /\ Control
<1> SUFFICES ASSUME Init PROVE TypeOK /\ Control
  OBVIOUS
<1>1. TableTypeOK
  BY DEF Init, TableTypeOK, PolicyTypeOK, ParticipantRows, OrNull
<1>2. LocalTypeOK /\ now \in Nat
  BY DEF Init, LocalTypeOK, Steps, OrNull, NoResponse, Statuses
<1>3. Control
  BY NullIsNoRow DEF Init, Control
<1> QED
  BY <1>1, <1>2, <1>3, TypeSplit

\* A handler that returns is idle and holds no decision.
LEMMA RespondTyped ==
  ASSUME TypeOK, NEW w \in Workers, NEW status \in Statuses, NEW m \in Nat,
         Respond(w, status, m)
  PROVE  /\ pc' \in [Workers -> Steps]
         /\ decision' \in [Workers -> OrNull(Decisions)]
         /\ response' \in [Workers -> [status : Statuses, message : Nat]]
         /\ pc' = [pc EXCEPT ![w] = "idle"]
         /\ \A v \in Workers : v # w => decision'[v] = decision[v]
BY DEF TypeOK, Respond, Steps, OrNull

\* A transaction that is rolled back leaves the tables alone.
LEMMA RollbackTyped ==
  ASSUME TypeOK, Control, NEW w \in Workers, pc[w] = "locked", writer = w,
         NEW status \in Statuses, Rollback(w, status), ReleaseLock(w)
  PROVE  TypeOK' /\ Control'
<1>1. Respond(w, status, 0) /\ fresh' = fresh \ {w}
  BY DEF Rollback
<1>2. /\ pc' \in [Workers -> Steps]
      /\ decision' \in [Workers -> OrNull(Decisions)]
      /\ response' \in [Workers -> [status : Statuses, message : Nat]]
      /\ pc' = [pc EXCEPT ![w] = "idle"]
      /\ \A v \in Workers : v # w => decision'[v] = decision[v]
  BY <1>1, RespondTyped
<1>3. TableTypeOK' /\ now' \in Nat
  BY TypeSplit DEF Rollback, ReleaseLock, TableTypeOK, PolicyTypeOK, evidence
<1>4. LocalTypeOK'
  BY <1>1, <1>2, TypeSplit DEF ReleaseLock, LocalTypeOK, OrNull
<1>5. Control'
  BY <1>2, NullIsNoRow, TypeSplit DEF ReleaseLock, Control, LocalTypeOK
<1> QED
  BY <1>3, <1>4, <1>5 DEF TypeOK, TableTypeOK, LocalTypeOK

\* The rows of a first execution are well typed.
LEMMA CreateEffectTyped ==
  ASSUME TypeOK, Control, NEW w \in Workers, pc[w] = "locked", writer = w,
         CreateEffect(w), ReleaseLock(w)
  PROVE  TypeOK' /\ Control'
<1> DEFINE r == req[w]
           d == decision[w]
           k == KeyOf(r)
           m == Len(messages) + 1
           refused == \/ RecordRefused(r, m)
                      \/ provenance[k] # NULL
                      \/ d.consume # NULL /\ ~Consumable(d.consume)
<1>1. CASE refused
  <2>1. Rollback(w, "database_unavailable")
    BY <1>1 DEF CreateEffect
  <2> QED
    BY <2>1, RollbackTyped DEF Statuses
<1>2. CASE ~refused
  <2>1. r \in Requests /\ r.via \in ExecuteTransports /\ d \in Decisions
    BY DEF Control
  <2>2. k \in Keys /\ r.intent \in Intents /\ DeliveryId(r) \in Deliveries
        /\ IngressRow(r) \in IngressRows
    BY <2>1, RequestKey, ExecuteRows
  <2>3. messages \in Seq(MessageRows) /\ m \in Nat
    BY DEF TypeOK
  <2>4. /\ channels' = ChannelsWith(r.content.channel)
        /\ messages' = Append(messages, [participant |-> r.participant,
                                         content |-> r.content])
        /\ nav' = [nav EXCEPT ![k] = NavRow(ExecutionHash(r.content), m)]
        /\ Record(r, m)
        /\ RecordAuthority(r, d)
        /\ Respond(w, "created", m)
        /\ fresh' = {}
    BY <1>2 DEF CreateEffect, Outdate
  <2>5. channels' \in [Channels -> {"missing", "active", "archived"}]
    BY <2>1, <2>4, RequestRows, ChannelsWithTyped DEF TypeOK
  <2>6. messages' \in Seq(MessageRows)
    BY <2>1, <2>3, <2>4, RequestRows
  <2>7. nav' \in [Keys -> OrNull(NavRows)]
    BY <2>1, <2>2, <2>3, <2>4, RequestRows DEF TypeOK, NavRow, NavRows, OrNull
  <2>8. receipts' \in [Keys -> OrNull(ReceiptRows)]
    BY <2>1, <2>2, <2>3, <2>4, RequestRows DEF TypeOK, Record, ReceiptRows, OrNull
  <2>9. ingress' \in [Deliveries -> OrNull(IngressRows)]
    BY <2>2, <2>4 DEF TypeOK, Record, OrNull
  <2>10. provenance' \in [Keys -> OrNull(ProvenanceRows)]
    BY <2>1, <2>2, <2>4, AuthorityRowTyped DEF TypeOK, RecordAuthority, OrNull
  <2>11. delegated' \in Seq(DelegatedGrants)
    <3>1. CASE d.consume = NULL
      BY <2>4, <3>1 DEF TypeOK, PolicyTypeOK, RecordAuthority
    <3>2. CASE d.consume # NULL
      <4> DEFINE g == d.consume
                 row == [delegated[g] EXCEPT !.consumed = r.intent]
      <4>1. g \in DOMAIN delegated /\ delegated \in Seq(DelegatedGrants)
        BY <1>2, <3>2 DEF Consumable, TypeOK, PolicyTypeOK
      <4>2. delegated[g] \in DelegatedGrants
        BY <4>1
      <4>3. row \in DelegatedGrants
        BY <2>2, <4>2 DEF DelegatedGrants, OrNull
      <4>4. delegated' = [delegated EXCEPT ![g] = row]
        BY <2>4, <3>2 DEF RecordAuthority
      <4> HIDE DEF g, row
      <4> QED
        BY <4>1, <4>3, <4>4, RowReplaced
    <3> QED
      BY <3>1, <3>2
  <2>12. /\ pc' \in [Workers -> Steps]
         /\ decision' \in [Workers -> OrNull(Decisions)]
         /\ response' \in [Workers -> [status : Statuses, message : Nat]]
         /\ pc' = [pc EXCEPT ![w] = "idle"]
         /\ \A v \in Workers : v # w => decision'[v] = decision[v]
    BY <2>3, <2>4, RespondTyped DEF Statuses
  <2>13. TypeOK'
    BY <2>4, <2>5, <2>6, <2>7, <2>8, <2>9, <2>10, <2>11, <2>12
       DEF ReleaseLock, TypeOK, PolicyTypeOK, OrNull
  <2>14. Control'
    BY <2>12, NullIsNoRow DEF ReleaseLock, Control, TypeOK
  <2> QED
    BY <2>13, <2>14
<1> QED
  BY <1>1, <1>2

\* A replay only adds an ingress row and, after a navigation write, a receipt.
LEMMA ReplayEffectTyped ==
  ASSUME TypeOK, Control, NEW w \in Workers, pc[w] = "locked", writer = w,
         ReplayEffect(w), ReleaseLock(w)
  PROVE  TypeOK' /\ Control'
<1> DEFINE r == req[w]
           k == KeyOf(r)
           m == nav[k].message
<1>1. CASE RecordRefused(r, m)
  <2>1. Rollback(w, "database_unavailable")
    BY <1>1 DEF ReplayEffect
  <2> QED
    BY <2>1, RollbackTyped DEF Statuses
<1>2. CASE ~RecordRefused(r, m)
  <2>1. r \in Requests /\ r.via \in ExecuteTransports
    BY DEF Control
  <2>2. k \in Keys /\ DeliveryId(r) \in Deliveries /\ IngressRow(r) \in IngressRows
    BY <2>1, RequestKey, ExecuteRows
  <2>3. m \in Nat
    BY <2>2 DEF ReplayEffect, Reserved, TypeOK, NavRows, OrNull
  <2>4. /\ Record(r, m)
        /\ Respond(w, "existing", m)
        /\ fresh' \subseteq fresh
        /\ UNCHANGED <<delegated, channels, messages, nav, provenance>>
    BY <1>2 DEF ReplayEffect
  <2>5. receipts' \in [Keys -> OrNull(ReceiptRows)]
    BY <2>1, <2>2, <2>3, <2>4, RequestRows DEF TypeOK, Record, ReceiptRows, OrNull
  <2>6. ingress' \in [Deliveries -> OrNull(IngressRows)]
    BY <2>2, <2>4 DEF TypeOK, Record, OrNull
  <2>7. /\ pc' \in [Workers -> Steps]
        /\ decision' \in [Workers -> OrNull(Decisions)]
        /\ response' \in [Workers -> [status : Statuses, message : Nat]]
        /\ pc' = [pc EXCEPT ![w] = "idle"]
        /\ \A v \in Workers : v # w => decision'[v] = decision[v]
    BY <2>3, <2>4, RespondTyped DEF Statuses
  <2>8. TypeOK'
    BY <2>4, <2>5, <2>6, <2>7 DEF ReleaseLock, TypeOK, PolicyTypeOK, OrNull
  <2>9. Control'
    BY <2>7, NullIsNoRow DEF ReleaseLock, Control, TypeOK
  <2> QED
    BY <2>8, <2>9
<1> QED
  BY <1>1, <1>2

\* A handler step is well typed: every step of a worker up to its answer.
LEMMA ServeTyped ==
  ASSUME TypeOK, Control, NEW w \in Workers, Serve(w)
  PROVE  TypeOK' /\ Control'
<1> USE NullIsNoRow DEF vars, tables, policy, evidence, local
<1> DEFINE r == req[w]
<1>1. CASE EnsureChannel(w)
  <2>1. r \in Requests /\ r.content.channel \in Channels
    BY <1>1, RequestRows DEF EnsureChannel, Control
  <2>2. channels' \in [Channels -> {"missing", "active", "archived"}]
    BY <1>1, <2>1, ChannelsWithTyped DEF EnsureChannel, TypeOK
  <2>3. fresh' \subseteq Workers
    BY <1>1 DEF EnsureChannel, Outdate, TypeOK
  <2>4. CASE Respond(w, "channel_archived", 0)
    <3>1. /\ pc' \in [Workers -> Steps]
          /\ decision' \in [Workers -> OrNull(Decisions)]
          /\ response' \in [Workers -> [status : Statuses, message : Nat]]
          /\ pc' = [pc EXCEPT ![w] = "idle"]
          /\ \A v \in Workers : v # w => decision'[v] = decision[v]
      BY <2>4, RespondTyped DEF Statuses
    <3> QED
      BY <1>1, <2>2, <2>3, <3>1 DEF EnsureChannel, TypeOK, PolicyTypeOK, Control, OrNull
  <2>5. CASE GoTo(w, "begin")
    BY <1>1, <2>1, <2>2, <2>3, <2>5
       DEF EnsureChannel, GoTo, Steps, TypeOK, PolicyTypeOK, Control, OrNull
  <2> QED
    BY <1>1, <2>4, <2>5 DEF EnsureChannel
<1>2. CASE AppendPlain(w)
  <2>1. r \in Requests /\ r.content.channel \in Channels
    BY <1>2, RequestRows DEF AppendPlain, Control
  <2>2. channels' \in [Channels -> {"missing", "active", "archived"}]
    BY <1>2, <2>1, ChannelsWithTyped DEF AppendPlain, TypeOK
  <2>3. messages' \in Seq(MessageRows) /\ Len(messages) + 1 \in Nat
    BY <1>2, <2>1, RequestRows DEF AppendPlain, TypeOK
  <2>4. /\ pc' \in [Workers -> Steps]
        /\ decision' \in [Workers -> OrNull(Decisions)]
        /\ response' \in [Workers -> [status : Statuses, message : Nat]]
        /\ pc' = [pc EXCEPT ![w] = "idle"]
        /\ \A v \in Workers : v # w => decision'[v] = decision[v]
    BY <1>2, <2>3, RespondTyped DEF AppendPlain, Statuses
  <2> QED
    BY <1>2, <2>2, <2>3, <2>4
       DEF AppendPlain, Outdate, TypeOK, PolicyTypeOK, Control, OrNull
<1>3. CASE AppendNavigation(w)
  <2> DEFINE k == KeyOf(r)
  <2>1. r \in Requests /\ r.via # "plain" /\ r.content.channel \in Channels
    BY <1>3, RequestRows DEF AppendNavigation, Control
  <2>2. k \in Keys
    BY <2>1, RequestKey
  <2>3. Len(messages) + 1 \in Nat /\ (nav[k] # NULL => nav[k].message \in Nat)
    BY <2>2 DEF TypeOK, NavRows, OrNull
  <2>4. PICK status \in Statuses, m \in Nat : Respond(w, status, m)
    BY <1>3, <2>3 DEF AppendNavigation, Reserved, Statuses
  <2>5. /\ pc' \in [Workers -> Steps]
        /\ decision' \in [Workers -> OrNull(Decisions)]
        /\ response' \in [Workers -> [status : Statuses, message : Nat]]
        /\ pc' = [pc EXCEPT ![w] = "idle"]
        /\ \A v \in Workers : v # w => decision'[v] = decision[v]
    BY <2>4, RespondTyped
  <2> DEFINE row == [participant |-> r.participant, content |-> r.content]
             reservation == NavRow(NavigationHash(r.content), Len(messages) + 1)
  <2>6. \/ UNCHANGED <<channels, messages, nav>>
        \/ /\ channels' = ChannelsWith(r.content.channel)
           /\ messages' = Append(messages, row)
           /\ nav' = [nav EXCEPT ![k] = reservation]
    BY <1>3 DEF AppendNavigation
  <2>7. row \in MessageRows /\ reservation \in NavRows
    BY <2>1, <2>3, RequestRows DEF NavRow, NavRows
  <2> HIDE DEF row, reservation
  <2>8. /\ channels' \in [Channels -> {"missing", "active", "archived"}]
        /\ messages' \in Seq(MessageRows)
        /\ nav' \in [Keys -> OrNull(NavRows)]
    <3>1. channels \in [Channels -> {"missing", "active", "archived"}]
      BY DEF TypeOK
    <3>2. channels' \in [Channels -> {"missing", "active", "archived"}]
      BY <2>1, <2>6, <3>1, ChannelsWithTyped
    <3>3. messages' \in Seq(MessageRows)
      <4>1. messages \in Seq(MessageRows)
        BY DEF TypeOK
      <4>2. messages' = messages \/ messages' = Append(messages, row)
        BY <2>6
      <4> QED
        BY <2>7, <4>1, <4>2, AppendProperties
    <3>4. nav' \in [Keys -> OrNull(NavRows)]
      BY <2>2, <2>6, <2>7 DEF TypeOK, OrNull
    <3> QED
      BY <3>2, <3>3, <3>4
  <2>9. fresh' \subseteq Workers
    BY <1>3 DEF AppendNavigation, Outdate, TypeOK
  <2> QED
    BY <1>3, <2>5, <2>8, <2>9
       DEF AppendNavigation, TypeOK, PolicyTypeOK, Control, OrNull
<1>4. CASE BusyTimeout(w)
  <2>1. /\ pc' \in [Workers -> Steps]
        /\ decision' \in [Workers -> OrNull(Decisions)]
        /\ response' \in [Workers -> [status : Statuses, message : Nat]]
        /\ pc' = [pc EXCEPT ![w] = "idle"]
        /\ \A v \in Workers : v # w => decision'[v] = decision[v]
    BY <1>4, RespondTyped DEF BusyTimeout, Statuses
  <2>2. pc[w] # "locked"
    BY <1>4 DEF BusyTimeout
  <2> QED
    BY <1>4, <2>1, <2>2 DEF BusyTimeout, TypeOK, PolicyTypeOK, Control, OrNull
<1>5. CASE BeginExecute(w)
  <2> DEFINE d == DecisionFor(r, now)
  <2>1. r \in Requests /\ r.via \in ExecuteTransports
    BY <1>5 DEF BeginExecute, Control
  <2>2. d \in Decisions
    BY <2>1, DecisionForSound DEF TypeOK, DecisionSound
  <2> HIDE DEF d
  <2>3. CASE Respond(w, "authorization_denied", 0) /\ UNCHANGED fresh
    <3>1. /\ pc' \in [Workers -> Steps]
          /\ decision' \in [Workers -> OrNull(Decisions)]
          /\ response' \in [Workers -> [status : Statuses, message : Nat]]
          /\ pc' = [pc EXCEPT ![w] = "idle"]
          /\ \A v \in Workers : v # w => decision'[v] = decision[v]
      BY <2>3, RespondTyped DEF Statuses
    <3> QED
      BY <1>5, <2>3, <3>1 DEF BeginExecute, TypeOK, PolicyTypeOK, Control, OrNull
  <2>4. CASE /\ decision' = [decision EXCEPT ![w] = d]
             /\ pc' = [pc EXCEPT ![w] = "evaluated"]
             /\ fresh' = fresh \cup {w}
             /\ UNCHANGED response
    BY <1>5, <2>1, <2>2, <2>4
       DEF BeginExecute, Steps, TypeOK, PolicyTypeOK, Control, OrNull
  <2> QED
    BY <1>5, <2>3, <2>4 DEF BeginExecute, d
<1>6. CASE AcquireWriteLock(w)
  <2>1. CASE CanUpgrade(w) /\ writer' = w /\ GoTo(w, "locked") /\ UNCHANGED fresh
    BY <1>6, <2>1
       DEF AcquireWriteLock, CanUpgrade, GoTo, Steps, TypeOK, PolicyTypeOK, Control, OrNull
  <2>2. CASE /\ Respond(w, "database_unavailable", 0)
             /\ fresh' = fresh \ {w}
             /\ UNCHANGED writer
    <3>1. /\ pc' \in [Workers -> Steps]
          /\ decision' \in [Workers -> OrNull(Decisions)]
          /\ response' \in [Workers -> [status : Statuses, message : Nat]]
          /\ pc' = [pc EXCEPT ![w] = "idle"]
          /\ \A v \in Workers : v # w => decision'[v] = decision[v]
      BY <2>2, RespondTyped DEF Statuses
    <3> QED
      BY <1>6, <2>2, <3>1 DEF AcquireWriteLock, TypeOK, PolicyTypeOK, Control, OrNull
  <2> QED
    BY <1>6, <2>1, <2>2 DEF AcquireWriteLock
<1>7. CASE FinishExecute(w)
  <2>1. pc[w] = "locked" /\ writer = w /\ ReleaseLock(w)
    BY <1>7 DEF FinishExecute
  <2>2. \/ \E status \in Statuses : Rollback(w, status)
        \/ CreateEffect(w)
        \/ ReplayEffect(w)
    BY <1>7 DEF FinishExecute, Statuses
  <2> QED
    BY <2>1, <2>2, RollbackTyped, CreateEffectTyped, ReplayEffectTyped
<1>8. CASE StorageError(w)
  BY <1>8, RollbackTyped DEF StorageError, Statuses
<1> QED
  BY <1>1, <1>2, <1>3, <1>4, <1>5, <1>6, <1>7, <1>8 DEF Serve

\* An administrator's commit touches no worker.
LEMMA AdminTyped ==
  ASSUME TypeOK, Control, AdminCommit, TableTypeOK'
  PROVE  TypeOK' /\ Control'
<1>1. LocalTypeOK' /\ now' \in Nat
  BY DEF AdminCommit, Outdate, TypeOK, LocalTypeOK
<1>2. Control'
  BY DEF AdminCommit, Control
<1> QED
  BY <1>1, <1>2 DEF TypeOK, TableTypeOK, LocalTypeOK

AdminStep ==
  \/ \E p \in Participants, s \in {"active", "inactive"} : SetParticipantStatus(p, s)
  \/ \E c \in Channels, s \in {"active", "archived"} : UpdateChannel(c, s)
  \/ \E p \in Participants, o \in OrNull(Owners) : SetOwner(p, o)
  \/ \E g \in GrantSpecs : CreateDelegatedGrant(g)
  \/ \E id \in 1..MaxGrants : DeactivateDelegatedGrant(id)
  \/ \E g \in DurableSpecs : CreateDurableGrant(g)
  \/ \E id \in 1..MaxGrants : DeactivateDurableGrant(id)

\* Administration keeps the tables well typed.
LEMMA AdminStepTyped ==
  ASSUME TypeOK, Control, AdminStep
  PROVE  TypeOK' /\ Control'
<1> USE DEF evidence
<1>1. PolicyTypeOK /\ TableTypeOK
  BY DEF TypeOK, TableTypeOK
<1>2. ASSUME NEW p \in Participants, NEW s \in {"active", "inactive"},
             SetParticipantStatus(p, s)
      PROVE  TypeOK' /\ Control'
  <2>1. participants' \in [Participants -> ParticipantRows]
    BY <1>1, <1>2 DEF SetParticipantStatus, PolicyTypeOK, ParticipantRows
  <2> QED
    BY <1>1, <1>2, <2>1, AdminTyped DEF SetParticipantStatus, TableTypeOK, PolicyTypeOK
<1>3. ASSUME NEW c \in Channels, NEW s \in {"active", "archived"}, UpdateChannel(c, s)
      PROVE  TypeOK' /\ Control'
  <2>1. channels' \in [Channels -> {"missing", "active", "archived"}]
    BY <1>1, <1>3 DEF UpdateChannel, TableTypeOK
  <2> QED
    BY <1>1, <1>3, <2>1, AdminTyped DEF UpdateChannel, TableTypeOK, PolicyTypeOK, policy
<1>4. ASSUME NEW p \in Participants, NEW o \in OrNull(Owners), SetOwner(p, o)
      PROVE  TypeOK' /\ Control'
  <2>1. o \in OrNull(Subjects)
    BY OwnersAreSubjects DEF OrNull
  <2>2. participants' \in [Participants -> ParticipantRows]
    BY <1>1, <1>4, <2>1 DEF SetOwner, PolicyTypeOK, ParticipantRows
  <2> QED
    BY <1>1, <1>4, <2>2, AdminTyped DEF SetOwner, TableTypeOK, PolicyTypeOK
<1>5. ASSUME NEW g \in GrantSpecs, CreateDelegatedGrant(g)
      PROVE  TypeOK' /\ Control'
  <2>1. g \in DelegatedGrants
    BY GrantSpecsTyped
  <2>2. delegated' \in Seq(DelegatedGrants)
    BY <1>1, <1>5, <2>1, DelegatedAfterCreateTyped DEF CreateDelegatedGrant
  <2> QED
    BY <1>1, <1>5, <2>2, AdminTyped DEF CreateDelegatedGrant, TableTypeOK, PolicyTypeOK
<1>6. ASSUME NEW id \in 1..MaxGrants, DeactivateDelegatedGrant(id)
      PROVE  TypeOK' /\ Control'
  <2>1. delegated' \in Seq(DelegatedGrants)
    BY <1>1, <1>6, DelegatedAfterDeactivateTyped DEF DeactivateDelegatedGrant
  <2> QED
    BY <1>1, <1>6, <2>1, AdminTyped
       DEF DeactivateDelegatedGrant, TableTypeOK, PolicyTypeOK
<1>7. ASSUME NEW g \in DurableSpecs, CreateDurableGrant(g)
      PROVE  TypeOK' /\ Control'
  <2>1. g \in DurableGrants
    BY GrantSpecsTyped
  <2>2. durable' \in Seq(DurableGrants)
    BY <1>1, <1>7, <2>1, DurableAfterCreateTyped DEF CreateDurableGrant
  <2> QED
    BY <1>1, <1>7, <2>2, AdminTyped DEF CreateDurableGrant, TableTypeOK, PolicyTypeOK
<1>8. ASSUME NEW id \in 1..MaxGrants, DeactivateDurableGrant(id)
      PROVE  TypeOK' /\ Control'
  <2>1. durable' \in Seq(DurableGrants)
    BY <1>1, <1>8, DurableAfterDeactivateTyped DEF DeactivateDurableGrant
  <2> QED
    BY <1>1, <1>8, <2>1, AdminTyped DEF DeactivateDurableGrant, TableTypeOK, PolicyTypeOK
<1> QED
  BY <1>2, <1>3, <1>4, <1>5, <1>6, <1>7, <1>8 DEF AdminStep

\* Every step is well typed.
LEMMA TypeStep == TypeOK /\ Control /\ [Next]_vars => TypeOK' /\ Control'
<1> SUFFICES ASSUME TypeOK, Control, [Next]_vars PROVE TypeOK' /\ Control'
  OBVIOUS
<1> USE DEF tables, policy, evidence, local
<1>1. ASSUME NEW w \in Workers, NEW r \in Requests, Receive(w, r)
      PROVE  TypeOK' /\ Control'
  <2>1. req' = [req EXCEPT ![w] = r] /\ pc[w] = "idle"
    BY <1>1 DEF Receive
  <2>2. TableTypeOK' /\ now' \in Nat /\ UNCHANGED <<writer, fresh>>
    BY <1>1 DEF Receive, TypeOK, TableTypeOK, PolicyTypeOK
  <2>3. CASE \E status \in Statuses : Respond(w, status, 0)
    <3>1. /\ pc' \in [Workers -> Steps]
          /\ decision' \in [Workers -> OrNull(Decisions)]
          /\ response' \in [Workers -> [status : Statuses, message : Nat]]
          /\ pc' = [pc EXCEPT ![w] = "idle"]
          /\ \A v \in Workers : v # w => decision'[v] = decision[v]
      BY <2>3, RespondTyped
    <3>2. LocalTypeOK' /\ Control'
      BY <2>1, <2>2, <3>1 DEF TypeOK, LocalTypeOK, Control, OrNull
    <3> QED
      BY <2>2, <3>2 DEF TypeOK, TableTypeOK, LocalTypeOK
  <2>4. CASE GoTo(w, "channel") \/ GoTo(w, "begin")
    <3>1. PICK step \in {"channel", "begin"} : pc' = [pc EXCEPT ![w] = step]
      BY <2>4 DEF GoTo
    <3>2. UNCHANGED <<decision, response>>
      BY <2>4 DEF GoTo
    <3>3. LocalTypeOK'
      BY <2>1, <2>2, <3>1, <3>2 DEF Steps, TypeOK, LocalTypeOK, OrNull
    <3>4. Control'
      BY <2>1, <2>2, <3>1, <3>2 DEF TypeOK, Control
    <3> QED
      BY <2>2, <3>3, <3>4 DEF TypeOK, TableTypeOK, LocalTypeOK
  <2> QED
    BY <1>1, <2>3, <2>4 DEF Receive, Statuses
<1>2. ASSUME NEW w \in Workers, Serve(w) PROVE TypeOK' /\ Control'
  BY <1>2, ServeTyped
<1>3. CASE AdminStep
  BY <1>3, AdminStepTyped
<1>4. CASE Tick
  BY <1>4 DEF Tick, TypeOK, PolicyTypeOK, Control
<1>5. CASE Crash
  <2>1. TableTypeOK' /\ now' \in Nat
    BY <1>5 DEF Crash, TypeOK, TableTypeOK, PolicyTypeOK
  <2>2. LocalTypeOK'
    BY <1>5 DEF Crash, TypeOK, LocalTypeOK, Steps, Statuses, NoResponse, OrNull
  <2>3. Control'
    BY <1>5, NullIsNoRow DEF Crash, Control
  <2> QED
    BY <2>1, <2>2, <2>3 DEF TypeOK, TableTypeOK, LocalTypeOK
<1>6. CASE UNCHANGED vars
  BY <1>6 DEF vars, TypeOK, PolicyTypeOK, Control
<1> QED
  BY <1>1, <1>2, <1>3, <1>4, <1>5, <1>6 DEF Next, AdminStep

\* Every reachable state is well typed: rows, steps, decisions and answers of every
\* handler, administrator, clock and crash step.
THEOREM TypeCorrect == Spec => []TypeOK
<1>1. TypeOK /\ Control /\ [Next]_vars => TypeOK' /\ Control'
  BY TypeStep
<1> QED
  BY <1>1, TypeInit, PTL DEF Spec

--------------------------------------------------------------------------------
(* A decision stays current until its commit *)

\* A decision depends on the policy and the receipts only.
LEMMA DecisionFrame ==
  ASSUME UNCHANGED <<policy, receipts>>, NEW r, NEW t
  PROVE  DecisionFor(r, t)' = DecisionFor(r, t)
<1> USE DEF policy
<1>1. \A x, p, c : ExplicitGrants(x, p, c)' = ExplicitGrants(x, p, c)
  BY DEF ExplicitGrants
<1>2. \A x, p, c, e : ExplicitMatches(x, p, c, e)' = ExplicitMatches(x, p, c, e)
  BY DEF ExplicitMatches, ExplicitGrants
<1>3. \A S : FirstExplicit(S)' = FirstExplicit(S)
  BY DEF FirstExplicit
<1>4. \A x, p, c, e : ImplicitReason(x, p, c, e)' = ImplicitReason(x, p, c, e)
  BY DEF ImplicitReason
<1>5. \A x, p, c : DelegatedCandidates(x, p, c)' = DelegatedCandidates(x, p, c)
  BY DEF DelegatedCandidates
<1>6. \A S : FirstDelegated(S)' = FirstDelegated(S)
  BY DEF FirstDelegated
<1>7. \A g, e, i, n : Denial(g, e, i, n)' = Denial(g, e, i, n)
  BY DEF Denial
<1>8. \A S, e, i, n, m : EvaluateDelegated(S, e, i, n, m)' = EvaluateDelegated(S, e, i, n, m)
  BY <1>6, <1>7 DEF EvaluateDelegated
<1> QED
  BY <1>1, <1>2, <1>3, <1>4, <1>5, <1>8 DEF DecisionFor, Evaluate

\* A step that leaves policy and receipts alone keeps the decisions of the workers
\* it leaves in their transactions.
LEMMA SnapshotFrame ==
  ASSUME TypeOK, SnapshotCurrent, UNCHANGED <<policy, receipts>>, now' \in Nat, now <= now',
         \A v \in Workers :
           pc'[v] = "locked" \/ (pc'[v] = "evaluated" /\ v \in fresh') =>
             /\ pc[v] = "locked" \/ (pc[v] = "evaluated" /\ v \in fresh)
             /\ req'[v] = req[v] /\ decision'[v] = decision[v]
  PROVE  SnapshotCurrent'
<1> SUFFICES ASSUME NEW v \in Workers,
                    pc'[v] = "locked" \/ (pc'[v] = "evaluated" /\ v \in fresh')
             PROVE  \E t \in 0..now' :
                      decision'[v] = DecisionFor(req[v], t)' /\ decision'[v].allowed
  BY DEF SnapshotCurrent
<1>1. PICK t \in 0..now : decision[v] = DecisionFor(req[v], t) /\ decision[v].allowed
  BY DEF SnapshotCurrent
<1>2. req'[v] = req[v] /\ decision'[v] = decision[v]
  OBVIOUS
<1>3. PICK r : r = req[v]
  OBVIOUS
<1>4. DecisionFor(r, t)' = DecisionFor(r, t)
  BY DecisionFrame
<1>5. DecisionFor(req[v], t)' = DecisionFor(req[v], t)
  BY <1>2, <1>3, <1>4 DEF DecisionFor
<1> QED
  BY <1>1, <1>2, <1>5 DEF TypeOK

\* Once no snapshot is the last commit and no one is in a commit, there is no
\* decision to keep.
LEMMA SnapshotVacuous ==
  ASSUME fresh' = {}, \A v \in Workers : pc'[v] # "locked"
  PROVE  SnapshotCurrent'
BY DEF SnapshotCurrent

\* While nobody holds the write lock, nobody is committing; while w holds it,
\* nobody else is.
LEMMA LockOwners ==
  ASSUME Control
  PROVE  /\ writer = NULL => \A v \in Workers : pc[v] # "locked"
         /\ \A w, v \in Workers : writer = w /\ v # w => pc[v] # "locked"
BY NullIsNoRow DEF Control

\* Every step keeps the decisions of open transactions current or outdates them.
LEMMA SnapshotStep ==
  TypeOK /\ Control /\ SnapshotCurrent /\ [Next]_vars => SnapshotCurrent'
<1> SUFFICES ASSUME TypeOK, Control, SnapshotCurrent, [Next]_vars PROVE SnapshotCurrent'
  OBVIOUS
<1> USE DEF tables, policy, evidence, local
<1>0. now \in Nat /\ pc \in [Workers -> Steps] /\ req \in [Workers -> OrNull(Requests)]
      /\ decision \in [Workers -> OrNull(Decisions)]
  BY DEF TypeOK
<1>1. ASSUME NEW w \in Workers, NEW r \in Requests, Receive(w, r)
      PROVE  SnapshotCurrent'
  <2>1. pc'[w] \in {"idle", "channel", "begin"} /\ UNCHANGED <<policy, receipts, now, fresh>>
    BY <1>0, <1>1 DEF Receive, Respond, GoTo
  <2>2. \A v \in Workers : v # w =>
          pc'[v] = pc[v] /\ req'[v] = req[v] /\ decision'[v] = decision[v]
    BY <1>0, <1>1 DEF Receive, Respond, GoTo
  <2> QED
    BY <1>0, <2>1, <2>2, SnapshotFrame
<1>2. ASSUME NEW w \in Workers, EnsureChannel(w)
      PROVE  SnapshotCurrent'
  <2>1. /\ pc'[w] \in {"idle", "begin"} /\ fresh' \subseteq fresh
        /\ UNCHANGED <<policy, receipts, now, req>>
    BY <1>0, <1>2 DEF EnsureChannel, Outdate, Respond, GoTo
  <2>2. \A v \in Workers : v # w => pc'[v] = pc[v] /\ decision'[v] = decision[v]
    BY <1>0, <1>2 DEF EnsureChannel, Respond, GoTo
  <2> QED
    BY <1>0, <2>1, <2>2, SnapshotFrame
<1>3. ASSUME NEW w \in Workers, AppendPlain(w) \/ AppendNavigation(w) \/ BusyTimeout(w)
      PROVE  SnapshotCurrent'
  <2>1. /\ pc'[w] = "idle" /\ fresh' \subseteq fresh
        /\ UNCHANGED <<policy, receipts, now, req>>
    BY <1>0, <1>3 DEF AppendPlain, AppendNavigation, BusyTimeout, Outdate, Respond
  <2>2. \A v \in Workers : v # w => pc'[v] = pc[v] /\ decision'[v] = decision[v]
    BY <1>0, <1>3 DEF AppendPlain, AppendNavigation, BusyTimeout, Respond
  <2> QED
    BY <1>0, <2>1, <2>2, SnapshotFrame
<1>4. ASSUME NEW w \in Workers, BeginExecute(w)
      PROVE  SnapshotCurrent'
  <2>1. UNCHANGED <<policy, receipts, now, req>>
    BY <1>4 DEF BeginExecute
  <2>2. \A v \in Workers : v # w =>
          pc'[v] = pc[v] /\ decision'[v] = decision[v] /\ (v \in fresh' => v \in fresh)
    BY <1>0, <1>4 DEF BeginExecute, Respond
  <2>3. CASE ~DecisionFor(req[w], now).allowed
    <3>1. pc'[w] = "idle"
      BY <1>0, <1>4, <2>3 DEF BeginExecute, Respond
    <3> QED
      BY <1>0, <2>1, <2>2, <3>1, SnapshotFrame
  <2>4. CASE DecisionFor(req[w], now).allowed
    <3>1. decision'[w] = DecisionFor(req[w], now)
      BY <1>0, <1>4, <2>4 DEF BeginExecute
    <3>2. PICK r, t : r = req[w] /\ t = now
      OBVIOUS
    <3>3. DecisionFor(r, t)' = DecisionFor(r, t)
      BY <2>1, DecisionFrame
    <3>4. DecisionFor(req[w], t)' = DecisionFor(req[w], t)
      BY <2>1, <3>2, <3>3 DEF DecisionFor
    <3>5. t \in 0..now' /\ decision'[w] = DecisionFor(req[w], t)' /\ decision'[w].allowed
      BY <1>0, <2>1, <2>4, <3>1, <3>2, <3>4
    <3>6. ASSUME NEW v \in Workers, v # w,
                 pc'[v] = "locked" \/ (pc'[v] = "evaluated" /\ v \in fresh')
          PROVE  \E n \in 0..now' :
                   decision'[v] = DecisionFor(req[v], n)' /\ decision'[v].allowed
      <4>1. PICK n \in 0..now : decision[v] = DecisionFor(req[v], n) /\ decision[v].allowed
        BY <2>2, <3>6 DEF SnapshotCurrent
      <4>2. PICK q : q = req[v]
        OBVIOUS
      <4>3. DecisionFor(q, n)' = DecisionFor(q, n)
        BY <2>1, DecisionFrame
      <4>4. DecisionFor(req[v], n)' = DecisionFor(req[v], n)
        BY <2>1, <4>2, <4>3 DEF DecisionFor
      <4> QED
        BY <2>1, <2>2, <3>6, <4>1, <4>4
    <3> QED
      BY <3>5, <3>6 DEF SnapshotCurrent
  <2> QED
    BY <2>3, <2>4
<1>5. ASSUME NEW w \in Workers, AcquireWriteLock(w)
      PROVE  SnapshotCurrent'
  <2>1. UNCHANGED <<policy, receipts, now, req>> /\ fresh' \subseteq fresh
    BY <1>5 DEF AcquireWriteLock
  <2>2. \A v \in Workers : v # w => pc'[v] = pc[v] /\ decision'[v] = decision[v]
    BY <1>0, <1>5 DEF AcquireWriteLock, GoTo, Respond
  <2>3. pc'[w] = "idle" \/ (pc[w] = "evaluated" /\ w \in fresh /\ decision'[w] = decision[w])
    BY <1>0, <1>5 DEF AcquireWriteLock, CanUpgrade, GoTo, Respond
  <2> QED
    BY <1>0, <2>1, <2>2, <2>3, SnapshotFrame
<1>6. ASSUME NEW w \in Workers, FinishExecute(w) \/ StorageError(w)
      PROVE  SnapshotCurrent'
  <2>1. pc[w] = "locked" /\ writer = w /\ ReleaseLock(w)
    BY <1>6 DEF FinishExecute, StorageError
  <2>2. \E status, m : Respond(w, status, m)
    BY <1>6 DEF FinishExecute, StorageError, CreateEffect, ReplayEffect, Rollback
  <2>3. /\ pc'[w] = "idle"
        /\ \A v \in Workers : v # w => pc'[v] = pc[v] /\ decision'[v] = decision[v]
    BY <1>0, <2>2 DEF Respond
  <2>4. \A v \in Workers : pc'[v] # "locked"
    BY <2>1, <2>3, LockOwners
  <2>5. fresh' = {} \/ (fresh' = fresh \ {w} /\ UNCHANGED <<delegated, receipts>>)
    BY <1>6, Zenon DEF FinishExecute, StorageError, CreateEffect, ReplayEffect, Rollback, Outdate
  <2> QED
    BY <1>0, <2>1, <2>3, <2>4, <2>5, SnapshotFrame, SnapshotVacuous DEF ReleaseLock
<1>7. CASE AdminStep
  <2>1. AdminCommit
    BY <1>7 DEF AdminStep, SetParticipantStatus, UpdateChannel, SetOwner,
       CreateDelegatedGrant, DeactivateDelegatedGrant, CreateDurableGrant,
       DeactivateDurableGrant
  <2> QED
    BY <2>1, LockOwners, SnapshotVacuous DEF AdminCommit, Outdate
<1>8. CASE Tick
  BY <1>0, <1>8, SnapshotFrame DEF Tick
<1>9. CASE Crash
  BY <1>9, SnapshotVacuous DEF Crash
<1>10. CASE UNCHANGED vars
  BY <1>0, <1>10, SnapshotFrame DEF vars
<1> QED
  BY <1>1, <1>2, <1>3, <1>4, <1>5, <1>6, <1>7, <1>8, <1>9, <1>10 DEF Next, AdminStep, Serve

\* Nobody is in a transaction at the start.
LEMMA SnapshotInit == Init => SnapshotCurrent
BY DEF Init, SnapshotCurrent

\* The decision an execution commits on is the decision the tables give at its
\* commit: between evaluate_authorization and COMMIT no grant, owner, lifecycle or
\* receipt change can slip in, whatever the interleaving.
THEOREM DecisionsCurrent == Spec => []DecisionCurrent
<1>1. SnapshotCurrent => DecisionCurrent
  BY DEF SnapshotCurrent, DecisionCurrent
<1> QED
  BY <1>1, TypeInit, SnapshotInit, TypeStep, SnapshotStep, PTL DEF Spec

\* consume_delegated_grant_in_tx never finds its grant inactive or spent.
THEOREM ConsumptionSucceeds == Spec => []ConsumeNeverFails
<1>1. TypeOK /\ Control /\ SnapshotCurrent => ConsumeNeverFails
  <2> SUFFICES ASSUME TypeOK, Control, SnapshotCurrent,
                      NEW w \in Workers, pc[w] = "locked", decision[w].consume # NULL
               PROVE  Consumable(decision[w].consume)
    BY DEF ConsumeNeverFails
  <2>1. PICK t \in 0..now : decision[w] = DecisionFor(req[w], t)
    BY DEF SnapshotCurrent
  <2>2. req[w] \in Requests
    BY DEF Control
  <2>3. DecisionSound(decision[w], req[w].principal, req[w].participant, "post_message",
                      req[w].intent, receipts[KeyOf(req[w])] # NULL)
    BY <2>1, <2>2, DecisionForSound DEF TypeOK
  <2> QED
    BY <2>3 DEF DecisionSound, GrantUse, Consumable
<1> QED
  BY <1>1, TypeInit, SnapshotInit, TypeStep, SnapshotStep, PTL DEF Spec

--------------------------------------------------------------------------------
(* What a step posts and records *)

MessageRow(r) == [participant |-> r.participant, content |-> r.content]

Quiet == UNCHANGED <<messages, evidence, delegated>>

GrantChange ==
  /\ UNCHANGED <<messages, evidence>>
  /\ \/ \E g \in GrantSpecs :
          /\ Len(delegated) < MaxGrants /\ participants[g.participant].status = "active"
          /\ delegated' = DelegatedAfterCreate(g)
     \/ \E id \in DOMAIN delegated : delegated' = DelegatedAfterDeactivate(id)

PlainPost(r) ==
  /\ messages' = Append(messages, MessageRow(r))
  /\ UNCHANGED <<evidence, delegated>>

NavigationPost(r) ==
  /\ r.via = "navigation"
  /\ nav[KeyOf(r)] = NULL
  /\ messages' = Append(messages, MessageRow(r))
  /\ nav' = [nav EXCEPT ![KeyOf(r)] = NavRow(NavigationHash(r.content), Len(messages) + 1)]
  /\ UNCHANGED <<receipts, ingress, provenance, delegated>>

ExecutedPost(r, d) ==
  /\ r.via \in ExecuteTransports
  /\ d \in Decisions /\ d.allowed
  /\ DecisionSound(d, r.principal, r.participant, "post_message", r.intent,
                   receipts[KeyOf(r)] # NULL)
  /\ \E t \in 0..now : Backed(d, r.principal, r.participant, "post_message",
                             r.content.channel, r.intent, t)
  /\ nav[KeyOf(r)] = NULL /\ provenance[KeyOf(r)] = NULL
  /\ ~RecordRefused(r, Len(messages) + 1)
  /\ messages' = Append(messages, MessageRow(r))
  /\ nav' = [nav EXCEPT ![KeyOf(r)] = NavRow(ExecutionHash(r.content), Len(messages) + 1)]
  /\ Record(r, Len(messages) + 1)
  /\ RecordAuthority(r, d)

Replay(r) ==
  /\ r.via \in ExecuteTransports
  /\ nav[KeyOf(r)] # NULL /\ ~Conflicts(nav[KeyOf(r)], r.content)
  /\ ~RecordRefused(r, nav[KeyOf(r)].message)
  /\ Record(r, nav[KeyOf(r)].message)
  /\ UNCHANGED <<messages, nav, provenance, delegated>>

StepKind ==
  \/ Quiet
  \/ GrantChange
  \/ \E r \in Requests : PlainPost(r)
  \/ \E r \in Requests : NavigationPost(r)
  \/ \E r \in Requests, d \in Decisions : ExecutedPost(r, d)
  \/ \E r \in Requests : Replay(r)

\* Every step of the system is of one of the six kinds.
LEMMA StepKinds ==
  TypeOK /\ Control /\ SnapshotCurrent /\ [Next]_vars => StepKind
<1> SUFFICES ASSUME TypeOK, Control, SnapshotCurrent, [Next]_vars PROVE StepKind
  OBVIOUS
<1> USE DEF tables, policy, evidence, local
<1>1. ASSUME NEW w \in Workers, AppendPlain(w) PROVE StepKind
  <2>1. req[w] \in Requests
    BY <1>1 DEF AppendPlain, Control
  <2>2. PlainPost(req[w])
    BY <1>1 DEF AppendPlain, PlainPost, MessageRow
  <2> QED
    BY <2>1, <2>2 DEF StepKind
<1>2. ASSUME NEW w \in Workers, AppendNavigation(w) PROVE StepKind
  <2>1. req[w] \in Requests
    BY <1>2 DEF AppendNavigation, Control
  <2>2. Quiet \/ NavigationPost(req[w])
    BY <1>2 DEF AppendNavigation, Reserved, Quiet, NavigationPost, MessageRow
  <2> QED
    BY <2>1, <2>2 DEF StepKind
<1>3. ASSUME NEW w \in Workers, FinishExecute(w) \/ StorageError(w) PROVE StepKind
  <2>1. pc[w] = "locked" /\ writer = w
    BY <1>3 DEF FinishExecute, StorageError
  <2>2. req[w] \in Requests /\ req[w].via \in ExecuteTransports /\ decision[w] \in Decisions
    BY <2>1 DEF Control
  <2>3. ASSUME NEW status, Rollback(w, status) PROVE StepKind
    BY <2>3 DEF Rollback, Quiet, StepKind
  <2>4. ASSUME CreateEffect(w) PROVE StepKind
    <3>1. PICK t \in 0..now : decision[w] = DecisionFor(req[w], t) /\ decision[w].allowed
      BY <2>1 DEF SnapshotCurrent
    <3>2. DecisionSound(decision[w], req[w].principal, req[w].participant, "post_message",
                        req[w].intent, receipts[KeyOf(req[w])] # NULL)
      BY <2>2, <3>1, DecisionForSound DEF TypeOK
    <3>3. Backed(decision[w], req[w].principal, req[w].participant, "post_message",
                 req[w].content.channel, req[w].intent, t)
      BY <2>2, <3>1, DecisionForBacked DEF TypeOK
    <3>4. Rollback(w, "database_unavailable") \/ ExecutedPost(req[w], decision[w])
      BY <2>2, <2>4, <3>1, <3>2, <3>3 DEF CreateEffect, Reserved, ExecutedPost, MessageRow
    <3> QED
      BY <2>2, <2>3, <3>4 DEF StepKind
  <2>5. ASSUME ReplayEffect(w) PROVE StepKind
    <3>1. Rollback(w, "database_unavailable") \/ Replay(req[w])
      BY <2>2, <2>5 DEF ReplayEffect, Reserved, Replay
    <3> QED
      BY <2>2, <2>3, <3>1 DEF StepKind
  <2> QED
    BY <1>3, <2>3, <2>4, <2>5 DEF FinishExecute, StorageError
<1>4. CASE AdminStep
  <2>1. Quiet \/ GrantChange
    BY <1>4 DEF AdminStep, SetParticipantStatus, UpdateChannel, SetOwner,
       CreateDelegatedGrant, DeactivateDelegatedGrant, CreateDurableGrant,
       DeactivateDurableGrant, Quiet, GrantChange
  <2> QED
    BY <2>1 DEF StepKind
<1>5. ASSUME NEW w \in Workers,
             \/ \E r \in Requests : Receive(w, r)
             \/ EnsureChannel(w) \/ BusyTimeout(w) \/ BeginExecute(w) \/ AcquireWriteLock(w)
      PROVE  StepKind
  BY <1>5 DEF Receive, EnsureChannel, BusyTimeout, BeginExecute, AcquireWriteLock,
     Quiet, StepKind
<1>6. CASE Tick \/ Crash \/ UNCHANGED vars
  BY <1>6 DEF Tick, Crash, vars, Quiet, StepKind
<1> QED
  BY <1>1, <1>2, <1>3, <1>4, <1>5, <1>6 DEF Next, AdminStep, Serve

--------------------------------------------------------------------------------
(* Each key is posted once, and evidence is bound to it *)

\* Appending a message keeps the others and makes the new one readable.
LEMMA MessageAppended ==
  ASSUME TypeOK, NEW r \in Requests, messages' = Append(messages, MessageRow(r))
  PROVE  /\ Len(messages) \in Nat
         /\ DOMAIN messages = 1..Len(messages)
         /\ Len(messages') = Len(messages) + 1
         /\ messages'[Len(messages) + 1] = MessageRow(r)
         /\ \A m \in 1..Len(messages) : messages'[m] = messages[m]
<1>1. messages \in Seq(MessageRows) /\ MessageRow(r) \in MessageRows
  BY RequestRows DEF TypeOK, MessageRow
<1> QED
  BY <1>1, AppendProperties

\* The messages there were keep their place and content.
LEMMA MessagesKept ==
  ASSUME TypeOK, NEW r \in Requests, messages' = Append(messages, MessageRow(r))
  PROVE  \A m \in DOMAIN messages : m \in DOMAIN messages' /\ messages'[m] = messages[m]
<1>1. messages \in Seq(MessageRows) /\ MessageRow(r) \in MessageRows
  BY RequestRows DEF TypeOK, MessageRow
<1> QED
  BY <1>1, AppendProperties

\* A reservation in a grown table of messages is still exact.
LEMMA ExactlyOnceGrown ==
  ASSUME TypeOK, ExactlyOnce, NEW r \in Requests, r.via # "plain", nav[KeyOf(r)] = NULL,
         messages' = Append(messages, MessageRow(r)),
         NEW hash, hash.content = r.content,
         nav' = [nav EXCEPT ![KeyOf(r)] = NavRow(hash, Len(messages) + 1)]
  PROVE  ExactlyOnce'
<1> DEFINE k == KeyOf(r)
           n == Len(messages) + 1
<1>1. k \in Keys /\ k[1] = r.participant
  BY RequestKey
<1>2. /\ Len(messages) \in Nat /\ Len(messages') = n
      /\ messages'[n] = MessageRow(r)
      /\ \A m \in 1..Len(messages) : messages'[m] = messages[m]
  BY MessageAppended
<1>3. nav'[k] = NavRow(hash, n) /\ \A j \in Keys : j # k => nav'[j] = nav[j]
  BY <1>1 DEF TypeOK
<1>4. \A j \in Keys : nav[j] # NULL => nav[j].message \in 1..Len(messages)
  BY DEF ExactlyOnce, MessageExists
<1>5. nav'[k].message = n /\ nav'[k].hash.content = r.content
  BY <1>3 DEF NavRow
<1>6. /\ nav'[k].message \in 1..Len(messages')
      /\ messages'[nav'[k].message].participant = k[1]
      /\ messages'[nav'[k].message].content = nav'[k].hash.content
      /\ \A j \in Keys : nav'[j] # NULL /\ nav'[j].message = nav'[k].message => j = k
  BY <1>1, <1>2, <1>3, <1>4, <1>5 DEF MessageRow
<1>7. ASSUME NEW j \in Keys, j # k, nav'[j] # NULL
      PROVE  /\ nav'[j].message \in 1..Len(messages')
             /\ messages'[nav'[j].message].participant = j[1]
             /\ messages'[nav'[j].message].content = nav'[j].hash.content
             /\ \A i \in Keys : nav'[i] # NULL /\ nav'[i].message = nav'[j].message => i = j
  <2>1. nav'[j] = nav[j] /\ nav[j].message \in 1..Len(messages)
    BY <1>3, <1>4, <1>7
  <2>2. /\ messages[nav[j].message].participant = j[1]
        /\ messages[nav[j].message].content = nav[j].hash.content
        /\ \A i \in Keys : nav[i] # NULL /\ nav[i].message = nav[j].message => i = j
    BY <1>7, <2>1 DEF ExactlyOnce
  <2>3. nav'[j].message \in 1..Len(messages')
    BY <1>2, <2>1
  <2>4. \A i \in Keys : nav'[i] # NULL /\ nav'[i].message = nav'[j].message => i = j
    BY <1>2, <1>3, <1>5, <2>1, <2>2
  <2> QED
    BY <1>2, <2>1, <2>2, <2>3, <2>4
<1> HIDE DEF k, n
<1> QED
  BY <1>1, <1>6, <1>7 DEF ExactlyOnce, MessageExists

\* No step breaks the binding of keys to messages.
LEMMA ExactlyOnceStep == TypeOK /\ ExactlyOnce /\ StepKind => ExactlyOnce'
<1> SUFFICES ASSUME TypeOK, ExactlyOnce, StepKind PROVE ExactlyOnce'
  OBVIOUS
<1> USE DEF evidence
<1>1. CASE UNCHANGED <<messages, nav>>
  BY <1>1 DEF ExactlyOnce, MessageExists
<1>2. ASSUME NEW r \in Requests, PlainPost(r) PROVE ExactlyOnce'
  <2>1. /\ Len(messages) \in Nat /\ Len(messages') = Len(messages) + 1
        /\ \A m \in 1..Len(messages) : messages'[m] = messages[m]
    BY <1>2, MessageAppended DEF PlainPost
  <2> QED
    BY <1>2, <2>1 DEF PlainPost, ExactlyOnce, MessageExists
<1>3. ASSUME NEW r \in Requests, NavigationPost(r) PROVE ExactlyOnce'
  <2>1. NavigationHash(r.content).content = r.content
    BY DEF NavigationHash
  <2> QED
    BY <1>3, <2>1, ExactlyOnceGrown DEF NavigationPost
<1>4. ASSUME NEW r \in Requests, NEW d \in Decisions, ExecutedPost(r, d) PROVE ExactlyOnce'
  <2>1. ExecutionHash(r.content).content = r.content
    BY DEF ExecutionHash
  <2>2. r.via # "plain"
    BY <1>4, ExecuteRows DEF ExecutedPost
  <2> QED
    BY <1>4, <2>1, <2>2, ExactlyOnceGrown DEF ExecutedPost
<1> QED
  BY <1>1, <1>2, <1>3, <1>4 DEF StepKind, Quiet, GrantChange, Replay

\* No step leaves a receipt or provenance that is not bound to the reservation.
LEMMA ReceiptsBoundStep ==
  TypeOK /\ ExactlyOnce /\ ReceiptsBound /\ StepKind => ReceiptsBound'
<1> SUFFICES ASSUME TypeOK, ExactlyOnce, ReceiptsBound, StepKind PROVE ReceiptsBound'
  OBVIOUS
<1> USE DEF evidence
<1>1. CASE UNCHANGED <<nav, receipts, provenance>>
  BY <1>1 DEF ReceiptsBound
<1>2. ASSUME NEW r \in Requests, NavigationPost(r) PROVE ReceiptsBound'
  <2>1. KeyOf(r) \in Keys /\ receipts[KeyOf(r)] = NULL
    BY <1>2, RequestKey DEF NavigationPost, ReceiptsBound
  <2>2. \A j \in Keys : j # KeyOf(r) => nav'[j] = nav[j]
    BY <1>2, <2>1 DEF NavigationPost, TypeOK
  <2> QED
    BY <1>2, <2>1, <2>2 DEF NavigationPost, ReceiptsBound
<1>3. ASSUME NEW r \in Requests, NEW d \in Decisions, ExecutedPost(r, d)
      PROVE  ReceiptsBound'
  <2> DEFINE k == KeyOf(r)
             n == Len(messages) + 1
  <2>1. k \in Keys
    BY <1>3, RequestKey, ExecuteRows DEF ExecutedPost
  <2>2. receipts[k] = NULL
    BY <1>3, <2>1 DEF ExecutedPost, ReceiptsBound
  <2>3. /\ nav'[k] = NavRow(ExecutionHash(r.content), n)
        /\ receipts'[k] = [hash |-> ExecutionHash(r.content), message |-> n]
        /\ \A j \in Keys : j # k =>
             nav'[j] = nav[j] /\ receipts'[j] = receipts[j] /\ provenance'[j] = provenance[j]
    BY <1>3, <2>1, <2>2 DEF ExecutedPost, Record, RecordAuthority, TypeOK
  <2>4. /\ nav'[k] # NULL /\ receipts'[k] # NULL
        /\ receipts'[k].message = nav'[k].message
        /\ receipts'[k].hash = ExecutionHash(nav'[k].hash.content)
    <3>1. n \in Nat /\ ExecutionHash(r.content) \in Hashes
      <4>1. Len(messages) \in Nat
        BY LenProperties DEF TypeOK
      <4>2. ExecutionHash(r.content) \in Hashes
        BY <1>3, RequestRows
      <4> QED
        BY <4>1, <4>2
    <3>2. nav'[k] \in NavRows /\ receipts'[k] \in ReceiptRows
      BY <2>3, <3>1 DEF NavRow, NavRows, ReceiptRows
    <3>3. nav'[k] # NULL /\ receipts'[k] # NULL
      BY <3>2, NullIsNoEvidence
    <3>4. nav'[k].message = n /\ nav'[k].hash.content = r.content
      BY <2>3 DEF NavRow, ExecutionHash
    <3> QED
      BY <2>3, <3>3, <3>4
  <2> QED
    BY <2>1, <2>3, <2>4 DEF ReceiptsBound
<1>4. ASSUME NEW r \in Requests, Replay(r) PROVE ReceiptsBound'
  <2> DEFINE k == KeyOf(r)
  <2>1. k \in Keys /\ nav[k] # NULL
    BY <1>4, RequestKey, ExecuteRows DEF Replay
  <2>2. r.content = nav[k].hash.content
    <3>1. messages[nav[k].message].content = nav[k].hash.content
      BY <2>1 DEF ExactlyOnce
    <3> QED
      BY <1>4, <3>1 DEF Replay, Conflicts, ExecutionHash
  <2>3. \A j \in Keys : j # k => receipts'[j] = receipts[j]
    BY <1>4, <2>1 DEF Replay, Record, TypeOK
  <2>4. receipts'[k] = IF receipts[k] = NULL
                         THEN [hash |-> ExecutionHash(r.content), message |-> nav[k].message]
                         ELSE receipts[k]
    BY <1>4, <2>1 DEF Replay, Record, TypeOK
  <2>5. /\ receipts'[k].message = nav[k].message
        /\ receipts'[k].hash = ExecutionHash(nav[k].hash.content)
    BY <2>1, <2>2, <2>4 DEF ReceiptsBound
  <2>6. provenance[k] # NULL => receipts'[k] # NULL
    BY <2>1, <2>4 DEF ReceiptsBound
  <2> QED
    BY <1>4, <2>1, <2>3, <2>5, <2>6 DEF Replay, ReceiptsBound
<1> QED
  BY <1>1, <1>2, <1>3, <1>4 DEF StepKind, Quiet, GrantChange, PlainPost

\* The tables are empty at the start.
LEMMA LedgerInit == Init => ExactlyOnce /\ ReceiptsBound /\ OneShotSpentOnce
BY DEF Init, ExactlyOnce, ReceiptsBound, OneShotSpentOnce

\* A retried, duplicated, concurrent or interrupted request is posted once: every
\* reservation in navigation_writes names a message of its own, by its participant
\* and with its content.
THEOREM PostedOnce == Spec => []ExactlyOnce
BY TypeInit, SnapshotInit, LedgerInit, TypeStep, SnapshotStep, StepKinds, ExactlyOnceStep,
   PTL DEF Spec

\* The receipt of an execution is for the message its key is reserved for and
\* carries the hash of its content; provenance never exists without a receipt.
THEOREM EvidenceBound == Spec => []ReceiptsBound
BY TypeInit, SnapshotInit, LedgerInit, TypeStep, SnapshotStep, StepKinds, ExactlyOnceStep,
   ReceiptsBoundStep, PTL DEF Spec

--------------------------------------------------------------------------------
(* A one-shot grant pays for one message *)

\* A change of the grants leaves every consumption as it was.
LEMMA GrantChangeKeeps ==
  ASSUME TypeOK, GrantChange
  PROVE  /\ DOMAIN delegated \subseteq DOMAIN delegated'
         /\ \A g \in DOMAIN delegated :
              /\ delegated'[g].participant = delegated[g].participant
              /\ delegated'[g].oneShot = delegated[g].oneShot
              /\ delegated'[g].capability = delegated[g].capability
              /\ delegated'[g].resource = delegated[g].resource
              /\ delegated'[g].intent = delegated[g].intent
              /\ delegated'[g].consumed = delegated[g].consumed
         /\ \A g \in DOMAIN delegated' \ DOMAIN delegated :
              /\ delegated'[g] \in GrantSpecs /\ delegated'[g].consumed = NULL
              /\ participants[delegated'[g].participant].status = "active"
<1> USE DEF TypeOK
<1>1. ASSUME NEW g \in GrantSpecs, participants[g.participant].status = "active",
             delegated' = DelegatedAfterCreate(g)
      PROVE  /\ DOMAIN delegated \subseteq DOMAIN delegated'
             /\ \A i \in DOMAIN delegated : delegated'[i] = delegated[i]
             /\ \A i \in DOMAIN delegated' \ DOMAIN delegated :
                  /\ delegated'[i] \in GrantSpecs /\ delegated'[i].consumed = NULL
                  /\ participants[delegated'[i].participant].status = "active"
  <2>1. g \in DelegatedGrants /\ g.consumed = NULL
    BY GrantSpecsTyped
  <2>2. /\ DOMAIN delegated' = 1..(Len(delegated) + 1)
        /\ delegated'[Len(delegated) + 1] = g
        /\ \A i \in DOMAIN delegated : delegated'[i] = delegated[i]
    BY <1>1, <2>1, DelegatedAfterCreateTyped
  <2>3. DOMAIN delegated = 1..Len(delegated) /\ Len(delegated) \in Nat
    BY DEF PolicyTypeOK
  <2> QED
    BY <1>1, <2>1, <2>2, <2>3
<1>2. ASSUME NEW id \in DOMAIN delegated, delegated' = DelegatedAfterDeactivate(id)
      PROVE  /\ DOMAIN delegated' = DOMAIN delegated
             /\ \A g \in DOMAIN delegated :
                  /\ delegated'[g].participant = delegated[g].participant
                  /\ delegated'[g].oneShot = delegated[g].oneShot
                  /\ delegated'[g].capability = delegated[g].capability
                  /\ delegated'[g].resource = delegated[g].resource
                  /\ delegated'[g].intent = delegated[g].intent
                  /\ delegated'[g].consumed = delegated[g].consumed
  <2> DEFINE row == [delegated[id] EXCEPT !.status = "inactive"]
  <2>1. delegated' = [delegated EXCEPT ![id] = row] /\ DOMAIN delegated' = DOMAIN delegated
    BY <1>2, DelegatedAfterDeactivateTyped
  <2>2. delegated[id] \in DelegatedGrants
    BY <1>2 DEF PolicyTypeOK
  <2>3. /\ row.participant = delegated[id].participant
        /\ row.oneShot = delegated[id].oneShot
        /\ row.capability = delegated[id].capability
        /\ row.resource = delegated[id].resource
        /\ row.intent = delegated[id].intent
        /\ row.consumed = delegated[id].consumed
    BY <2>2 DEF DelegatedGrants
  <2> HIDE DEF row
  <2> QED
    BY <2>1, <2>3
<1> QED
  BY <1>1, <1>2 DEF GrantChange

\* A first execution spends the one-shot grant it rests on, and no other grant: the
\* decision is sound, and a committed replay cannot be a first execution.
LEMMA ExecutedPostSpends ==
  ASSUME TypeOK, ReceiptsBound, NEW r \in Requests, NEW d \in Decisions, ExecutedPost(r, d)
  PROVE  /\ DOMAIN delegated' = DOMAIN delegated
         /\ d.consume # NULL =>
              /\ d.source = "delegated_grants"
              /\ d.grant = d.consume
              /\ d.consume \in DOMAIN delegated
              /\ delegated[d.consume].participant = r.participant
              /\ delegated[d.consume].oneShot
              /\ delegated[d.consume].consumed = NULL
         /\ \A g \in DOMAIN delegated :
              /\ delegated'[g].participant = delegated[g].participant
              /\ delegated'[g].oneShot = delegated[g].oneShot
              /\ delegated'[g].capability = delegated[g].capability
              /\ delegated'[g].resource = delegated[g].resource
              /\ delegated'[g].intent = delegated[g].intent
              /\ delegated'[g].consumed =
                   IF g = d.consume THEN r.intent ELSE delegated[g].consumed
         /\ d.source = "delegated_grants" =>
              /\ d.grant \in DOMAIN delegated
              /\ delegated[d.grant].participant = r.participant
              /\ delegated[d.grant].capability = "post_message"
              /\ delegated[d.grant].resource \in {NULL, r.content.channel}
              /\ delegated[d.grant].intent \in {NULL, r.intent}
              /\ delegated[d.grant].oneShot => d.consume = d.grant
<1>1. KeyOf(r) \in Keys /\ r.via # "plain"
  BY RequestKey, ExecuteRows DEF ExecutedPost
<1>2. receipts[KeyOf(r)] = NULL /\ d.allowed
  BY <1>1 DEF ExecutedPost, ReceiptsBound
<1>3. DecisionSound(d, r.principal, r.participant, "post_message", r.intent, FALSE)
  BY <1>2 DEF ExecutedPost
<1>4. d.source = "delegated_grants" =>
        /\ d.grant \in DOMAIN delegated
        /\ delegated[d.grant].participant = r.participant
        /\ delegated[d.grant].capability = "post_message"
        /\ \/ /\ delegated[d.grant].oneShot /\ delegated[d.grant].consumed = NULL
              /\ d.consume = d.grant
           \/ ~delegated[d.grant].oneShot /\ d.consume = NULL
  BY <1>2, <1>3 DEF DecisionSound, GrantUse
<1>4a. d.source = "delegated_grants" =>
        /\ delegated[d.grant].resource \in {NULL, r.content.channel}
        /\ delegated[d.grant].intent \in {NULL, r.intent}
  BY DEF ExecutedPost, Backed, Covers
<1>5. d.consume # NULL =>
        /\ d.source = "delegated_grants"
        /\ d.grant = d.consume
        /\ d.consume \in DOMAIN delegated
        /\ delegated[d.consume].participant = r.participant
        /\ delegated[d.consume].oneShot
        /\ delegated[d.consume].consumed = NULL
  BY <1>3, <1>4 DEF DecisionSound
<1>6. delegated \in Seq(DelegatedGrants) /\ NULL \notin DOMAIN delegated
  BY NullIsNoValue DEF TypeOK, PolicyTypeOK
<1>7. CASE d.consume = NULL
  <2>1. delegated' = delegated
    BY <1>7 DEF ExecutedPost, RecordAuthority
  <2> QED
    BY <1>4, <1>6, <1>7, <1>4a, <2>1
<1>8. CASE d.consume # NULL
  <2> DEFINE c == d.consume
             row == [delegated[c] EXCEPT !.consumed = r.intent]
  <2>1. delegated' = [delegated EXCEPT ![c] = row]
    BY <1>8 DEF ExecutedPost, RecordAuthority
  <2>2. delegated[c] \in DelegatedGrants
    BY <1>5, <1>6, <1>8
  <2>3. /\ row.participant = delegated[c].participant
        /\ row.oneShot = delegated[c].oneShot
        /\ row.capability = delegated[c].capability
        /\ row.resource = delegated[c].resource
        /\ row.intent = delegated[c].intent
        /\ row.consumed = r.intent
    BY <2>2 DEF DelegatedGrants
  <2> HIDE DEF row
  <2> QED
    BY <1>4, <1>5, <1>8, <1>4a, <2>1, <2>3
<1> QED
  BY <1>7, <1>8

\* No step spends a grant without posting, or posts twice on a grant.
LEMMA OneShotStep ==
  TypeOK /\ ReceiptsBound /\ OneShotSpentOnce /\ StepKind => OneShotSpentOnce'
<1> SUFFICES ASSUME TypeOK, ReceiptsBound, OneShotSpentOnce, StepKind
             PROVE  OneShotSpentOnce'
  OBVIOUS
<1> USE DEF evidence
<1>1. CASE UNCHANGED <<delegated, provenance>>
  BY <1>1 DEF OneShotSpentOnce
<1>2. CASE GrantChange
  <2>1. UNCHANGED provenance
    BY <1>2 DEF GrantChange
  <2> QED
    BY <1>2, <2>1, GrantChangeKeeps DEF OneShotSpentOnce
<1>3. ASSUME NEW r \in Requests, NEW d \in Decisions, ExecutedPost(r, d)
      PROVE  OneShotSpentOnce'
  <2> DEFINE k == KeyOf(r)
  <2>1. k \in Keys /\ k = <<r.participant, r.intent>> /\ r.intent \in Intents
        /\ k[1] = r.participant /\ k[2] = r.intent
    BY <1>3, RequestKey, ExecuteRows DEF ExecutedPost
  <2>2. provenance[k] = NULL
    BY <1>3 DEF ExecutedPost
  <2>3. /\ provenance'[k] = AuthorityRow(r, d)
        /\ \A j \in Keys : j # k => provenance'[j] = provenance[j]
    BY <1>3, <2>1 DEF ExecutedPost, RecordAuthority, TypeOK
  <2>4. provenance'[k] # NULL
    BY <1>3, <2>3, AuthorityRowTyped, NullIsNoEvidence
  <2>5. provenance'[k].source = d.source /\ provenance'[k].grant = d.grant
    BY <2>3 DEF AuthorityRow
  <2>6. /\ DOMAIN delegated' = DOMAIN delegated
        /\ d.consume # NULL =>
             /\ d.source = "delegated_grants"
             /\ d.grant = d.consume
             /\ d.consume \in DOMAIN delegated
             /\ delegated[d.consume].participant = r.participant
             /\ delegated[d.consume].oneShot
             /\ delegated[d.consume].consumed = NULL
        /\ \A g \in DOMAIN delegated :
             /\ delegated'[g].participant = delegated[g].participant
             /\ delegated'[g].oneShot = delegated[g].oneShot
             /\ delegated'[g].consumed =
                  IF g = d.consume THEN r.intent ELSE delegated[g].consumed
        /\ d.source = "delegated_grants" =>
             /\ d.grant \in DOMAIN delegated
             /\ delegated[d.grant].participant = r.participant
             /\ delegated[d.grant].oneShot => d.consume = d.grant
    BY <1>3, ExecutedPostSpends
  <2> HIDE DEF k
  <2>7. ASSUME NEW g \in DOMAIN delegated', delegated'[g].consumed # NULL
        PROVE  LET j == <<delegated'[g].participant, delegated'[g].consumed>>
               IN /\ delegated'[g].oneShot
                  /\ provenance'[j] # NULL
                  /\ provenance'[j].source = "delegated_grants"
                  /\ provenance'[j].grant = g
    <3>1. CASE g = d.consume
      <4>1. d.consume # NULL
        BY <2>6, <2>7, <3>1, NullIsNoValue, GrantIdsNat DEF TypeOK
      <4>2. <<delegated'[g].participant, delegated'[g].consumed>> = k
        BY <2>1, <2>6, <2>7, <3>1, <4>1
      <4> QED
        BY <2>4, <2>5, <2>6, <2>7, <3>1, <4>1, <4>2
    <3>2. CASE g # d.consume
      <4> DEFINE j == <<delegated[g].participant, delegated[g].consumed>>
      <4>1. /\ g \in DOMAIN delegated /\ delegated[g].consumed # NULL
            /\ delegated'[g].participant = delegated[g].participant
            /\ delegated'[g].consumed = delegated[g].consumed
            /\ delegated'[g].oneShot = delegated[g].oneShot
        BY <2>6, <2>7, <3>2
      <4>2. /\ delegated[g].oneShot
            /\ provenance[j] # NULL
            /\ provenance[j].source = "delegated_grants"
            /\ provenance[j].grant = g
        BY <4>1 DEF OneShotSpentOnce
      <4>3. j \in Keys
        <5>1. delegated[g] \in DelegatedGrants
          BY <4>1 DEF TypeOK, PolicyTypeOK
        <5>2. delegated[g].participant \in Participants /\ delegated[g].consumed \in Intents
          BY <4>1, <5>1 DEF DelegatedGrants, OrNull
        <5> QED
          BY <5>2 DEF Keys
      <4>4. provenance'[j] = provenance[j]
        BY <2>2, <2>3, <4>2, <4>3
      <4> QED
        BY <4>1, <4>2, <4>4
    <3> QED
      BY <3>1, <3>2
  <2>8. ASSUME NEW j \in Keys, provenance'[j] # NULL,
               provenance'[j].source = "delegated_grants"
        PROVE  LET g == provenance'[j].grant
               IN /\ g \in DOMAIN delegated'
                  /\ delegated'[g].participant = j[1]
                  /\ delegated'[g].oneShot => delegated'[g].consumed = j[2]
    <3>1. CASE j = k
      BY <2>1, <2>5, <2>6, <2>8, <3>1
    <3>2. CASE j # k
      <4> DEFINE g == provenance[j].grant
      <4>1. provenance'[j] = provenance[j]
        BY <2>3, <2>8, <3>2
      <4>2. /\ g \in DOMAIN delegated /\ delegated[g].participant = j[1]
            /\ delegated[g].oneShot => delegated[g].consumed = j[2]
        BY <2>8, <4>1 DEF OneShotSpentOnce
      <4>3. j[2] # NULL
        BY NullIsNoValue DEF Keys
      <4>4. g # d.consume
        BY <2>6, <4>2, <4>3, NullIsNoValue, GrantIdsNat DEF TypeOK
      <4> QED
        BY <2>6, <4>1, <4>2, <4>4
    <3> QED
      BY <3>1, <3>2
  <2> QED
    BY <2>7, <2>8 DEF OneShotSpentOnce
<1> QED
  BY <1>1, <1>2, <1>3 DEF StepKind, Quiet, PlainPost, NavigationPost, Replay

\* A one-shot delegated grant pays for exactly one message: it is consumed exactly
\* when an execution was created on its authority, by that execution's intent.
THEOREM OneShotPaysOnce == Spec => []OneShotSpentOnce
BY TypeInit, SnapshotInit, LedgerInit, TypeStep, SnapshotStep, StepKinds, ExactlyOnceStep,
   ReceiptsBoundStep, OneShotStep, PTL DEF Spec

--------------------------------------------------------------------------------
(* Evidence only grows *)

\* No step rewrites or removes evidence.
LEMMA EvidenceKeptStep ==
  TypeOK /\ ReceiptsBound /\ OneShotSpentOnce /\ StepKind => EvidenceKept
<1> SUFFICES ASSUME TypeOK, ReceiptsBound, OneShotSpentOnce, StepKind PROVE EvidenceKept
  OBVIOUS
<1> USE DEF evidence
<1>1. CASE Quiet
  BY <1>1 DEF Quiet, EvidenceKept
<1>2. CASE GrantChange
  <2>1. /\ DOMAIN delegated \subseteq DOMAIN delegated'
        /\ \A g \in DOMAIN delegated : delegated'[g].consumed = delegated[g].consumed
    BY <1>2, GrantChangeKeeps
  <2> QED
    BY <1>2, <2>1 DEF GrantChange, EvidenceKept
<1>3. ASSUME NEW r \in Requests, PlainPost(r) PROVE EvidenceKept
  <2>1. messages' = Append(messages, MessageRow(r))
    BY <1>3 DEF PlainPost
  <2>2. \A m \in DOMAIN messages : m \in DOMAIN messages' /\ messages'[m] = messages[m]
    BY <1>3, <2>1, MessagesKept
  <2> QED
    BY <1>3, <2>2 DEF PlainPost, EvidenceKept
<1>4. ASSUME NEW r \in Requests, NavigationPost(r) PROVE EvidenceKept
  <2>1. messages' = Append(messages, MessageRow(r))
    BY <1>4 DEF NavigationPost
  <2>2. \A m \in DOMAIN messages : m \in DOMAIN messages' /\ messages'[m] = messages[m]
    BY <1>4, <2>1, MessagesKept
  <2>3. \A k \in Keys : nav[k] # NULL => nav'[k] = nav[k]
    BY <1>4, RequestKey DEF NavigationPost, TypeOK
  <2> QED
    BY <1>4, <2>2, <2>3 DEF NavigationPost, EvidenceKept
<1>5. ASSUME NEW r \in Requests, NEW m,
             r.via \in ExecuteTransports, ~RecordRefused(r, m), Record(r, m)
      PROVE  /\ \A k \in Keys : receipts[k] # NULL => receipts'[k] = receipts[k]
             /\ \A d \in Deliveries : ingress[d] # NULL => ingress'[d] = ingress[d]
  <2>1. KeyOf(r) \in Keys /\ DeliveryId(r) \in Deliveries
    BY <1>5, RequestKey, ExecuteRows
  <2>2. ingress[DeliveryId(r)] \in {NULL, IngressRow(r)}
    BY <1>5 DEF RecordRefused
  <2> QED
    BY <1>5, <2>1, <2>2 DEF Record, TypeOK
<1>6. ASSUME NEW r \in Requests, NEW d \in Decisions, ExecutedPost(r, d) PROVE EvidenceKept
  <2>1. messages' = Append(messages, MessageRow(r))
    BY <1>6 DEF ExecutedPost
  <2>2. \A m \in DOMAIN messages : m \in DOMAIN messages' /\ messages'[m] = messages[m]
    BY <1>6, <2>1, MessagesKept
  <2>3. KeyOf(r) \in Keys
    BY <1>6, RequestKey, ExecuteRows DEF ExecutedPost
  <2>4. \A k \in Keys :
          /\ nav[k] # NULL => nav'[k] = nav[k]
          /\ provenance[k] # NULL => provenance'[k] = provenance[k]
    BY <1>6, <2>3 DEF ExecutedPost, RecordAuthority, TypeOK
  <2>5. /\ \A k \in Keys : receipts[k] # NULL => receipts'[k] = receipts[k]
        /\ \A e \in Deliveries : ingress[e] # NULL => ingress'[e] = ingress[e]
    BY <1>5, <1>6 DEF ExecutedPost
  <2>6. \A g \in DOMAIN delegated :
          /\ g \in DOMAIN delegated'
          /\ delegated[g].consumed # NULL => delegated'[g].consumed = delegated[g].consumed
    <3>1. /\ DOMAIN delegated' = DOMAIN delegated
          /\ d.consume # NULL => delegated[d.consume].consumed = NULL
          /\ \A g \in DOMAIN delegated :
               delegated'[g].consumed =
                 IF g = d.consume THEN r.intent ELSE delegated[g].consumed
      BY <1>6, ExecutedPostSpends
    <3>2. NULL \notin DOMAIN delegated
      BY NullIsNoValue, GrantIdsNat DEF TypeOK
    <3> QED
      BY <3>1, <3>2
  <2>7. \A k \in Keys :
          /\ nav[k] # NULL => nav'[k] = nav[k]
          /\ receipts[k] # NULL => receipts'[k] = receipts[k]
          /\ provenance[k] # NULL => provenance'[k] = provenance[k]
    BY <2>4, <2>5
  <2>8. \A e \in Deliveries : ingress[e] # NULL => ingress'[e] = ingress[e]
    BY <2>5
  <2> QED
    BY <2>2, <2>6, <2>7, <2>8, Zenon DEF EvidenceKept
<1>7. ASSUME NEW r \in Requests, Replay(r) PROVE EvidenceKept
  <2>1. /\ \A k \in Keys : receipts[k] # NULL => receipts'[k] = receipts[k]
        /\ \A d \in Deliveries : ingress[d] # NULL => ingress'[d] = ingress[d]
    BY <1>5, <1>7 DEF Replay
  <2> QED
    BY <1>7, <2>1 DEF Replay, EvidenceKept
<1> QED
  BY <1>1, <1>2, <1>3, <1>4, <1>6, <1>7 DEF StepKind

\* Messages, reservations, receipts, ingress and authorization provenance and the
\* consumption of grants are append-only in every step.
THEOREM EvidenceGrows == Spec => EvidenceAppendOnly
<1>1. TypeOK /\ Control /\ SnapshotCurrent /\ ReceiptsBound /\ OneShotSpentOnce /\ [Next]_vars
        => [EvidenceKept]_vars
  BY StepKinds, EvidenceKeptStep
<1> QED
  BY <1>1, TypeInit, SnapshotInit, LedgerInit, TypeStep, SnapshotStep, StepKinds,
     ExactlyOnceStep, ReceiptsBoundStep, OneShotStep, PTL DEF Spec, EvidenceAppendOnly

--------------------------------------------------------------------------------
(* Execution implements IntentLedger *)

GrantsBounded == DOMAIN delegated \subseteq 1..MaxGrants

\* The grant table never outgrows its bound.
LEMMA GrantsBoundedStep ==
  TypeOK /\ ReceiptsBound /\ GrantsBounded /\ StepKind => GrantsBounded'
<1> SUFFICES ASSUME TypeOK, ReceiptsBound, GrantsBounded, StepKind PROVE GrantsBounded'
  OBVIOUS
<1>1. CASE UNCHANGED delegated
  BY <1>1 DEF GrantsBounded
<1>2. ASSUME NEW g \in GrantSpecs, Len(delegated) < MaxGrants,
             delegated' = DelegatedAfterCreate(g)
      PROVE  GrantsBounded'
  <2>1. g \in DelegatedGrants
    BY <1>2, GrantSpecsTyped
  <2>2. DOMAIN delegated' = 1..(Len(delegated) + 1)
    BY <1>2, <2>1, DelegatedAfterCreateTyped DEF TypeOK
  <2>3. Len(delegated) \in Nat
    BY DEF TypeOK, PolicyTypeOK
  <2> QED
    BY <1>2, <2>2, <2>3, BoundsTyped DEF GrantsBounded
<1>3. ASSUME NEW id \in DOMAIN delegated, delegated' = DelegatedAfterDeactivate(id)
      PROVE  GrantsBounded'
  <2>1. DOMAIN delegated' = DOMAIN delegated
    BY <1>3, DelegatedAfterDeactivateTyped DEF TypeOK
  <2> QED
    BY <2>1 DEF GrantsBounded
<1>4. ASSUME NEW r \in Requests, NEW d \in Decisions, ExecutedPost(r, d)
      PROVE  GrantsBounded'
  <2>1. DOMAIN delegated' = DOMAIN delegated
    BY <1>4, ExecutedPostSpends
  <2> QED
    BY <2>1 DEF GrantsBounded
<1> QED
  BY <1>1, <1>2, <1>3, <1>4 DEF StepKind, Quiet, GrantChange, PlainPost, NavigationPost, Replay

\* A new message is one more message on the board, and the last one.
LEMMA BoardGrows ==
  ASSUME TypeOK, NEW r \in Requests, messages' = Append(messages, MessageRow(r))
  PROVE  /\ Ledger!OneMore
         /\ Len(messages') = Len(messages) + 1
         /\ messages'[Len(messages')].participant = r.participant
<1>1. /\ Len(messages') = Len(messages) + 1
      /\ messages'[Len(messages) + 1] = MessageRow(r)
      /\ \A m \in 1..Len(messages) : messages'[m] = messages[m]
  BY MessageAppended
<1> QED
  BY <1>1 DEF Ledger!OneMore, MessageRow

\* The first post under a key enters it in the ledger.
LEMMA LedgerEntry ==
  ASSUME TypeOK, NEW r \in Requests, r.via # "plain", nav[KeyOf(r)] = NULL,
         messages' = Append(messages, MessageRow(r)),
         NEW hash \in Hashes,
         nav' = [nav EXCEPT ![KeyOf(r)] = NavRow(hash, Len(messages) + 1)]
  PROVE  /\ KeyOf(r) \in Keys /\ KeyOf(r)[1] = r.participant
         /\ LedgerView[KeyOf(r)] = NULL
         /\ LedgerView' = [LedgerView EXCEPT ![KeyOf(r)] = Len(messages')]
<1>1. KeyOf(r) \in Keys /\ KeyOf(r)[1] = r.participant
  BY RequestKey
<1>2. Len(messages') = Len(messages) + 1 /\ Len(messages) \in Nat
  BY MessageAppended
<1>3. NavRow(hash, Len(messages) + 1) \in NavRows
  BY <1>2 DEF NavRow, NavRows
<1>4. NavRow(hash, Len(messages) + 1) # NULL
  BY <1>3, NullIsNoEvidence
<1>5. NavRow(hash, Len(messages) + 1).message = Len(messages')
  BY <1>2 DEF NavRow
<1>6. LedgerView[KeyOf(r)] = NULL
  BY <1>1 DEF LedgerView
<1>7. LedgerView' = [LedgerView EXCEPT ![KeyOf(r)] = Len(messages')]
  BY <1>1, <1>4, <1>5 DEF LedgerView, TypeOK
<1> QED
  BY <1>1, <1>6, <1>7

\* Every step of Execution is a step of the ledger or leaves it alone.
LEMMA LedgerStep ==
  TypeOK /\ ReceiptsBound /\ GrantsBounded /\ StepKind
    => [Ledger!Next]_(Ledger!ledgerVars)
<1> SUFFICES ASSUME TypeOK, ReceiptsBound, GrantsBounded, StepKind
             PROVE  [Ledger!Next]_(Ledger!ledgerVars)
  OBVIOUS
<1> USE DEF evidence
<1>1. CASE UNCHANGED <<messages, nav, delegated>>
  BY <1>1 DEF Ledger!ledgerVars, LedgerView, SpentView
<1>2. CASE GrantChange
  <2>1. SpentView' = SpentView
    BY <1>2, GrantChangeKeeps DEF SpentView
  <2> QED
    BY <1>2, <2>1 DEF GrantChange, Ledger!ledgerVars, LedgerView
<1>3. ASSUME NEW r \in Requests, PlainPost(r) PROVE Ledger!Next
  <2>1. Ledger!OneMore
    BY <1>3, BoardGrows DEF PlainPost
  <2>2. LedgerView' = LedgerView /\ SpentView' = SpentView
    BY <1>3 DEF PlainPost, LedgerView, SpentView
  <2> QED
    BY <2>1, <2>2 DEF Ledger!Next, Ledger!PostPlain
<1>4. ASSUME NEW r \in Requests, NavigationPost(r) PROVE Ledger!Next
  <2>1. /\ KeyOf(r) \in Keys /\ KeyOf(r)[1] = r.participant
        /\ LedgerView[KeyOf(r)] = NULL
        /\ LedgerView' = [LedgerView EXCEPT ![KeyOf(r)] = Len(messages')]
    BY <1>4, RequestRows, LedgerEntry DEF NavigationPost
  <2>2. Ledger!OneMore /\ messages'[Len(messages')].participant = r.participant
    BY <1>4, BoardGrows DEF NavigationPost
  <2>3. SpentView' = SpentView
    BY <1>4 DEF NavigationPost, SpentView
  <2>4. Ledger!PostIntent(KeyOf(r))
    BY <2>1, <2>2, <2>3 DEF Ledger!PostIntent
  <2> QED
    BY <2>1, <2>4 DEF Ledger!Next
<1>5. ASSUME NEW r \in Requests, NEW d \in Decisions, ExecutedPost(r, d) PROVE Ledger!Next
  <2>0. r.via # "plain"
    BY <1>5, ExecuteRows DEF ExecutedPost
  <2>1. /\ KeyOf(r) \in Keys /\ KeyOf(r)[1] = r.participant
        /\ LedgerView[KeyOf(r)] = NULL
        /\ LedgerView' = [LedgerView EXCEPT ![KeyOf(r)] = Len(messages')]
    BY <1>5, <2>0, RequestRows, LedgerEntry DEF ExecutedPost
  <2>2. Ledger!OneMore /\ messages'[Len(messages')].participant = r.participant
    BY <1>5, BoardGrows DEF ExecutedPost
  <2>3. /\ DOMAIN delegated' = DOMAIN delegated
        /\ d.consume # NULL =>
             /\ d.consume \in DOMAIN delegated
             /\ delegated[d.consume].participant = r.participant
             /\ delegated[d.consume].consumed = NULL
        /\ \A g \in DOMAIN delegated :
             /\ delegated'[g].participant = delegated[g].participant
             /\ delegated'[g].consumed =
                  IF g = d.consume THEN r.intent ELSE delegated[g].consumed
    BY <1>5, ExecutedPostSpends
  <2>4. KeyOf(r) = <<r.participant, r.intent>> /\ r.intent # NULL
    BY <1>5, <2>0, RequestKey, NullIsNoValue
  <2>5. CASE d.consume = NULL
    <3>1. NULL \notin DOMAIN delegated
      BY NullIsNoValue, GrantIdsNat DEF TypeOK
    <3>2. SpentView' = SpentView
      BY <2>3, <2>5, <3>1 DEF SpentView
    <3>3. Ledger!PostIntent(KeyOf(r))
      BY <2>1, <2>2, <3>2 DEF Ledger!PostIntent
    <3> QED
      BY <2>1, <3>3 DEF Ledger!Next
  <2>6. CASE d.consume # NULL
    <3> DEFINE c == d.consume
    <3>1. c \in 1..MaxGrants /\ SpentView[c] = NULL
      BY <2>3, <2>6 DEF GrantsBounded, SpentView
    <3>2. SpentView' = [SpentView EXCEPT ![c] = KeyOf(r)]
      BY <2>3, <2>4, <2>6, <3>1 DEF SpentView
    <3>3. Ledger!PostIntent(KeyOf(r))
      BY <2>1, <2>2, <3>1, <3>2 DEF Ledger!PostIntent
    <3> QED
      BY <2>1, <3>3 DEF Ledger!Next
  <2> QED
    BY <2>5, <2>6
<1> QED
  BY <1>1, <1>2, <1>3, <1>4, <1>5 DEF StepKind, Quiet, Replay

\* The detailed specification implements the abstract ledger: whatever SQLite,
\* retries, crashes and administrators do, the board, the ledger and the spent
\* grants change together and once per key.
THEOREM Refinement == Spec => ImplementsLedger
<1>1. Init => Ledger!Init /\ GrantsBounded
  BY DEF Init, Ledger!Init, LedgerView, SpentView, GrantsBounded
<1> QED
  BY <1>1, TypeInit, SnapshotInit, LedgerInit, TypeStep, SnapshotStep, StepKinds,
     ExactlyOnceStep, ReceiptsBoundStep, GrantsBoundedStep, LedgerStep, PTL
     DEF Spec, ImplementsLedger, Ledger!Spec

--------------------------------------------------------------------------------
(* Invariants of posting *)

\* The invariants of posting that the lemmas below start from.
Posting ==
  /\ TypeOK /\ Control /\ SnapshotCurrent
  /\ ExactlyOnce /\ ReceiptsBound /\ OneShotSpentOnce

\* Every step keeps them.
LEMMA PostingStep == Posting /\ [Next]_vars => Posting' /\ StepKind /\ EvidenceKept
BY TypeStep, SnapshotStep, StepKinds, ExactlyOnceStep, ReceiptsBoundStep, OneShotStep,
   EvidenceKeptStep DEF Posting

\* They hold initially.
LEMMA PostingInit == Init => Posting
BY TypeInit, SnapshotInit, LedgerInit DEF Posting

--------------------------------------------------------------------------------
(* Answers *)

\* What a client that is told created or existing may rely on.
Truthful(w) ==
  response[w].status \in {"created", "existing"} =>
    /\ MessageExists(response[w].message)
    /\ messages[response[w].message] = MessageRow(req[w])
    /\ req[w].via # "plain" =>
         /\ nav[KeyOf(req[w])] # NULL
         /\ nav[KeyOf(req[w])].message = response[w].message

\* AnswersTruthful, one worker at a time; a worker that is idle without a request
\* has not answered one.
Answers ==
  \A w \in Workers :
    /\ pc[w] = "idle" => Truthful(w)
    /\ response[w].status \in {"created", "existing"} => req[w] \in Requests

\* An answer stays true: what it names is evidence.
LEMMA TruthfulKept ==
  ASSUME TypeOK, TypeOK', EvidenceKept, NEW w \in Workers,
         req'[w] = req[w], response'[w] = response[w],
         response[w].status \in {"created", "existing"} => req[w] \in Requests,
         Truthful(w)
  PROVE  Truthful(w)'
<1> SUFFICES ASSUME response[w].status \in {"created", "existing"}
             PROVE  Truthful(w)'
  BY DEF Truthful
<1>1. req[w] \in Requests
  OBVIOUS
<1>2. /\ response[w].message \in DOMAIN messages
      /\ messages[response[w].message] = MessageRow(req[w])
  BY DEF Truthful, MessageExists, TypeOK
<1>3. /\ response[w].message \in DOMAIN messages'
      /\ messages'[response[w].message] = MessageRow(req[w])
  BY <1>2 DEF EvidenceKept
<1>4. MessageExists(response[w].message)'
  BY <1>3 DEF MessageExists, TypeOK
<1>5. req[w].via # "plain" => nav'[KeyOf(req[w])] = nav[KeyOf(req[w])]
  BY <1>1, RequestKey DEF Truthful, EvidenceKept
<1> QED
  BY <1>3, <1>4, <1>5 DEF Truthful

\* A step of one worker keeps the answers of the others.
LEMMA AnswersOfOthers ==
  ASSUME TypeOK, TypeOK', EvidenceKept, Answers, NEW w \in Workers,
         \A v \in Workers : v # w =>
           pc'[v] = pc[v] /\ req'[v] = req[v] /\ response'[v] = response[v],
         req'[w] \in Requests, pc'[w] # "idle" \/ Truthful(w)'
  PROVE  Answers'
<1> SUFFICES ASSUME NEW v \in Workers, v # w
             PROVE  /\ pc'[v] = "idle" => Truthful(v)'
                    /\ response'[v].status \in {"created", "existing"} => req'[v] \in Requests
  BY DEF Answers
<1>1. pc[v] = "idle" => Truthful(v)
  BY DEF Answers
<1>2. response[v].status \in {"created", "existing"} => req[v] \in Requests
  BY DEF Answers
<1> QED
  BY <1>1, <1>2, TruthfulKept

\* A handler that returns answers its own client only.
LEMMA Responded ==
  ASSUME TypeOK, NEW w \in Workers, NEW status, NEW m, Respond(w, status, m)
  PROVE  /\ \A v \in Workers : v # w => pc'[v] = pc[v] /\ response'[v] = response[v]
         /\ pc'[w] = "idle"
         /\ response'[w] = [status |-> status, message |-> m]
BY DEF Respond, TypeOK

\* An answer with an error promises nothing.
LEMMA ErrorAnswer ==
  ASSUME TypeOK, NEW w \in Workers, NEW status, NEW m, Respond(w, status, m),
         status \notin {"created", "existing"}
  PROVE  Truthful(w)'
<1>1. response'[w] = [status |-> status, message |-> m]
  BY Responded
<1> QED
  BY <1>1 DEF Truthful

\* A reservation with the rowid of the next message is a row, with that rowid.
LEMMA ReservationIsRow ==
  ASSUME TypeOK, NEW hash \in Hashes
  PROVE  /\ NavRow(hash, Len(messages) + 1) # NULL
         /\ NavRow(hash, Len(messages) + 1).message = Len(messages) + 1
<1>1. NavRow(hash, Len(messages) + 1) \in NavRows
  BY DEF NavRow, NavRows, TypeOK
<1> QED
  BY <1>1, NullIsNoEvidence DEF NavRow

\* The answer to a request that was just posted.
LEMMA CreatedAnswer ==
  ASSUME TypeOK, NEW w \in Workers, req[w] \in Requests, req'[w] = req[w],
         messages' = Append(messages, MessageRow(req[w])),
         Respond(w, "created", Len(messages) + 1),
         req[w].via # "plain" =>
           nav'[KeyOf(req[w])] # NULL /\ nav'[KeyOf(req[w])].message = Len(messages) + 1
  PROVE  Truthful(w)'
<1>1. response'[w] = [status |-> "created", message |-> Len(messages) + 1]
  BY Responded
<1>2. response'[w].message = Len(messages) + 1
  BY <1>1
<1>3. /\ Len(messages) \in Nat /\ Len(messages') = Len(messages) + 1
      /\ messages'[Len(messages) + 1] = MessageRow(req[w])
  BY MessageAppended
<1>4. Len(messages) + 1 \in 1..Len(messages')
  BY <1>3
<1> QED
  BY <1>2, <1>3, <1>4 DEF Truthful, MessageExists

\* The answer to a request whose key was taken by its own content.
LEMMA ExistingAnswer ==
  ASSUME TypeOK, ExactlyOnce, NEW w \in Workers,
         req[w] \in Requests, req[w].via # "plain", req'[w] = req[w],
         nav[KeyOf(req[w])] # NULL,
         messages[nav[KeyOf(req[w])].message].content = req[w].content,
         Respond(w, "existing", nav[KeyOf(req[w])].message),
         UNCHANGED <<messages, nav>>
  PROVE  Truthful(w)'
<1> DEFINE k == KeyOf(req[w])
           m == nav[k].message
<1>1. k \in Keys /\ k[1] = req[w].participant
  BY RequestKey
<1>2. MessageExists(m) /\ messages[m].participant = req[w].participant
  BY <1>1 DEF ExactlyOnce
<1>3. messages[m] \in MessageRows
  BY <1>2 DEF MessageExists, TypeOK
<1>4. messages[m] = MessageRow(req[w])
  BY <1>2, <1>3 DEF MessageRows, MessageRow
<1>5. response'[w] = [status |-> "existing", message |-> m]
  BY Responded
<1> QED
  BY <1>2, <1>4, <1>5 DEF Truthful, MessageExists

\* No step makes an answer untrue, and none gives an untrue one.
LEMMA AnswersStep == Posting /\ Answers /\ [Next]_vars => Answers'
<1> SUFFICES ASSUME Posting, Answers, [Next]_vars PROVE Answers'
  OBVIOUS
<1> USE DEF tables, policy, evidence, local
<1>1. /\ TypeOK /\ Control /\ ExactlyOnce /\ TypeOK' /\ EvidenceKept
      /\ ReceiptsBound
  BY PostingStep DEF Posting
<1>2. ASSUME UNCHANGED <<pc, req, response>> PROVE Answers'
  <2> SUFFICES ASSUME NEW v \in Workers
               PROVE  /\ pc'[v] = "idle" => Truthful(v)'
                      /\ response'[v].status \in {"created", "existing"} => req'[v] \in Requests
    BY DEF Answers
  <2>1. pc[v] = "idle" => Truthful(v)
    BY DEF Answers
  <2>2. response[v].status \in {"created", "existing"} => req[v] \in Requests
    BY DEF Answers
  <2> QED
    BY <1>1, <1>2, <2>1, <2>2, TruthfulKept
<1>3. CASE Crash
  <2> SUFFICES ASSUME NEW v \in Workers
               PROVE  /\ pc'[v] = "idle" => Truthful(v)'
                      /\ response'[v].status \in {"created", "existing"} => req'[v] \in Requests
    BY DEF Answers
  <2>1. req'[v] = req[v]
    BY <1>3 DEF Crash
  <2>2. CASE pc[v] = "idle"
    <3>1. response'[v] = response[v]
      BY <1>3, <2>2 DEF Crash
    <3>2. Truthful(v) /\ (response[v].status \in {"created", "existing"} => req[v] \in Requests)
      BY <2>2 DEF Answers
    <3> QED
      BY <1>1, <2>1, <3>1, <3>2, TruthfulKept
  <2>3. CASE pc[v] # "idle"
    <3>1. response'[v] = NoResponse
      BY <1>3, <2>3 DEF Crash
    <3> QED
      BY <3>1 DEF NoResponse, Truthful
  <2> QED
    BY <2>2, <2>3
<1>4. ASSUME NEW w \in Workers, NEW r \in Requests, Receive(w, r) PROVE Answers'
  <2>1. req' = [req EXCEPT ![w] = r]
    BY <1>4 DEF Receive
  <2>2. \A v \in Workers : v # w => pc'[v] = pc[v] /\ response'[v] = response[v]
    BY <1>1, <1>4 DEF Receive, Respond, GoTo, TypeOK
  <2>3. pc'[w] # "idle" \/ Truthful(w)'
    <3>1. \/ Respond(w, "unauthorized", 0) \/ Respond(w, "reply_target_not_found", 0)
          \/ GoTo(w, "channel") \/ GoTo(w, "begin")
      BY <1>4 DEF Receive
    <3> QED
      BY <1>1, <3>1, ErrorAnswer DEF GoTo, TypeOK
  <2> QED
    BY <1>1, <1>4, <2>1, <2>2, <2>3, AnswersOfOthers DEF TypeOK
<1>5. ASSUME NEW w \in Workers, Serve(w) PROVE Answers'
  <2> DEFINE r == req[w]
  <2>1. pc[w] # "idle" /\ req' = req
    BY <1>5 DEF Serve, EnsureChannel, AppendPlain, AppendNavigation, BusyTimeout,
       BeginExecute, AcquireWriteLock, FinishExecute, StorageError, ReleaseLock
  <2>2. r \in Requests
    BY <1>1, <2>1 DEF Control
  <2> DEFINE Good ==
        /\ \A v \in Workers : v # w => pc'[v] = pc[v] /\ response'[v] = response[v]
        /\ pc'[w] # "idle" \/ Truthful(w)'
  <2>3. ASSUME NEW status, NEW m, Respond(w, status, m), Truthful(w)' PROVE Good
    BY <1>1, <2>3, Responded
  <2>4. ASSUME NEW status \in Statuses \ {"created", "existing"}, Respond(w, status, 0)
        PROVE  Good
    BY <1>1, <2>3, <2>4, ErrorAnswer
  <2>5. ASSUME NEW step \in Steps \ {"idle"}, GoTo(w, step) PROVE Good
    BY <1>1, <2>5 DEF GoTo, TypeOK
  <2> SUFFICES Good
    BY <1>1, <2>1, <2>2, AnswersOfOthers DEF Good
  <2> HIDE DEF Good
  <2>6. CASE EnsureChannel(w) \/ BusyTimeout(w)
    <3>1. \/ Respond(w, "channel_archived", 0) \/ Respond(w, "database_unavailable", 0)
          \/ GoTo(w, "begin")
      BY <2>6 DEF EnsureChannel, BusyTimeout
    <3> QED
      BY <2>4, <2>5, <3>1 DEF Statuses, Steps
  <2>7. CASE BeginExecute(w)
    <3>1. CASE Respond(w, "authorization_denied", 0)
      BY <2>4, <3>1 DEF Statuses
    <3>2. CASE pc' = [pc EXCEPT ![w] = "evaluated"] /\ UNCHANGED response
      BY <1>1, <3>2 DEF TypeOK, Good
    <3> QED
      BY <2>7, <3>1, <3>2 DEF BeginExecute
  <2>8. CASE AcquireWriteLock(w)
    <3>1. GoTo(w, "locked") \/ Respond(w, "database_unavailable", 0)
      BY <2>8 DEF AcquireWriteLock
    <3> QED
      BY <2>4, <2>5, <3>1 DEF Statuses, Steps
  <2>9. CASE AppendPlain(w)
    <3>1. Respond(w, "created", Len(messages) + 1) /\ r.via = "plain"
      BY <2>9 DEF AppendPlain
    <3>2. Truthful(w)'
      BY <1>1, <2>1, <2>2, <2>9, <3>1, CreatedAnswer DEF AppendPlain, MessageRow
    <3> QED
      BY <2>3, <3>1, <3>2
  <2>10. CASE AppendNavigation(w)
    <3>1. r.via = "navigation" /\ r.via # "plain"
      BY <2>10 DEF AppendNavigation
    <3>2. KeyOf(r) \in Keys
      BY <2>2, <3>1, RequestKey
    <3>3. CASE Reserved(KeyOf(r)) /\ nav[KeyOf(r)].hash = NavigationHash(r.content)
      <4>1. Respond(w, "existing", nav[KeyOf(r)].message) /\ UNCHANGED <<messages, nav>>
        BY <2>10, <3>3 DEF AppendNavigation
      <4>2. messages[nav[KeyOf(r)].message].content = r.content /\ nav[KeyOf(r)] # NULL
        BY <1>1, <3>2, <3>3 DEF ExactlyOnce, Reserved, NavigationHash
      <4>3. Truthful(w)'
        BY <1>1, <2>1, <2>2, <3>1, <4>1, <4>2, ExistingAnswer
      <4> QED
        BY <2>3, <4>1, <4>3
    <3>4. CASE Reserved(KeyOf(r)) /\ nav[KeyOf(r)].hash # NavigationHash(r.content)
      <4>1. Respond(w, "nonce_conflict", 0)
        BY <2>10, <3>4 DEF AppendNavigation
      <4> QED
        BY <2>4, <4>1 DEF Statuses
    <3>5. CASE ~Reserved(KeyOf(r)) /\ ReplyMissing(r)
      <4>1. Respond(w, "reply_target_not_found", 0)
        BY <2>10, <3>5 DEF AppendNavigation
      <4> QED
        BY <2>4, <4>1 DEF Statuses
    <3>6. CASE ~Reserved(KeyOf(r)) /\ ~ReplyMissing(r)
      <4>1. /\ Respond(w, "created", Len(messages) + 1)
            /\ messages' = Append(messages, MessageRow(r))
            /\ nav' = [nav EXCEPT ![KeyOf(r)] =
                         NavRow(NavigationHash(r.content), Len(messages) + 1)]
        BY <2>10, <3>6 DEF AppendNavigation, MessageRow
      <4>2. nav'[KeyOf(r)] = NavRow(NavigationHash(r.content), Len(messages) + 1)
        BY <1>1, <3>2, <4>1 DEF TypeOK
      <4>3. nav'[KeyOf(r)] # NULL /\ nav'[KeyOf(r)].message = Len(messages) + 1
        BY <1>1, <2>2, <4>2, RequestRows, ReservationIsRow DEF NavigationHash, Hashes
      <4>4. Truthful(w)'
        BY <1>1, <2>1, <2>2, <4>1, <4>3, CreatedAnswer
      <4> QED
        BY <2>3, <4>1, <4>4
    <3> QED
      BY <3>3, <3>4, <3>5, <3>6
  <2>11. CASE FinishExecute(w) \/ StorageError(w)
    <3>1. pc[w] = "locked"
      BY <2>11 DEF FinishExecute, StorageError
    <3>2. r.via \in ExecuteTransports /\ r.via # "plain" /\ KeyOf(r) \in Keys
      BY <1>1, <2>2, <3>1, ExecuteRows, RequestKey DEF Control
    <3>3. ASSUME NEW status \in Statuses \ {"created", "existing"}, Rollback(w, status)
          PROVE  Good
      BY <2>4, <3>3 DEF Rollback
    <3>4. CASE CreateEffect(w) /\ ~Rollback(w, "database_unavailable")
      <4>1. /\ Respond(w, "created", Len(messages) + 1)
            /\ messages' = Append(messages, MessageRow(r))
            /\ nav' = [nav EXCEPT ![KeyOf(r)] =
                         NavRow(ExecutionHash(r.content), Len(messages) + 1)]
        BY <3>4 DEF CreateEffect, MessageRow
      <4>2. nav'[KeyOf(r)] = NavRow(ExecutionHash(r.content), Len(messages) + 1)
        BY <1>1, <3>2, <4>1 DEF TypeOK
      <4>3. nav'[KeyOf(r)] # NULL /\ nav'[KeyOf(r)].message = Len(messages) + 1
        BY <1>1, <2>2, <4>2, RequestRows, ReservationIsRow DEF ExecutionHash, Hashes
      <4>4. Truthful(w)'
        BY <1>1, <2>1, <2>2, <4>1, <4>3, CreatedAnswer
      <4> QED
        BY <2>3, <4>1, <4>4
    <3>5. CASE ReplayEffect(w) /\ ~Rollback(w, "database_unavailable")
      <4>1. /\ nav[KeyOf(r)] # NULL /\ ~Conflicts(nav[KeyOf(r)], r.content)
            /\ Respond(w, "existing", nav[KeyOf(r)].message)
            /\ UNCHANGED <<messages, nav>>
        BY <3>5 DEF ReplayEffect, Reserved
      <4>2. messages[nav[KeyOf(r)].message].content = r.content
        BY <1>1, <3>2, <4>1 DEF ExactlyOnce, Conflicts, ExecutionHash
      <4>3. Truthful(w)'
        BY <1>1, <2>1, <2>2, <3>2, <4>1, <4>2, ExistingAnswer
      <4> QED
        BY <2>3, <4>1, <4>3
    <3> QED
      BY <2>11, <3>3, <3>4, <3>5 DEF FinishExecute, StorageError, Statuses
  <2> QED
    BY <1>5, <2>6, <2>7, <2>8, <2>9, <2>10, <2>11 DEF Serve
<1>6. CASE AdminStep \/ Tick \/ UNCHANGED vars
  <2>1. UNCHANGED <<pc, req, response>>
    BY <1>6 DEF AdminStep, SetParticipantStatus, UpdateChannel, SetOwner,
       CreateDelegatedGrant, DeactivateDelegatedGrant, CreateDurableGrant,
       DeactivateDurableGrant, AdminCommit, Tick, vars
  <2> QED
    BY <1>2, <2>1
<1> QED
  BY <1>3, <1>4, <1>5, <1>6 DEF Next, AdminStep

\* A client that is told created or existing can read, under the id it was given,
\* the message it sent, and its key is reserved for it: after any races, retries,
\* crashes and other clients' posts.
THEOREM AnswersAreTruthful == Spec => []AnswersTruthful
<1>1. Init => Answers
  BY DEF Init, Answers, Truthful, NoResponse
<1>2. Answers => AnswersTruthful
  BY DEF Answers, AnswersTruthful, Truthful, MessageRow
<1> QED
  BY <1>1, <1>2, PostingInit, PostingStep, AnswersStep, PTL DEF Spec

--------------------------------------------------------------------------------
(* Replays *)

\* A spent grant was in scope: what it names of resource and intent is what the
\* execution that spent it was about.
SpentInScope ==
  \A g \in DOMAIN delegated : delegated[g].consumed # NULL =>
    LET k == <<delegated[g].participant, delegated[g].consumed>>
    IN /\ delegated[g].resource \in {NULL, provenance[k].resource}
       /\ delegated[g].intent \in {NULL, delegated[g].consumed}

\* The key of the execution that spent a grant.
LEMMA SpentKey ==
  ASSUME TypeOK, OneShotSpentOnce, NEW g \in DOMAIN delegated, delegated[g].consumed # NULL
  PROVE  LET k == <<delegated[g].participant, delegated[g].consumed>>
         IN k \in Keys /\ provenance[k] # NULL /\ delegated[g].oneShot
<1>1. delegated[g] \in DelegatedGrants
  BY DEF TypeOK, PolicyTypeOK
<1>2. delegated[g].participant \in Participants /\ delegated[g].consumed \in Intents
  BY <1>1 DEF DelegatedGrants, OrNull
<1> QED
  BY <1>2 DEF Keys, OneShotSpentOnce

\* A grant is spent in scope, and its terms never change.
LEMMA SpentInScopeStep == Posting /\ SpentInScope /\ StepKind /\ EvidenceKept => SpentInScope'
<1> SUFFICES ASSUME Posting, SpentInScope, StepKind, EvidenceKept,
                    NEW g \in DOMAIN delegated', delegated'[g].consumed # NULL
             PROVE  LET k == <<delegated'[g].participant, delegated'[g].consumed>>
                    IN /\ delegated'[g].resource \in {NULL, provenance'[k].resource}
                       /\ delegated'[g].intent \in {NULL, delegated'[g].consumed}
  BY DEF SpentInScope
<1>1. TypeOK /\ ReceiptsBound /\ OneShotSpentOnce
  BY DEF Posting
<1> DEFINE Goal == LET k == <<delegated'[g].participant, delegated'[g].consumed>>
                   IN /\ delegated'[g].resource \in {NULL, provenance'[k].resource}
                      /\ delegated'[g].intent \in {NULL, delegated'[g].consumed}
<1> SUFFICES Goal
  OBVIOUS
<1>2. ASSUME g \in DOMAIN delegated, delegated[g].consumed # NULL,
             delegated'[g].participant = delegated[g].participant,
             delegated'[g].resource = delegated[g].resource,
             delegated'[g].intent = delegated[g].intent
      PROVE  Goal
  <2> DEFINE k == <<delegated[g].participant, delegated[g].consumed>>
  <2>1. k \in Keys /\ provenance[k] # NULL
    BY <1>1, <1>2, SpentKey
  <2>2. provenance'[k] = provenance[k] /\ delegated'[g].consumed = delegated[g].consumed
    BY <1>1, <1>2, <2>1 DEF EvidenceKept
  <2>3. /\ delegated[g].resource \in {NULL, provenance[k].resource}
        /\ delegated[g].intent \in {NULL, delegated[g].consumed}
    BY <1>2 DEF SpentInScope
  <2> QED
    BY <1>2, <2>2, <2>3
<1> HIDE DEF Goal
<1>3. CASE UNCHANGED delegated
  BY <1>2, <1>3
<1>4. CASE GrantChange
  BY <1>1, <1>2, <1>4, GrantChangeKeeps
<1>5. ASSUME NEW r \in Requests, NEW d \in Decisions, ExecutedPost(r, d) PROVE Goal
  <2>1. /\ DOMAIN delegated' = DOMAIN delegated
        /\ d.consume # NULL => d.source = "delegated_grants" /\ d.grant = d.consume
        /\ \A h \in DOMAIN delegated :
             /\ delegated'[h].participant = delegated[h].participant
             /\ delegated'[h].resource = delegated[h].resource
             /\ delegated'[h].intent = delegated[h].intent
             /\ delegated'[h].consumed =
                  IF h = d.consume THEN r.intent ELSE delegated[h].consumed
        /\ d.source = "delegated_grants" =>
             /\ delegated[d.grant].participant = r.participant
             /\ delegated[d.grant].resource \in {NULL, r.content.channel}
             /\ delegated[d.grant].intent \in {NULL, r.intent}
    BY <1>1, <1>5, ExecutedPostSpends
  <2>2. CASE g # d.consume
    BY <1>2, <2>1, <2>2
  <2>3. CASE g = d.consume
    <3>1. g # NULL
      BY <1>1, <2>1, GrantIdsNat, NullIsNoValue DEF TypeOK
    <3>2. KeyOf(r) \in Keys /\ KeyOf(r) = <<r.participant, r.intent>>
      BY <1>5, ExecuteRows, RequestKey DEF ExecutedPost
    <3>3. provenance'[KeyOf(r)] = AuthorityRow(r, d)
      BY <1>1, <1>5, <3>2 DEF ExecutedPost, RecordAuthority, TypeOK
    <3>4. provenance'[KeyOf(r)].resource = r.content.channel
      BY <3>3 DEF AuthorityRow
    <3>5. /\ delegated'[g].participant = r.participant /\ delegated'[g].consumed = r.intent
          /\ delegated'[g].resource \in {NULL, r.content.channel}
          /\ delegated'[g].intent \in {NULL, r.intent}
      BY <2>1, <2>3, <3>1
    <3> QED
      BY <3>2, <3>4, <3>5 DEF Goal
  <2> QED
    BY <2>2, <2>3
<1> QED
  BY <1>1, <1>3, <1>4, <1>5 DEF StepKind, Quiet, PlainPost, NavigationPost, Replay

\* A committed one-shot execution stays replayable by the principal it was granted
\* to, after the grant has expired and whatever other grants there are, for as long
\* as grant and participant are active (evaluate_authorization, Denial).
THEOREM ReplaysStayAuthorized == Spec => []ReplayStaysAuthorized
<1>1. Posting /\ SpentInScope => ReplayStaysAuthorized
  <2> SUFFICES ASSUME Posting, SpentInScope,
                      NEW g \in DOMAIN delegated, NEW r \in Requests,
                      delegated[g].consumed # NULL,
                      delegated[g].status = "active",
                      delegated[g].capability = "post_message",
                      participants[delegated[g].participant].status = "active",
                      r.principal = delegated[g].principal,
                      KeyOf(r) = <<delegated[g].participant, delegated[g].consumed>>,
                      r.content.channel = provenance[KeyOf(r)].resource
               PROVE  DecisionFor(r, now).allowed
    BY DEF ReplayStaysAuthorized
  <2>1. TypeOK /\ PolicyTypeOK /\ ReceiptsBound /\ OneShotSpentOnce
    BY DEF Posting, TypeOK
  <2>2. r.participant = delegated[g].participant /\ r.intent = delegated[g].consumed
    BY DEF KeyOf
  <2>3. KeyOf(r) \in Keys /\ provenance[KeyOf(r)] # NULL /\ delegated[g].oneShot
    BY <2>1, SpentKey
  <2>4. receipts[KeyOf(r)] # NULL
    BY <2>1, <2>3 DEF ReceiptsBound
  <2>5. Covers(g, r.content.channel, r.intent, now)
    BY <2>2, <2>3 DEF SpentInScope, Covers
  <2>6. g \in DelegatedCandidates(r.principal, r.participant, "post_message")
    BY <2>2 DEF DelegatedCandidates
  <2>7. Evaluate(r.principal, r.participant, "post_message", r.content.channel,
                 r.intent, now, TRUE).allowed
    BY <2>1, <2>2, <2>5, <2>6, CoveredReplayAllowed
  <2> QED
    BY <2>4, <2>7 DEF DecisionFor
<1>2. Init => SpentInScope
  BY DEF Init, SpentInScope
<1> QED
  BY <1>1, <1>2, PostingInit, PostingStep, SpentInScopeStep, PTL DEF Spec

\* A transport presents a delivery for one intent of one participant and one
\* principal, however often.
OneMeaning ==
  \A q, r \in Requests :
    /\ q.via \in ExecuteTransports /\ r.via \in ExecuteTransports
    /\ DeliveryId(q) = DeliveryId(r)
    => IngressRow(q) = IngressRow(r)

\* A recorded delivery is that of a request.
IngressOwned ==
  \A d \in Deliveries : ingress[d] # NULL =>
    \E q \in Requests :
      q.via \in ExecuteTransports /\ DeliveryId(q) = d /\ ingress[d] = IngressRow(q)

\* Deliveries are recorded by executions and replays only.
LEMMA IngressOwnedStep == Posting /\ IngressOwned /\ [Next]_vars => IngressOwned'
<1> SUFFICES ASSUME Posting, IngressOwned, [Next]_vars PROVE IngressOwned'
  OBVIOUS
<1>1. TypeOK /\ StepKind
  BY PostingStep DEF Posting
<1>2. CASE UNCHANGED ingress
  BY <1>2 DEF IngressOwned
<1>3. ASSUME NEW r \in Requests, r.via \in ExecuteTransports, NEW m, Record(r, m)
      PROVE  IngressOwned'
  <2> SUFFICES ASSUME NEW d \in Deliveries, ingress'[d] # NULL
               PROVE  \E q \in Requests : /\ q.via \in ExecuteTransports /\ DeliveryId(q) = d
                                          /\ ingress'[d] = IngressRow(q)
    BY DEF IngressOwned
  <2>1. ingress' = [ingress EXCEPT ![DeliveryId(r)] = IngressRow(r)]
    BY <1>3 DEF Record
  <2>2. CASE d = DeliveryId(r)
    BY <1>1, <1>3, <2>1, <2>2 DEF TypeOK
  <2>3. CASE d # DeliveryId(r)
    <3>1. ingress'[d] = ingress[d]
      BY <1>1, <2>1, <2>3 DEF TypeOK
    <3> QED
      BY <3>1 DEF IngressOwned
  <2> QED
    BY <2>2, <2>3
<1> QED
  BY <1>1, <1>2, <1>3 DEF StepKind, Quiet, GrantChange, PlainPost, NavigationPost,
     ExecutedPost, Replay, evidence

\* Where every delivery has one meaning, an execution of an intent that is already
\* committed with the same content is a replay that record_execution_in_tx accepts,
\* by whatever transport it comes.
THEOREM ReplaysAreAccepted == OneMeaning /\ Spec => []ReplayNeverRefused
<1>1. OneMeaning /\ Posting /\ IngressOwned => ReplayNeverRefused
  <2> SUFFICES ASSUME OneMeaning, Posting, IngressOwned,
                      NEW w \in Workers, pc[w] = "locked", receipts[KeyOf(req[w])] # NULL,
                      RecordRefused(req[w], receipts[KeyOf(req[w])].message)
               PROVE  FALSE
    BY DEF ReplayNeverRefused
  <2> DEFINE r == req[w]
  <2>1. r \in Requests /\ r.via \in ExecuteTransports
    BY DEF Posting, Control
  <2>2. DeliveryId(r) \in Deliveries
    BY <2>1, ExecuteRows
  <2>3. ingress[DeliveryId(r)] \notin {NULL, IngressRow(r)}
    BY DEF RecordRefused
  <2>4. PICK q \in Requests : /\ q.via \in ExecuteTransports /\ DeliveryId(q) = DeliveryId(r)
                              /\ ingress[DeliveryId(r)] = IngressRow(q)
    BY <2>2, <2>3 DEF IngressOwned
  <2> QED
    BY <2>1, <2>3, <2>4 DEF OneMeaning
<1>2. Init => IngressOwned
  BY DEF Init, IngressOwned
<1>3. OneMeaning => OneMeaning'
  BY DEF OneMeaning, DeliveryId, OidcDelivery, GithubDelivery, IngressRow
<1> QED
  BY <1>1, <1>2, <1>3, PostingInit, PostingStep, IngressOwnedStep, PTL DEF Spec

--------------------------------------------------------------------------------
(* The sweep *)

\* No request is a navigation write; those leave a reservation without evidence.
NoNavigation == \A r \in Requests : r.via # "navigation"

\* The evidence of a key that is reserved is complete.
Complete(k) ==
  /\ nav[k].hash = ExecutionHash(nav[k].hash.content)
  /\ receipts[k] # NULL
  /\ provenance[k] # NULL
  /\ provenance[k].resource = nav[k].hash.content.channel
  /\ provenance[k].source = "delegated_grants" =>
       /\ provenance[k].grant \in DOMAIN delegated
       /\ delegated[provenance[k].grant].capability = "post_message"
  /\ \E d \in Deliveries :
       ingress[d] # NULL /\ ingress[d].participant = k[1] /\ ingress[d].intent = k[2]

\* So is that of every reservation, and every delivery belongs to a receipt.
Audited ==
  /\ \A k \in Keys : nav[k] # NULL => Complete(k)
  /\ \A d \in Deliveries :
       ingress[d] # NULL => receipts[<<ingress[d].participant, ingress[d].intent>>] # NULL

\* Evidence that is complete stays complete: it is only added to, and the terms of
\* a grant never change.
LEMMA CompleteKept ==
  ASSUME TypeOK, EvidenceKept, NEW k \in Keys, nav[k] # NULL, Complete(k),
         \A g \in DOMAIN delegated : delegated'[g].capability = delegated[g].capability
  PROVE  Complete(k)'
<1>1. /\ nav'[k] = nav[k] /\ receipts'[k] = receipts[k] /\ provenance'[k] = provenance[k]
  BY DEF EvidenceKept, Complete
<1>2. DOMAIN delegated \subseteq DOMAIN delegated'
  BY DEF EvidenceKept
<1>3. PICK d \in Deliveries :
        ingress[d] # NULL /\ ingress[d].participant = k[1] /\ ingress[d].intent = k[2]
  BY DEF Complete
<1>4. ingress'[d] = ingress[d]
  BY <1>3 DEF EvidenceKept
<1>5. provenance'[k].source = "delegated_grants" =>
        /\ provenance'[k].grant \in DOMAIN delegated'
        /\ delegated'[provenance'[k].grant].capability = "post_message"
  BY <1>1, <1>2 DEF Complete
<1>6. \E e \in Deliveries :
        ingress'[e] # NULL /\ ingress'[e].participant = k[1] /\ ingress'[e].intent = k[2]
  BY <1>3, <1>4
<1>7. /\ nav'[k].hash = ExecutionHash(nav'[k].hash.content)
      /\ receipts'[k] # NULL /\ provenance'[k] # NULL
      /\ provenance'[k].resource = nav'[k].hash.content.channel
  BY <1>1 DEF Complete
<1> QED
  BY <1>5, <1>6, <1>7 DEF Complete, ExecutionHash

\* What record_execution_in_tx leaves: the delivery is recorded, the key has its
\* receipt, and the other rows are as they were.
LEMMA Recorded ==
  ASSUME TypeOK, NEW r \in Requests, r.via \in ExecuteTransports, NEW m \in Nat, Record(r, m)
  PROVE  /\ ingress'[DeliveryId(r)] = IngressRow(r) /\ IngressRow(r) # NULL
         /\ receipts'[KeyOf(r)] # NULL
         /\ \A d \in Deliveries : d # DeliveryId(r) => ingress'[d] = ingress[d]
<1>1. /\ KeyOf(r) \in Keys /\ DeliveryId(r) \in Deliveries /\ IngressRow(r) \in IngressRows
      /\ r.content \in Contents
  BY RequestRows, RequestKey, ExecuteRows
<1>2. [hash |-> ExecutionHash(r.content), message |-> m] \in ReceiptRows
  BY <1>1 DEF ReceiptRows, Hashes, ExecutionHash
<1> QED
  BY <1>1, <1>2, NullIsNoEvidence DEF Record, TypeOK

\* Without navigation writes, every step leaves the evidence complete.
LEMMA AuditedStep ==
  NoNavigation /\ Posting /\ Audited /\ Posting' /\ StepKind /\ EvidenceKept => Audited'
<1> SUFFICES ASSUME NoNavigation, Posting, Audited, Posting', StepKind, EvidenceKept
             PROVE  Audited'
  OBVIOUS
<1>1. /\ TypeOK /\ TypeOK' /\ Control /\ ExactlyOnce /\ ReceiptsBound /\ OneShotSpentOnce
  BY DEF Posting
<1>2. \A d \in Deliveries : ingress[d] # NULL =>
        /\ <<ingress[d].participant, ingress[d].intent>> \in Keys
        /\ receipts'[<<ingress[d].participant, ingress[d].intent>>] # NULL
  <2> SUFFICES ASSUME NEW d \in Deliveries, ingress[d] # NULL
               PROVE  /\ <<ingress[d].participant, ingress[d].intent>> \in Keys
                      /\ receipts'[<<ingress[d].participant, ingress[d].intent>>] # NULL
    OBVIOUS
  <2>1. ingress[d] \in IngressRows
    BY <1>1 DEF TypeOK, OrNull
  <2>2. <<ingress[d].participant, ingress[d].intent>> \in Keys
    BY <2>1 DEF IngressRows, Keys
  <2> QED
    BY <1>1, <2>2 DEF Audited, EvidenceKept
<1>3. ASSUME UNCHANGED <<nav, ingress>>,
             \A g \in DOMAIN delegated : delegated'[g].capability = delegated[g].capability
      PROVE  Audited'
  <2>1. \A k \in Keys : nav[k] # NULL => Complete(k)'
    BY <1>1, <1>3, CompleteKept DEF Audited
  <2>2. \A d \in Deliveries : ingress'[d] = ingress[d]
    BY <1>3
  <2> QED
    BY <1>2, <1>3, <2>1, <2>2 DEF Audited
<1>4. CASE Quiet
  BY <1>3, <1>4 DEF Quiet, evidence
<1>5. CASE GrantChange
  BY <1>1, <1>3, <1>5, GrantChangeKeeps DEF GrantChange, evidence
<1>6. ASSUME NEW r \in Requests, PlainPost(r) PROVE Audited'
  BY <1>3, <1>6 DEF PlainPost, evidence
<1>7. ASSUME NEW r \in Requests, r.via \in ExecuteTransports, NEW m \in Nat, Record(r, m)
      PROVE  \A d \in Deliveries : ingress'[d] # NULL =>
               receipts'[<<ingress'[d].participant, ingress'[d].intent>>] # NULL
  <2> SUFFICES ASSUME NEW d \in Deliveries, ingress'[d] # NULL
               PROVE  receipts'[<<ingress'[d].participant, ingress'[d].intent>>] # NULL
    OBVIOUS
  <2>1. /\ ingress'[DeliveryId(r)] = IngressRow(r) /\ receipts'[KeyOf(r)] # NULL
        /\ d # DeliveryId(r) => ingress'[d] = ingress[d]
    BY <1>1, <1>7, Recorded
  <2>2. CASE d = DeliveryId(r)
    BY <2>1, <2>2 DEF IngressRow, KeyOf
  <2>3. CASE d # DeliveryId(r)
    BY <1>2, <2>1, <2>3
  <2> QED
    BY <2>2, <2>3
<1>8. ASSUME NEW r \in Requests, Replay(r) PROVE Audited'
  <2>1. r.via \in ExecuteTransports /\ r.via # "plain" /\ KeyOf(r) \in Keys
    BY <1>8, ExecuteRows, RequestKey DEF Replay
  <2>2. nav[KeyOf(r)].message \in Nat /\ Record(r, nav[KeyOf(r)].message)
    BY <1>1, <1>8, <2>1 DEF Replay, TypeOK, OrNull, NavRows
  <2>3. \A k \in Keys : nav[k] # NULL => Complete(k)'
    BY <1>1, <1>8, CompleteKept DEF Replay, Audited
  <2>4. \A d \in Deliveries : ingress'[d] # NULL =>
          receipts'[<<ingress'[d].participant, ingress'[d].intent>>] # NULL
    BY <1>7, <2>1, <2>2
  <2> QED
    BY <1>8, <2>3, <2>4 DEF Replay, Audited
<1>9. ASSUME NEW r \in Requests, NEW d \in Decisions, ExecutedPost(r, d) PROVE Audited'
  <2> DEFINE m == Len(messages) + 1
             k == KeyOf(r)
  <2>1. /\ r.via \in ExecuteTransports /\ k \in Keys
        /\ k[1] = r.participant /\ k[2] = r.intent
    BY <1>9, ExecuteRows, RequestKey DEF ExecutedPost
  <2>2. m \in Nat /\ Record(r, m)
    BY <1>1, <1>9 DEF ExecutedPost, TypeOK
  <2>3. /\ ingress'[DeliveryId(r)] = IngressRow(r) /\ IngressRow(r) # NULL
        /\ receipts'[k] # NULL
    BY <1>1, <2>1, <2>2, Recorded
  <2>4. /\ DOMAIN delegated' = DOMAIN delegated
        /\ \A g \in DOMAIN delegated : delegated'[g].capability = delegated[g].capability
        /\ d.source = "delegated_grants" =>
             d.grant \in DOMAIN delegated /\ delegated[d.grant].capability = "post_message"
    BY <1>1, <1>9, ExecutedPostSpends
  <2>5. nav'[k] = NavRow(ExecutionHash(r.content), m) /\ provenance'[k] = AuthorityRow(r, d)
    BY <1>1, <1>9, <2>1 DEF ExecutedPost, RecordAuthority, TypeOK
  <2>6. AuthorityRow(r, d) # NULL
    BY AuthorityRowTyped, NullIsNoEvidence
  <2>7. Complete(k)'
    <3>1. nav'[k].hash = ExecutionHash(r.content) /\ nav'[k].hash.content = r.content
      BY <2>5 DEF NavRow, ExecutionHash
    <3>2. /\ provenance'[k].resource = r.content.channel
          /\ provenance'[k].source = d.source /\ provenance'[k].grant = d.grant
      BY <2>5 DEF AuthorityRow
    <3>3. provenance'[k].source = "delegated_grants" =>
            /\ provenance'[k].grant \in DOMAIN delegated'
            /\ delegated'[provenance'[k].grant].capability = "post_message"
      BY <2>4, <3>2
    <3>4. DeliveryId(r) \in Deliveries
      BY <2>1, ExecuteRows
    <3>5. \E e \in Deliveries :
            ingress'[e] # NULL /\ ingress'[e].participant = k[1] /\ ingress'[e].intent = k[2]
      BY <2>1, <2>3, <3>4 DEF IngressRow
    <3>6. nav'[k].hash = ExecutionHash(nav'[k].hash.content)
      BY <3>1
    <3>7. provenance'[k].resource = nav'[k].hash.content.channel
      BY <3>1, <3>2
    <3>8. receipts'[k] # NULL /\ provenance'[k] # NULL
      BY <2>3, <2>5, <2>6
    <3> HIDE DEF k
    <3> QED
      BY <3>3, <3>5, <3>6, <3>7, <3>8 DEF Complete, ExecutionHash
  <2>8. \A j \in Keys : j # k => nav'[j] = nav[j]
    BY <1>1, <1>9, <2>1 DEF ExecutedPost, TypeOK
  <2>9. \A j \in Keys : nav'[j] # NULL => Complete(j)'
    <3> SUFFICES ASSUME NEW j \in Keys, j # k, nav'[j] # NULL PROVE Complete(j)'
      BY <2>7
    <3> QED
      BY <1>1, <2>4, <2>8, CompleteKept DEF Audited
  <2>10. \A e \in Deliveries : ingress'[e] # NULL =>
           receipts'[<<ingress'[e].participant, ingress'[e].intent>>] # NULL
    BY <1>7, <2>1, <2>2
  <2> QED
    BY <2>9, <2>10 DEF Audited
<1>10. ASSUME NEW r \in Requests, NavigationPost(r) PROVE FALSE
  BY <1>10 DEF NavigationPost, NoNavigation
<1> QED
  BY <1>1, <1>4, <1>5, <1>6, <1>8, <1>9, <1>10 DEF StepKind

\* The verification of one execution, from its evidence.
LEMMA ExecutionVerifies ==
  ASSUME Posting, Audited, NEW k \in Keys, receipts[k] # NULL
  PROVE  VerifyAudit(k) = {}
<1>1. /\ TypeOK /\ ExactlyOnce /\ ReceiptsBound /\ OneShotSpentOnce
  BY DEF Posting
<1>2. /\ nav[k] # NULL /\ receipts[k].message = nav[k].message
      /\ receipts[k].hash = ExecutionHash(nav[k].hash.content)
  BY <1>1 DEF ReceiptsBound
<1>3. Complete(k)
  BY <1>2 DEF Audited
<1> DEFINE m == receipts[k].message
<1>4. /\ MessageExists(m) /\ messages[m].participant = k[1]
      /\ messages[m].content = nav[k].hash.content
  BY <1>1, <1>2 DEF ExactlyOnce
<1>5. EffectViolations(k) = {}
  BY <1>2, <1>4 DEF EffectViolations, If
<1>6. NavigationViolations(k) = {}
  <2>1. NavigationRow(k) = k
    BY <1>2 DEF NavigationRow
  <2>2. k # NULL
    BY NullIsNoKey
  <2> QED
    BY <1>2, <1>3, <2>1, <2>2 DEF NavigationViolations, If, Complete
<1>7. AuthorizationViolations(k) = {}
  BY <1>3, <1>4 DEF AuthorizationViolations, If, Complete
<1>8. DelegatedViolations(k) = {}
  <2>1. CASE provenance[k].source # "delegated_grants"
    BY <2>1 DEF DelegatedViolations
  <2>2. CASE provenance[k].source = "delegated_grants"
    <3> DEFINE g == provenance[k].grant
    <3>1. /\ g \in DOMAIN delegated /\ delegated[g].participant = k[1]
          /\ delegated[g].oneShot => delegated[g].consumed = k[2]
      BY <1>1, <1>3, <2>2 DEF OneShotSpentOnce, Complete
    <3>2. delegated[g].capability = "post_message"
      BY <1>3, <2>2 DEF Complete
    <3>3. g # NULL
      BY <1>1, <3>1, GrantIdsNat, NullIsNoValue DEF TypeOK
    <3>4. k[2] # NULL
      BY NullIsNoValue DEF Keys
    <3> QED
      BY <3>1, <3>2, <3>3, <3>4 DEF DelegatedViolations, If
  <2> QED
    BY <2>1, <2>2
<1>9. IngressViolations(k) = {}
  BY <1>3 DEF IngressViolations, If, Complete
<1> QED
  BY <1>5, <1>6, <1>7, <1>8, <1>9 DEF VerifyAudit

\* So the sweep of a database with complete evidence finds nothing.
LEMMA AuditedSweeps == Posting /\ Audited => SweepValid
<1> SUFFICES ASSUME Posting, Audited PROVE SweepValid
  OBVIOUS
<1>1. InvalidExecutions = {}
  BY ExecutionVerifies DEF InvalidExecutions
<1>2. \A k \in Keys : provenance[k] # NULL => receipts[k] # NULL
  BY DEF Posting, ReceiptsBound
<1>3. \A k \in Keys : nav[k] # NULL => receipts[k] # NULL
  BY DEF Audited, Complete
<1>4. \A d \in Deliveries :
        ingress[d] # NULL => receipts[<<ingress[d].participant, ingress[d].intent>>] # NULL
  BY DEF Audited
<1>5. Orphans = {}
  BY <1>2, <1>3, <1>4 DEF Orphans
<1> QED
  BY <1>1, <1>5 DEF SweepValid

\* Whatever executions interleave, fail, race or are replayed, and whatever the
\* administrator does to grants and participants, the sweep finds every execution
\* valid and no orphan, for as long as nobody posts by navigation writes: the audit
\* raises no false alarm on what execute_message_intent commits.
THEOREM SweepFindsNothing == NoNavigation /\ Spec => []SweepValid
<1>1. Init => Audited
  BY DEF Init, Audited
<1>2. NoNavigation => NoNavigation'
  BY DEF NoNavigation
<1> QED
  BY <1>1, <1>2, PostingInit, PostingStep, AuditedStep, AuditedSweeps, PTL DEF Spec

--------------------------------------------------------------------------------
(* Archived channels *)

\* Every request is an execution: plain posts and navigation writes look at the
\* channel before their transaction, and may find it archived at their commit.
OnlyExecutions == \A r \in Requests : r.via \in ExecuteTransports

\* Messages that a step adds, and the channel they are in.
NewInOpenChannels ==
  \A m \in (DOMAIN messages') \ (DOMAIN messages) :
    channels[messages'[m].content.channel] # "archived"

\* An execution looks at its channel under the lock.
LEMMA NewInOpenChannelsStep ==
  OnlyExecutions /\ Posting /\ [Next]_vars => NewInOpenChannels
<1> SUFFICES ASSUME OnlyExecutions, Posting, [Next]_vars PROVE NewInOpenChannels
  OBVIOUS
<1> USE DEF tables, policy, evidence, local
<1>1. TypeOK /\ Control
  BY DEF Posting
<1>2. ASSUME UNCHANGED messages PROVE NewInOpenChannels
  BY <1>2 DEF NewInOpenChannels
<1>3. ASSUME NEW w \in Workers, FinishExecute(w) PROVE NewInOpenChannels
  <2> DEFINE r == req[w]
  <2>1. r \in Requests
    BY <1>1, <1>3 DEF FinishExecute, Control
  <2>2. CASE UNCHANGED messages
    BY <1>2, <2>2
  <2>3. CASE ~UNCHANGED messages
    <3>1. CreateEffect(w) /\ ~ChannelArchived(r)
      BY <1>3, <2>3 DEF FinishExecute, Rollback, ReplayEffect
    <3>2. messages' = Append(messages, MessageRow(r))
      BY <2>3, <3>1 DEF CreateEffect, Rollback, MessageRow
    <3>3. /\ DOMAIN messages = 1..Len(messages) /\ Len(messages) \in Nat
          /\ Len(messages') = Len(messages) + 1
          /\ messages'[Len(messages) + 1] = MessageRow(r)
      BY <1>1, <2>1, <3>2, MessageAppended
    <3>4. DOMAIN messages' = 1..(Len(messages) + 1)
      BY <3>3, PostingStep DEF Posting, TypeOK
    <3>5. \A m \in (DOMAIN messages') \ (DOMAIN messages) : m = Len(messages) + 1
      BY <3>3, <3>4
    <3>6. channels[r.content.channel] # "archived"
      BY <3>1 DEF ChannelArchived
    <3> QED
      BY <3>3, <3>5, <3>6 DEF NewInOpenChannels, MessageRow
  <2> QED
    BY <2>2, <2>3
<1>4. ASSUME NEW w \in Workers, AppendPlain(w) \/ AppendNavigation(w) PROVE FALSE
  <2>1. req[w] \in Requests /\ req[w].via \in {"plain", "navigation"}
    BY <1>1, <1>4 DEF AppendPlain, AppendNavigation, Control
  <2> QED
    BY <2>1 DEF OnlyExecutions, ExecuteTransports
<1>5. ASSUME NEW w \in Workers,
             \/ \E r \in Requests : Receive(w, r)
             \/ EnsureChannel(w) \/ BusyTimeout(w) \/ BeginExecute(w) \/ AcquireWriteLock(w)
             \/ StorageError(w)
      PROVE  UNCHANGED messages
  BY <1>5 DEF Receive, EnsureChannel, BusyTimeout, BeginExecute, AcquireWriteLock,
     StorageError, Rollback
<1>6. CASE AdminStep \/ Tick \/ Crash \/ UNCHANGED vars
  <2>1. UNCHANGED messages
    BY <1>6 DEF AdminStep, SetParticipantStatus, UpdateChannel, SetOwner,
       CreateDelegatedGrant, DeactivateDelegatedGrant, CreateDurableGrant,
       DeactivateDurableGrant, Tick, Crash, vars
  <2> QED
    BY <1>2, <2>1
<1> QED
  BY <1>2, <1>3, <1>4, <1>5, <1>6 DEF Next, Serve, AdminStep

\* No execution enters a channel that is archived when it commits, although every
\* handler looked at the channel, or did not, in an earlier transaction
\* (execute_message_intent).
THEOREM ArchivedChannelsStayClosed == OnlyExecutions /\ Spec => ArchivedChannelsRejectWrites
<1>1. OnlyExecutions => OnlyExecutions'
  BY DEF OnlyExecutions, ExecuteTransports
<1>2. OnlyExecutions /\ Posting /\ [Next]_vars => [NewInOpenChannels]_vars
  BY NewInOpenChannelsStep
<1> QED
  BY <1>1, <1>2, PostingInit, PostingStep, PTL DEF Spec, ArchivedChannelsRejectWrites,
     NewInOpenChannels

--------------------------------------------------------------------------------
(* Posting next to readers and administrators *)

\* A commit of an administrator to participants and durable grants, or to what only
\* readers look at.
PolicyCommit ==
  /\ AdminCommit
  /\ participants' \in [Participants -> ParticipantRows]
  /\ durable' \in Seq(DurableGrants)
  /\ UNCHANGED <<delegated, channels, messages, evidence>>

\* Such a commit keeps the invariants of posting.
LEMMA PolicyCommitPosts == Posting /\ PolicyCommit => Posting' /\ StepKind /\ EvidenceKept
<1> SUFFICES ASSUME Posting, PolicyCommit PROVE Posting' /\ StepKind /\ EvidenceKept
  OBVIOUS
<1>1. TypeOK /\ Control /\ AdminCommit
  BY DEF Posting, PolicyCommit
<1>2. TableTypeOK'
  BY <1>1 DEF TypeOK, TableTypeOK, PolicyTypeOK, PolicyCommit, evidence
<1>3. TypeOK' /\ Control'
  BY <1>1, <1>2, AdminTyped
<1>4. SnapshotCurrent'
  BY <1>1, LockOwners, SnapshotVacuous DEF AdminCommit, Outdate
<1>5. StepKind
  BY DEF PolicyCommit, Quiet, StepKind
<1> QED
  BY <1>3, <1>4, <1>5, ExactlyOnceStep, ReceiptsBoundStep, OneShotStep, EvidenceKeptStep
     DEF Posting

\* What administrators do to durable grants and participants.
DurableChange ==
  \/ UNCHANGED durable
  \/ \E g \in DurableSpecs :
       participants[g.participant].status = "active" /\ durable' = DurableAfterCreate(g)
  \/ \E id : durable' = DurableAfterDeactivate(id)

KnownKept == \A p \in Participants : Known(p) => Known(p)'

\* A step of a worker is one of Execution and leaves participants and durable grants
\* alone.
LEMMA WorkerSteps ==
  ASSUME NEW w \in Workers, WorkerStep(w)
  PROVE  Next /\ UNCHANGED <<participants, durable>>
<1>1. Next
  BY DEF WorkerStep, Next
<1>2. ASSUME NEW r \in Requests, Receive(w, r) PROVE UNCHANGED <<participants, durable>>
  BY <1>2 DEF Receive, tables, policy
<1>3. ASSUME Serve(w) PROVE UNCHANGED <<participants, durable>>
  <2>1. CASE FinishExecute(w) \/ StorageError(w)
    BY <2>1 DEF FinishExecute, StorageError, ReleaseLock
  <2>2. CASE EnsureChannel(w) \/ AppendPlain(w) \/ AppendNavigation(w)
    BY <2>2 DEF EnsureChannel, AppendPlain, AppendNavigation, policy
  <2>3. CASE BusyTimeout(w) \/ BeginExecute(w) \/ AcquireWriteLock(w)
    BY <2>3 DEF BusyTimeout, BeginExecute, AcquireWriteLock, tables, policy
  <2> QED
    BY <1>3, <2>1, <2>2, <2>3 DEF Serve
<1> QED
  BY <1>1, <1>2, <1>3 DEF WorkerStep

\* The reader at work.
ReaderStep == (\E q \in Reads : BeginRead(q)) \/ ReadStep \/ ReadFails \/ EndRead

\* What everyone else leaves alone.
ReaderWaits == UNCHANGED <<call, at, seen, report, answer>>

\* A step next to readers is one of the reader, which changes no table, one of
\* Execution or a commit to the policy.
LEMMA ReadKinds ==
  ASSUME TypeOK, GrantsBounded, [ReadNext]_readVars
  PROVE  /\ [Next]_vars \/ PolicyCommit
         /\ DurableChange /\ KnownKept
         /\ (ReaderStep /\ UNCHANGED vars) \/ ReaderWaits
<1> DEFINE Goal == /\ [Next]_vars \/ PolicyCommit
                   /\ DurableChange /\ KnownKept
                   /\ (ReaderStep /\ UNCHANGED vars) \/ ReaderWaits
<1> SUFFICES Goal
  OBVIOUS
<1>0. PolicyTypeOK
  BY DEF TypeOK
<1>1. ASSUME UNCHANGED <<participants, durable>> PROVE DurableChange /\ KnownKept
  BY <1>1 DEF DurableChange, KnownKept, Known
<1>2. ASSUME Commit PROVE ReaderWaits
  BY <1>2 DEF Commit, Meanwhile, ReaderWaits
<1>3. CASE ReaderStep
  <2>1. UNCHANGED vars
    BY <1>3 DEF ReaderStep, BeginRead, ReadStep, ReadFails, EndRead
  <2> QED
    BY <1>1, <1>3, <2>1 DEF vars, tables, policy
<1>4. ASSUME NEW w \in Workers, WorkerStep(w) PROVE Goal
  <2>1. ReaderWaits
    BY <1>4 DEF WorkerStep, Meanwhile, ReaderWaits
  <2> QED
    BY <1>1, <1>4, <2>1, WorkerSteps
<1>5. ASSUME NEW p \in Participants, NEW role \in {"user", "admin"}, SetRole(p, role)
      PROVE  Goal
  <2>1. participants' \in [Participants -> ParticipantRows]
    BY <1>0, <1>5 DEF SetRole, PolicyTypeOK, ParticipantRows
  <2>2. PolicyCommit /\ DurableChange
    BY <1>0, <1>5, <2>1
       DEF SetRole, PolicyCommit, OtherTables, PolicyTypeOK, DurableChange
  <2>3. KnownKept
    BY <1>0, <1>5 DEF SetRole, KnownKept, Known, PolicyTypeOK, ParticipantRows
  <2> QED
    BY <1>2, <1>5, <2>2, <2>3 DEF SetRole
<1>6. ASSUME NEW p \in Participants, ProvisionParticipant(p) PROVE Goal
  <2>1. participants' \in [Participants -> ParticipantRows]
    BY <1>0, <1>6 DEF ProvisionParticipant, PolicyTypeOK, ParticipantRows
  <2>2. PolicyCommit /\ DurableChange
    BY <1>0, <1>6, <2>1
       DEF ProvisionParticipant, PolicyCommit, OtherTables, PolicyTypeOK, DurableChange
  <2>3. KnownKept
    BY <1>0, <1>6 DEF ProvisionParticipant, KnownKept, Known, PolicyTypeOK, ParticipantRows
  <2> QED
    BY <1>2, <1>6, <2>2, <2>3 DEF ProvisionParticipant
<1>7. ASSUME NEW p \in Participants, NEW s \in {"active", "inactive"}, ChangeStatus(p, s)
      PROVE  Goal
  <2>1. SetParticipantStatus(p, s)
    BY <1>7 DEF ChangeStatus
  <2>2. DurableChange
    BY <2>1 DEF SetParticipantStatus, DurableChange
  <2>3. KnownKept
    BY <1>0, <2>1 DEF SetParticipantStatus, KnownKept, Known, PolicyTypeOK, ParticipantRows
  <2> QED
    BY <1>2, <1>7, <2>1, <2>2, <2>3 DEF ChangeStatus, Next
<1>8. ASSUME UNCHANGED tables, AdminCommit, Commit PROVE Goal
  <2>1. PolicyCommit
    BY <1>0, <1>8 DEF PolicyCommit, tables, policy, PolicyTypeOK
  <2> QED
    BY <1>1, <1>2, <1>8, <2>1 DEF tables, policy
<1>9. ASSUME NEW c \in Channels, NEW v \in {"public", "private"}, SetVisibility(c, v)
      PROVE  Goal
  BY <1>8, <1>9 DEF SetVisibility
<1>10. ASSUME NEW p, \/ AuthGenerate(p) \/ AuthRotate(p) \/ AuthRevoke(p)
                     \/ RegisterIdentity(p) \/ RotateToken(p) \/ RevokeToken(p)
       PROVE  Goal
  BY <1>8, <1>10 DEF AuthGenerate, AuthRotate, AuthRevoke, RegisterIdentity, RotateToken,
     RevokeToken, CredentialCommit
<1>11. CASE GrantCreate
  <2>1. PICK g \in GrantSpecs : CreateDelegatedGrant(g)
    BY <1>11 DEF GrantCreate
  <2> QED
    BY <1>1, <1>2, <1>11, <2>1 DEF GrantCreate, GrantCommit, CreateDelegatedGrant, Next
<1>12. CASE GrantDeactivate
  <2>1. PICK id \in DOMAIN delegated : DeactivateDelegatedGrant(id)
    BY <1>12 DEF GrantDeactivate
  <2>2. id \in 1..MaxGrants
    BY DEF GrantsBounded
  <2> QED
    BY <1>1, <1>2, <1>12, <2>1, <2>2
       DEF GrantDeactivate, GrantCommit, DeactivateDelegatedGrant, Next
<1>13. ASSUME NEW g \in DurableSpecs, CreateDurableGrant(g), Commit PROVE Goal
  <2>1. KnownKept /\ DurableChange
    BY <1>13 DEF CreateDurableGrant, KnownKept, Known, DurableChange
  <2> QED
    BY <1>2, <1>13, <2>1 DEF Next
<1>14. ASSUME NEW id \in DOMAIN durable, DeactivateDurableGrant(id), Commit PROVE Goal
  <2>1. KnownKept /\ DurableChange
    BY <1>14 DEF DeactivateDurableGrant, KnownKept, Known, DurableChange
  <2>2. durable' \in Seq(DurableGrants)
    BY <1>0, <1>14, DurableAfterDeactivateTyped DEF DeactivateDurableGrant
  <2>3. PolicyCommit
    BY <1>0, <1>14, <2>2 DEF DeactivateDurableGrant, PolicyCommit, PolicyTypeOK
  <2> QED
    BY <1>2, <1>14, <2>1, <2>3
<1>15. CASE GrantDurable \/ RestCreateDurable \/ RestDeactivateDurable
  BY <1>13, <1>14, <1>15 DEF GrantDurable, RestCreateDurable, RestDeactivateDurable, GrantCommit
<1>16. CASE RestCreateDelegated \/ RestDeactivateDelegated
  BY <1>11, <1>12, <1>16 DEF RestCreateDelegated, RestDeactivateDelegated
<1>17. CASE UNCHANGED readVars
  BY <1>1, <1>17 DEF readVars, reader, vars, tables, policy, ReaderWaits
<1> HIDE DEF Goal
<1> QED
  BY <1>3, <1>4, <1>5, <1>6, <1>7, <1>9, <1>10, <1>11, <1>12, <1>15, <1>16, <1>17
     DEF ReadNext, ReaderStep

\* Posting among readers, and the grants it needs to be bounded.
ReadPosting == Posting /\ GrantsBounded

\* Every step among readers keeps it.
LEMMA ReadPostingStep ==
  ReadPosting /\ [ReadNext]_readVars => ReadPosting' /\ StepKind /\ EvidenceKept
<1> SUFFICES ASSUME ReadPosting, [ReadNext]_readVars
             PROVE  ReadPosting' /\ StepKind /\ EvidenceKept
  OBVIOUS
<1>1. [Next]_vars \/ PolicyCommit
  BY ReadKinds DEF ReadPosting, Posting
<1>2. Posting' /\ StepKind /\ EvidenceKept
  BY <1>1, PostingStep, PolicyCommitPosts DEF ReadPosting
<1> QED
  BY <1>2, GrantsBoundedStep DEF ReadPosting, Posting

\* A board in use, before anything is posted.
LEMMA ReadPostingInit == ReadInit => ReadPosting
<1> SUFFICES ASSUME ReadInit PROVE ReadPosting
  OBVIOUS
<1>1. durable \in Seq(DurableGrants)
  <2>1. ASSUME NEW g \in Standing PROVE <<g>> \in Seq(DurableGrants)
    BY ReadsTyped, GrantSpecsTyped
  <2>2. durable = <<>> \/ \E g \in Standing : durable = <<g>>
    BY DEF ReadInit
  <2>3. CASE durable = <<>>
    BY <2>3
  <2> QED
    BY <2>1, <2>2, <2>3
<1>2. participants \in [Participants -> ParticipantRows]
  BY DEF ReadInit, ParticipantRows, OrNull
<1>3. TableTypeOK
  BY <1>1, <1>2 DEF ReadInit, TableTypeOK, PolicyTypeOK, OrNull
<1>4. LocalTypeOK /\ now \in Nat
  BY DEF ReadInit, LocalTypeOK, Steps, OrNull, NoResponse, Statuses
<1>5. Control
  BY NullIsNoRow DEF ReadInit, Control
<1>6. SnapshotCurrent
  BY DEF ReadInit, SnapshotCurrent
<1>7. ExactlyOnce /\ ReceiptsBound /\ OneShotSpentOnce /\ GrantsBounded
  BY DEF ReadInit, ExactlyOnce, ReceiptsBound, OneShotSpentOnce, GrantsBounded
<1> QED
  BY <1>3, <1>4, <1>5, <1>6, <1>7, TypeSplit DEF ReadPosting, Posting

\* Evidence is append-only among readers and administrators too.
THEOREM EvidenceGrowsAmongReaders == ReadSpec => EvidenceAppendOnly
<1>1. ReadPosting /\ [ReadNext]_readVars => [EvidenceKept]_vars
  BY ReadPostingStep
<1> QED
  BY <1>1, ReadPostingInit, ReadPostingStep, PTL DEF ReadSpec, EvidenceAppendOnly

--------------------------------------------------------------------------------
(* The programs of the readers *)

Audits == {"audit", "integrity", "sweep"}
AuditTools == Audits \cup {"policy_integrity"}

\* The statements of an audit that identify and authorise a caller, the one that opens
\* what a tool looks at, those that look at it, and those about everything.
Gates == {"refuse", "proof", "token", "session", "row", "count", "match"}

Opening(tool) ==
  IF tool = "audit" THEN {"receipt"}
  ELSE IF tool = "policy_integrity" THEN {"participants"} ELSE {"verified"}

Inner(tool) ==
  IF tool = "policy_integrity" THEN {"durable", "delegated", "receipts"}
  ELSE {"effect", "reservation", "provenance", "grant", "ingress"}

Around(tool) ==
  IF tool = "sweep"
    THEN {"list", "orphan provenance", "orphan ingress", "orphan reservation"} ELSE {}

StepsOf(tool) == Gates \cup Opening(tool) \cup Inner(tool) \cup Around(tool)

\* The statements that may be refused, and those that fetch what was asked for.
Checks == Gates \cup {"public", "admin", "active", "receipt"}

Data ==
  {"receipt", "provenance", "ingress", "verified", "effect", "reservation", "grant",
   "list", "orphan provenance", "orphan ingress", "orphan reservation",
   "participants", "durable", "delegated", "receipts", "explanation", "window"}

Denials ==
  {"unauthorized", "forbidden", "challenge", "execution_not_found", "channel_not_found",
   "unlisted"}

\* What an evaluation asks for.
CapabilityOf(q) ==
  CASE q.tool = "messages"       -> "read_messages"
    [] q.tool = "access_context" -> q.capability
    [] OTHER                     -> Required[q.tool]

ResourceOf(q) ==
  IF q.tool = "messages" THEN q.channel
  ELSE IF CapabilityOf(q) \in DOMAIN AdminResource THEN AdminResource[CapabilityOf(q)]
  ELSE IF q.tool = "access_context" THEN NULL ELSE q.intent

Statements ==
  [do : Checks \cup Data \cup {"held"},
   capability : KnownCapabilities \cup {NULL},
   resource : {AdminResource[c] : c \in DOMAIN AdminResource}
              \cup Intents \cup Channels \cup {NULL},
   denied : Denials \cup {NULL}]

\* Requests that are refused at once: there is no one to identify.
Nobody(q) ==
  \/ q.principal = NULL /\ q.surface \in {"mcp", "rest"} /\ q.tool # "messages"
  \/ q.tool = "channels" /\ ~HumanSession(q)
  \/ /\ q.tool = "whoami"
     /\ q.principal # NULL /\ q.principal.provider = "participant-hmac"

\* Requests for which no policy, role or visibility is asked.
Free(q) ==
  \/ q.surface = "cli" \/ q.tool = "whoami"
  \/ q.tool = "receipt" /\ q.surface = "rest"
  \/ q.tool = "messages" /\ q.principal # NULL /\ ~Bearer(q)

\* Requests for which the policy is asked.
Evaluated(q) ==
  /\ q.principal # NULL /\ q.tool \notin {"channels", "whoami"}
  /\ q.tool = "messages" => Bearer(q)

\* A look for the challenge is no check of what the caller may do.
Tag(s) == IF s.do = "public" /\ s.denied = "challenge" THEN "challenge" ELSE s.do

\* A program begins by identifying its caller; a verified Bearer token and a caller
\* without credentials need no statement.
Introduces(q, do) ==
  IF Nobody(q) THEN do = "refuse"
  ELSE q.principal # NULL =>
         /\ q.principal.provider = "participant-hmac" => do = "proof"
         /\ q.principal.provider = "human-web"        => do = "session"
         /\ q.principal.provider = "bearer"           => do = "token"

\* Data is fetched after what permits it, or by a caller who needs no permission.
Ready(q, before) ==
  \/ Free(q) /\ (before # "start" \/ q.surface = "cli")
  \/ before \in Data \cup {"match", "public", "admin"}

\* What may follow: a check has an answer for its failure, an evaluation is of what
\* the request needs and runs in order, and an audit looks at nothing before it is
\* opened.
May(q, before, s) ==
  /\ before = "start" => Introduces(q, s.do)
  /\ s.do \in Checks => s.denied \in Denials
  /\ s.do \in {"row", "count", "match"} =>
       s.capability = CapabilityOf(q) /\ s.resource = ResourceOf(q)
  /\ s.do \in {"row", "count", "match", "active", "held"} => Nobody(q) \/ Evaluated(q)
  /\ s.do = "count" => before = "row"
  /\ s.do = "match" => before = "count"
  /\ s.do = "held" => before = "active" /\ q.tool = "access_context"
  /\ s.do = "public" => q.principal = NULL /\ q.tool = "messages"
  /\ s.do = "admin" => q.tool = "channels"
  /\ s.do \in Data => Ready(q, before)
  /\ q.tool \in AuditTools =>
       /\ s.do \in StepsOf(q.tool)
       /\ s.do \in Inner(q.tool) => before \in Opening(q.tool) \cup Inner(q.tool)

\* A piece of a program of q: what goes before its first statement, and what its end
\* leaves for the next one.
Chain(q, p, from, to) ==
  /\ p \in Seq(Statements)
  /\ \A i \in 1..Len(p) : May(q, IF i = 1 THEN from ELSE Tag(p[i - 1]), p[i])
  /\ to = IF Len(p) = 0 THEN from ELSE Tag(p[Len(p)])

\* Nothing is a piece.
LEMMA ChainEmpty ==
  ASSUME NEW q, NEW from
  PROVE  Chain(q, <<>>, from, from)
BY DEF Chain

\* A statement is one.
LEMMA ChainOne ==
  ASSUME NEW q, NEW from, NEW s \in Statements, May(q, from, s)
  PROVE  Chain(q, <<s>>, from, Tag(s))
<1> DEFINE p == <<s>>
<1>1. p \in Seq(Statements) /\ Len(p) = 1 /\ p[1] = s
  OBVIOUS
<1> HIDE DEF p
<1>2. Chain(q, p, from, Tag(s))
  BY <1>1 DEF Chain
<1> QED
  BY <1>2 DEF p

\* Pieces that fit make one.
LEMMA ChainConcat ==
  ASSUME NEW q, NEW p, NEW r, NEW a, NEW b, NEW c, Chain(q, p, a, b), Chain(q, r, b, c)
  PROVE  Chain(q, p \o r, a, c)
<1>1. p \in Seq(Statements) /\ r \in Seq(Statements)
  BY DEF Chain
<1>2. /\ p \o r \in Seq(Statements)
      /\ Len(p \o r) = Len(p) + Len(r)
      /\ \A i \in 1..Len(p) : (p \o r)[i] = p[i]
      /\ \A i \in 1..Len(r) : (p \o r)[Len(p) + i] = r[i]
      /\ Len(p) \in Nat /\ Len(r) \in Nat
  BY <1>1, ConcatProperties
<1> DEFINE pr == p \o r
<1>3. ASSUME NEW i \in 1..Len(pr)
      PROVE  May(q, IF i = 1 THEN a ELSE Tag(pr[i - 1]), pr[i])
  <2>1. CASE i \in 1..Len(p)
    <3>1. pr[i] = p[i] /\ (i # 1 => pr[i - 1] = p[i - 1])
      BY <1>2, <2>1
    <3> HIDE DEF pr
    <3> QED
      BY <2>1, <3>1 DEF Chain
  <2>2. CASE i \notin 1..Len(p)
    <3> DEFINE j == i - Len(p)
    <3>1. j \in 1..Len(r) /\ i = Len(p) + j
      BY <1>2, <2>2
    <3>2. pr[i] = r[j]
      BY <1>2, <3>1
    <3>3. May(q, IF j = 1 THEN b ELSE Tag(r[j - 1]), r[j])
      BY <3>1 DEF Chain
    <3>4. CASE j # 1
      <4>1. j - 1 \in 1..Len(r) /\ i - 1 = Len(p) + (j - 1) /\ i # 1
        BY <1>2, <3>1, <3>4
      <4>2. pr[i - 1] = r[j - 1]
        BY <1>2, <4>1
      <4> HIDE DEF pr, j
      <4> QED
        BY <3>2, <3>3, <3>4, <4>1, <4>2
    <3>5. CASE j = 1
      <4>1. b = IF i = 1 THEN a ELSE Tag(pr[i - 1])
        <5>1. CASE Len(p) = 0
          BY <3>1, <3>5, <5>1 DEF Chain
        <5>2. CASE Len(p) # 0
          <6>1. i - 1 = Len(p) /\ i # 1 /\ Len(p) \in 1..Len(p)
            BY <1>2, <3>1, <3>5, <5>2
          <6>2. pr[i - 1] = p[Len(p)]
            BY <1>2, <6>1
          <6> HIDE DEF pr
          <6> QED
            BY <5>2, <6>1, <6>2 DEF Chain
        <5> QED
          BY <5>1, <5>2
      <4> HIDE DEF pr, j
      <4> QED
        BY <3>2, <3>3, <3>5, <4>1
    <3> QED
      BY <3>4, <3>5
  <2> QED
    BY <2>1, <2>2
<1>4. c = IF Len(pr) = 0 THEN a ELSE Tag(pr[Len(pr)])
  <2>1. CASE Len(r) = 0
    <3>1. c = b /\ Len(pr) = Len(p)
      BY <1>2, <2>1 DEF Chain
    <3>2. Len(p) # 0 => pr[Len(p)] = p[Len(p)]
      BY <1>2
    <3> HIDE DEF pr
    <3> QED
      BY <3>1, <3>2 DEF Chain
  <2>2. CASE Len(r) # 0
    <3>1. Len(pr) # 0 /\ pr[Len(pr)] = r[Len(r)]
      BY <1>2, <2>2
    <3> HIDE DEF pr
    <3> QED
      BY <2>2, <3>1 DEF Chain
  <2> QED
    BY <2>1, <2>2
<1>5. pr \in Seq(Statements)
  BY <1>2
<1> HIDE DEF pr
<1>6. Chain(q, pr, a, c)
  BY <1>3, <1>4, <1>5 DEF Chain
<1> QED
  BY <1>6 DEF pr

\* A check.
LEMMA ChainCheck ==
  ASSUME NEW q, NEW from, NEW do \in Checks, NEW denied \in Denials,
         May(q, from, Statement(do, NULL, NULL, denied))
  PROVE  /\ Chain(q, Check(do, denied), from, Tag(Statement(do, NULL, NULL, denied)))
         /\ do # "public" \/ denied # "challenge" => Chain(q, Check(do, denied), from, do)
<1> DEFINE s == Statement(do, NULL, NULL, denied)
<1>1. s \in Statements /\ s.do = do /\ s.denied = denied
  BY DEF Statement, Statements
<1>2. Check(do, denied) = <<s>>
  BY DEF Check
<1> HIDE DEF s
<1>3. Chain(q, <<s>>, from, Tag(s))
  BY <1>1, ChainOne DEF s
<1> QED
  BY <1>1, <1>2, <1>3 DEF Tag, s

\* Identifying the caller.
LEMMA ChainIdentify ==
  ASSUME NEW q, NEW do \in {"refuse", "proof", "token", "session"}, NEW denied \in Denials,
         NEW from, from = "start" => Introduces(q, do)
  PROVE  Chain(q, Check(do, denied), from, do)
<1>1. do \in Checks /\ do \in Gates /\ do \notin Data /\ do \notin Inner(q.tool)
  BY DEF Checks, Gates, Data, Inner
<1>2. May(q, from, Statement(do, NULL, NULL, denied))
  BY <1>1 DEF May, Statement, StepsOf
<1> QED
  BY <1>1, <1>2, ChainCheck

\* Fetching what is ready to be fetched.
LEMMA ChainFetch ==
  ASSUME NEW q \in Reads, NEW from, Ready(q, from), NEW do \in Data \ {"receipt"},
         q.tool \in AuditTools =>
           /\ do \in StepsOf(q.tool)
           /\ do \in Inner(q.tool) => from \in Opening(q.tool) \cup Inner(q.tool)
  PROVE  Chain(q, Fetch(do), from, do)
<1> DEFINE s == Statement(do, NULL, NULL, NULL)
<1>1. s \in Statements /\ s.do = do
  BY DEF Statement, Statements
<1>2. do \notin Checks \cup {"held"}
  BY DEF Checks, Gates, Data
<1>3. from = "start" => Introduces(q, do)
  <2>1. from = "start" => q.surface = "cli"
    BY DEF Ready, Data
  <2>2. q.surface = "cli" => q.principal = NULL /\ q.tool \notin {"channels", "whoami"}
    BY ReadsOffered
  <2> QED
    BY <2>1, <2>2 DEF Introduces, Nobody
<1>4. Fetch(do) = <<s>>
  BY DEF Fetch, Check
<1> HIDE DEF s
<1>5. May(q, from, s)
  BY <1>1, <1>2, <1>3 DEF May, Checks, Gates
<1>6. Tag(s) = do
  BY <1>1, <1>2 DEF Tag, Checks
<1> QED
  BY <1>1, <1>4, <1>5, <1>6, ChainOne

\* What was fetched may be followed by more.
LEMMA ReadyAgain ==
  ASSUME NEW q, NEW do \in Data
  PROVE  Ready(q, do)
BY DEF Ready

\* The receipt is looked up and must be there.
LEMMA ChainReceipt ==
  ASSUME NEW q \in Reads, NEW from, Ready(q, from), from # "start" \/ q.surface = "cli",
         q.tool \in {"receipt", "audit"}
  PROVE  Chain(q, Receipt, from, "receipt")
<1> DEFINE s == Statement("receipt", NULL, NULL, "execution_not_found")
<1>1. from = "start" => Introduces(q, "receipt")
  <2>1. from = "start" => q.principal = NULL /\ q.surface = "cli"
    BY ReadsOffered
  <2> QED
    BY <2>1 DEF Introduces, Nobody
<1>2. q.tool \in AuditTools => "receipt" \in StepsOf(q.tool) /\ "receipt" \notin Inner(q.tool)
  BY DEF AuditTools, Audits, StepsOf, Opening, Inner
<1>3. s.do = "receipt" /\ s.denied \in Denials
  BY DEF Statement, Denials
<1> HIDE DEF s
<1>4. May(q, from, s)
  BY <1>1, <1>2, <1>3 DEF May
<1> QED
  BY <1>4, ChainCheck DEF s, Receipt, Checks, Denials

\* An evaluation of the policy for what the request needs.
LEMMA ChainAuthorize ==
  ASSUME NEW q \in Reads, NEW from, from = "start" => Introduces(q, "row"),
         Nobody(q) \/ Evaluated(q), NEW denied \in Denials,
         CapabilityOf(q) \in KnownCapabilities
  PROVE  Chain(q, Authorize(CapabilityOf(q), ResourceOf(q), denied), from, "match")
<1> DEFINE s(do) == Statement(do, CapabilityOf(q), ResourceOf(q), denied)
<1>1. ResourceOf(q) \in {AdminResource[c] : c \in DOMAIN AdminResource}
                         \cup Intents \cup Channels \cup {NULL}
  BY ReadsTyped DEF ReadRequests, ResourceOf
<1>2. ASSUME NEW do \in {"row", "count", "match"}
      PROVE  /\ s(do) \in Statements /\ s(do).do = do /\ s(do).denied \in Denials
             /\ s(do).capability = CapabilityOf(q) /\ s(do).resource = ResourceOf(q)
             /\ Tag(s(do)) = do
             /\ do \in Gates /\ do \notin Data /\ do \notin Inner(q.tool)
  <2>1. do \in Gates /\ do \in Checks /\ do \notin Data /\ do \notin Inner(q.tool)
    BY DEF Gates, Checks, Data, Inner
  <2> QED
    BY <1>1, <2>1 DEF Statement, Statements, Tag
<1>3. Authorize(CapabilityOf(q), ResourceOf(q), denied) = <<s("row")>> \o <<s("count")>> \o <<s("match")>>
  <2>1. Authorize(CapabilityOf(q), ResourceOf(q), denied) = <<s("row"), s("count"), s("match")>>
    BY DEF Authorize
  <2> HIDE DEF s
  <2> QED
    BY <2>1
<1> HIDE DEF s
<1>4. ASSUME NEW do \in {"row", "count", "match"}, NEW before,
             before = "start" => do = "row" /\ from = "start",
             do = "count" => before = "row", do = "match" => before = "count"
      PROVE  Chain(q, <<s(do)>>, before, do)
  <2>1. May(q, before, s(do))
    BY <1>2, <1>4 DEF May, StepsOf
  <2> QED
    BY <1>2, <2>1, ChainOne
<1>5. Chain(q, <<s("row")>>, from, "row")
  BY <1>4
<1>6. Chain(q, <<s("count")>>, "row", "count") /\ Chain(q, <<s("match")>>, "count", "match")
  BY <1>4
<1> QED
  BY <1>3, <1>5, <1>6, ChainConcat

\* What each tool fetches in the end.
Body(q) ==
  CASE q.tool = "receipt"          -> Receipt
    [] q.tool = "audit"            -> AuditBundle
    [] q.tool = "integrity"        -> VerifyStatements
    [] q.tool = "sweep"            -> SweepStatements
    [] q.tool = "policy_integrity" -> PolicyAudit
    [] q.tool = "decision"         -> Fetch("explanation")
    [] q.tool \in {"history", "policy", "messages", "channels"} -> Fetch("window")

\* Verification of an execution, on its own or in a sweep.
LEMMA ChainVerify ==
  ASSUME NEW q \in Reads, NEW from, Ready(q, from), q.tool \in {"integrity", "sweep"}
  PROVE  Chain(q, VerifyStatements, from, "ingress")
<1>1. q.tool \in AuditTools
  BY DEF AuditTools, Audits
<1>2. /\ Opening(q.tool) = {"verified"} /\ "verified" \in StepsOf(q.tool)
      /\ "verified" \notin Inner(q.tool)
      /\ Inner(q.tool) = {"effect", "reservation", "provenance", "grant", "ingress"}
      /\ Inner(q.tool) \subseteq StepsOf(q.tool)
  BY DEF Opening, Inner, StepsOf
<1>3. {"verified", "effect", "reservation", "provenance", "grant", "ingress"}
        \subseteq Data \ {"receipt"}
  BY DEF Data
<1>4. ASSUME NEW do \in Inner(q.tool), NEW before \in {"verified"} \cup Inner(q.tool)
      PROVE  Chain(q, Fetch(do), before, do)
  <2>1. Ready(q, before)
    BY <1>2, <1>3, ReadyAgain
  <2> QED
    BY <1>1, <1>2, <1>3, <2>1, ChainFetch
<1>5. Chain(q, Fetch("verified"), from, "verified")
  BY <1>2, <1>3, ChainFetch
<1> DEFINE a == Fetch("verified")
           b == a \o Fetch("effect")
           c == b \o Fetch("reservation")
           d == c \o Fetch("provenance")
           e == d \o Fetch("grant")
           f == e \o Fetch("ingress")
<1>6. Chain(q, b, from, "effect")
  BY <1>2, <1>4, <1>5, ChainConcat
<1> HIDE DEF b
<1>7. Chain(q, c, from, "reservation")
  BY <1>2, <1>4, <1>6, ChainConcat
<1> HIDE DEF c
<1>8. Chain(q, d, from, "provenance")
  BY <1>2, <1>4, <1>7, ChainConcat
<1> HIDE DEF d
<1>9. Chain(q, e, from, "grant")
  BY <1>2, <1>4, <1>8, ChainConcat
<1> HIDE DEF e
<1>10. Chain(q, f, from, "ingress")
  BY <1>2, <1>4, <1>9, ChainConcat
<1> QED
  BY <1>10 DEF VerifyStatements, b, c, d, e

\* Every body is a piece that follows what permits it.
LEMMA ChainBody ==
  ASSUME NEW q \in Reads, NEW from, Ready(q, from), from # "start" \/ q.surface = "cli",
         q.tool \notin {"access_context", "whoami"}
  PROVE  \E to \in Data : Chain(q, Body(q), from, to)
<1>1. CASE q.tool = "receipt"
  BY <1>1, ChainReceipt DEF Body, Data
<1>2. CASE q.tool = "audit"
  <2> DEFINE a == Receipt
             b == a \o Fetch("provenance")
             c == b \o Fetch("ingress")
  <2>1. /\ Opening(q.tool) = {"receipt"} /\ {"provenance", "ingress"} \subseteq Inner(q.tool)
        /\ Inner(q.tool) \subseteq StepsOf(q.tool)
    BY <1>2 DEF Opening, Inner, StepsOf
  <2>2. {"provenance", "ingress"} \subseteq Data \ {"receipt"} /\ "receipt" \in Data
    BY DEF Data
  <2>3. Chain(q, a, from, "receipt")
    BY <1>2, ChainReceipt
  <2>4. /\ Chain(q, Fetch("provenance"), "receipt", "provenance")
        /\ Chain(q, Fetch("ingress"), "provenance", "ingress")
    BY <2>1, <2>2, ReadyAgain, ChainFetch
  <2> HIDE DEF a
  <2>5. Chain(q, b, from, "provenance")
    BY <2>3, <2>4, ChainConcat
  <2> HIDE DEF b
  <2>6. Chain(q, c, from, "ingress")
    BY <2>4, <2>5, ChainConcat
  <2>7. Body(q) = c
    BY <1>2 DEF Body, AuditBundle, a, b
  <2> QED
    BY <2>2, <2>6, <2>7
<1>3. CASE q.tool = "integrity"
  BY <1>3, ChainVerify DEF Body, Data
<1>4. CASE q.tool = "sweep"
  <2> DEFINE a == Fetch("list")
             b == a \o VerifyStatements
             c == b \o Fetch("orphan provenance")
             d == c \o Fetch("orphan ingress")
             e == d \o Fetch("orphan reservation")
  <2>1. /\ {"list", "orphan provenance", "orphan ingress", "orphan reservation"}
            \subseteq StepsOf(q.tool) \ Inner(q.tool)
        /\ {"list", "orphan provenance", "orphan ingress", "orphan reservation"}
            \subseteq Data \ {"receipt"}
        /\ "ingress" \in Data
    BY <1>4 DEF StepsOf, Around, Inner, Data
  <2>2. /\ Chain(q, Fetch("list"), from, "list")
        /\ Chain(q, Fetch("orphan provenance"), "ingress", "orphan provenance")
        /\ Chain(q, Fetch("orphan ingress"), "orphan provenance", "orphan ingress")
        /\ Chain(q, Fetch("orphan reservation"), "orphan ingress", "orphan reservation")
    BY <2>1, ReadyAgain, ChainFetch
  <2>3. Chain(q, VerifyStatements, "list", "ingress")
    BY <1>4, <2>1, ReadyAgain, ChainVerify
  <2>4. Chain(q, b, from, "ingress")
    BY <2>2, <2>3, ChainConcat
  <2> HIDE DEF b
  <2>5. Chain(q, c, from, "orphan provenance")
    BY <2>2, <2>4, ChainConcat
  <2> HIDE DEF c
  <2>6. Chain(q, d, from, "orphan ingress")
    BY <2>2, <2>5, ChainConcat
  <2> HIDE DEF d
  <2>7. Chain(q, e, from, "orphan reservation")
    BY <2>2, <2>6, ChainConcat
  <2>8. Body(q) = e
    BY <1>4 DEF Body, SweepStatements, b, c, d
  <2> QED
    BY <2>1, <2>7, <2>8
<1>5. CASE q.tool = "policy_integrity"
  <2> DEFINE a == Fetch("participants")
             b == a \o Fetch("durable")
             c == b \o Fetch("delegated")
             d == c \o Fetch("receipts")
  <2>1. /\ {"participants", "durable", "delegated", "receipts"} \subseteq StepsOf(q.tool)
        /\ Opening(q.tool) = {"participants"} /\ "participants" \notin Inner(q.tool)
        /\ Inner(q.tool) = {"durable", "delegated", "receipts"}
        /\ {"participants", "durable", "delegated", "receipts"} \subseteq Data \ {"receipt"}
    BY <1>5 DEF StepsOf, Opening, Inner, Data
  <2>2. /\ Chain(q, Fetch("participants"), from, "participants")
        /\ Chain(q, Fetch("durable"), "participants", "durable")
        /\ Chain(q, Fetch("delegated"), "durable", "delegated")
        /\ Chain(q, Fetch("receipts"), "delegated", "receipts")
    BY <2>1, ReadyAgain, ChainFetch
  <2>3. Chain(q, b, from, "durable")
    BY <2>2, ChainConcat
  <2> HIDE DEF b
  <2>4. Chain(q, c, from, "delegated")
    BY <2>2, <2>3, ChainConcat
  <2> HIDE DEF c
  <2>5. Chain(q, d, from, "receipts")
    BY <2>2, <2>4, ChainConcat
  <2>6. Body(q) = d
    BY <1>5 DEF Body, PolicyAudit, b, c
  <2> QED
    BY <2>1, <2>5, <2>6
<1>6. CASE q.tool \in {"decision", "history", "policy", "messages", "channels"}
  <2>1. {"explanation", "window"} \subseteq Data \ {"receipt"} /\ q.tool \notin AuditTools
    BY <1>6 DEF Data, AuditTools, Audits
  <2>2. \E do \in {"explanation", "window"} : Body(q) = Fetch(do)
    BY <1>6 DEF Body
  <2> QED
    BY <2>1, <2>2, ChainFetch
<1>7. q.tool \in Tools
  BY ReadsTyped DEF ReadRequests
<1> QED
  BY <1>1, <1>2, <1>3, <1>4, <1>5, <1>6, <1>7 DEF Tools

\* What each tool needs.
LEMMA ToolNeeds ==
  ASSUME NEW q \in Reads, q.tool \notin {"channels", "whoami"}
  PROVE  /\ CapabilityOf(q) \in KnownCapabilities
         /\ q.tool = "receipt" => CapabilityOf(q) = "read_execution_receipt" /\ ResourceOf(q) = q.intent
         /\ q.tool \in {"audit", "integrity"} =>
              CapabilityOf(q) = "read_execution_audit" /\ ResourceOf(q) = q.intent
         /\ q.tool = "sweep" =>
              CapabilityOf(q) = "read_execution_audit_sweep" /\ ResourceOf(q) = "execution-audit-sweep"
         /\ q.tool = "decision" =>
              CapabilityOf(q) = "read_authorization_decision" /\ ResourceOf(q) = "authorization-decision"
         /\ q.tool = "history" =>
              /\ CapabilityOf(q) = "read_authorization_administration_history"
              /\ ResourceOf(q) = "authorization-administration-history"
         /\ q.tool = "policy" =>
              CapabilityOf(q) = "read_authorization_policy" /\ ResourceOf(q) = "authorization-policy"
         /\ q.tool = "policy_integrity" =>
              /\ CapabilityOf(q) = "read_authorization_policy_integrity"
              /\ ResourceOf(q) = "authorization-policy-integrity"
         /\ q.tool = "messages" => CapabilityOf(q) = "read_messages" /\ ResourceOf(q) = q.channel
         /\ q.tool = "access_context" =>
              /\ CapabilityOf(q) = q.capability
              /\ ResourceOf(q) = IF q.capability \in DOMAIN AdminResource
                                   THEN AdminResource[q.capability] ELSE NULL
<1>1. q.tool \in Tools /\ q.capability \in KnownCapabilities
  BY ReadsTyped DEF ReadRequests
<1>2. /\ AdminResource["read_execution_audit_sweep"] = "execution-audit-sweep"
      /\ AdminResource["read_authorization_decision"] = "authorization-decision"
      /\ AdminResource["read_authorization_administration_history"] =
           "authorization-administration-history"
      /\ AdminResource["read_authorization_policy"] = "authorization-policy"
      /\ AdminResource["read_authorization_policy_integrity"] = "authorization-policy-integrity"
      /\ DOMAIN AdminResource =
           {"read_authorization_policy", "read_authorization_policy_integrity",
            "read_authorization_decision", "manage_authorization_policy",
            "read_authorization_administration_history", "read_execution_audit_sweep"}
  BY DEF AdminResource
<1>3. CapabilityOf(q) =
        CASE q.tool = "messages" -> "read_messages"
          [] q.tool = "access_context" -> q.capability
          [] q.tool = "receipt" -> "read_execution_receipt"
          [] q.tool \in {"audit", "integrity"} -> "read_execution_audit"
          [] q.tool = "sweep" -> "read_execution_audit_sweep"
          [] q.tool = "decision" -> "read_authorization_decision"
          [] q.tool = "history" -> "read_authorization_administration_history"
          [] q.tool = "policy" -> "read_authorization_policy"
          [] q.tool = "policy_integrity" -> "read_authorization_policy_integrity"
  BY <1>1 DEF CapabilityOf, Required, Tools
<1>4. CapabilityOf(q) \in KnownCapabilities
  BY <1>1, <1>2, <1>3 DEF KnownCapabilities, UserCapabilities, Tools
<1> QED
  BY <1>2, <1>3, <1>4 DEF ResourceOf

\* The callers of REST, once it is not a guest that reads messages.
LEMMA RestCaller ==
  ASSUME NEW q \in Reads, q.surface = "rest", q.tool # "channels",
         q.principal = NULL => q.tool # "messages",
         q.tool = "whoami" /\ q.principal # NULL => q.principal.provider # "participant-hmac"
  PROVE  \E do \in {"refuse", "proof", "token", "session"} :
            Chain(q, RequestIdentity(q), "start", do)
<1> DEFINE do == IF q.principal = NULL THEN "refuse"
                 ELSE CASE q.principal.provider = "participant-hmac" -> "proof"
                        [] q.principal.provider = "human-web"        -> "session"
                        [] q.principal.provider = "bearer"           -> "token"
<1>1. q.principal # NULL => q.principal.provider \in {"participant-hmac", "human-web", "bearer"}
  BY ReadsOffered
<1>2. do \in {"refuse", "proof", "token", "session"}
  BY <1>1
<1>3. Nobody(q) <=> q.principal = NULL
  BY DEF Nobody
<1>4. Introduces(q, do)
  <2>1. CASE q.principal = NULL
    BY <1>3, <2>1 DEF Introduces
  <2>2. CASE q.principal # NULL
    <3>1. /\ q.principal.provider = "participant-hmac" => do = "proof"
          /\ q.principal.provider = "human-web" => do = "session"
          /\ q.principal.provider = "bearer" => do = "token"
      BY <2>2
    <3> QED
      BY <1>3, <2>2, <3>1 DEF Introduces
  <2> QED
    BY <2>1, <2>2
<1>5. RequestIdentity(q) = Check(do, "unauthorized")
  BY DEF RequestIdentity
<1> HIDE DEF do
<1> QED
  BY <1>2, <1>4, <1>5, ChainIdentify DEF Denials

\* The callers of MCP.
LEMMA McpCaller ==
  ASSUME NEW q \in Reads, q.surface = "mcp", q.tool # "messages",
         NEW X \in {CapabilityIdentity(q),
                    CapabilityPrincipal(q, CapabilityOf(q), ResourceOf(q))}
  PROVE  \E a, b : /\ Chain(q, Challenge(q), "start", a) /\ Chain(q, X, a, b)
                   /\ b = "start" => Introduces(q, "row") /\ Introduces(q, "active")
<1> DEFINE proof == Check("proof", "unauthorized")
<1>0. /\ q.tool \notin {"channels", "whoami"}
      /\ q.principal # NULL => q.principal.provider \in {"participant-hmac", "oidc"}
  BY ReadsOffered
<1>1. {"unauthorized", "challenge", "forbidden"} \subseteq Denials
  BY DEF Denials
<1>2. CASE q.principal = NULL
  <2>1. Introduces(q, "refuse")
    BY <1>2 DEF Nobody, Introduces
  <2>2. X = proof /\ Challenge(q) = Check("refuse", "challenge")
    BY <1>2 DEF CapabilityIdentity, CapabilityPrincipal, Bearer, Challenge
  <2>3. Chain(q, Check("refuse", "challenge"), "start", "refuse") /\ Chain(q, proof, "refuse", "proof")
    BY <1>1, <2>1, ChainIdentify
  <2> QED
    BY <2>2, <2>3
<1>3. ASSUME q.principal # NULL PROVE ~Nobody(q) /\ Chain(q, Challenge(q), "start", "start")
  BY <1>0, <1>3, ChainEmpty DEF Nobody, Challenge
<1>4. CASE q.principal # NULL /\ ~Bearer(q)
  <2>1. Introduces(q, "proof")
    BY <1>0, <1>3, <1>4 DEF Introduces, Bearer
  <2>2. X = proof
    BY <1>4 DEF CapabilityIdentity, CapabilityPrincipal
  <2>3. Chain(q, proof, "start", "proof")
    BY <1>1, <2>1, ChainIdentify
  <2> QED
    BY <1>3, <1>4, <2>2, <2>3
<1>5. CASE Bearer(q)
  <2>1. q.principal # NULL /\ Introduces(q, "row") /\ Introduces(q, "active") /\ Evaluated(q)
    BY <1>0, <1>3, <1>5 DEF Introduces, Bearer, Evaluated
  <2>2. X = <<>> \/ X = Authorize(CapabilityOf(q), ResourceOf(q), "forbidden")
    BY <1>5 DEF CapabilityIdentity, CapabilityPrincipal
  <2>3. Chain(q, Authorize(CapabilityOf(q), ResourceOf(q), "forbidden"), "start", "match")
    BY <1>0, <1>1, <2>1, ToolNeeds, ChainAuthorize
  <2> QED
    BY <1>3, <2>1, <2>2, <2>3, ChainEmpty
<1> QED
  BY <1>2, <1>4, <1>5

\* The listing of effective grants.
LEMMA ChainListing ==
  ASSUME NEW q \in Reads, q.tool = "access_context", NEW from,
         from = "start" => Introduces(q, "active"), Nobody(q) \/ Evaluated(q)
  PROVE  Chain(q, EffectiveGrantsRead(q), from, "match")
<1>1. q.tool \notin AuditTools /\ "unlisted" \in Denials /\ "active" \in Checks \ (Data \cup {"public"})
  BY DEF AuditTools, Audits, Denials, Checks, Gates, Data
<1>2. Chain(q, Check("active", "unlisted"), from, "active")
  <2>1. May(q, from, Statement("active", NULL, NULL, "unlisted"))
    BY <1>1 DEF May, Statement
  <2> QED
    BY <1>1, <2>1, ChainCheck
<1>3. Chain(q, Fetch("held"), "active", "held")
  <2> DEFINE s == Statement("held", NULL, NULL, NULL)
  <2>1. s \in Statements /\ s.do = "held"
    BY DEF Statement, Statements
  <2>2. Fetch("held") = <<s>>
    BY DEF Fetch, Check
  <2>3. "held" \notin Checks \cup Data
    BY DEF Checks, Gates, Data
  <2> HIDE DEF s
  <2>4. May(q, "active", s)
    BY <1>1, <2>1, <2>3 DEF May
  <2> QED
    BY <2>1, <2>2, <2>4, ChainOne DEF Tag
<1>4. Chain(q, Authorize(CapabilityOf(q), ResourceOf(q), "unlisted"), "held", "match")
  BY <1>1, ToolNeeds, ChainAuthorize
<1>5. EffectiveGrantsRead(q) =
        Check("active", "unlisted") \o Fetch("held")
        \o Authorize(CapabilityOf(q), ResourceOf(q), "unlisted")
  BY ToolNeeds DEF EffectiveGrantsRead
<1> DEFINE ab == Check("active", "unlisted") \o Fetch("held")
<1>6. Chain(q, ab, from, "held")
  BY <1>2, <1>3, ChainConcat
<1> HIDE DEF ab
<1>7. Chain(q, ab \o Authorize(CapabilityOf(q), ResourceOf(q), "unlisted"), from, "match")
  BY <1>4, <1>6, ChainConcat
<1> QED
  BY <1>5, <1>7 DEF ab

\* A request for which the policy is asked and what it fetches when it may.
LEMMA ChainVetted ==
  ASSUME NEW q \in Reads, q.tool \notin {"channels", "whoami", "messages", "access_context"},
         q.surface \in {"mcp", "rest"},
         NEW from, from = "start" => Introduces(q, "row"),
         NEW denied \in {"forbidden", "execution_not_found"},
         NEW X, NEW a, NEW p, Chain(q, p, "start", a), Chain(q, X, a, from)
  PROVE  \E to \in Data :
           /\ Chain(q, X \o Authorize(CapabilityOf(q), ResourceOf(q), denied) \o Body(q), a, to)
           /\ Chain(q, p \o (X \o Authorize(CapabilityOf(q), ResourceOf(q), denied) \o Body(q)),
                    "start", to)
<1> DEFINE A == Authorize(CapabilityOf(q), ResourceOf(q), denied)
           XA == X \o A
           XAB == XA \o Body(q)
<1>1. Nobody(q) \/ Evaluated(q)
  BY DEF Nobody, Evaluated
<1>2. Chain(q, A, from, "match")
  BY <1>1, ToolNeeds, ChainAuthorize DEF Denials
<1>3. Ready(q, "match")
  BY DEF Ready
<1>4. PICK to \in Data : Chain(q, Body(q), "match", to)
  BY <1>3, ChainBody
<1> HIDE DEF A
<1>5. Chain(q, XA, a, "match")
  BY <1>2, ChainConcat
<1> HIDE DEF XA
<1>6. Chain(q, XAB, a, to)
  BY <1>4, <1>5, ChainConcat
<1> HIDE DEF XAB
<1>7. Chain(q, p \o XAB, "start", to)
  BY <1>6, ChainConcat
<1> QED
  BY <1>6, <1>7 DEF A, XA, XAB

\* A program that is one piece, with an end that permits what it gives.
Whole(q, p) ==
  \E to : /\ Chain(q, p, "start", to)
          /\ to \notin {"start", "challenge"}
          /\ Free(q) \/ to \in Data \cup {"match"}

\* A guest reads a public channel.
LEMMA GuestRead ==
  ASSUME NEW q \in Reads, q.tool = "messages", q.principal = NULL,
         NEW denied \in Denials, denied # "challenge"
  PROVE  Whole(q, Check("public", denied) \o Body(q))
<1>1. /\ q.tool \notin AuditTools /\ "public" \in Checks /\ "public" \notin Data \cup Gates
      /\ Introduces(q, "public")
  BY DEF AuditTools, Audits, Checks, Data, Gates, Introduces, Nobody
<1>2. May(q, "start", Statement("public", NULL, NULL, denied))
  BY <1>1 DEF May, Statement
<1>3. Chain(q, Check("public", denied), "start", "public")
  BY <1>1, <1>2, ChainCheck
<1>4. Ready(q, "public")
  BY DEF Ready
<1>5. PICK to \in Data : Chain(q, Body(q), "public", to)
  BY <1>4, ChainBody
<1>6. Chain(q, Check("public", denied) \o Body(q), "start", to)
  BY <1>3, <1>5, ChainConcat
<1> QED
  BY <1>5, <1>6 DEF Whole, Data

\* The tools of MCP.
LEMMA McpPrograms ==
  ASSUME NEW q \in Reads, q.surface = "mcp"
  PROVE  Whole(q, McpProgram(q))
<1>0. /\ q.tool \in Tools \ {"channels", "whoami"}
      /\ q.principal # NULL => q.principal.provider \in {"participant-hmac", "oidc"}
  BY ReadsOffered, ReadsTyped DEF ReadRequests
<1> DEFINE C == CapabilityOf(q)
           R == ResourceOf(q)
<1>1. CASE q.tool \notin {"messages", "access_context"}
  <2>1. PICK X \in {CapabilityIdentity(q), CapabilityPrincipal(q, C, R)},
             denied \in {"forbidden", "execution_not_found"} :
          McpProgram(q) = Challenge(q) \o (X \o Authorize(C, R, denied) \o Body(q))
    <3> DEFINE P(X, denied) == Challenge(q) \o (X \o Authorize(C, R, denied) \o Body(q))
               id == CapabilityIdentity(q)
               pr == CapabilityPrincipal(q, C, R)
    <3>1. CASE q.tool = "receipt"
      <4>1. McpProgram(q) = P(pr, "execution_not_found")
        BY <3>1, <1>0, ToolNeeds DEF McpProgram, McpReceipt, Body
      <4> QED
        BY <4>1
    <3>2. CASE q.tool = "audit"
      <4>1. McpProgram(q) = P(pr, "execution_not_found")
        BY <3>2, <1>0, ToolNeeds DEF McpProgram, McpAudit, Body
      <4> QED
        BY <4>1
    <3>3. CASE q.tool = "integrity"
      <4>1. McpProgram(q) = P(pr, "forbidden")
        BY <3>3, <1>0, ToolNeeds DEF McpProgram, McpIntegrity, Body
      <4> QED
        BY <4>1
    <3>4. CASE q.tool = "sweep"
      <4>1. McpProgram(q) = P(pr, "forbidden")
        BY <3>4, <1>0, ToolNeeds DEF McpProgram, McpSweep, Body
      <4> QED
        BY <4>1
    <3>5. CASE q.tool = "decision"
      <4>1. McpProgram(q) = P(id, "forbidden")
        BY <3>5, <1>0, ToolNeeds DEF McpProgram, McpDecision, Body
      <4> QED
        BY <4>1
    <3>6. CASE q.tool = "history"
      <4>1. McpProgram(q) = P(id, "forbidden")
        BY <3>6, <1>0, ToolNeeds DEF McpProgram, McpHistory, Body
      <4> QED
        BY <4>1
    <3>7. CASE q.tool = "policy"
      <4>1. McpProgram(q) = P(id, "forbidden")
        BY <3>7, <1>0, ToolNeeds DEF McpProgram, McpPolicy, Body
      <4> QED
        BY <4>1
    <3>8. CASE q.tool = "policy_integrity"
      <4>1. McpProgram(q) = P(pr, "forbidden")
        BY <3>8, <1>0, ToolNeeds DEF McpProgram, McpPolicyIntegrity, Body
      <4> QED
        BY <4>1
    <3> QED
      BY <1>0, <1>1, <3>1, <3>2, <3>3, <3>4, <3>5, <3>6, <3>7, <3>8 DEF Tools
  <2>2. PICK a, b : /\ Chain(q, Challenge(q), "start", a) /\ Chain(q, X, a, b)
                    /\ b = "start" => Introduces(q, "row")
    BY <1>1, McpCaller
  <2>3. \E to \in Data : Chain(q, McpProgram(q), "start", to)
    BY <1>0, <1>1, <2>1, <2>2, ChainVetted
  <2> QED
    BY <2>3 DEF Whole, Data
<1>2. CASE q.tool = "access_context"
  <2> DEFINE X == CapabilityIdentity(q)
             L == EffectiveGrantsRead(q)
  <2>1. PICK a, b : /\ Chain(q, Challenge(q), "start", a) /\ Chain(q, X, a, b)
                    /\ b = "start" => Introduces(q, "active")
    BY <1>2, McpCaller
  <2>2. Nobody(q) \/ Evaluated(q)
    BY <1>2 DEF Nobody, Evaluated
  <2>3. Chain(q, L, b, "match")
    BY <1>2, <2>1, <2>2, ChainListing
  <2>4. McpProgram(q) = Challenge(q) \o (X \o L)
    BY <1>2 DEF McpProgram, McpAccessContext
  <2> HIDE DEF X, L
  <2>5. Chain(q, McpProgram(q), "start", "match")
    BY <2>1, <2>3, <2>4, ChainConcat
  <2> QED
    BY <2>5 DEF Whole
<1>3. CASE q.tool = "messages"
  <2>0. /\ {"unauthorized", "forbidden", "challenge"} \subseteq Denials
        /\ q.tool \notin AuditTools /\ q.tool \notin {"access_context", "whoami"}
    BY <1>3 DEF Denials, AuditTools, Audits
  <2>1. Body(q) = Fetch("window")
    BY <1>3 DEF Body
  <2> DEFINE X == IF Bearer(q) THEN Authorize("read_messages", q.channel, "forbidden")
                  ELSE IF q.principal # NULL THEN Check("proof", "unauthorized")
                  ELSE Check("public", "forbidden")
  <2>2. McpProgram(q) = Challenge(q) \o (X \o Body(q))
    BY <1>3, <2>1 DEF McpProgram, McpRead
  <2>3. \E a, b : /\ Chain(q, Challenge(q), "start", a) /\ Chain(q, X, a, b)
                  /\ b # "start" /\ Ready(q, b)
    <3>1. CASE q.principal = NULL
      <4>1. Challenge(q) = Check("public", "challenge") /\ X = Check("public", "forbidden")
        BY <1>3, <3>1 DEF Challenge, Bearer
      <4>2. ASSUME NEW from, NEW denied \in Denials
            PROVE  May(q, from, Statement("public", NULL, NULL, denied))
        <5>1. "public" \notin Data \cup Gates /\ Introduces(q, "public")
          BY <1>3, <3>1 DEF Data, Gates, Introduces, Nobody
        <5> QED
          BY <1>3, <2>0, <3>1, <5>1 DEF May, Statement
      <4>3. Chain(q, Check("public", "challenge"), "start", "challenge")
        BY <2>0, <4>2, ChainCheck DEF Checks, Tag, Statement
      <4>4. Chain(q, Check("public", "forbidden"), "challenge", "public")
        BY <2>0, <4>2, ChainCheck DEF Checks
      <4> QED
        BY <4>1, <4>3, <4>4 DEF Ready
    <3>2. CASE q.principal # NULL /\ ~Bearer(q)
      <4>1. Challenge(q) = <<>> /\ X = Check("proof", "unauthorized")
        BY <3>2 DEF Challenge
      <4>2. Introduces(q, "proof")
        BY <1>0, <1>3, <3>2 DEF Introduces, Nobody, Bearer
      <4>3. Chain(q, Check("proof", "unauthorized"), "start", "proof")
        BY <2>0, <4>2, ChainIdentify
      <4>4. Ready(q, "proof")
        BY <1>3, <3>2 DEF Ready, Free
      <4> QED
        BY <4>1, <4>3, <4>4, ChainEmpty
    <3>3. CASE Bearer(q)
      <4>1. Challenge(q) = <<>> /\ X = Authorize(CapabilityOf(q), ResourceOf(q), "forbidden")
        BY <1>0, <3>3, <1>3, ToolNeeds DEF Challenge, Bearer
      <4>2. Introduces(q, "row") /\ Evaluated(q)
        BY <1>3, <3>3 DEF Introduces, Nobody, Bearer, Evaluated
      <4>3. Chain(q, Authorize(CapabilityOf(q), ResourceOf(q), "forbidden"), "start", "match")
        BY <1>0, <2>0, <4>2, ToolNeeds, ChainAuthorize
      <4> QED
        BY <4>1, <4>3, ChainEmpty DEF Ready
    <3> QED
      BY <3>1, <3>2, <3>3
  <2> HIDE DEF X
  <2>4. PICK a, b : /\ Chain(q, Challenge(q), "start", a) /\ Chain(q, X, a, b)
                    /\ b # "start" /\ Ready(q, b)
    BY <2>3
  <2>5. PICK to \in Data : Chain(q, Body(q), b, to)
    BY <2>0, <2>4, ChainBody
  <2>6. Chain(q, McpProgram(q), "start", to)
    BY <2>2, <2>4, <2>5, ChainConcat
  <2> QED
    BY <2>5, <2>6 DEF Whole, Data
<1> QED
  BY <1>1, <1>2, <1>3

\* The tools of REST.
LEMMA RestPrograms ==
  ASSUME NEW q \in Reads, q.surface = "rest"
  PROVE  Whole(q, RestProgram(q))
<1>0. /\ q.tool \in Tools /\ "unauthorized" \in Denials /\ "forbidden" \in Denials
      /\ q.principal # NULL => q.principal.provider \in {"participant-hmac", "human-web", "bearer"}
  BY ReadsOffered, ReadsTyped DEF ReadRequests, Denials
<1> DEFINE C == CapabilityOf(q)
           R == ResourceOf(q)
           X == RequestIdentity(q)
<1>1. CASE q.tool \in {"audit", "integrity", "sweep", "decision", "history", "policy",
                       "policy_integrity"}
  <2>1. RestProgram(q) = X \o Authorize(C, R, "forbidden") \o Body(q)
    <3>1. CASE q.tool \in {"audit", "integrity"}
      BY <3>1, ToolNeeds DEF RestProgram, RestAudit, RestIntegrity, Body
    <3>2. CASE q.tool = "sweep"
      BY <3>2, ToolNeeds DEF RestProgram, RestSweep, Body
    <3>3. CASE q.tool = "decision"
      BY <3>3, ToolNeeds DEF RestProgram, RestDecision, Body
    <3>4. CASE q.tool = "history"
      BY <3>4, ToolNeeds DEF RestProgram, RestHistory, Body
    <3>5. CASE q.tool = "policy"
      BY <3>5, ToolNeeds DEF RestProgram, RestPolicy, Body
    <3>6. CASE q.tool = "policy_integrity"
      BY <3>6, ToolNeeds DEF RestProgram, RestPolicyIntegrity, Body
    <3> QED
      BY <1>1, <3>1, <3>2, <3>3, <3>4, <3>5, <3>6
  <2>2. PICK do \in {"refuse", "proof", "token", "session"} : Chain(q, X, "start", do)
    BY <1>1, RestCaller
  <2> HIDE DEF X
  <2>3. \E to \in Data : Chain(q, X \o Authorize(C, R, "forbidden") \o Body(q), "start", to)
    BY <1>1, <2>2, ChainEmpty, ChainVetted
  <2> QED
    BY <2>1, <2>3 DEF Whole, Data
<1>2. CASE q.tool = "access_context"
  <2> DEFINE A == Check("active", "unlisted")
             XA == X \o A
             L == EffectiveGrantsRead(q)
  <2>1. PICK do \in {"refuse", "proof", "token", "session"} : Chain(q, X, "start", do)
    BY <1>2, RestCaller
  <2>2. Nobody(q) \/ Evaluated(q)
    BY <1>2 DEF Nobody, Evaluated
  <2>3. Chain(q, A, do, "active")
    <3>1. /\ q.tool \notin AuditTools /\ "unlisted" \in Denials
          /\ "active" \in Checks \ (Data \cup {"public"})
      BY <1>2 DEF AuditTools, Audits, Denials, Checks, Gates, Data
    <3>2. May(q, do, Statement("active", NULL, NULL, "unlisted"))
      BY <2>1, <2>2, <3>1 DEF May, Statement
    <3> QED
      BY <3>1, <3>2, ChainCheck
  <2>4. Chain(q, L, "active", "match")
    BY <1>2, <2>2, ChainListing
  <2>5. RestProgram(q) = XA \o L
    BY <1>2 DEF RestProgram, RestAccessContext
  <2> HIDE DEF X, A, L
  <2>6. Chain(q, XA, "start", "active")
    BY <2>1, <2>3, ChainConcat
  <2> HIDE DEF XA
  <2>7. Chain(q, RestProgram(q), "start", "match")
    BY <2>4, <2>5, <2>6, ChainConcat
  <2> QED
    BY <2>7 DEF Whole
<1>3. CASE q.tool = "receipt" \/ (q.tool = "messages" /\ q.principal # NULL)
  <2>1. RestProgram(q) = X \o Body(q)
    BY <1>3 DEF RestProgram, RestReceipt, RestMessages, Body
  <2>2. PICK do \in {"refuse", "proof", "token", "session"} : Chain(q, X, "start", do)
    BY <1>3, RestCaller
  <2>3. Ready(q, do)
    BY <1>0, <1>3, <2>2 DEF Ready, Free, Bearer
  <2>4. PICK to \in Data : Chain(q, Body(q), do, to)
    BY <1>3, <2>2, <2>3, ChainBody
  <2>5. Chain(q, RestProgram(q), "start", to)
    BY <2>1, <2>2, <2>4, ChainConcat
  <2> QED
    BY <2>4, <2>5 DEF Whole, Data
<1>4. CASE q.tool = "messages" /\ q.principal = NULL
  <2>1. RestProgram(q) = Check("public", "forbidden") \o Body(q)
    BY <1>4 DEF RestProgram, RestMessages, Body
  <2> QED
    BY <1>0, <1>4, <2>1, GuestRead
<1>5. CASE q.tool = "channels"
  <2> DEFINE do == IF HumanSession(q) THEN "session" ELSE "refuse"
             I == Check(do, "unauthorized")
             A == Check("admin", "forbidden")
             IA == I \o A
  <2>1. RestProgram(q) = IA \o Body(q)
    BY <1>5 DEF RestProgram, AdminChannels, Body
  <2>2. Introduces(q, do)
    BY <1>5 DEF Introduces, Nobody, HumanSession
  <2>3. do \in {"session", "refuse"}
    OBVIOUS
  <2> HIDE DEF do
  <2>4. Chain(q, I, "start", do)
    BY <1>0, <2>2, <2>3, ChainIdentify
  <2>5. Chain(q, A, do, "admin")
    <3>1. q.tool \notin AuditTools /\ "admin" \in Checks \ (Data \cup {"public"} \cup Gates)
      BY <1>5 DEF AuditTools, Audits, Checks, Gates, Data
    <3>2. May(q, do, Statement("admin", NULL, NULL, "forbidden"))
      BY <1>0, <1>5, <2>3, <3>1 DEF May, Statement
    <3> QED
      BY <1>0, <3>1, <3>2, ChainCheck
  <2>6. Ready(q, "admin")
    BY DEF Ready
  <2>7. PICK to \in Data : Chain(q, Body(q), "admin", to)
    BY <1>5, <2>6, ChainBody
  <2> HIDE DEF I, A
  <2>8. Chain(q, IA, "start", "admin")
    BY <2>4, <2>5, ChainConcat
  <2> HIDE DEF IA
  <2>9. Chain(q, RestProgram(q), "start", to)
    BY <2>1, <2>7, <2>8, ChainConcat
  <2> QED
    BY <2>7, <2>9 DEF Whole, Data
<1>6. CASE q.tool = "whoami"
  <2>1. CASE Nobody(q) /\ q.principal # NULL
    <3>1. RestProgram(q) = Check("refuse", "unauthorized")
      BY <1>6, <2>1 DEF RestProgram, Whoami, Nobody
    <3>2. Introduces(q, "refuse")
      BY <2>1 DEF Introduces
    <3>3. Chain(q, RestProgram(q), "start", "refuse")
      BY <1>0, <3>1, <3>2, ChainIdentify
    <3> QED
      BY <1>6, <3>3 DEF Whole, Free
  <2>2. CASE ~(Nobody(q) /\ q.principal # NULL)
    <3>1. RestProgram(q) = X
      BY <1>6, <2>2 DEF RestProgram, Whoami, Nobody
    <3>2. \E do \in {"refuse", "proof", "token", "session"} : Chain(q, X, "start", do)
      BY <1>6, <2>2, RestCaller DEF Nobody
    <3> QED
      BY <1>6, <3>1, <3>2 DEF Whole, Free
  <2> QED
    BY <2>1, <2>2
<1> QED
  BY <1>0, <1>1, <1>2, <1>3, <1>4, <1>5, <1>6 DEF Tools

\* Every program of every surface.
LEMMA ProgramChains ==
  ASSUME NEW q \in Reads
  PROVE  Whole(q, Programs[q])
<1>1. Programs[q] = Program(q) /\ q.surface \in Surfaces
  BY ReadsTyped DEF Programs, ReadRequests
<1>2. CASE q.surface = "mcp"
  BY <1>1, <1>2, McpPrograms DEF Program
<1>3. CASE q.surface = "rest"
  BY <1>1, <1>3, RestPrograms DEF Program
<1>4. CASE q.surface = "navigation"
  <2>1. q.tool = "messages" /\ q.principal = NULL
    BY <1>4, ReadsOffered
  <2>2. Programs[q] = Check("public", "channel_not_found") \o Body(q)
    BY <1>1, <1>4, <2>1 DEF Program, NavigationRead, Body
  <2> QED
    BY <2>1, <2>2, GuestRead DEF Denials
<1>5. CASE q.surface = "cli"
  <2>1. q.tool \in {"audit", "integrity", "sweep", "decision", "history", "policy",
                    "policy_integrity"}
    BY <1>5, ReadsOffered
  <2>2. Programs[q] = Body(q)
    BY <1>1, <1>5, <2>1 DEF Program, CliProgram, ExecutionCommands, GrantVerify,
       GrantHistory, GrantList, GrantExplain, Body
  <2>3. \E to \in Data : Chain(q, Body(q), "start", to)
    BY <1>5, <2>1, ChainBody DEF Ready, Free
  <2> QED
    BY <2>2, <2>3 DEF Whole, Data
<1> QED
  BY <1>1, <1>2, <1>3, <1>4, <1>5 DEF Surfaces

--------------------------------------------------------------------------------
(* What readers remember *)

Notes ==
  [implicit : BOOLEAN, explicit : BOOLEAN, key : OrNull(Keys),
   known : SUBSET Participants, spent : SUBSET Keys]

\* The execution a sweep follows, and those that spent the grants a policy audit has
\* read, have receipts.
NotesBacked ==
  /\ seen \in Notes
  /\ seen.key # NULL => receipts[seen.key] # NULL
  /\ \A k \in seen.spent : receipts[k] # NULL

\* Having seen nothing is backed.
LEMMA NothingBacked == NothingSeen \in Notes /\ NothingSeen.key = NULL /\ NothingSeen.spent = {}
BY DEF NothingSeen, Notes, OrNull

\* Notes stay backed while receipts stay.
LEMMA NotesKept ==
  ASSUME NotesBacked, EvidenceKept, UNCHANGED seen
  PROVE  NotesBacked'
<1>1. seen.key \in OrNull(Keys) /\ seen.spent \subseteq Keys
  BY DEF NotesBacked, Notes
<1> QED
  BY <1>1 DEF NotesBacked, EvidenceKept, OrNull

\* What a statement teaches is backed.
LEMMA LearntBacked ==
  ASSUME Posting, NotesBacked, NEW s, NEW q, NEW k \in OrNull(Keys),
         s.do = "list" /\ k # NULL => receipts[k] # NULL,
         seen' = Learnt(s, q, k), UNCHANGED receipts
  PROVE  NotesBacked'
<1>0. seen \in Notes
  BY DEF NotesBacked
<1>1. CASE s.do = "row"
  <2> DEFINE b == ImplicitReason(q.principal, q.participant, s.capability, s.resource) # NULL
  <2>1. seen' = [seen EXCEPT !.implicit = b]
    BY <1>1 DEF Learnt
  <2>2. b \in BOOLEAN
    OBVIOUS
  <2> HIDE DEF b
  <2> QED
    BY <1>0, <2>1, <2>2 DEF NotesBacked, Notes
<1>2. CASE s.do = "count"
  <2> DEFINE b == ExplicitGrants(q.principal, q.participant, s.capability) # {}
  <2>1. seen' = [seen EXCEPT !.explicit = b]
    BY <1>2 DEF Learnt
  <2>2. b \in BOOLEAN
    OBVIOUS
  <2> HIDE DEF b
  <2> QED
    BY <1>0, <2>1, <2>2 DEF NotesBacked, Notes
<1>3. CASE s.do = "match"
  BY <1>3, NothingBacked DEF Learnt, NotesBacked
<1>4. CASE s.do = "list"
  <2>1. seen' = [seen EXCEPT !.key = k]
    BY <1>4 DEF Learnt
  <2> QED
    BY <1>0, <1>4, <2>1 DEF NotesBacked, Notes
<1>5. CASE s.do = "participants"
  <2>1. seen' = [seen EXCEPT !.known = KnownIds]
    BY <1>5 DEF Learnt
  <2>2. KnownIds \subseteq Participants
    BY DEF KnownIds
  <2> QED
    BY <1>0, <2>1, <2>2 DEF NotesBacked, Notes
<1>6. CASE s.do = "delegated"
  <2> DEFINE S == {<<delegated[g].participant, delegated[g].consumed>> :
                     g \in {h \in DOMAIN delegated :
                              delegated[h].oneShot /\ delegated[h].consumed # NULL}}
  <2>1. seen' = [seen EXCEPT !.spent = S]
    BY <1>6 DEF Learnt
  <2>2. ASSUME NEW j \in S PROVE j \in Keys /\ receipts[j] # NULL
    <3>1. PICK g \in DOMAIN delegated :
            /\ delegated[g].consumed # NULL
            /\ j = <<delegated[g].participant, delegated[g].consumed>>
      BY <2>2
    <3>2. j \in Keys /\ provenance[j] # NULL
      BY <3>1, SpentKey DEF Posting
    <3> QED
      BY <3>2 DEF Posting, ReceiptsBound
  <2> HIDE DEF S
  <2> QED
    BY <1>0, <2>1, <2>2 DEF NotesBacked, Notes
<1>7. CASE s.do \notin {"row", "count", "match", "list", "participants", "delegated"}
  <2>1. seen' = seen
    BY <1>7 DEF Learnt
  <2> QED
    BY <2>1 DEF NotesBacked
<1> QED
  BY <1>1, <1>2, <1>3, <1>4, <1>5, <1>6, <1>7

--------------------------------------------------------------------------------
(* What audits find *)

\* The statements of an audit of executions find nothing, once the receipt is known
\* to be there; without it, verify_execution_audit_integrity says so.
LEMMA AuditFinds ==
  ASSUME Posting, Audited, NotesBacked, NEW q \in Reads, q.tool \in Audits,
         NEW s, s.do \in StepsOf(q.tool),
         s.do \in Inner(q.tool) /\ KeyInView(q) # NULL => receipts[KeyInView(q)] # NULL
  PROVE  Found(s, q) \subseteq If(q.tool = "integrity", "receipt_missing")
<1> DEFINE k == KeyInView(q)
<1>1. k \in OrNull(Keys)
  <2>1. <<q.participant, q.intent>> \in Keys
    BY ReadsTyped DEF ReadRequests, Keys
  <2>2. seen.key \in OrNull(Keys)
    BY DEF NotesBacked, Notes
  <2> QED
    BY <2>1, <2>2 DEF KeyInView, OrNull
<1>2. s.do \in Gates \cup {"receipt", "verified", "list"} \cup Inner(q.tool)
       \cup {"orphan provenance", "orphan ingress", "orphan reservation"}
  BY DEF StepsOf, Opening, Around, Audits
<1>3. Inner(q.tool) = {"effect", "reservation", "provenance", "grant", "ingress"}
  BY DEF Inner, Audits
<1>4. CASE s.do \in Gates \cup {"receipt", "list"}
  <2>1. Found(s, q) = {}
    BY <1>4 DEF Found, Gates
  <2> QED
    BY <2>1
<1>5. CASE s.do \in {"orphan provenance", "orphan ingress", "orphan reservation"}
  <2>1. Found(s, q) \subseteq OrphanKinds
    BY <1>5 DEF Found
  <2>2. OrphanKinds = {}
    BY AuditedSweeps DEF OrphanKinds, SweepValid
  <2> QED
    BY <2>1, <2>2
<1>6. CASE s.do = "verified"
  <2>1. Found(s, q) = If(k # NULL /\ receipts[k] = NULL, "receipt_missing")
    BY <1>6 DEF Found
  <2>2. q.tool # "audit"
    BY <1>6 DEF StepsOf, Gates, Opening, Inner, Around
  <2>3. q.tool = "sweep" => k = seen.key
    BY DEF KeyInView
  <2>4. q.tool = "sweep" => Found(s, q) = {}
    BY <2>1, <2>3 DEF If, NotesBacked
  <2> QED
    BY <2>1, <2>2, <2>4 DEF If, Audits
<1>7. CASE s.do \in Inner(q.tool)
  <2>1. CASE k = NULL
    <3>1. Found(s, q) = {}
      BY <1>3, <1>7, <2>1 DEF Found
    <3> QED
      BY <3>1
  <2>2. CASE k # NULL
    <3>1. k \in Keys /\ receipts[k] # NULL
      BY <1>1, <1>7, <2>2 DEF OrNull
    <3>2. VerifyAudit(k) = {}
      BY <3>1, ExecutionVerifies
    <3>3. Found(s, q) \in {EffectViolations(k), NavigationViolations(k),
                           AuthorizationViolations(k), DelegatedViolations(k),
                           IngressViolations(k)}
      BY <1>3, <1>7, <2>2, <3>1 DEF Found
    <3>4. Found(s, q) \subseteq VerifyAudit(k)
      BY <3>1, <3>3 DEF VerifyAudit
    <3> QED
      BY <3>2, <3>4
  <2> QED
    BY <2>1, <2>2
<1> QED
  BY <1>2, <1>4, <1>5, <1>6, <1>7

--------------------------------------------------------------------------------
(* The audit of executions, statement by statement *)

\* Where the reader is, and that a reader without a request has nothing.
Positioned ==
  /\ call = NULL => answer = "none" /\ report = {}
  /\ call # NULL =>
       /\ call.read \in Reads
       /\ answer = "none" => at \in 1..Len(Programs[call.read])

\* An audit of executions has found nothing but a missing receipt, and looks at
\* evidence only of an execution that has one.
AuditReader ==
  call # NULL /\ call.read.tool \in Audits =>
    LET q == call.read
    IN /\ report \subseteq If(q.tool = "integrity", "receipt_missing")
       /\ /\ answer = "none" /\ KeyInView(q) # NULL
          /\ Programs[q][at].do \in Inner(q.tool)
          => receipts[KeyInView(q)] # NULL

\* The statement the reader is at, the one before it and the one after it.
LEMMA AtStatement ==
  ASSUME Positioned, call # NULL, answer = "none"
  PROVE  LET q == call.read
             p == Programs[q]
             s == p[at]
         IN /\ q \in Reads /\ at \in 1..Len(p) /\ Len(p) \in Nat
            /\ May(q, IF at = 1 THEN "start" ELSE Tag(p[at - 1]), s)
            /\ s.do \in Checks => s.denied \in Denials
            /\ at = Len(p) => Tag(s) # "challenge" /\ (Free(q) \/ s.do \in Data \cup {"match"})
            /\ at # Len(p) => at + 1 \in 1..Len(p) /\ May(q, Tag(s), p[at + 1])
<1> DEFINE q == call.read
           p == Programs[q]
           s == p[at]
<1>1. q \in Reads /\ at \in 1..Len(p)
  BY DEF Positioned
<1>2. Whole(q, p)
  BY <1>1, ProgramChains
<1> HIDE DEF p
<1>3. PICK to : /\ Chain(q, p, "start", to)
                /\ to \notin {"start", "challenge"}
                /\ Free(q) \/ to \in Data \cup {"match"}
  BY <1>2 DEF Whole
<1>4. Len(p) \in Nat
  BY <1>3 DEF Chain
<1>5. May(q, IF at = 1 THEN "start" ELSE Tag(p[at - 1]), s)
  BY <1>1, <1>3 DEF Chain
<1>6. s.do \in Checks => s.denied \in Denials
  BY <1>5 DEF May
<1>7. ASSUME at = Len(p)
      PROVE  Tag(s) # "challenge" /\ (Free(q) \/ s.do \in Data \cup {"match"})
  <2>1. to = Tag(s)
    BY <1>1, <1>3, <1>4, <1>7 DEF Chain
  <2> QED
    BY <1>3, <2>1 DEF Tag, Data
<1>8. ASSUME at # Len(p)
      PROVE  at + 1 \in 1..Len(p) /\ May(q, Tag(s), p[at + 1])
  <2>1. at + 1 \in 1..Len(p) /\ (at + 1) - 1 = at /\ at + 1 # 1
    BY <1>1, <1>4, <1>8
  <2> QED
    BY <1>3, <2>1 DEF Chain
<1> QED
  BY <1>1, <1>4, <1>5, <1>6, <1>7, <1>8 DEF p

\* An audit takes its steps in order.
LEMMA AuditStatement ==
  ASSUME Positioned, call # NULL, answer = "none", call.read.tool \in AuditTools
  PROVE  LET q == call.read
             p == Programs[q]
         IN /\ q \in Reads
            /\ p[at].do \in StepsOf(q.tool)
            /\ p[at].do \in Checks => p[at].denied # "none"
            /\ at # Len(p) /\ p[at + 1].do \in Inner(q.tool) =>
                 p[at].do \in Opening(q.tool) \cup Inner(q.tool)
<1> DEFINE q == call.read
           p == Programs[q]
<1>1. "challenge" \notin Opening(q.tool) \cup Inner(q.tool) /\ "none" \notin Denials
  BY DEF Opening, Inner, Denials
<1>2. /\ q \in Reads
      /\ p[at].do \in StepsOf(q.tool)
      /\ p[at].do \in Checks => p[at].denied \in Denials
  BY AtStatement DEF May
<1>3. ASSUME at # Len(p), p[at + 1].do \in Inner(q.tool)
      PROVE  p[at].do \in Opening(q.tool) \cup Inner(q.tool)
  <2>1. May(q, Tag(p[at]), p[at + 1])
    BY <1>3, AtStatement
  <2>2. Tag(p[at]) \in Opening(q.tool) \cup Inner(q.tool)
    BY <1>3, <2>1 DEF May
  <2> QED
    BY <1>1, <2>2 DEF Tag
<1> QED
  BY <1>1, <1>2, <1>3

\* An audit does not look before it opens.
LEMMA ProgramStarts ==
  ASSUME NEW q \in Reads
  PROVE  /\ 1 \in 1..Len(Programs[q])
         /\ May(q, "start", Programs[q][1])
         /\ q.tool \in AuditTools => Programs[q][1].do \notin Inner(q.tool)
<1> DEFINE p == Programs[q]
<1>1. Whole(q, p)
  BY ProgramChains
<1> HIDE DEF p
<1>2. PICK to : Chain(q, p, "start", to) /\ to # "start"
  BY <1>1 DEF Whole
<1>3. Len(p) \in Nat /\ Len(p) # 0
  BY <1>2 DEF Chain
<1>4. 1 \in 1..Len(p) /\ May(q, "start", p[1])
  BY <1>2, <1>3 DEF Chain
<1>5. "start" \notin Opening(q.tool) \cup Inner(q.tool)
  BY DEF Opening, Inner
<1>6. q.tool \in AuditTools => p[1].do \notin Inner(q.tool)
  BY <1>4, <1>5 DEF May
<1> QED
  BY <1>4, <1>6 DEF p

\* Only a check can be refused.
LEMMA RefusedIsCheck ==
  ASSUME NEW s, NEW c, Refused(s, c)
  PROVE  s.do \in Checks
BY DEF Checks, Gates, Refused

\* A request that failed leaves nothing of what it found.
LEMMA AnswerLeaves ==
  ASSUME Positioned, NEW status, Answer(status), UNCHANGED call, call # NULL,
         status # "none"
  PROVE  Positioned' /\ AuditReader' /\ report' = {}
BY DEF Answer, Positioned, AuditReader

\* The reader of every tool keeps its place.
LEMMA PositionedStep ==
  ASSUME Positioned, ReaderStep
  PROVE  Positioned'
<1>1. ASSUME NEW q \in Reads, BeginRead(q) PROVE Positioned'
  <2>1. /\ call = NULL /\ answer = "none" /\ report = {} /\ at' = 1
        /\ call'.read = q /\ UNCHANGED <<answer, report>>
    BY <1>1 DEF BeginRead, Positioned
  <2> QED
    BY <2>1, ProgramStarts DEF Positioned
<1>2. CASE EndRead
  BY <1>2 DEF EndRead, Positioned
<1>3. CASE ReadFails
  <2>1. call # NULL /\ answer = "none" /\ UNCHANGED call
    BY <1>3 DEF ReadFails, InService
  <2>2. CASE Answer("database_unavailable")
    BY <2>1, <2>2, AnswerLeaves
  <2>3. CASE ~Answer("database_unavailable")
    <3>1. /\ Tag(Programs[call.read][at]) = "challenge"
          /\ at' = at + 1 /\ UNCHANGED <<report, answer>>
      BY <1>3, <2>3 DEF ReadFails, Tag
    <3>2. at + 1 \in 1..Len(Programs[call.read])
      BY <2>1, <3>1, AtStatement
    <3> QED
      BY <2>1, <3>1, <3>2 DEF Positioned
  <2> QED
    BY <2>2, <2>3
<1>4. CASE ReadStep
  <2> DEFINE q == call.read
             p == Programs[q]
             s == p[at]
  <2>1. call # NULL /\ answer = "none" /\ UNCHANGED call /\ q \in Reads
    BY <1>4 DEF ReadStep, InService, Positioned
  <2>2. CASE Refused(s, call) /\ Answer(s.denied)
    <3>1. s.denied # "none"
      BY <2>1, <2>2, AtStatement, RefusedIsCheck DEF Denials
    <3> QED
      BY <2>1, <2>2, <3>1, AnswerLeaves
  <2>3. CASE Give
    BY <2>1, <2>3 DEF Give, Positioned
  <2>4. CASE at # Len(p) /\ at' = at + 1 /\ UNCHANGED answer
    <3>1. at + 1 \in 1..Len(p)
      BY <2>1, <2>4, AtStatement
    <3> QED
      BY <2>1, <2>4, <3>1 DEF Positioned
  <2> QED
    BY <1>4, <2>2, <2>3, <2>4 DEF ReadStep
<1> QED
  BY <1>1, <1>2, <1>3, <1>4 DEF ReaderStep

\* What the reader remembers is backed.
LEMMA NotesStep ==
  ASSUME Posting, NotesBacked, ReaderStep, UNCHANGED vars
  PROVE  NotesBacked'
<1>1. UNCHANGED receipts
  BY DEF vars, tables, evidence
<1>2. CASE seen' = NothingSeen
  BY <1>2, NothingBacked DEF NotesBacked
<1>3. CASE UNCHANGED seen
  BY <1>1, <1>3 DEF NotesBacked
<1>4. CASE ReadStep /\ seen' # NothingSeen
  <2> DEFINE q == call.read
             s == Programs[q][at]
  <2>1. PICK k \in OrNull(Keys) :
          /\ s.do = "list" =>
               IF \E j \in Keys : receipts[j] # NULL
                 THEN k # NULL /\ receipts[k] # NULL ELSE k = NULL
          /\ seen' = Learnt(s, q, k)
    BY <1>4 DEF ReadStep, Answer, Give
  <2> HIDE DEF s, q
  <2> QED
    BY <1>1, <2>1, LearntBacked
<1> QED
  BY <1>2, <1>3, <1>4 DEF ReaderStep, BeginRead, ReadFails, EndRead, Answer

\* An audit of executions goes on clean.
LEMMA AuditReaderStep ==
  ASSUME Posting, Audited, NotesBacked, Positioned, AuditReader, ReaderStep, UNCHANGED vars
  PROVE  AuditReader'
<1>0. UNCHANGED receipts
  BY DEF vars, tables, evidence
<1>1. ASSUME NEW q \in Reads, BeginRead(q) PROVE AuditReader'
  <2>1. report' = {} /\ at' = 1 /\ call'.read = q
    BY <1>1 DEF BeginRead, Positioned
  <2>2. q.tool \in Audits => Programs[q][1].do \notin Inner(q.tool)
    BY ProgramStarts DEF AuditTools
  <2> QED
    BY <2>1, <2>2 DEF AuditReader
<1>2. CASE EndRead
  BY <1>2 DEF EndRead, AuditReader
<1>3. CASE ReadFails
  <2>1. call # NULL /\ answer = "none" /\ UNCHANGED call
    BY <1>3 DEF ReadFails, InService
  <2>2. CASE Answer("database_unavailable")
    BY <2>1, <2>2, AnswerLeaves
  <2>3. CASE ~Answer("database_unavailable")
    <3>1. Programs[call.read][at].do = "public"
      BY <1>3, <2>3 DEF ReadFails
    <3>2. call.read.tool \notin AuditTools
      BY <2>1, <3>1, AuditStatement DEF StepsOf, Gates, Opening, Inner, Around
    <3> QED
      BY <2>1, <3>2 DEF AuditReader, AuditTools
  <2> QED
    BY <2>2, <2>3
<1>4. ASSUME ReadStep, call.read.tool \in Audits PROVE AuditReader'
  <2> DEFINE q == call.read
             p == Programs[q]
             s == p[at]
  <2>1. /\ call # NULL /\ answer = "none" /\ UNCHANGED call /\ q \in Reads
        /\ q.tool \in AuditTools
    BY <1>4 DEF ReadStep, InService, Positioned, AuditTools
  <2>2. /\ s.do \in StepsOf(q.tool)
        /\ s.do \in Checks => s.denied # "none"
        /\ at # Len(p) /\ p[at + 1].do \in Inner(q.tool) =>
             s.do \in Opening(q.tool) \cup Inner(q.tool)
    BY <2>1, AuditStatement
  <2>3. CASE Refused(s, call) /\ Answer(s.denied)
    BY <2>1, <2>2, <2>3, RefusedIsCheck, AnswerLeaves
  <2>4. CASE ~Refused(s, call)
    <3>1. report' = report \cup Found(s, q)
      BY <1>4, <2>4 DEF ReadStep
    <3>2. s.do \in Inner(q.tool) /\ KeyInView(q) # NULL => receipts[KeyInView(q)] # NULL
      BY <1>4, <2>1 DEF AuditReader
    <3>3. Found(s, q) \subseteq If(q.tool = "integrity", "receipt_missing")
      BY <1>4, <2>1, <2>2, <3>2, AuditFinds
    <3>4. report' \subseteq If(q.tool = "integrity", "receipt_missing")
      BY <1>4, <2>1, <3>1, <3>3 DEF AuditReader
    <3>5. CASE Give
      BY <2>1, <3>4, <3>5 DEF Give, AuditReader
    <3>6. CASE ~Give
      <4>1. /\ at # Len(p) /\ ~Finishes(s, q) /\ at' = at + 1
            /\ \E k \in OrNull(Keys) : seen' = Learnt(s, q, k)
        BY <1>4, <2>4, <3>6 DEF ReadStep
      <4>2. ASSUME p[at + 1].do \in Inner(q.tool), KeyInView(q)' # NULL
            PROVE  receipts[KeyInView(q)'] # NULL
        <5>1. s.do \in {"receipt", "verified"} \cup Inner(q.tool)
          <6>1. Opening(q.tool) \subseteq {"receipt", "verified"}
            BY <1>4 DEF Opening, Audits
          <6> QED
            BY <2>2, <4>1, <4>2, <6>1
        <5>2. seen' = seen
          BY <1>4, <4>1, <5>1 DEF Learnt, Inner, Audits
        <5>3. KeyInView(q)' = KeyInView(q)
          BY <2>1, <5>2 DEF KeyInView
        <5>4. CASE s.do \in Inner(q.tool)
          BY <3>2, <4>2, <5>3, <5>4
        <5>5. CASE s.do = "receipt"
          BY <2>4, <5>3, <5>5 DEF Refused
        <5>6. CASE s.do = "verified"
          <6>1. q.tool \in {"integrity", "sweep"}
            BY <1>4, <2>2, <5>6 DEF Audits, StepsOf, Gates, Opening, Inner, Around
          <6>2. q.tool = "integrity" => receipts[KeyInView(q)] # NULL
            BY <4>1, <5>6 DEF Finishes
          <6>3. q.tool = "sweep" => receipts[KeyInView(q)] # NULL
            BY <4>2, <5>3 DEF KeyInView, NotesBacked
          <6> QED
            BY <5>3, <6>1, <6>2, <6>3
        <5> QED
          BY <5>1, <5>4, <5>5, <5>6
      <4> QED
        BY <1>0, <2>1, <3>4, <4>1, <4>2 DEF AuditReader, KeyInView
    <3> QED
      BY <3>5, <3>6
  <2> QED
    BY <1>4, <2>3, <2>4 DEF ReadStep
<1>5. ASSUME ReadStep, call.read.tool \notin Audits PROVE AuditReader'
  BY <1>5 DEF ReadStep, AuditReader
<1> QED
  BY <1>1, <1>2, <1>3, <1>4, <1>5 DEF ReaderStep

\* What holds of an audit of executions at every moment.
AuditedReads == ReadPosting /\ Audited /\ NotesBacked /\ Positioned /\ AuditReader

\* Every step among readers keeps it.
LEMMA AuditedReadsStep ==
  NoNavigation /\ AuditedReads /\ [ReadNext]_readVars => AuditedReads'
<1> SUFFICES ASSUME NoNavigation, AuditedReads, [ReadNext]_readVars PROVE AuditedReads'
  OBVIOUS
<1>1. ReadPosting' /\ StepKind /\ EvidenceKept
  BY ReadPostingStep DEF AuditedReads
<1>2. Audited'
  BY <1>1, AuditedStep DEF AuditedReads, ReadPosting
<1>3. (ReaderStep /\ UNCHANGED vars) \/ ReaderWaits
  BY ReadKinds DEF AuditedReads, ReadPosting, Posting
<1>4. CASE ReaderStep /\ UNCHANGED vars
  BY <1>1, <1>2, <1>4, NotesStep, PositionedStep, AuditReaderStep DEF AuditedReads, ReadPosting
<1>5. CASE ReaderWaits
  <2>1. NotesBacked'
    BY <1>1, <1>5, NotesKept DEF AuditedReads, ReaderWaits
  <2>2. Positioned'
    BY <1>5 DEF AuditedReads, ReaderWaits, Positioned
  <2>3. AuditReader'
    <3> SUFFICES ASSUME call # NULL, call.read.tool \in Audits
                 PROVE  AuditReader'
      BY <1>5 DEF ReaderWaits, AuditReader
    <3> DEFINE q == call.read
               k == KeyInView(q)
    <3>1. KeyInView(q)' = k
      BY <1>5 DEF ReaderWaits, KeyInView
    <3>2. k \in OrNull(Keys)
      <4>1. q \in Reads
        BY DEF AuditedReads, Positioned
      <4>2. <<q.participant, q.intent>> \in Keys
        BY <4>1, ReadsTyped DEF ReadRequests, Keys
      <4> QED
        BY <4>2 DEF AuditedReads, NotesBacked, Notes, KeyInView, OrNull
    <3>3. k # NULL /\ receipts[k] # NULL => receipts'[k] # NULL
      BY <1>1, <3>2 DEF EvidenceKept, OrNull
    <3> QED
      BY <1>5, <3>1, <3>3 DEF AuditedReads, AuditReader, ReaderWaits
  <2> QED
    BY <1>1, <1>2, <2>1, <2>2, <2>3 DEF AuditedReads
<1> QED
  BY <1>3, <1>4, <1>5

\* An audit of the executions, taken statement by statement while executions commit,
\* grants change and participants come and go, reports nothing but the missing
\* receipt of an execution that was asked for, for as long as nobody posts by
\* navigation writes: receipts are read before the evidence they vouch for, and
\* evidence is only added to.
THEOREM AuditsReportNothing == NoNavigation /\ ReadSpec => []AuditReportsClean
<1>1. AuditedReads => AuditReportsClean
  <2> SUFFICES ASSUME AuditedReads, answer = "given",
                      call.read.tool \in {"audit", "integrity", "sweep"}
               PROVE  report \subseteq If(call.read.tool = "integrity", "receipt_missing")
    BY DEF AuditReportsClean
  <2>1. call # NULL
    BY DEF AuditedReads, Positioned
  <2> QED
    BY <2>1 DEF AuditedReads, AuditReader, Audits
<1>2. ReadInit => AuditedReads
  <2> SUFFICES ASSUME ReadInit PROVE AuditedReads
    OBVIOUS
  <2>1. Audited
    BY DEF ReadInit, Audited
  <2>2. NotesBacked
    BY NothingBacked DEF ReadInit, NotesBacked
  <2>3. Positioned /\ AuditReader
    BY DEF ReadInit, Positioned, AuditReader
  <2> QED
    BY <2>1, <2>2, <2>3, ReadPostingInit DEF AuditedReads
<1>3. NoNavigation => NoNavigation'
  BY DEF NoNavigation
<1> QED
  BY <1>1, <1>2, <1>3, AuditedReadsStep, PTL DEF ReadSpec

--------------------------------------------------------------------------------
(* The audit of the policy, statement by statement *)

\* create_delegated_grant does not check the capability; its callers ask for ones the
\* program knows.
SupportedGrants == \A g \in GrantSpecs : g.capability \in KnownCapabilities

\* Grants are for participants that exist, their capabilities are known, and a scope
\* has one durable row.
PolicyRows ==
  /\ \A i \in DOMAIN durable : Known(durable[i].participant)
  /\ \A i \in DOMAIN delegated :
       Known(delegated[i].participant) /\ delegated[i].capability \in KnownCapabilities
  /\ OneRowPerScope

\* An audit of the policy has found no more than participants who came after it began,
\* and looks at grants knowing everyone who was there when it began.
PolicyReader ==
  call # NULL /\ call.read.tool = "policy_integrity" =>
    /\ \A p \in Participants \ call.absent : Known(p)
    /\ report \subseteq {"missing_participant"}
    /\ report # {} => \E p \in Participants \cap call.absent : Known(p)
    /\ answer = "none" /\ Programs[call.read][at].do \in Inner("policy_integrity") =>
         Participants \ call.absent \subseteq seen.known

\* A row of a grant table names a participant.
LEMMA RowParticipants ==
  ASSUME TypeOK
  PROVE  /\ \A i \in DOMAIN durable : durable[i].participant \in Participants
         /\ \A i \in DOMAIN delegated : delegated[i].participant \in Participants
<1>1. ASSUME NEW i \in DOMAIN durable PROVE durable[i].participant \in Participants
  <2>1. durable[i] \in DurableGrants
    BY DEF TypeOK, PolicyTypeOK
  <2> QED
    BY <2>1 DEF DurableGrants
<1>2. ASSUME NEW i \in DOMAIN delegated PROVE delegated[i].participant \in Participants
  <2>1. delegated[i] \in DelegatedGrants
    BY DEF TypeOK, PolicyTypeOK
  <2> QED
    BY <2>1 DEF DelegatedGrants
<1> QED
  BY <1>1, <1>2

\* Delegated grants stay for known participants and of known capabilities.
LEMMA DelegatedRowsStep ==
  ASSUME SupportedGrants, Posting, PolicyRows, StepKind, KnownKept,
         NEW i \in DOMAIN delegated'
  PROVE  /\ participants'[delegated'[i].participant].status # "missing"
         /\ delegated'[i].capability \in KnownCapabilities
<1> DEFINE Goal == participants'[delegated'[i].participant].status # "missing"
                   /\ delegated'[i].capability \in KnownCapabilities
<1> SUFFICES Goal
  OBVIOUS
<1>0. TypeOK /\ ReceiptsBound
  BY DEF Posting
<1>1. ASSUME i \in DOMAIN delegated,
             delegated'[i].participant = delegated[i].participant,
             delegated'[i].capability = delegated[i].capability
      PROVE  Goal
  <2>1. delegated[i].participant \in Participants
    BY <1>0, <1>1, RowParticipants
  <2> QED
    BY <1>1, <2>1 DEF PolicyRows, KnownKept, Known
<1>2. CASE GrantChange
  <2>1. CASE i \in DOMAIN delegated
    BY <1>0, <1>1, <1>2, <2>1, GrantChangeKeeps
  <2>2. CASE i \notin DOMAIN delegated
    <3>1. /\ delegated'[i] \in GrantSpecs
          /\ participants[delegated'[i].participant].status = "active"
      BY <1>0, <1>2, <2>2, GrantChangeKeeps
    <3>2. delegated'[i].participant \in Participants
      BY <3>1, GrantSpecsTyped DEF DelegatedGrants
    <3> QED
      BY <3>1, <3>2 DEF SupportedGrants, KnownKept, Known
  <2> QED
    BY <2>1, <2>2
<1>3. ASSUME NEW r \in Requests, NEW d \in Decisions, ExecutedPost(r, d) PROVE Goal
  BY <1>0, <1>1, <1>3, ExecutedPostSpends
<1>4. CASE UNCHANGED delegated
  BY <1>1, <1>4
<1>5. \/ UNCHANGED delegated \/ GrantChange
      \/ \E r \in Requests, d \in Decisions : ExecutedPost(r, d)
  BY DEF StepKind, Quiet, PlainPost, NavigationPost, Replay
<1> HIDE DEF Goal
<1> QED
  BY <1>2, <1>3, <1>4, <1>5

\* Every step among readers keeps the rows so.
LEMMA PolicyRowsStep ==
  ASSUME SupportedGrants, Posting, PolicyRows, StepKind, DurableChange, KnownKept
  PROVE  PolicyRows'
<1>0. TypeOK /\ PolicyTypeOK
  BY DEF Posting, TypeOK
<1>1. \A i \in DOMAIN durable : participants'[durable[i].participant].status # "missing"
  BY <1>0, RowParticipants DEF PolicyRows, KnownKept, Known
<1>2. /\ OneRowPerScope'
      /\ \A i \in DOMAIN durable' : participants'[durable'[i].participant].status # "missing"
  <2>1. CASE UNCHANGED durable
    BY <1>1, <2>1 DEF PolicyRows, OneRowPerScope
  <2>2. ASSUME NEW g \in DurableSpecs, participants[g.participant].status = "active",
               durable' = DurableAfterCreate(g)
        PROVE  /\ OneRowPerScope'
               /\ \A i \in DOMAIN durable' : participants'[durable'[i].participant].status # "missing"
    <3>1. g \in DurableGrants /\ g.participant \in Participants
      BY GrantSpecsTyped DEF DurableGrants
    <3>2. participants'[g.participant].status # "missing"
      BY <2>2, <3>1 DEF KnownKept, Known
    <3> QED
      BY <1>0, <1>1, <2>2, <3>1, <3>2, DurableAfterCreateScopes DEF PolicyRows, Known
  <2>3. ASSUME NEW id, durable' = DurableAfterDeactivate(id)
        PROVE  /\ OneRowPerScope'
               /\ \A i \in DOMAIN durable' : participants'[durable'[i].participant].status # "missing"
    BY <1>0, <1>1, <2>3, DurableAfterDeactivateScopes DEF PolicyRows, Known
  <2> QED
    BY <2>1, <2>2, <2>3 DEF DurableChange
<1>3. \A i \in DOMAIN delegated' :
        /\ participants'[delegated'[i].participant].status # "missing"
        /\ delegated'[i].capability \in KnownCapabilities
  BY DelegatedRowsStep
<1> QED
  BY <1>2, <1>3 DEF PolicyRows, Known

\* What the statements of an audit of the policy find: participants it has not read,
\* and nothing else.
LEMMA PolicyFinds ==
  ASSUME Posting, PolicyRows, SpentInScope, NotesBacked, NEW q, NEW s,
         s.do \in StepsOf("policy_integrity"),
         NEW S \in SUBSET Participants,
         s.do \in Inner("policy_integrity") => Participants \ S \subseteq seen.known
  PROVE  /\ Found(s, q) \subseteq {"missing_participant"}
         /\ Found(s, q) # {} => \E p \in S : Known(p)
<1>0. TypeOK /\ PolicyTypeOK /\ OneShotSpentOnce
  BY DEF Posting, TypeOK
<1>1. s.do \in Gates \cup {"participants", "durable", "delegated", "receipts"}
  BY DEF StepsOf, Opening, Inner, Around
<1>2. CASE s.do \in Gates \cup {"participants"}
  <2>1. Found(s, q) = {}
    BY <1>2 DEF Found, Gates
  <2> QED
    BY <2>1
<1>3. CASE s.do = "durable"
  <2>1. Found(s, q) = Kinds(DurableViolations) \cup Strangers(durable)
    BY <1>3 DEF Found
  <2>2. Kinds(DurableViolations) = {}
    BY <1>0, DurableViolationKinds DEF Kinds, PolicyRows
  <2>3. Strangers(durable) # {} => \E p \in S : Known(p)
    <3> SUFFICES ASSUME NEW i \in DOMAIN durable, durable[i].participant \notin seen.known
                 PROVE  \E p \in S : Known(p)
      BY DEF Strangers, If
    <3> QED
      BY <1>0, <1>3, RowParticipants DEF PolicyRows, Inner
  <2> QED
    BY <2>1, <2>2, <2>3 DEF Strangers, If
<1>4. CASE s.do = "delegated"
  <2> DEFINE late == "consumed_one_shot_without_committed_receipt"
  <2>1. Found(s, q) = Strangers(delegated) \cup (Kinds(DelegatedGrantViolations({})) \ {late})
    BY <1>4 DEF Found
  <2>2. ASSUME NEW v \in DelegatedGrantViolations({})
        PROVE  v[1] \in {"missing_participant", late}
    <3>1. ASSUME NEW i \in DOMAIN delegated, delegated[i].consumed # NULL
          PROVE  delegated[i].oneShot /\ delegated[i].intent \in {NULL, delegated[i].consumed}
      BY <1>0, <3>1, SpentKey DEF SpentInScope
    <3> QED
      BY <3>1 DEF DelegatedGrantViolations, PolicyRows
  <2>3. Kinds(DelegatedGrantViolations({})) \ {late} = {}
    BY <2>2 DEF Kinds
  <2>4. Strangers(delegated) # {} => \E p \in S : Known(p)
    <3> SUFFICES ASSUME NEW i \in DOMAIN delegated, delegated[i].participant \notin seen.known
                 PROVE  \E p \in S : Known(p)
      BY DEF Strangers, If
    <3> QED
      BY <1>0, <1>4, RowParticipants DEF PolicyRows, Inner
  <2> QED
    BY <2>1, <2>3, <2>4 DEF Strangers, If
<1>5. CASE s.do = "receipts"
  <2>1. Found(s, q) = {}
    BY <1>5 DEF Found, If, NotesBacked
  <2> QED
    BY <2>1
<1> QED
  BY <1>1, <1>2, <1>3, <1>4, <1>5

\* An audit of the policy goes on clean.
LEMMA PolicyReaderStep ==
  ASSUME Posting, PolicyRows, SpentInScope, NotesBacked, Positioned, PolicyReader,
         ReaderStep, UNCHANGED vars
  PROVE  PolicyReader'
<1> DEFINE t == "policy_integrity"
<1>0. UNCHANGED participants
  BY DEF vars, tables, policy
<1>1. ASSUME NEW q \in Reads, BeginRead(q) PROVE PolicyReader'
  <2>1. /\ report' = {} /\ at' = 1 /\ call'.read = q
        /\ q.tool = t => call'.absent = {p \in Participants : ~Known(p)}
    BY <1>1 DEF BeginRead, Positioned
  <2>2. q.tool = t => Programs[q][1].do \notin Inner(t)
    BY ProgramStarts DEF AuditTools
  <2> QED
    BY <1>0, <2>1, <2>2 DEF PolicyReader, Known
<1>2. CASE EndRead
  BY <1>2 DEF EndRead, PolicyReader
<1>3. CASE ReaderStep /\ call # NULL /\ call.read.tool # t /\ UNCHANGED call
  BY <1>3 DEF PolicyReader
<1>4. ASSUME call # NULL, UNCHANGED call, call.read.tool = t, answer = "none"
      PROVE  /\ \A p \in Participants \ call'.absent : Known(p)'
             /\ report \subseteq {"missing_participant"}
             /\ report # {} => \E p \in Participants \cap call'.absent : Known(p)'
  BY <1>0, <1>4 DEF PolicyReader, Known
<1>5. ASSUME NEW status, Answer(status), call # NULL, UNCHANGED call, call.read.tool = t,
             answer = "none", status # "none"
      PROVE  PolicyReader'
  <2>1. report' = {} /\ answer' # "none"
    BY <1>5 DEF Answer
  <2> QED
    BY <1>4, <1>5, <2>1 DEF PolicyReader
<1>6. ASSUME ReadFails, call.read.tool = t PROVE PolicyReader'
  <2>1. call # NULL /\ answer = "none" /\ UNCHANGED call
    BY <1>6 DEF ReadFails, InService
  <2>2. Programs[call.read][at].do # "public"
    BY <1>6, <2>1, AuditStatement DEF AuditTools, StepsOf, Gates, Opening, Inner, Around
  <2>3. Answer("database_unavailable")
    BY <1>6, <2>2 DEF ReadFails
  <2> QED
    BY <1>5, <1>6, <2>1, <2>3
<1>7. ASSUME ReadStep, call.read.tool = t PROVE PolicyReader'
  <2> DEFINE q == call.read
             p == Programs[q]
             s == p[at]
  <2>1. call # NULL /\ answer = "none" /\ UNCHANGED call /\ q.tool \in AuditTools
    BY <1>7 DEF ReadStep, InService, AuditTools
  <2>2. /\ s.do \in StepsOf(t)
        /\ s.do \in Checks => s.denied # "none"
        /\ at # Len(p) /\ p[at + 1].do \in Inner(t) => s.do \in {"participants"} \cup Inner(t)
    BY <1>7, <2>1, AuditStatement DEF Opening
  <2>3. CASE Refused(s, call) /\ Answer(s.denied)
    BY <1>5, <1>7, <2>1, <2>2, <2>3, RefusedIsCheck
  <2>4. CASE ~Refused(s, call)
    <3> DEFINE S == Participants \cap call.absent
    <3>1. report' = report \cup Found(s, q)
      BY <1>7, <2>4 DEF ReadStep
    <3>2. s.do \in Inner(t) => Participants \ S \subseteq seen.known
      BY <1>7, <2>1 DEF PolicyReader
    <3>3. /\ Found(s, q) \subseteq {"missing_participant"}
          /\ Found(s, q) # {} => \E x \in S : Known(x)
      BY <2>2, <3>2, PolicyFinds
    <3>4. /\ \A x \in Participants \ call'.absent : Known(x)'
          /\ report' \subseteq {"missing_participant"}
          /\ report' # {} => \E x \in Participants \cap call'.absent : Known(x)'
      BY <1>0, <1>4, <1>7, <2>1, <3>1, <3>3 DEF Known
    <3>5. CASE Give
      BY <3>4, <3>5 DEF Give, PolicyReader
    <3>6. CASE ~Give
      <4>1. PICK k \in OrNull(Keys) : at # Len(p) /\ at' = at + 1 /\ seen' = Learnt(s, q, k)
        BY <1>7, <2>4, <3>6 DEF ReadStep
      <4>2. ASSUME p[at + 1].do \in Inner(t) PROVE Participants \ call'.absent \subseteq seen'.known
        <5>1. CASE s.do = "participants"
          <6>1. seen'.known = KnownIds
            BY <4>1, <5>1 DEF Learnt, NotesBacked, Notes
          <6> QED
            BY <1>4, <1>7, <2>1, <3>4, <6>1, <1>0 DEF KnownIds, Known
        <5>2. CASE s.do \in Inner(t)
          <6>1. seen'.known = seen.known
            BY <4>1, <5>2 DEF Learnt, NotesBacked, Notes, Inner
          <6> QED
            BY <2>1, <3>2, <5>2, <6>1
        <5> QED
          BY <2>2, <4>1, <4>2, <5>1, <5>2
      <4> QED
        BY <2>1, <3>4, <4>1, <4>2 DEF PolicyReader
    <3> QED
      BY <3>5, <3>6
  <2> QED
    BY <1>7, <2>3, <2>4 DEF ReadStep
<1> QED
  BY <1>1, <1>2, <1>3, <1>6, <1>7 DEF ReaderStep, ReadFails, ReadStep, InService

\* What holds of an audit of the policy at every moment.
AuditedPolicy ==
  /\ ReadPosting /\ SpentInScope /\ PolicyRows
  /\ NotesBacked /\ Positioned /\ PolicyReader

\* Every step among readers keeps it.
LEMMA AuditedPolicyStep ==
  SupportedGrants /\ AuditedPolicy /\ [ReadNext]_readVars => AuditedPolicy'
<1> SUFFICES ASSUME SupportedGrants, AuditedPolicy, [ReadNext]_readVars PROVE AuditedPolicy'
  OBVIOUS
<1>1. ReadPosting' /\ StepKind /\ EvidenceKept
  BY ReadPostingStep DEF AuditedPolicy
<1>2. /\ DurableChange /\ KnownKept
      /\ (ReaderStep /\ UNCHANGED vars) \/ ReaderWaits
  BY ReadKinds DEF AuditedPolicy, ReadPosting, Posting
<1>3. SpentInScope' /\ PolicyRows'
  BY <1>1, <1>2, SpentInScopeStep, PolicyRowsStep DEF AuditedPolicy, ReadPosting
<1>4. CASE ReaderStep /\ UNCHANGED vars
  BY <1>1, <1>3, <1>4, NotesStep, PositionedStep, PolicyReaderStep DEF AuditedPolicy, ReadPosting
<1>5. CASE ReaderWaits
  <2>1. NotesBacked'
    BY <1>1, <1>5, NotesKept DEF AuditedPolicy, ReaderWaits
  <2>2. Positioned'
    BY <1>5 DEF AuditedPolicy, ReaderWaits, Positioned
  <2>3. PolicyReader'
    BY <1>2, <1>5 DEF AuditedPolicy, ReaderWaits, PolicyReader, KnownKept
  <2> QED
    BY <1>1, <1>3, <2>1, <2>2, <2>3 DEF AuditedPolicy
<1> QED
  BY <1>2, <1>4, <1>5

\* An audit of the policy, taken statement by statement while grants change and
\* participants come, reports nothing but participants who came after it began, for
\* as long as no delegated grant is made for a capability the program does not know:
\* audit_authorization_integrity reads the participants before the grants that name
\* them, and the grants before the receipts that vouch for their consumption.
THEOREM PolicyAuditsReportNothing == SupportedGrants /\ ReadSpec => []PolicyReportClean
<1>1. AuditedPolicy => PolicyReportClean
  BY DEF AuditedPolicy, Positioned, PolicyReader, PolicyReportClean
<1>2. ReadInit => AuditedPolicy
  <2> SUFFICES ASSUME ReadInit PROVE AuditedPolicy
    OBVIOUS
  <2>1. SpentInScope /\ NotesBacked
    BY NothingBacked DEF ReadInit, NotesBacked, SpentInScope
  <2>2. Positioned /\ PolicyReader
    BY DEF ReadInit, Positioned, PolicyReader
  <2>3. PolicyRows
    <3>1. CASE durable = <<>>
      BY <3>1 DEF ReadInit, PolicyRows, OneRowPerScope
    <3>2. ASSUME NEW g \in Standing, durable = <<g>> PROVE PolicyRows
      <4>1. g.participant \in Provisioned /\ g.participant \in Participants
        BY ReadsTyped
      <4>2. DOMAIN durable = {1} /\ durable[1] = g
        BY <3>2
      <4>3. Known(g.participant)
        BY <4>1 DEF ReadInit, Known
      <4> QED
        BY <4>2, <4>3 DEF ReadInit, PolicyRows, OneRowPerScope
    <3> QED
      BY <3>1, <3>2 DEF ReadInit
  <2> QED
    BY <2>1, <2>2, <2>3, ReadPostingInit DEF AuditedPolicy
<1>3. SupportedGrants => SupportedGrants'
  BY DEF SupportedGrants
<1> QED
  BY <1>1, <1>2, <1>3, AuditedPolicyStep, PTL DEF ReadSpec

--------------------------------------------------------------------------------
(* What a reader has vetted *)

Active(q) == participants[q.participant].status = "active"

HasGrants(q) == ExplicitGrants(q.principal, q.participant, CapabilityOf(q)) # {}

HasMatch(q) ==
  ExplicitMatches(q.principal, q.participant, CapabilityOf(q), ResourceOf(q)) # {}

Implied(q) ==
  ImplicitReason(q.principal, q.participant, CapabilityOf(q), ResourceOf(q)) # NULL

\* What permits an evaluated request: a grant that matches, implicit authority where
\* there is no grant, and for a listing any grant for the capability.
Entitled(q) ==
  /\ Evaluated(q) /\ Active(q)
  /\ \/ HasMatch(q)
     \/ ~HasGrants(q) /\ Implied(q)
     \/ q.tool = "access_context" /\ HasGrants(q)

\* What the tables say now about a request for which the policy is asked.
LEMMA EntitledPermitted == \A q \in Reads : Entitled(q) => PermittedNow(q)
<1> SUFFICES ASSUME NEW q \in Reads, Evaluated(q), Active(q)
             PROVE  /\ HasMatch(q) => PermittedNow(q)
                    /\ ~HasGrants(q) /\ Implied(q) => PermittedNow(q)
                    /\ q.tool = "access_context" /\ HasGrants(q) => PermittedNow(q)
  BY DEF Entitled
<1> DEFINE c == CapabilityOf(q)
           r == ResourceOf(q)
<1>0. /\ q.tool \in Tools \ {"channels", "whoami"} /\ c \in KnownCapabilities
      /\ q.principal # NULL
  BY ReadsTyped, ToolNeeds DEF ReadRequests, Evaluated
<1>1. HasMatch(q) => HasGrants(q)
  BY DEF HasMatch, HasGrants, ExplicitMatches
<1>2. ASSUME NEW t, HasMatch(q) \/ (~HasGrants(q) /\ Implied(q))
      PROVE  Evaluate(q.principal, q.participant, c, r, NULL, t, FALSE).allowed
  BY <1>2 DEF Active, HasMatch, HasGrants, Implied, Evaluate, Allow
<1>3. ASSUME q.tool # "access_context", HasMatch(q) \/ (~HasGrants(q) /\ Implied(q))
      PROVE  PermittedNow(q)
  <2>1. AllowedNow(q, c, r)
    BY <1>2, <1>3 DEF AllowedNow
  <2>2. CASE q.tool = "messages"
    <3>1. c = "read_messages" /\ r = q.channel
      BY <2>2, ToolNeeds
    <3> QED
      BY <1>0, <2>1, <2>2, <3>1 DEF PermittedNow
  <2>3. CASE q.tool # "messages"
    <3>1. /\ c = Required[q.tool]
          /\ r = IF c \in DOMAIN AdminResource THEN AdminResource[c] ELSE q.intent
      BY <1>0, <1>3, <2>3 DEF CapabilityOf, ResourceOf
    <3> HIDE DEF c, r
    <3> QED
      BY <1>0, <1>3, <2>1, <2>3, <3>1 DEF PermittedNow
  <2> QED
    BY <2>2, <2>3
<1>4. ASSUME q.tool = "access_context", HasGrants(q) \/ Implied(q) PROVE PermittedNow(q)
  <2> DEFINE held == {i \in DOMAIN durable :
                        /\ durable[i].principal = q.principal
                        /\ durable[i].participant = q.participant
                        /\ durable[i].status = "active"}
             implicit == {d \in KnownCapabilities \ {durable[i].capability : i \in held} :
                            Evaluate(q.principal, q.participant, d, FixedResource(d), NULL, 0,
                                     FALSE).allowed}
  <2>1. c = q.capability /\ r = FixedResource(c)
    BY <1>4, ToolNeeds DEF FixedResource
  <2>2. EffectiveGrants(q.principal, q.participant) =
          {[capability |-> durable[i].capability, resource |-> durable[i].resource,
            origin |-> "explicit"] : i \in held}
          \cup {[capability |-> d, resource |-> FixedResource(d), origin |-> "implicit"] :
                  d \in implicit}
    <3>1. EffectiveGrants(q.principal, q.participant) = ListedGrants(q.principal, q.participant)
      BY DEF EffectiveGrants, Active
    <3> QED
      BY <3>1 DEF ListedGrants
  <2>3. \E e \in EffectiveGrants(q.principal, q.participant) : e.capability = c
    <3>1. CASE HasGrants(q)
      <4>1. PICK i \in held : durable[i].capability = c
        BY <3>1 DEF HasGrants, ExplicitGrants
      <4> DEFINE e == [capability |-> durable[i].capability, resource |-> durable[i].resource,
                       origin |-> "explicit"]
      <4>2. e.capability = c /\ e \in EffectiveGrants(q.principal, q.participant)
        BY <2>2, <4>1
      <4> QED
        BY <4>2
    <3>2. CASE ~HasGrants(q)
      <4>1. c \notin {durable[i].capability : i \in held}
        BY <3>2 DEF HasGrants, ExplicitGrants
      <4>2. Evaluate(q.principal, q.participant, c, FixedResource(c), NULL, 0, FALSE).allowed
        BY <1>2, <1>4, <2>1, <3>2
      <4>3. c \in implicit
        BY <1>0, <4>1, <4>2
      <4> DEFINE e == [capability |-> c, resource |-> FixedResource(c), origin |-> "implicit"]
      <4> HIDE DEF held, implicit, c
      <4>4. e.capability = c /\ e \in EffectiveGrants(q.principal, q.participant)
        BY <2>2, <4>3
      <4> QED
        BY <4>4
    <3> QED
      BY <3>1, <3>2
  <2> QED
    BY <1>0, <1>4, <2>1, <2>3 DEF PermittedNow
<1> QED
  BY <1>1, <1>3, <1>4

\* So it is after every step.
LEMMA EntitledPermittedNext == \A q \in Reads : Entitled(q)' => PermittedNow(q)'
<1>1. (\A q \in Reads : Entitled(q) => PermittedNow(q))'
  BY EntitledPermitted, PTL
<1> QED
  BY <1>1

\* What an administrator commits: participants, or one durable grant, or neither.
Committed ==
  /\ Commit
  /\ \/ UNCHANGED durable
     \/ /\ UNCHANGED participants
        /\ \/ \E g \in DurableSpecs :
                participants[g.participant].status = "active" /\ durable' = DurableAfterCreate(g)
           \/ \E id : durable' = DurableAfterDeactivate(id)

\* A step that is not the reader's is a worker's or a commit.
LEMMA OthersCommit ==
  ReadNext => ReaderStep \/ (\E w \in Workers : WorkerStep(w)) \/ Committed
<1> SUFFICES ASSUME ReadNext, ~ReaderStep, ~(\E w \in Workers : WorkerStep(w)) PROVE Committed
  OBVIOUS
<1>1. ASSUME UNCHANGED durable, Commit PROVE Committed
  BY <1>1 DEF Committed
<1>2. CASE \E p \in Participants, role \in {"user", "admin"} : SetRole(p, role)
  BY <1>1, <1>2 DEF SetRole, OtherTables
<1>3. CASE \E p \in Participants : ProvisionParticipant(p)
  BY <1>1, <1>3 DEF ProvisionParticipant, OtherTables
<1>4. CASE \E p \in Participants, s \in {"active", "inactive"} : ChangeStatus(p, s)
  BY <1>1, <1>4 DEF ChangeStatus, SetParticipantStatus
<1>5. CASE \E c \in Channels, v \in {"public", "private"} : SetVisibility(c, v)
  BY <1>1, <1>5 DEF SetVisibility, tables, policy
<1>6. ASSUME NEW p, \/ AuthGenerate(p) \/ AuthRotate(p) \/ AuthRevoke(p)
                    \/ RegisterIdentity(p) \/ RotateToken(p) \/ RevokeToken(p)
      PROVE  Committed
  BY <1>1, <1>6 DEF AuthGenerate, AuthRotate, AuthRevoke, RegisterIdentity, RotateToken,
     RevokeToken, CredentialCommit, tables, policy
<1>7. CASE GrantCreate \/ GrantDeactivate \/ RestCreateDelegated \/ RestDeactivateDelegated
  BY <1>1, <1>7 DEF GrantCreate, GrantDeactivate, RestCreateDelegated,
     RestDeactivateDelegated, CreateDelegatedGrant, DeactivateDelegatedGrant, GrantCommit
<1>8. ASSUME NEW g \in DurableSpecs, CreateDurableGrant(g), Commit PROVE Committed
  BY <1>8 DEF CreateDurableGrant, Committed
<1>9. ASSUME NEW id, DeactivateDurableGrant(id), Commit PROVE Committed
  BY <1>9 DEF DeactivateDurableGrant, Committed
<1>10. CASE GrantDurable \/ RestCreateDurable \/ RestDeactivateDurable
  BY <1>8, <1>9, <1>10 DEF GrantDurable, RestCreateDurable, RestDeactivateDurable, GrantCommit
<1> QED
  BY <1>2, <1>3, <1>4, <1>5, <1>6, <1>7, <1>10 DEF ReadNext, ReaderStep

\* What the policy says depends on nothing the reader changes.
LEMMA MomentsFrame ==
  ASSUME UNCHANGED <<vars, visibility, credentials>>
  PROVE  \A c : Moments(c)' = Moments(c)
<1> USE DEF vars, tables, policy
<1>1. \A x, p, c : ExplicitGrants(x, p, c)' = ExplicitGrants(x, p, c)
  BY DEF ExplicitGrants
<1>2. \A x, p, c, e : ExplicitMatches(x, p, c, e)' = ExplicitMatches(x, p, c, e)
  BY DEF ExplicitMatches, ExplicitGrants
<1>3. \A S : FirstExplicit(S)' = FirstExplicit(S)
  BY DEF FirstExplicit
<1>4. \A x, p, c, e : ImplicitReason(x, p, c, e)' = ImplicitReason(x, p, c, e)
  BY DEF ImplicitReason
<1>5. \A x, p, c, e, t : Evaluate(x, p, c, e, NULL, t, FALSE)' = Evaluate(x, p, c, e, NULL, t, FALSE)
  BY <1>1, <1>2, <1>3, <1>4 DEF Evaluate
<1>6. \A q, c, e : AllowedNow(q, c, e)' = AllowedNow(q, c, e)
  BY <1>5 DEF AllowedNow
<1>7. \A x, p : EffectiveGrants(x, p)' = EffectiveGrants(x, p)
  BY <1>5 DEF EffectiveGrants, ListedGrants
<1>8. \A q : PermittedNow(q)' = PermittedNow(q)
  BY <1>6, <1>7 DEF PermittedNow, PublicActive, IsAdmin
<1>9. \A c : AuthenticNow(c)' = AuthenticNow(c)
  BY DEF AuthenticNow, ProofValid, HasSecret, Known, TokenValid
<1> QED
  BY <1>8, <1>9 DEF Moments, If

\* The tables of the policy and what is read from them.
LEMMA PolicyFrame ==
  /\ UNCHANGED durable =>
       \A q : HasGrants(q)' = HasGrants(q) /\ HasMatch(q)' = HasMatch(q)
  /\ UNCHANGED participants => \A q : Active(q)' = Active(q) /\ Implied(q)' = Implied(q)
BY DEF HasGrants, HasMatch, Active, Implied, ExplicitGrants, ExplicitMatches, ImplicitReason

\* What the reader knows at a statement: an evaluation of which every statement saw the
\* same policy has noted what that policy says; one that began with a verdict, or went
\* on to one, saw the request permitted at some moment, unless it saw two commits; and
\* what is fetched was permitted before.
Judged(q, do) ==
  LET vetted == "permitted" \in moments
  IN /\ do \in {"count", "match"} /\ churn = 0 => Active(q) /\ seen.implicit = Implied(q)
     /\ do = "match" /\ churn = 0 => seen.explicit = HasGrants(q)
     /\ do = "count" /\ churn <= 1 /\ (IF HasGrants(q) THEN HasMatch(q) ELSE seen.implicit) =>
          vetted
     /\ do = "match" /\ churn <= 1 /\ (IF seen.explicit THEN HasMatch(q) ELSE seen.implicit) =>
          vetted
     /\ do = "held" /\ HasGrants(q) => vetted
     /\ do \in Data /\ churn <= 1 => vetted

\* A request in service remembers its moments, has been identified when its second
\* statement runs, and is judged.
Vetting ==
  /\ churn \in 0..2
  /\ call # NULL /\ answer = "none" =>
       LET q == call.read
       IN /\ Moments(call) \subseteq moments
          /\ at # 1 => "authentic" \in moments
          /\ Nobody(q) => at = 1
          /\ Free(q) \/ Judged(q, Programs[q][at].do)
  /\ AnswersPermitted

\* A step that leaves the policy alone leaves the judgement.
LEMMA JudgedKept ==
  ASSUME NEW q, NEW do, Judged(q, do), UNCHANGED <<participants, durable, seen, churn>>,
         moments \subseteq moments'
  PROVE  Judged(q, do)'
BY PolicyFrame DEF Judged

\* A commit is a moment of the request; one that changes grants and participants both
\* does not exist, so the first one inside an evaluation leaves a verdict that the
\* policy before it or the one after it gives.
LEMMA JudgedCommit ==
  ASSUME PolicyTypeOK, NEW q \in Reads, NEW do, Judged(q, do), Committed, UNCHANGED seen,
         moments \subseteq moments', PermittedNow(q)' => "permitted" \in moments',
         do \in {"count", "match", "held"} => Evaluated(q),
         do = "held" => q.tool = "access_context",
         churn \in 0..2,
         churn' = IF do \in {"count", "match"} /\ churn < 2 THEN churn + 1 ELSE churn
  PROVE  Judged(q, do)'
<1>1. Entitled(q)' => "permitted" \in moments'
  BY EntitledPermittedNext
<1>2. Evaluated(q)' = Evaluated(q)
  BY DEF Evaluated, Bearer
<1>3. HasMatch(q)' => HasGrants(q)'
  BY DEF HasMatch, HasGrants, ExplicitMatches
<1>4. CASE do \notin {"count", "match", "held"}
  BY <1>4 DEF Judged
<1>5. CASE do = "held"
  <2> SUFFICES ASSUME HasGrants(q)' PROVE "permitted" \in moments'
    BY <1>5 DEF Judged, Data
  <2>1. CASE HasGrants(q)
    BY <1>5, <2>1 DEF Judged
  <2>2. CASE ~HasGrants(q)
    <3>1. UNCHANGED participants /\ Active(q)
      <4>1. ~UNCHANGED durable
        BY <2>2, PolicyFrame
      <4>2. ASSUME NEW id, durable' = DurableAfterDeactivate(id) PROVE FALSE
        BY <2>2, <4>2, DurableAfterDeactivateShrinks DEF HasGrants
      <4>3. ASSUME NEW g \in DurableSpecs, participants[g.participant].status = "active",
                   durable' = DurableAfterCreate(g)
            PROVE  Active(q)
        BY <2>2, <4>3, DurableAfterCreateGrows, GrantSpecsTyped DEF HasGrants, Active
      <4> QED
        BY <4>1, <4>2, <4>3 DEF Committed
    <3>2. Active(q)'
      BY <3>1, PolicyFrame
    <3> QED
      BY <1>1, <1>2, <1>5, <3>2 DEF Entitled
  <2> QED
    BY <2>1, <2>2
<1>6. CASE do \in {"count", "match"} /\ churn # 0
  <2>1. do # "held" /\ do \notin Data
    BY <1>6 DEF Data
  <2>2. churn' # 0 /\ ~(churn' <= 1)
    BY <1>6
  <2> QED
    BY <2>1, <2>2 DEF Judged
<1>7. CASE do \in {"count", "match"} /\ churn = 0
  <2>1. churn' # 0 /\ do # "held" /\ do \notin Data
    <3>1. do # "held" /\ do \notin Data
      BY <1>7 DEF Data
    <3> QED
      BY <1>7, <3>1
  <2>2. Active(q) /\ seen.implicit = Implied(q) /\ (do = "match" => seen.explicit = HasGrants(q))
    BY <1>7 DEF Judged
  <2>3. /\ (IF HasGrants(q) THEN HasMatch(q) ELSE seen.implicit) => "permitted" \in moments'
    BY <1>7, <2>2 DEF Judged
  <2>4. CASE UNCHANGED durable
    <3>1. HasGrants(q)' = HasGrants(q) /\ HasMatch(q)' = HasMatch(q)
      BY <2>4, PolicyFrame
    <3> QED
      BY <2>1, <2>2, <2>3, <3>1 DEF Judged
  <2>5. CASE UNCHANGED participants
    <3>1. Active(q)' /\ Implied(q)' = seen.implicit
      BY <2>2, <2>5, PolicyFrame
    <3>2. HasMatch(q)' \/ (~HasGrants(q)' /\ seen.implicit) => "permitted" \in moments'
      BY <1>1, <1>2, <1>7, <3>1 DEF Entitled
    <3> QED
      BY <2>1, <2>2, <2>3, <3>2 DEF Judged
  <2> QED
    BY <2>4, <2>5 DEF Committed
<1> QED
  BY <1>4, <1>5, <1>6, <1>7

\* Who may be where: the policy is asked for callers it can answer for.
LEMMA Judging ==
  ASSUME Positioned, Vetting, call # NULL, answer = "none"
  PROVE  LET q == call.read
             s == Programs[q][at]
         IN /\ at = 1 => Introduces(q, s.do)
            /\ Nobody(q) => s.do = "refuse"
            /\ s.do \in {"row", "count", "match", "active", "held"} => Evaluated(q)
            /\ s.do \in {"row", "count", "match"} =>
                 s.capability = CapabilityOf(q) /\ s.resource = ResourceOf(q)
            /\ s.do = "held" => q.tool = "access_context"
            /\ s.do = "public" => q.principal = NULL /\ q.tool = "messages"
            /\ s.do = "admin" => q.tool = "channels" /\ HumanSession(q)
<1> DEFINE q == call.read
           s == Programs[q][at]
<1>1. \E before : May(q, before, s) /\ (at = 1 => before = "start")
  BY AtStatement
<1>2. (Nobody(q) => at = 1)
  BY DEF Vetting
<1> HIDE DEF s
<1>3. at = 1 => Introduces(q, s.do)
  BY <1>1 DEF May
<1>4. Nobody(q) => s.do = "refuse"
  BY <1>2, <1>3 DEF Introduces
<1>5. s.do = "admin" => q.tool = "channels" /\ HumanSession(q)
  BY <1>1, <1>4 DEF May, Nobody
<1> QED
  BY <1>1, <1>3, <1>4, <1>5 DEF May, s

\* A caller past its first check has been identified.
LEMMA Identified ==
  ASSUME Positioned, Vetting, call # NULL, answer = "none",
         ~Refused(Programs[call.read][at], call)
  PROVE  "authentic" \in moments /\ ~Nobody(call.read)
<1> DEFINE q == call.read
           s == Programs[q][at]
<1>1. ~Nobody(q)
  BY Judging DEF Refused
<1>2. CASE at # 1
  BY <1>1, <1>2 DEF Vetting
<1>3. CASE at = 1
  <2>1. Introduces(q, s.do)
    BY <1>3, Judging
  <2> HIDE DEF s
  <2>2. AuthenticNow(call)
    BY <1>1, <2>1 DEF Introduces, AuthenticNow, Refused, s
  <2>3. "authentic" \in Moments(call)
    BY <2>2 DEF Moments, If
  <2> QED
    BY <1>1, <2>3 DEF Vetting
<1> QED
  BY <1>2, <1>3

\* Now is a moment of the request.
LEMMA NowCounts ==
  ASSUME Vetting, call # NULL, answer = "none", PermittedNow(call.read)
  PROVE  "permitted" \in moments
<1>1. "permitted" \in Moments(call)
  BY DEF Moments, If
<1> QED
  BY <1>1 DEF Vetting

\* What permits the next fetch has seen the request permitted.
LEMMA VettedAt ==
  ASSUME Positioned, Vetting, call # NULL, answer = "none",
         ~Refused(Programs[call.read][at], call), churn <= 1,
         Free(call.read) \/ Programs[call.read][at].do \in Data \cup {"match", "public", "admin"}
  PROVE  "permitted" \in moments
<1> DEFINE q == call.read
           s == Programs[q][at]
<1>1. CASE Free(q)
  BY <1>1, NowCounts DEF Free, PermittedNow
<1>2. CASE ~Free(q) /\ s.do \in Data
  BY <1>2 DEF Vetting, Judged
<1>3. CASE ~Free(q) /\ s.do = "match"
  <2>1. PolicyAllows(s, q)
    BY <1>3 DEF Refused
  <2>2. IF seen.explicit THEN HasMatch(q) ELSE seen.implicit
    BY <1>3, <2>1, Judging DEF PolicyAllows, HasMatch
  <2>3. Judged(q, "match")
    BY <1>3 DEF Vetting
  <2> QED
    BY <2>2, <2>3 DEF Judged
<1>4. CASE s.do = "public"
  <2>1. PublicActive(q.channel) /\ q.principal = NULL /\ q.tool = "messages"
    BY <1>4, Judging DEF Refused
  <2> QED
    BY <2>1, NowCounts DEF PermittedNow
<1>5. CASE s.do = "admin"
  <2>1. IsAdmin(q.participant) /\ q.tool = "channels" /\ HumanSession(q)
    BY <1>5, Judging DEF Refused
  <2> QED
    BY <2>1, NowCounts DEF PermittedNow, HumanSession
<1> QED
  BY <1>1, <1>2, <1>3, <1>4, <1>5

\* A statement that is not refused leaves the next one judged.
LEMMA JudgedAlong ==
  ASSUME Positioned, Vetting, seen \in Notes, call # NULL, answer = "none",
         NEW q, q = call.read, NEW s, s = Programs[q][at],
         ~Free(q), ~Refused(s, call), at # Len(Programs[q]),
         NEW do, do = Programs[q][at + 1].do,
         NEW k, seen' = Learnt(s, q, k), churn' = IF s.do = "row" THEN 0 ELSE churn,
         UNCHANGED <<participants, durable, moments>>
  PROVE  Judged(q, do)'
<1> DEFINE p == Programs[q]
<1>0. q \in Reads
  BY DEF Positioned
<1>1. May(q, Tag(s), p[at + 1]) /\ p[at + 1].do = do
  BY <1>0, AtStatement
<1>2. /\ Active(q)' = Active(q) /\ Implied(q)' = Implied(q)
      /\ HasGrants(q)' = HasGrants(q) /\ HasMatch(q)' = HasMatch(q)
  BY PolicyFrame
<1>3. Entitled(q) => "permitted" \in moments
  BY <1>0, EntitledPermitted, NowCounts
<1>4. Judged(q, s.do)
  BY <1>0 DEF Vetting
<1>5. /\ s.do \in {"row", "active"} => Active(q) /\ Evaluated(q)
      /\ s.do \in {"row", "count", "match"} =>
           s.capability = CapabilityOf(q) /\ s.resource = ResourceOf(q)
  BY <1>0, Judging DEF Refused, Active
<1>6. ASSUME do \in Data, churn' <= 1 PROVE "permitted" \in moments
  <2>1. Tag(s) \in Data \cup {"match", "public", "admin"}
    BY <1>0, <1>1, <1>6 DEF May, Ready
  <2>2. s.do \in Data \cup {"match", "public", "admin"} /\ s.do # "row"
    BY <2>1 DEF Tag, Data
  <2> QED
    BY <1>6, <2>2, VettedAt
<1> HIDE DEF p
<1>7. CASE do = "count"
  <2>1. s.do = "row"
    BY <1>1, <1>7 DEF May, Tag
  <2>2. seen' = [seen EXCEPT !.implicit = Implied(q)]
    BY <1>0, <1>5, <2>1 DEF Learnt, Implied
  <2>3. seen'.implicit = Implied(q) /\ churn' = 0
    BY <2>1, <2>2 DEF Notes
  <2>4. (IF HasGrants(q) THEN HasMatch(q) ELSE Implied(q)) => "permitted" \in moments
    BY <1>3, <1>5, <2>1 DEF Entitled
  <2> QED
    BY <1>2, <1>5, <1>7, <2>1, <2>3, <2>4 DEF Judged, Data
<1>8. CASE do = "match"
  <2>1. s.do = "count"
    BY <1>1, <1>8 DEF May, Tag
  <2>2. seen' = [seen EXCEPT !.explicit = HasGrants(q)]
    BY <1>0, <1>5, <2>1 DEF Learnt, HasGrants
  <2>3. seen'.explicit = HasGrants(q) /\ seen'.implicit = seen.implicit /\ churn' = churn
    BY <2>1, <2>2 DEF Notes
  <2> QED
    BY <1>2, <1>4, <1>8, <2>1, <2>3 DEF Judged, Data
<1>9. CASE do = "held"
  <2>1. s.do = "active" /\ q.tool = "access_context"
    BY <1>1, <1>9 DEF May, Tag
  <2>2. HasGrants(q) => "permitted" \in moments
    BY <1>3, <1>5, <2>1 DEF Entitled
  <2> QED
    BY <1>2, <1>9, <2>2 DEF Judged, Data
<1>10. CASE do \notin {"count", "match", "held"}
  BY <1>6, <1>10 DEF Judged
<1> QED
  BY <1>7, <1>8, <1>9, <1>10

\* While a request stays in service and the tables as they are, its moments do.
LEMMA MomentsStay ==
  ASSUME Vetting, call # NULL, answer = "none",
         UNCHANGED <<vars, visibility, credentials, call, moments>>
  PROVE  Moments(call)' \subseteq moments'
<1>1. PICK c : c = call
  OBVIOUS
<1>2. Moments(c)' = Moments(c)
  BY MomentsFrame
<1>3. Moments(call)' = Moments(c)'
  BY <1>1
<1> QED
  BY <1>1, <1>2, <1>3 DEF Vetting

\* An answer that gives nothing is vetted.
LEMMA RefusalVetted ==
  ASSUME NEW status, Answer(status), status \notin {"none", "given"}
  PROVE  Vetting'
BY DEF Answer, Vetting, AnswersPermitted

\* A request begins with nothing to judge.
LEMMA VettingBegins ==
  ASSUME Positioned, Vetting, NEW q \in Reads, BeginRead(q)
  PROVE  Vetting'
<1>0. PICK c : c = call'
  OBVIOUS
<1>1. /\ c.read = q /\ moments' = Moments(c) /\ at' = 1 /\ answer' = "none"
      /\ UNCHANGED <<vars, visibility, credentials, churn>>
  BY <1>0 DEF BeginRead, Positioned
<1>2. Moments(call)' \subseteq moments'
  <2>1. Moments(c)' = Moments(c)
    BY <1>1, MomentsFrame
  <2>2. Moments(call)' = Moments(c)'
    BY <1>0
  <2> QED
    BY <1>1, <2>1, <2>2
<1> DEFINE do == Programs[q][1].do
<1>3. May(q, "start", Programs[q][1])
  BY ProgramStarts
<1>4. do \notin {"count", "match", "held"} /\ (do \in Data => Free(q))
  BY <1>3 DEF May, Ready, Data
<1> HIDE DEF do
<1>5. Free(q)' \/ Judged(q, do)'
  BY <1>4 DEF Judged, Free, Bearer
<1>6. Nobody(q)' = Nobody(q) /\ churn' \in 0..2
  BY <1>1 DEF Nobody, HumanSession, Vetting
<1> QED
  BY <1>0, <1>1, <1>2, <1>5, <1>6 DEF Vetting, AnswersPermitted, do

\* A failed look for the challenge goes on as a guest.
LEMMA VettingChallenge ==
  ASSUME Positioned, Vetting, call # NULL, answer = "none",
         Programs[call.read][at].do = "public", Tag(Programs[call.read][at]) = "challenge",
         at' = at + 1,
         UNCHANGED <<vars, visibility, credentials, call, seen, answer, moments, churn>>
  PROVE  Vetting'
<1>0. PICK q, i : q = call.read /\ i = at
  OBVIOUS
<1> DEFINE s == Programs[q][i]
           do == Programs[q][i + 1].do
<1>1. s.do = "public" /\ i # Len(Programs[q]) /\ i \in Nat
  <2>1. s.do = "public"
    BY <1>0
  <2>2. i \in 1..Len(Programs[q]) /\ Len(Programs[q]) \in Nat /\ i # Len(Programs[q])
    BY <1>0, AtStatement
  <2>3. i \in Nat
    BY <2>2
  <2> QED
    BY <2>1, <2>2, <2>3
<1>2. May(q, "challenge", Programs[q][i + 1])
  BY <1>0, <1>1, AtStatement
<1>3. do \notin {"count", "match", "held"} /\ (do \in Data => Free(q))
  BY <1>2 DEF May, Ready, Data
<1>4. q.principal = NULL /\ ~Nobody(q)
  BY <1>0, <1>1, Judging
<1>5. "authentic" \in moments
  <2>1. AuthenticNow(call)
    BY <1>0, <1>4 DEF AuthenticNow
  <2>2. "authentic" \in Moments(call)
    BY <2>1 DEF Moments, If
  <2> QED
    BY <2>2 DEF Vetting
<1>6. Moments(call)' \subseteq moments'
  BY MomentsStay
<1> HIDE DEF do, s
<1>7. Free(q)' \/ Judged(q, do)'
  BY <1>3 DEF Judged, Free, Bearer
<1>8. Nobody(q)' = Nobody(q) /\ call.read' = q /\ at' = i + 1 /\ churn' \in 0..2
  BY <1>0 DEF Nobody, HumanSession, Vetting
<1> QED
  BY <1>0, <1>4, <1>5, <1>6, <1>7, <1>8 DEF Vetting, AnswersPermitted, do

\* A statement that is not refused either gives what was vetted or goes on.
LEMMA VettingAdvance ==
  ASSUME Positioned, Vetting, seen \in Notes, ReadStep, UNCHANGED vars,
         ~Refused(Programs[call.read][at], call)
  PROVE  Vetting'
<1>0. PICK q, i : q = call.read /\ i = at
  OBVIOUS
<1>1. PICK s : s = Programs[q][i]
  OBVIOUS
<1>2. /\ call # NULL /\ answer = "none" /\ UNCHANGED <<visibility, credentials, call>>
      /\ churn' = IF s.do = "row" THEN 0 ELSE churn
      /\ ~Refused(s, call)
  BY <1>0, <1>1 DEF ReadStep, InService
<1>3. churn' \in 0..2
  BY <1>2 DEF Vetting
<1>4. "authentic" \in moments /\ ~Nobody(q)
  BY <1>0, <1>1, <1>2, Identified
<1>5. CASE Give /\ (i = Len(Programs[q]) \/ Finishes(s, q))
  <2>1. ASSUME churn' <= 1 PROVE "permitted" \in moments
    <3>1. CASE s.do = "held" /\ HasGrants(q) /\ ~Free(q)
      BY <1>0, <1>1, <1>2, <3>1 DEF Vetting, Judged
    <3>2. CASE Free(q) \/ s.do \in Data \cup {"match"}
      <4>1. churn <= 1 \/ Free(q)
        BY <1>2, <2>1, <3>2 DEF Data
      <4>2. CASE churn <= 1
        BY <1>0, <1>1, <1>2, <3>2, <4>2, VettedAt
      <4>3. CASE Free(q)
        <5>1. PermittedNow(q)
          BY <4>3 DEF Free, PermittedNow
        <5> QED
          BY <1>0, <1>2, <5>1, NowCounts
      <4> QED
        BY <4>1, <4>2, <4>3
    <3>3. CASE Finishes(s, q)
      <4>1. CASE s.do = "held"
        <5>1. q.tool = "access_context"
          BY <1>0, <1>1, <1>2, <4>1, Judging
        <5>2. HasGrants(q)
          BY <3>3, <4>1, <5>1 DEF Finishes, HasGrants, CapabilityOf
        <5> QED
          BY <3>1, <3>2, <4>1, <5>2
      <4>2. CASE s.do # "held"
        <5>1. s.do \in Data
          BY <3>3, <4>2 DEF Finishes, Data
        <5> QED
          BY <3>2, <5>1
      <4> QED
        BY <4>1, <4>2
    <3>4. CASE i = Len(Programs[q])
      <4>1. Free(q) \/ s.do \in Data \cup {"match"}
        BY <1>0, <1>1, <1>2, <3>4, AtStatement
      <4> QED
        BY <3>2, <4>1
    <3> QED
      BY <1>5, <3>3, <3>4
  <2>2. answer' = "given" /\ UNCHANGED moments
    BY <1>5 DEF Give
  <2>3. AnswersPermitted'
    BY <1>4, <2>1, <2>2 DEF AnswersPermitted
  <2> QED
    BY <1>3, <2>2, <2>3 DEF Vetting
<1>6. CASE ~Give \/ ~(i = Len(Programs[q]) \/ Finishes(s, q))
  <2>1. /\ i # Len(Programs[q]) /\ at' = i + 1 /\ UNCHANGED <<answer, moments>>
        /\ \E k \in OrNull(Keys) : seen' = Learnt(s, q, k)
    BY <1>0, <1>1, <1>2, <1>6 DEF ReadStep
  <2>2. PICK k : seen' = Learnt(s, q, k)
    BY <2>1
  <2> DEFINE do == Programs[q][i + 1].do
  <2>3. UNCHANGED <<participants, durable>>
    BY DEF vars, tables, policy
  <2>4. Free(q) \/ Judged(q, do)'
    BY <1>0, <1>1, <1>2, <2>1, <2>2, <2>3, JudgedAlong
  <2>5. Moments(call)' \subseteq moments'
    BY <1>2, <2>1, MomentsStay
  <2> HIDE DEF do
  <2>6. Free(q)' = Free(q) /\ Nobody(q)' = Nobody(q) /\ call.read' = q
    BY <1>0, <1>2 DEF Free, Bearer, Nobody, HumanSession
  <2> QED
    BY <1>2, <1>3, <1>4, <2>1, <2>4, <2>5, <2>6 DEF Vetting, AnswersPermitted, do
<1> QED
  BY <1>5, <1>6

\* The reader keeps its request vetted.
LEMMA VettingReader ==
  ASSUME Positioned, Vetting, NotesBacked, ReaderStep, UNCHANGED vars
  PROVE  Vetting'
<1>1. ASSUME NEW q \in Reads, BeginRead(q) PROVE Vetting'
  BY <1>1, VettingBegins
<1>2. CASE EndRead
  BY <1>2 DEF EndRead, Vetting, AnswersPermitted
<1>3. CASE ReadFails
  <2>1. CASE Answer("database_unavailable")
    BY <2>1, RefusalVetted
  <2>2. CASE ~Answer("database_unavailable")
    <3>1. /\ Programs[call.read][at].do = "public"
          /\ Tag(Programs[call.read][at]) = "challenge"
          /\ call # NULL /\ answer = "none" /\ at' = at + 1
          /\ UNCHANGED <<visibility, credentials, call, seen, answer, moments, churn>>
      BY <1>3, <2>2 DEF ReadFails, InService, Tag
    <3> QED
      BY <3>1, VettingChallenge
  <2> QED
    BY <2>1, <2>2
<1>4. CASE ReadStep
  <2> DEFINE s == Programs[call.read][at]
  <2>1. CASE Refused(s, call)
    <3>1. call # NULL /\ answer = "none" /\ Answer(s.denied)
      BY <1>4, <2>1 DEF ReadStep, InService
    <3>2. s.denied \in Denials
      BY <2>1, <3>1, AtStatement, RefusedIsCheck
    <3> HIDE DEF s
    <3>3. PICK status : status = s.denied
      OBVIOUS
    <3> QED
      BY <3>1, <3>2, <3>3, RefusalVetted DEF Denials
  <2>2. CASE ~Refused(s, call)
    BY <1>4, <2>2, VettingAdvance DEF NotesBacked
  <2> QED
    BY <2>1, <2>2
<1> QED
  BY <1>1, <1>2, <1>3, <1>4 DEF ReaderStep

\* A step of a worker leaves the policy as it is; a commit may change it.
LEMMA OthersFrame ==
  ASSUME [ReadNext]_readVars, ~ReaderStep
  PROVE  \/ UNCHANGED readVars
         \/ UNCHANGED <<participants, durable>> /\ Meanwhile(FALSE)
         \/ Committed /\ Meanwhile(InEvaluation)
<1>1. ASSUME NEW w \in Workers, WorkerStep(w)
      PROVE  UNCHANGED <<participants, durable>> /\ Meanwhile(FALSE)
  BY <1>1, WorkerSteps DEF WorkerStep
<1>2. Committed => Meanwhile(InEvaluation)
  BY DEF Committed, Commit
<1> QED
  BY <1>1, <1>2, OthersCommit

\* What others do while a request is in service is a moment of it, and leaves it vetted.
LEMMA VettingOthers ==
  ASSUME PolicyTypeOK, Positioned, Vetting, [ReadNext]_readVars, ~ReaderStep
  PROVE  Vetting'
<1>1. CASE UNCHANGED readVars
  <2>1. UNCHANGED <<vars, visibility, credentials, call, at, seen, answer, moments, churn>>
    BY <1>1 DEF readVars, reader
  <2>2. AnswersPermitted' /\ churn' \in 0..2
    BY <2>1 DEF Vetting, AnswersPermitted
  <2> SUFFICES ASSUME call # NULL, answer = "none"
               PROVE  Vetting'
    BY <2>1, <2>2 DEF Vetting
  <2>3. PICK q, do : q = call.read /\ do = Programs[q][at].do
    OBVIOUS
  <2>4. Free(q) \/ Judged(q, do)'
    <3>1. UNCHANGED <<participants, durable>>
      BY <2>1 DEF vars, tables, policy
    <3> QED
      BY <2>1, <2>3, <3>1, JudgedKept DEF Vetting
  <2>5. Moments(call)' \subseteq moments'
    BY <2>1, MomentsStay
  <2>6. Free(q)' = Free(q) /\ Nobody(q)' = Nobody(q)
    BY DEF Free, Bearer, Nobody, HumanSession
  <2>7. /\ call'.read = q /\ Programs[q][at'].do = do
        /\ at # 1 => "authentic" \in moments'
        /\ Nobody(q) => at = 1
    BY <2>1, <2>3 DEF Vetting
  <2> HIDE DEF AnswersPermitted
  <2> QED
    BY <2>1, <2>2, <2>4, <2>5, <2>6, <2>7 DEF Vetting
<1>2. CASE call = NULL /\ (Meanwhile(FALSE) \/ Meanwhile(InEvaluation))
  <2>1. UNCHANGED <<call, answer>> /\ answer = "none"
    BY <1>2 DEF Meanwhile, Positioned
  <2>2. churn' \in 0..2
    BY <1>2 DEF Meanwhile, InEvaluation, InService, Vetting
  <2> QED
    BY <1>2, <2>1, <2>2 DEF Vetting, AnswersPermitted
<1>3. CASE /\ call # NULL
           /\ \/ UNCHANGED <<participants, durable>> /\ Meanwhile(FALSE)
              \/ Committed /\ Meanwhile(InEvaluation)
  <2>1. /\ answer = "none" /\ UNCHANGED <<call, at, seen, answer>>
        /\ moments' = moments \cup Moments(call)'
    BY <1>3 DEF Meanwhile
  <2>2. churn' \in 0..2 /\ AnswersPermitted'
    <3>1. churn \in 0..2
      BY DEF Vetting
    <3>2. (churn' = churn + 1 /\ churn < 2) \/ churn' = churn
      BY <1>3 DEF Meanwhile
    <3> QED
      BY <2>1, <3>1, <3>2 DEF AnswersPermitted
  <2>3. PICK q, i : q = call.read /\ i = at
    OBVIOUS
  <2>4. PICK do : do = Programs[q][i].do
    OBVIOUS
  <2>5. q \in Reads
    BY <1>3, <2>3 DEF Positioned
  <2>6. PermittedNow(q)' => "permitted" \in moments'
    <3>1. PermittedNow(q)' => "permitted" \in Moments(call)'
      BY <2>1, <2>3 DEF Moments, If
    <3> QED
      BY <2>1, <3>1
  <2>7. Free(q) \/ Judged(q, do)'
    <3> SUFFICES ASSUME ~Free(q) PROVE Judged(q, do)'
      OBVIOUS
    <3>1. Judged(q, do)
      BY <1>3, <2>1, <2>3, <2>4 DEF Vetting
    <3>2. CASE UNCHANGED <<participants, durable>> /\ Meanwhile(FALSE)
      BY <2>1, <3>1, <3>2, JudgedKept DEF Meanwhile
    <3>3. CASE Committed /\ Meanwhile(InEvaluation)
      <4>1. /\ do \in {"count", "match", "held"} => Evaluated(q)
            /\ do = "held" => q.tool = "access_context"
        BY <1>3, <2>1, <2>3, <2>4, Judging
      <4>2. churn' = IF do \in {"count", "match"} /\ churn < 2 THEN churn + 1 ELSE churn
        BY <1>3, <2>1, <2>3, <2>4, <3>3 DEF Meanwhile, InEvaluation, InService
      <4>3. churn \in 0..2
        BY DEF Vetting
      <4> QED
        BY <2>1, <2>5, <2>6, <3>1, <3>3, <4>1, <4>2, <4>3, JudgedCommit
    <3> QED
      BY <1>3, <3>2, <3>3
  <2>8. Free(q)' = Free(q) /\ Nobody(q)' = Nobody(q)
    BY DEF Free, Bearer, Nobody, HumanSession
  <2>9. /\ call'.read = q /\ at' = i /\ call # NULL
        /\ Moments(call)' \subseteq moments'
        /\ i # 1 => "authentic" \in moments'
        /\ Nobody(q) => i = 1
    BY <1>3, <2>1, <2>3 DEF Vetting
  <2> HIDE DEF AnswersPermitted
  <2> QED
    BY <2>1, <2>2, <2>4, <2>7, <2>8, <2>9 DEF Vetting
<1> QED
  BY <1>1, <1>2, <1>3, OthersFrame

\* What holds of every request at every moment.
VettedReads == ReadPosting /\ NotesBacked /\ Positioned /\ Vetting

\* Every step among readers keeps it.
LEMMA VettedReadsStep ==
  VettedReads /\ [ReadNext]_readVars => VettedReads'
<1> SUFFICES ASSUME VettedReads, [ReadNext]_readVars PROVE VettedReads'
  OBVIOUS
<1>1. ReadPosting' /\ EvidenceKept
  BY ReadPostingStep DEF VettedReads
<1>2. /\ (ReaderStep /\ UNCHANGED vars) \/ ReaderWaits
      /\ ReaderStep => UNCHANGED vars
  BY ReadKinds DEF VettedReads, ReadPosting, Posting, ReaderStep, BeginRead, ReadStep, ReadFails,
     EndRead
<1>3. Posting /\ PolicyTypeOK
  BY DEF VettedReads, ReadPosting, Posting, TypeOK
<1>4. NotesBacked' /\ Positioned'
  <2>1. CASE ReaderStep /\ UNCHANGED vars
    BY <1>3, <2>1, NotesStep, PositionedStep DEF VettedReads
  <2>2. CASE ReaderWaits
    BY <1>1, <2>2, NotesKept DEF VettedReads, ReaderWaits, Positioned
  <2> QED
    BY <1>2, <2>1, <2>2
<1>5. Vetting'
  <2>1. CASE ReaderStep /\ UNCHANGED vars
    BY <2>1, VettingReader DEF VettedReads
  <2>2. CASE ~ReaderStep
    BY <1>3, <2>2, VettingOthers DEF VettedReads
  <2> QED
    BY <1>2, <2>1, <2>2
<1> QED
  BY <1>1, <1>4, <1>5 DEF VettedReads

\* Whatever is revoked, rotated, deactivated or narrowed while a request is served,
\* data is given only to a caller whose credential was valid at some moment of the
\* request and whom the policy, the role or the visibility permitted the read at some
\* moment of it, unless two commits fell inside one evaluation.
THEOREM AnswersArePermitted == ReadSpec => []AnswersPermitted
<1>1. VettedReads => AnswersPermitted
  BY DEF VettedReads, Vetting
<1>2. ReadInit => VettedReads
  <2> SUFFICES ASSUME ReadInit PROVE VettedReads
    OBVIOUS
  <2>1. NotesBacked
    BY NothingBacked DEF ReadInit, NotesBacked
  <2>2. Positioned /\ Vetting
    BY DEF ReadInit, Positioned, Vetting, AnswersPermitted
  <2> QED
    BY <2>1, <2>2, ReadPostingInit DEF VettedReads
<1> QED
  BY <1>1, <1>2, VettedReadsStep, PTL DEF ReadSpec
================================================================================
