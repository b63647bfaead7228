---------------------------- MODULE OperationsProofs ----------------------------
(******************************************************************************)
(* Proofs about Operations: what the migrations of db::initialize, and the      *)
(* operator's backups and restores, leave of a database, wherever they die.     *)
(*                                                                             *)
(* A statement of a migration establishes something that no later statement of  *)
(* any process takes back (Holds, Evolves).  A look establishes it but for the  *)
(* statements it decided on (Owed).  So whatever a process has passed holds, in *)
(* whatever order two processes, deaths and new starts interleave.              *)
(******************************************************************************)
EXTENDS Operations, TLAPS, FiniteSetTheorems, WellFoundedInduction

--------------------------------------------------------------------------------
(* Sequences and sets *)

\* A set of numbers that is not empty has a least one, and Min finds it.
LEMMA LeastOf ==
  ASSUME NEW T, T \subseteq Nat, T # {}
  PROVE  Min(T) \in T /\ \A n \in T : Min(T) <= n
<1>1. PICK x \in T : \A y \in T : ~(<<y, x>> \in OpToRel(<, Nat))
  BY NatLessThanWellFounded, WFMin
<1>2. ASSUME NEW y \in T PROVE x <= y
  <2>1. <<y, x>> \notin OpToRel(<, Nat)
    BY <1>1
  <2>2. y \in Nat /\ x \in Nat
    OBVIOUS
  <2>3. ~(y < x)
    BY <2>1, <2>2 DEF OpToRel
  <2> QED
    BY <2>2, <2>3
<1> QED
  BY <1>2 DEF Min

\* The elements of a concatenation are those of its parts.
LEMMA ToSetConcat ==
  ASSUME NEW S, NEW s \in Seq(S), NEW t \in Seq(S)
  PROVE  ToSet(s \o t) = ToSet(s) \union ToSet(t)
<1>1. /\ s \o t \in Seq(S) /\ Len(s \o t) = Len(s) + Len(t)
      /\ \A n \in 1..Len(s) : (s \o t)[n] = s[n]
      /\ \A n \in 1..Len(t) : (s \o t)[Len(s) + n] = t[n]
  OBVIOUS
<1>2. DOMAIN s = 1..Len(s) /\ DOMAIN t = 1..Len(t) /\ DOMAIN (s \o t) = 1..(Len(s) + Len(t))
  BY <1>1
<1>3. ToSet(s) \subseteq ToSet(s \o t)
  <2> SUFFICES ASSUME NEW n \in 1..Len(s) PROVE s[n] \in ToSet(s \o t)
    BY <1>2 DEF ToSet
  <2>1. n \in 1..(Len(s) + Len(t)) /\ (s \o t)[n] = s[n]
    BY <1>1
  <2> QED
    BY <1>2, <2>1 DEF ToSet
<1>4. ToSet(t) \subseteq ToSet(s \o t)
  <2> SUFFICES ASSUME NEW n \in 1..Len(t) PROVE t[n] \in ToSet(s \o t)
    BY <1>2 DEF ToSet
  <2>1. Len(s) + n \in 1..(Len(s) + Len(t)) /\ (s \o t)[Len(s) + n] = t[n]
    BY <1>1
  <2> QED
    BY <1>2, <2>1 DEF ToSet
<1>5. ToSet(s \o t) \subseteq ToSet(s) \union ToSet(t)
  <2> SUFFICES ASSUME NEW n \in 1..(Len(s) + Len(t))
               PROVE  (s \o t)[n] \in ToSet(s) \union ToSet(t)
    BY <1>2 DEF ToSet
  <2>1. CASE n \in 1..Len(s)
    BY <1>1, <1>2, <2>1 DEF ToSet
  <2>2. CASE n > Len(s)
    <3>1. n - Len(s) \in 1..Len(t) /\ n = Len(s) + (n - Len(s))
      BY <2>2
    <3> QED
      BY <1>1, <1>2, <3>1 DEF ToSet
  <2> QED
    BY <2>1, <2>2
<1> QED
  BY <1>3, <1>4, <1>5

--------------------------------------------------------------------------------
(* The programs *)

Dropped == {"public_key", "conversation_uuid"}

\* Columns the code adds in a loop over a list.
Added == Columns \ (Dropped \union {"conversation_ref"})

\* The statements of a migration after its connect.
LaterStatements ==
  {Do("create", table) : table \in {"board", "policy", "execution"}}
    \union {Ensure(columns) : columns \in Seq(Added)}
    \union {DropColumns(<<"public_key">>), Do("ensure-role", "role"),
            Do("ensure-ref", "conversation_ref"), Do("channels", "channels"),
            Do("capabilities", "execution"), Do("attribute", "execution")}

\* A program connects, and connects once.
Programs ==
  {s \in Seq(LaterStatements \union {Do("connect", "main")}) :
     /\ Len(s) > 0 /\ s[1] = Do("connect", "main")
     /\ \A n \in 2..Len(s) : s[n] \in LaterStatements}

\* A program is extended by statements that do not connect.
LEMMA ProgramExtended ==
  ASSUME NEW s \in Programs, NEW t \in Seq(LaterStatements)
  PROVE  s \o t \in Programs /\ ToSet(s \o t) = ToSet(s) \union ToSet(t)
<1> DEFINE S == LaterStatements \union {Do("connect", "main")}
<1>1. s \in Seq(S) /\ Len(s) > 0 /\ s[1] = Do("connect", "main")
      /\ \A n \in 2..Len(s) : s[n] \in LaterStatements
  BY DEF Programs
<1>2. t \in Seq(S)
  <2> HIDE DEF LaterStatements
  <2>1. LaterStatements \subseteq S
    OBVIOUS
  <2> HIDE DEF S
  <2> QED
    BY <2>1
<1> HIDE DEF S
<1>3. ToSet(s \o t) = ToSet(s) \union ToSet(t)
  BY <1>1, <1>2, ToSetConcat
<1>4. /\ s \o t \in Seq(S) /\ Len(s \o t) = Len(s) + Len(t)
      /\ \A n \in 1..Len(s) : (s \o t)[n] = s[n]
      /\ \A n \in 1..Len(t) : (s \o t)[Len(s) + n] = t[n]
  BY <1>1, <1>2
<1>5. Len(s) \in Nat /\ Len(t) \in Nat
  BY <1>1
<1>6. ASSUME NEW n \in 2..Len(s \o t) PROVE (s \o t)[n] \in LaterStatements
  <2>1. CASE n \in 2..Len(s)
    BY <1>1, <1>4, <1>5, <2>1
  <2>2. CASE n > Len(s)
    <3>1. n - Len(s) \in 1..Len(t) /\ n = Len(s) + (n - Len(s))
      BY <1>4, <1>5, <2>2
    <3>2. t[n - Len(s)] \in LaterStatements
      BY <3>1
    <3> QED
      BY <1>4, <3>1, <3>2
  <2> QED
    BY <1>4, <1>5, <2>1, <2>2
<1>7. Len(s \o t) > 0 /\ (s \o t)[1] = Do("connect", "main")
  BY <1>1, <1>4, <1>5
<1> QED
  BY <1>3, <1>4, <1>6, <1>7 DEF Programs, S

\* A sequence of columns to add holds no dropped column.
LEMMA ColumnsAdded ==
  ASSUME NEW columns \in {TotpColumns, ProvenanceColumns, OwnerColumns}
  PROVE  columns \in Seq(Added)
<1>1. columns \in Seq(STRING)
      /\ ToSet(columns) \intersect {"public_key", "conversation_uuid", "conversation_ref"} = {}
  BY ColumnsTyped
<1>2. \A n \in 1..Len(columns) : columns[n] \in Added
  <2> SUFFICES ASSUME NEW n \in 1..Len(columns) PROVE columns[n] \in Added
    OBVIOUS
  <2>1. columns[n] \in ToSet(columns)
    BY <1>1 DEF ToSet
  <2>2. columns[n] \in Columns
    BY <2>1 DEF Columns
  <2>3. columns[n] \notin {"public_key", "conversation_uuid", "conversation_ref"}
    BY <1>1, <2>1
  <2> QED
    BY <2>2, <2>3 DEF Added, Dropped
<1> QED
  BY <1>1, <1>2

\* To ensure one added column is a statement of a program.
LEMMA EnsureOne ==
  ASSUME NEW c \in Added
  PROVE  Ensure(<<c>>) \in LaterStatements
<1>1. <<c>> \in Seq(Added)
  OBVIOUS
<1> QED
  BY <1>1, Zenon DEF LaterStatements

\* The loop over a list of columns is a sequence of looks, one for each.
LEMMA EachTyped ==
  ASSUME NEW columns \in Seq(Added)
  PROVE  /\ Each(columns) \in Seq(LaterStatements)
         /\ \A c \in ToSet(columns) : Ensure(<<c>>) \in ToSet(Each(columns))
<1>1. \A c \in Added : Ensure(<<c>>) \in LaterStatements
  BY EnsureOne
<1>2. DOMAIN columns = 1..Len(columns) /\ Len(columns) \in Nat
      /\ \A n \in 1..Len(columns) : columns[n] \in Added
  OBVIOUS
<1> HIDE DEF LaterStatements
<1>3. Each(columns) = [n \in 1..Len(columns) |-> Ensure(<<columns[n]>>)]
  BY <1>2 DEF Each
<1>4. Each(columns) \in Seq(LaterStatements)
  BY <1>1, <1>2, <1>3
<1>5. \A n \in DOMAIN columns : Ensure(<<columns[n]>>) \in ToSet(Each(columns))
  BY <1>2, <1>3 DEF ToSet
<1> QED
  BY <1>4, <1>5 DEF ToSet

\* What the program of a process must contain for its server to be able to run.
NeededStatements(p) ==
  {Ensure(<<"auth_secret">>), DropColumns(<<"public_key">>), Do("ensure-role", "role"),
   Ensure(<<"status">>), Do("ensure-ref", "conversation_ref"), Do("channels", "channels"),
   Do("create", "policy"), Ensure(<<"ingress_participant">>), Ensure(ProvenanceColumns),
   Do("capabilities", "execution"), Do("attribute", "execution")}
    \union {Ensure(<<c>>) : c \in ToSet(TotpColumns)}
    \union (IF p = "service" THEN {Ensure(<<c>>) : c \in ToSet(OwnerColumns)} ELSE {})

\* A sequence of one or two given elements.
LEMMA SmallSequences ==
  ASSUME NEW S, NEW a \in S, NEW b \in S
  PROVE  /\ <<a>> \in Seq(S) /\ a \in ToSet(<<a>>)
         /\ <<a, b>> \in Seq(S) /\ {a, b} \subseteq ToSet(<<a, b>>)
<1>1. DOMAIN <<a>> = {1} /\ DOMAIN <<a, b>> = {1, 2}
  OBVIOUS
<1> QED
  BY <1>1 DEF ToSet

\* Both programs connect once, first, and contain every statement that what they
\* serve needs (db::initialize, run_server).
LEMMA ProgramShape ==
  ASSUME NEW p \in Processes
  PROVE  Program(p) \in Programs /\ NeededStatements(p) \subseteq ToSet(Program(p))
<1> DEFINE connect == <<Do("connect", "main")>>
           s1 == connect \o SchemaBatch
           s2 == s1 \o AuthColumns
           s3 == s2 \o Each(TotpColumns)
           s4 == s3 \o RoleColumn
           s5 == s4 \o StatusColumn
           s6 == s5 \o ConversationRef
           s7 == s6 \o ChannelMetadata
           s8 == s7 \o AdministrationSchema
           s9 == s8 \o ExecutionSchema
<1>1. connect \in Programs
  BY DEF Programs
<1>2. SchemaBatch \in Seq(LaterStatements)
  <2>1. \A n \in 1..3 : Do("create", Schema[n]) \in LaterStatements
    BY DEF LaterStatements, Schema
  <2>2. SchemaBatch = [n \in 1..3 |-> Do("create", Schema[n])]
    BY DEF SchemaBatch, Schema
  <2> QED
    BY <2>1, <2>2
<1>3. {"auth_secret", "status", "ingress_participant"} \subseteq Added
  BY DEF Added, Dropped, Columns
<1>4. \A c \in Added : Ensure(<<c>>) \in LaterStatements
  BY EnsureOne
<1>5. /\ {DropColumns(<<"public_key">>), Do("ensure-role", "role"),
          Do("ensure-ref", "conversation_ref"), Do("channels", "channels"),
          Do("capabilities", "execution"), Do("attribute", "execution"),
          Do("create", "policy"), Do("create", "execution")} \subseteq LaterStatements
      /\ Ensure(ProvenanceColumns) \in LaterStatements
  BY ColumnsAdded DEF LaterStatements
<1> HIDE DEF LaterStatements
<1>6. AuthColumns \in Seq(LaterStatements)
      /\ {Ensure(<<"auth_secret">>), DropColumns(<<"public_key">>)} \subseteq ToSet(AuthColumns)
  BY <1>3, <1>4, <1>5, SmallSequences DEF AuthColumns
<1>7. RoleColumn \in Seq(LaterStatements) /\ Do("ensure-role", "role") \in ToSet(RoleColumn)
  BY <1>5, SmallSequences DEF RoleColumn
<1>8. StatusColumn \in Seq(LaterStatements) /\ Ensure(<<"status">>) \in ToSet(StatusColumn)
  BY <1>3, <1>4, SmallSequences DEF StatusColumn
<1>9. /\ ConversationRef \in Seq(LaterStatements)
      /\ Do("ensure-ref", "conversation_ref") \in ToSet(ConversationRef)
  BY <1>5, SmallSequences DEF ConversationRef
<1>10. /\ ChannelMetadata \in Seq(LaterStatements)
       /\ Do("channels", "channels") \in ToSet(ChannelMetadata)
  BY <1>5, SmallSequences DEF ChannelMetadata
<1>11. /\ AdministrationSchema \in Seq(LaterStatements)
       /\ Do("create", "policy") \in ToSet(AdministrationSchema)
  BY <1>5, SmallSequences DEF AdministrationSchema
<1>12. /\ ExecutionSchema \in Seq(LaterStatements)
       /\ {Ensure(<<"ingress_participant">>), Ensure(ProvenanceColumns),
           Do("capabilities", "execution"), Do("attribute", "execution")}
             \subseteq ToSet(ExecutionSchema)
  <2> DEFINE a == Do("create", "execution")
             b == Ensure(<<"ingress_participant">>)
             c == Ensure(ProvenanceColumns)
             d == Do("capabilities", "execution")
             e == Do("attribute", "execution")
  <2>1. {a, b, c, d, e} \subseteq LaterStatements
    BY <1>3, <1>4, <1>5
  <2>2. ExecutionSchema = <<a, b, c, d, e>>
    BY DEF ExecutionSchema
  <2> HIDE DEF a, b, c, d, e
  <2>3. /\ ExecutionSchema \in Seq(LaterStatements)
        /\ {b, c, d, e} \subseteq ToSet(ExecutionSchema)
    <3>1. <<a, b, c, d, e>> \in Seq(LaterStatements)
      BY <2>1
    <3>2. DOMAIN <<a, b, c, d, e>> = 1..5
      OBVIOUS
    <3>3. {b, c, d, e} \subseteq ToSet(<<a, b, c, d, e>>)
      BY <3>2 DEF ToSet
    <3> QED
      BY <2>2, <3>1, <3>3
  <2> QED
    BY <2>3 DEF b, c, d, e
<1>13. /\ Each(TotpColumns) \in Seq(LaterStatements)
       /\ \A c \in ToSet(TotpColumns) : Ensure(<<c>>) \in ToSet(Each(TotpColumns))
       /\ Each(OwnerColumns) \in Seq(LaterStatements)
       /\ \A c \in ToSet(OwnerColumns) : Ensure(<<c>>) \in ToSet(Each(OwnerColumns))
  BY ColumnsAdded, EachTyped
<1> HIDE DEF connect
<1>14. s1 \in Programs
  BY <1>1, <1>2, ProgramExtended
<1> HIDE DEF s1
<1>15. s2 \in Programs /\ ToSet(s2) = ToSet(s1) \union ToSet(AuthColumns)
  BY <1>6, <1>14, ProgramExtended
<1> HIDE DEF s2
<1>16. s3 \in Programs /\ ToSet(s3) = ToSet(s2) \union ToSet(Each(TotpColumns))
  BY <1>13, <1>15, ProgramExtended
<1> HIDE DEF s3
<1>17. s4 \in Programs /\ ToSet(s4) = ToSet(s3) \union ToSet(RoleColumn)
  BY <1>7, <1>16, ProgramExtended
<1> HIDE DEF s4
<1>18. s5 \in Programs /\ ToSet(s5) = ToSet(s4) \union ToSet(StatusColumn)
  BY <1>8, <1>17, ProgramExtended
<1> HIDE DEF s5
<1>19. s6 \in Programs /\ ToSet(s6) = ToSet(s5) \union ToSet(ConversationRef)
  BY <1>9, <1>18, ProgramExtended
<1> HIDE DEF s6
<1>20. s7 \in Programs /\ ToSet(s7) = ToSet(s6) \union ToSet(ChannelMetadata)
  BY <1>10, <1>19, ProgramExtended
<1> HIDE DEF s7
<1>21. s8 \in Programs /\ ToSet(s8) = ToSet(s7) \union ToSet(AdministrationSchema)
  BY <1>11, <1>20, ProgramExtended
<1> HIDE DEF s8
<1>22. s9 \in Programs /\ ToSet(s9) = ToSet(s8) \union ToSet(ExecutionSchema)
  BY <1>12, <1>21, ProgramExtended
<1>23. Initialize = s9
  BY DEF Initialize, s1, s2, s3, s4, s5, s6, s7, s8, connect
<1> HIDE DEF s9
<1>24. RunServer \in Programs /\ ToSet(RunServer) = ToSet(s9) \union ToSet(Each(OwnerColumns))
  BY <1>13, <1>22, <1>23, ProgramExtended DEF RunServer
<1>25. ToSet(s9) \subseteq ToSet(Program(p)) /\ Program(p) \in Programs
       /\ (p = "service" => ToSet(Each(OwnerColumns)) \subseteq ToSet(Program(p)))
  BY <1>22, <1>23, <1>24 DEF Program
<1>26. /\ ToSet(AuthColumns) \subseteq ToSet(s9) /\ ToSet(Each(TotpColumns)) \subseteq ToSet(s9)
       /\ ToSet(RoleColumn) \subseteq ToSet(s9) /\ ToSet(StatusColumn) \subseteq ToSet(s9)
       /\ ToSet(ConversationRef) \subseteq ToSet(s9) /\ ToSet(ChannelMetadata) \subseteq ToSet(s9)
       /\ ToSet(AdministrationSchema) \subseteq ToSet(s9)
       /\ ToSet(ExecutionSchema) \subseteq ToSet(s9)
  BY <1>15, <1>16, <1>17, <1>18, <1>19, <1>20, <1>21, <1>22
<1>27. {Ensure(<<"auth_secret">>), DropColumns(<<"public_key">>), Do("ensure-role", "role"),
        Ensure(<<"status">>), Do("ensure-ref", "conversation_ref"), Do("channels", "channels"),
        Do("create", "policy"), Ensure(<<"ingress_participant">>), Ensure(ProvenanceColumns),
        Do("capabilities", "execution"), Do("attribute", "execution")} \subseteq ToSet(s9)
  BY <1>6, <1>7, <1>8, <1>9, <1>10, <1>11, <1>12, <1>26
<1>28. /\ {Ensure(<<c>>) : c \in ToSet(TotpColumns)} \subseteq ToSet(s9)
       /\ {Ensure(<<c>>) : c \in ToSet(OwnerColumns)} \subseteq ToSet(Each(OwnerColumns))
  BY <1>13, <1>26
<1> QED
  BY <1>25, <1>27, <1>28 DEF NeededStatements

--------------------------------------------------------------------------------
(* What a statement may do to a database *)

Capable(d) == \A e \in DOMAIN d.evidence : d.evidence[e].capability

Attributed(d) ==
  \A e \in DOMAIN d.evidence :
    d.evidence[e].participant = NULL => Cardinality(Executors(d, e[2])) > 1

Truthful(d) == \A e \in DOMAIN d.evidence : d.evidence[e].participant \in {NULL, e[1]}

\* The conversation has one name, grants have their columns, deliveries name nobody
\* but who executed them.
Sound(d) ==
  /\ "conversation_uuid" \in d.columns
       => "board" \in d.tables /\ "conversation_ref" \notin d.columns
  /\ "policy" \in d.tables => {"grants", "admin_events"} \subseteq d.columns
  /\ Truthful(d)

\* What no statement of a migration and no execution takes back.
Evolves(d, f) ==
  /\ f \in Databases /\ Sound(f)
  /\ d.tables \subseteq f.tables
  /\ d.columns \ Dropped \subseteq f.columns
  /\ f.columns \intersect Dropped \subseteq d.columns
  /\ d.messages => f.messages
  /\ (d.messages => d.channel) => (f.messages => f.channel)
  /\ Capable(d) => Capable(f)
  /\ Attributed(d) => Attributed(f)

\* A change that leaves evidence alone keeps what is said of it.
LEMMA EvidenceKept ==
  ASSUME NEW d, NEW f, f.evidence = d.evidence
  PROVE  /\ Capable(f) = Capable(d)
         /\ Attributed(f) = Attributed(d)
         /\ Truthful(f) = Truthful(d)
BY DEF Capable, Attributed, Truthful, Executors

\* The evidence of a database, entry by entry.
LEMMA EvidenceTyped ==
  ASSUME NEW d \in Databases
  PROVE  /\ d.evidence \in Evidence
         /\ DOMAIN d.evidence \subseteq Participants \X Intents
         /\ \A e \in DOMAIN d.evidence :
              /\ d.evidence[e] \in [participant : Participants \union {NULL}, capability : BOOLEAN]
              /\ e[1] \in Participants /\ e = <<e[1], e[2]>>
<1>1. d.evidence \in Evidence
  BY DEF Databases
<1>2. PICK D \in SUBSET (Participants \X Intents) :
        d.evidence \in [D -> [participant : Participants \union {NULL}, capability : BOOLEAN]]
  BY <1>1 DEF Evidence
<1> QED
  BY <1>1, <1>2

\* An execution that is recorded has its participant among the executors.
LEMMA ExecutorsFound ==
  ASSUME NEW d \in Databases, NEW e \in DOMAIN d.evidence
  PROVE  /\ e[1] \in Executors(d, e[2])
         /\ IsFiniteSet(Executors(d, e[2])) /\ Cardinality(Executors(d, e[2])) \in Nat
         /\ Cardinality(Executors(d, e[2])) > 0
<1>1. e[1] \in Executors(d, e[2])
  BY EvidenceTyped DEF Executors
<1>2. IsFiniteSet(Executors(d, e[2]))
  <2>1. Executors(d, e[2]) \in SUBSET Participants
    BY DEF Executors
  <2> QED
    BY <2>1, FS_Subset, MigrationConstants
<1>3. Cardinality(Executors(d, e[2])) \in Nat
  BY <1>2, FS_CardinalityType
<1>4. Cardinality(Executors(d, e[2])) # 0
  BY <1>1, <1>2, FS_EmptySet
<1> QED
  BY <1>1, <1>2, <1>3, <1>4

\* What the tables of schema.sql come with.
LEMMA TableColumnsAre ==
  /\ TableColumns("board") \subseteq Columns \ Dropped
  /\ TableColumns("policy") = {"grants", "admin_events"}
  /\ TableColumns("execution") \subseteq Columns \ (Dropped \union {"conversation_ref"})
<1>1. /\ ToSet(TotpColumns) \subseteq Columns \ (Dropped \union {"conversation_ref"})
      /\ ToSet(OwnerColumns) \subseteq Columns \ (Dropped \union {"conversation_ref"})
      /\ ToSet(ProvenanceColumns) \subseteq Columns \ (Dropped \union {"conversation_ref"})
  BY ColumnsTyped DEF Columns, Dropped
<1>2. TableColumns("board") = {"conversation_ref", "auth_secret", "role", "status"}
                                \union ToSet(TotpColumns) \union ToSet(OwnerColumns)
  BY DEF TableColumns
<1>3. TableColumns("policy") = {"grants", "admin_events"}
  BY DEF TableColumns
<1>4. TableColumns("execution") = {"ingress_participant"} \union ToSet(ProvenanceColumns)
  BY DEF TableColumns
<1> QED
  BY <1>1, <1>2, <1>3, <1>4 DEF Columns, Dropped

\* CREATE TABLE IF NOT EXISTS
LEMMA CreateEvolves ==
  ASSUME NEW d \in Databases, Sound(d), NEW t \in {"board", "policy", "execution"}
  PROVE  LET new == {t} \ d.tables
             f == [d EXCEPT !.tables = @ \union new,
                            !.columns = @ \union UNION {TableColumns(u) : u \in new}]
         IN Evolves(d, f) /\ t \in f.tables
<1> DEFINE new == {t} \ d.tables
           f == [d EXCEPT !.tables = @ \union new,
                          !.columns = @ \union UNION {TableColumns(u) : u \in new}]
<1>1. /\ d.tables \subseteq {"board", "policy", "execution"} /\ d.columns \subseteq Columns
      /\ f.tables = d.tables \union {t}
      /\ f.columns = d.columns \union (IF t \in d.tables THEN {} ELSE TableColumns(t))
      /\ f.messages = d.messages /\ f.channel = d.channel /\ f.evidence = d.evidence
  <2>1. UNION {TableColumns(u) : u \in new} = IF t \in d.tables THEN {} ELSE TableColumns(t)
    OBVIOUS
  <2> QED
    BY <2>1 DEF Databases
<1>2. f.columns \subseteq Columns /\ f.columns \ d.columns \subseteq Columns \ Dropped
  BY <1>1, TableColumnsAre DEF Columns, Dropped
<1>3. f \in Databases
  BY <1>1, <1>2 DEF Databases
<1>4. Sound(f)
  <2>1. Truthful(f)
    BY <1>1, EvidenceKept DEF Sound
  <2>2. "conversation_uuid" \in f.columns
          => "board" \in f.tables /\ "conversation_ref" \notin f.columns
    BY <1>1, <1>2, TableColumnsAre DEF Sound, Dropped
  <2>3. "policy" \in f.tables => {"grants", "admin_events"} \subseteq f.columns
    BY <1>1, TableColumnsAre DEF Sound
  <2> QED
    BY <2>1, <2>2, <2>3 DEF Sound
<1> HIDE DEF f
<1>5. Evolves(d, f)
  BY <1>1, <1>2, <1>3, <1>4, EvidenceKept DEF Evolves
<1> QED
  BY <1>1, <1>5 DEF f

\* ALTER TABLE ... ADD, DROP and RENAME COLUMN
LEMMA ColumnsEvolve ==
  ASSUME NEW d \in Databases, Sound(d), NEW columns \in SUBSET Columns,
         \/ \E c \in Columns \ Dropped :
              /\ c = "conversation_ref" => "conversation_uuid" \notin d.columns
              /\ columns = d.columns \union {c}
         \/ columns = d.columns \ {"public_key"}
         \/ columns = (d.columns \ {"conversation_uuid"}) \union {"conversation_ref"}
  PROVE  Evolves(d, [d EXCEPT !.columns = columns])
<1> DEFINE f == [d EXCEPT !.columns = columns]
<1>1. /\ f \in Databases
      /\ f.columns = columns /\ f.tables = d.tables
      /\ f.messages = d.messages /\ f.channel = d.channel /\ f.evidence = d.evidence
  BY DEF Databases
<1> HIDE DEF f
<1>2. columns \intersect Dropped \subseteq d.columns /\ d.columns \ Dropped \subseteq columns
  BY DEF Dropped
<1>3. Sound(f)
  <2>1. Truthful(f)
    BY <1>1, EvidenceKept DEF Sound
  <2>2. "conversation_uuid" \in columns
          => "board" \in d.tables /\ "conversation_ref" \notin columns
    BY DEF Sound, Dropped
  <2>3. "policy" \in d.tables => {"grants", "admin_events"} \subseteq columns
    BY <1>2 DEF Sound, Dropped
  <2> QED
    BY <1>1, <2>1, <2>2, <2>3 DEF Sound
<1>4. Evolves(d, f)
  BY <1>1, <1>2, <1>3, EvidenceKept DEF Evolves
<1> QED
  BY <1>4 DEF f

\* UPDATE and INSERT of a role and of channel metadata
LEMMA RowsEvolve ==
  ASSUME NEW d \in Databases, Sound(d)
  PROVE  /\ Evolves(d, [d EXCEPT !.admin = TRUE])
         /\ Evolves(d, [d EXCEPT !.channel = @ \/ d.messages])
<1>1. ASSUME NEW f \in Databases, f.columns = d.columns, f.tables = d.tables,
             f.messages = d.messages, f.evidence = d.evidence,
             f.channel = d.channel \/ f.channel = TRUE \/ f.channel = (d.channel \/ d.messages)
      PROVE  Evolves(d, f)
  <2>1. Sound(f)
    BY <1>1, EvidenceKept DEF Sound
  <2> QED
    BY <1>1, <2>1, EvidenceKept DEF Evolves, Databases
<1>2. [d EXCEPT !.admin = TRUE] \in Databases
  BY DEF Databases
<1>3. [d EXCEPT !.channel = @ \/ d.messages] \in Databases
  BY DEF Databases
<1>4. Evolves(d, [d EXCEPT !.admin = TRUE])
  BY <1>1, <1>2 DEF Databases
<1>5. Evolves(d, [d EXCEPT !.channel = @ \/ d.messages])
  BY <1>1, <1>3 DEF Databases
<1> QED
  BY <1>4, <1>5

\* An attribution names the one executor there is, or leaves what is there.
LEMMA AttributionNames ==
  ASSUME NEW d \in Databases, Truthful(d), NEW e \in DOMAIN d.evidence
  PROVE  /\ Attribution(d, e) \in {NULL, e[1]}
         /\ Attribution(d, e) = NULL => /\ d.evidence[e].participant = NULL
                                        /\ Cardinality(Executors(d, e[2])) > 1
<1> DEFINE X == Executors(d, e[2])
<1>1. e[1] \in X /\ IsFiniteSet(X) /\ Cardinality(X) \in Nat /\ Cardinality(X) > 0
  BY ExecutorsFound
<1>2. e[1] \in Nat /\ e[1] # NULL
  BY EvidenceTyped, MigrationConstants
<1>3. CASE d.evidence[e].participant = NULL /\ Cardinality(X) = 1
  <2>1. X = {e[1]}
    BY <1>1, <1>3, FS_Singleton
  <2>2. Min(X) = e[1]
    BY <1>2, <2>1 DEF Min
  <2>3. Attribution(d, e) = Min(X)
    BY <1>3 DEF Attribution
  <2> QED
    BY <1>2, <2>2, <2>3
<1>4. CASE ~(d.evidence[e].participant = NULL /\ Cardinality(X) = 1)
  <2>1. Attribution(d, e) = d.evidence[e].participant
    BY <1>4 DEF Attribution
  <2>2. d.evidence[e].participant \in {NULL, e[1]}
    BY DEF Truthful
  <2> HIDE DEF X
  <2> QED
    BY <1>1, <1>4, <2>1, <2>2 DEF X
<1> QED
  BY <1>3, <1>4

\* Evidence that is rewritten in place, as the backfills do.
LEMMA BackfillsEvolve ==
  ASSUME NEW d \in Databases, Sound(d)
  PROVE  LET capable == [d EXCEPT !.evidence =
                           [e \in DOMAIN @ |-> [@[e] EXCEPT !.capability = TRUE]]]
             named == [d EXCEPT !.evidence =
                         [e \in DOMAIN @ |-> [@[e] EXCEPT !.participant = Attribution(d, e)]]]
         IN /\ Evolves(d, capable) /\ Capable(capable)
            /\ Evolves(d, named) /\ Attributed(named)
<1> DEFINE E == d.evidence
           row == [participant : Participants \union {NULL}, capability : BOOLEAN]
           v == [e \in DOMAIN E |-> [E[e] EXCEPT !.capability = TRUE]]
           u == [e \in DOMAIN E |-> [E[e] EXCEPT !.participant = Attribution(d, e)]]
<1>1. /\ DOMAIN E \in SUBSET (Participants \X Intents)
      /\ \A e \in DOMAIN E : E[e] \in row /\ e[1] \in Participants
  BY EvidenceTyped
<1>2. \A e \in DOMAIN E : Attribution(d, e) \in {NULL, e[1]}
  BY AttributionNames DEF Sound
<1>3. ASSUME NEW w \in [DOMAIN E -> row],
             \A e \in DOMAIN E : w[e].participant \in {NULL, e[1]},
             Capable(d) => \A e \in DOMAIN E : w[e].capability,
             \A e \in DOMAIN E : w[e].participant = NULL => E[e].participant = NULL
      PROVE  Evolves(d, [d EXCEPT !.evidence = w])
  <2> DEFINE f == [d EXCEPT !.evidence = w]
  <2>1. w \in Evidence
    BY <1>1 DEF Evidence
  <2>2. /\ f \in Databases /\ f.evidence = w
        /\ f.columns = d.columns /\ f.tables = d.tables
        /\ f.messages = d.messages /\ f.channel = d.channel
    BY <2>1 DEF Databases
  <2> HIDE DEF f
  <2>3. DOMAIN f.evidence = DOMAIN E
    BY <2>2
  <2>4. \A x : Executors(f, x) = Executors(d, x)
    BY <2>3 DEF Executors
  <2>5. Sound(f)
    BY <1>3, <2>2, <2>3 DEF Sound, Truthful
  <2>6. Capable(d) => Capable(f)
    BY <1>3, <2>2, <2>3 DEF Capable
  <2>7. Attributed(d) => Attributed(f)
    BY <1>3, <2>2, <2>3, <2>4 DEF Attributed
  <2>8. Evolves(d, f)
    BY <2>2, <2>5, <2>6, <2>7 DEF Evolves
  <2> QED
    BY <2>8 DEF f
<1>4. /\ v \in [DOMAIN E -> row] /\ u \in [DOMAIN E -> row]
      /\ \A e \in DOMAIN E : /\ v[e].participant = E[e].participant /\ v[e].capability = TRUE
                             /\ u[e].participant = Attribution(d, e)
                             /\ u[e].capability = E[e].capability
  BY <1>1, <1>2
<1>5. [d EXCEPT !.evidence = v].evidence = v /\ [d EXCEPT !.evidence = u].evidence = u
  BY DEF Databases
<1>6. DOMAIN v = DOMAIN E /\ DOMAIN u = DOMAIN E
  OBVIOUS
<1> HIDE DEF v, u
<1>7. Evolves(d, [d EXCEPT !.evidence = v])
  <2>1. \A e \in DOMAIN E : v[e].participant \in {NULL, e[1]}
    BY <1>4 DEF Sound, Truthful
  <2> QED
    BY <1>3, <1>4, <2>1
<1>8. Capable([d EXCEPT !.evidence = v])
  BY <1>4, <1>5, <1>6 DEF Capable
<1>9. Evolves(d, [d EXCEPT !.evidence = u])
  <2>1. \A e \in DOMAIN E : u[e].participant = NULL => E[e].participant = NULL
    BY <1>4, AttributionNames DEF Sound
  <2>2. Capable(d) => \A e \in DOMAIN E : u[e].capability
    BY <1>4 DEF Capable
  <2>3. \A e \in DOMAIN E : u[e].participant \in {NULL, e[1]}
    BY <1>2, <1>4
  <2> QED
    BY <1>3, <1>4, <2>1, <2>2, <2>3
<1>10. Attributed([d EXCEPT !.evidence = u])
  <2>1. \A x : Executors([d EXCEPT !.evidence = u], x) = Executors(d, x)
    BY <1>5, <1>6 DEF Executors
  <2>2. \A e \in DOMAIN E : u[e].participant = NULL => Cardinality(Executors(d, e[2])) > 1
    BY <1>4, AttributionNames DEF Sound
  <2> QED
    BY <1>5, <1>6, <2>1, <2>2 DEF Attributed
<1> QED
  BY <1>7, <1>8, <1>9, <1>10 DEF v, u

\* execute_message_intent records who executed.
LEMMA ExecutionEvolves ==
  ASSUME NEW d \in Databases, Sound(d), NEW x \in NewExecutions \ DOMAIN d.evidence
  PROVE  Evolves(d, [d EXCEPT !.messages = TRUE, !.channel = TRUE,
                              !.evidence = [g \in DOMAIN @ \union {x} |->
                                 IF g = x THEN [participant |-> x[1], capability |-> TRUE]
                                          ELSE @[g]]])
<1> DEFINE E == d.evidence
           row == [participant : Participants \union {NULL}, capability : BOOLEAN]
           w == [g \in DOMAIN E \union {x} |->
                   IF g = x THEN [participant |-> x[1], capability |-> TRUE] ELSE E[g]]
           f == [d EXCEPT !.messages = TRUE, !.channel = TRUE, !.evidence = w]
<1>1. /\ DOMAIN E \in SUBSET (Participants \X Intents)
      /\ \A e \in DOMAIN E : E[e] \in row
  BY EvidenceTyped
<1>2. x \in Participants \X Intents /\ x[1] \in Participants /\ x[1] # NULL
  BY MigrationConstants
<1>3. w \in [DOMAIN E \union {x} -> row] /\ DOMAIN w = DOMAIN E \union {x}
  BY <1>1, <1>2
<1>4. w \in Evidence
  <2>1. DOMAIN E \union {x} \in SUBSET (Participants \X Intents)
    BY <1>1, <1>2
  <2> HIDE DEF w
  <2> QED
    BY <1>3, <2>1 DEF Evidence
<1>5. /\ \A e \in DOMAIN E : w[e] = E[e]
      /\ w[x].participant = x[1] /\ w[x].capability = TRUE
  OBVIOUS
<1> HIDE DEF w
<1>6. /\ f \in Databases /\ f.evidence = w
      /\ f.columns = d.columns /\ f.tables = d.tables
      /\ f.messages = TRUE /\ f.channel = TRUE
  BY <1>4 DEF Databases
<1> HIDE DEF f
<1>7. Sound(f)
  BY <1>3, <1>5, <1>6 DEF Sound, Truthful
<1>8. Capable(d) => Capable(f)
  BY <1>3, <1>5, <1>6 DEF Capable
<1>9. Attributed(d) => Attributed(f)
  <2> SUFFICES ASSUME Attributed(d), NEW e \in DOMAIN E, E[e].participant = NULL
               PROVE  Cardinality(Executors(f, e[2])) > 1
    BY <1>2, <1>3, <1>5, <1>6 DEF Attributed
  <2>1. Cardinality(Executors(d, e[2])) > 1 /\ Cardinality(Executors(d, e[2])) \in Nat
    BY ExecutorsFound DEF Attributed
  <2>2. Executors(d, e[2]) \in SUBSET Executors(f, e[2])
    BY <1>3, <1>6 DEF Executors
  <2>3. IsFiniteSet(Executors(f, e[2])) /\ Cardinality(Executors(f, e[2])) \in Nat
    BY <1>3, <1>6, ExecutorsFound
  <2>4. Cardinality(Executors(d, e[2])) <= Cardinality(Executors(f, e[2]))
    BY <2>2, <2>3, FS_Subset
  <2> QED
    BY <2>1, <2>3, <2>4
<1>10. Evolves(d, f)
  BY <1>6, <1>7, <1>8, <1>9 DEF Evolves
<1> QED
  BY <1>10 DEF f, w

--------------------------------------------------------------------------------
(* What a process has done so far *)

\* What a statement of a program leaves behind it.
Holds(st, d) ==
  /\ st.op = "create" => st.on \in d.tables
  /\ st.op = "ensure" => \A n \in DOMAIN st.on : st.on[n] \in d.columns
  /\ st.op = "ensure-dropped" => \A n \in DOMAIN st.on : st.on[n] \notin d.columns
  /\ st.op = "ensure-role" => "role" \in d.columns
  /\ st.op = "ensure-ref" => "conversation_ref" \in d.columns
  /\ st.op = "channels" => (d.messages => d.channel)
  /\ st.op = "capabilities" => Capable(d)
  /\ st.op = "attribute" => Attributed(d)

\* What a look leaves, but for the statements it decided on and that are still to do.
Owed(look, todo, d) ==
  /\ look.op = "ensure" => \A n \in DOMAIN look.on : n \in todo \/ look.on[n] \in d.columns
  /\ look.op = "ensure-dropped" =>
       \A n \in DOMAIN look.on : n \in todo \/ look.on[n] \notin d.columns
  /\ look.op = "ensure-role" => 1 \in todo \/ "role" \in d.columns
  /\ look.op = "ensure-ref" =>
       todo = {1} \/ (todo = {2} /\ "conversation_uuid" \notin d.columns)

Held(f) == f \in Databases /\ Sound(f)

ProcessStates ==
  [state : {"down", "launched", "migrating", "serving"}, at : Nat, todo : SUBSET Nat]

Connected(p) == Serving(p) \/ (process[p].state = "migrating" /\ process[p].at > 1)

\* A process that has connected has a database, in which everything it has passed
\* holds, and all but what it still has to do of its last look.
Progress(p) ==
  /\ process[p].state = "migrating" =>
       /\ process[p].at \in 1..(Len(Program(p)) + 1)
       /\ process[p].todo # {} =>
            LET look == Program(p)[process[p].at]
            IN /\ process[p].at \in 2..Len(Program(p))
               /\ look.op \in Looks
               /\ process[p].todo \subseteq DOMAIN Statements(look)
               /\ Owed(look, process[p].todo, main)
  /\ Connected(p) =>
       /\ main # NULL
       /\ \A n \in 1..Len(Program(p)) :
            Serving(p) \/ n < process[p].at => Holds(Program(p)[n], main)

\* The forms a later statement of a program can have.
LEMMA LaterForms ==
  ASSUME NEW st \in LaterStatements
  PROVE  \/ st.op = "create" /\ st.on \in {"board", "policy", "execution"}
         \/ st.op = "ensure" /\ st.on \in Seq(Added)
         \/ st.op = "ensure-dropped" /\ st.on = <<"public_key">>
         \/ st.op \in {"ensure-role", "ensure-ref", "channels", "capabilities", "attribute"}
BY DEF LaterStatements, Do, Ensure, DropColumns

\* Nothing that holds is taken back.
LEMMA HoldsStable ==
  ASSUME NEW d, NEW f, Evolves(d, f), NEW st \in LaterStatements
  PROVE  /\ Holds(st, d) => Holds(st, f)
         /\ \A todo : Owed(st, todo, d) => Owed(st, todo, f)
<1>1. \A c \in Added : c \in d.columns => c \in f.columns
  BY DEF Evolves, Added
<1>2. CASE st.op = "create"
  BY <1>2 DEF Holds, Owed, Evolves
<1>3. CASE st.op = "ensure" /\ st.on \in Seq(Added)
  <2>1. \A n \in DOMAIN st.on : st.on[n] \in Added
    BY <1>3
  <2> QED
    BY <1>1, <1>3, <2>1 DEF Holds, Owed
<1>4. CASE st.op = "ensure-dropped" /\ st.on = <<"public_key">>
  <2>1. \A n \in DOMAIN st.on : st.on[n] = "public_key"
    BY <1>4
  <2>2. "public_key" \notin d.columns => "public_key" \notin f.columns
    BY DEF Evolves, Dropped
  <2> QED
    BY <1>4, <2>1, <2>2 DEF Holds, Owed
<1>5. CASE st.op \in {"ensure-role", "ensure-ref", "channels", "capabilities", "attribute"}
  <2>1. "role" \in d.columns => "role" \in f.columns
    BY DEF Evolves, Dropped
  <2>2. "conversation_ref" \in d.columns => "conversation_ref" \in f.columns
    BY DEF Evolves, Dropped
  <2>3. "conversation_uuid" \notin d.columns => "conversation_uuid" \notin f.columns
    BY DEF Evolves, Dropped
  <2> QED
    BY <1>5, <2>1, <2>2, <2>3 DEF Holds, Owed, Evolves
<1> QED
  BY <1>2, <1>3, <1>4, <1>5, LaterForms

\* The programs, as the processes read them.
LEMMA ProgramRead ==
  ASSUME NEW p \in Processes
  PROVE  /\ Len(Program(p)) \in Nat /\ Len(Program(p)) > 0
         /\ Program(p)[1] = Do("connect", "main")
         /\ \A n \in 2..Len(Program(p)) : Program(p)[n] \in LaterStatements
<1>1. Program(p) \in Programs
  BY ProgramShape
<1> QED
  BY <1>1 DEF Programs

\* What a process has passed survives what others do to the database.
LEMMA ProgressKept ==
  ASSUME NEW p \in Processes, Progress(p), process'[p] = process[p],
         \/ main' = main
         \/ main # NULL /\ main' # NULL /\ Evolves(main, main')
         \/ main = NULL
  PROVE  Progress(p)'
<1>1. CASE main' = main
  BY <1>1 DEF Progress, Connected, Serving
<1>2. CASE main = NULL
  BY <1>2, ProgramRead DEF Progress, Connected, Serving
<1>3. CASE main # NULL /\ main' # NULL /\ Evolves(main, main')
  <2>1. ASSUME NEW n \in 1..Len(Program(p)), Holds(Program(p)[n], main)
        PROVE  Holds(Program(p)[n], main')
    <3>1. CASE n = 1
      BY <3>1, ProgramRead DEF Holds, Do
    <3>2. CASE n \in 2..Len(Program(p))
      BY <1>3, <2>1, <3>2, ProgramRead, HoldsStable
    <3> QED
      BY <3>1, <3>2, ProgramRead
  <2>2. ASSUME NEW n \in 2..Len(Program(p)), NEW todo, Owed(Program(p)[n], todo, main)
        PROVE  Owed(Program(p)[n], todo, main')
    BY <1>3, <2>2, ProgramRead, HoldsStable
  <2> QED
    BY <1>3, <2>1, <2>2 DEF Progress, Connected, Serving
<1> QED
  BY <1>1, <1>2, <1>3

\* A new database is sound.
LEMMA BlankHeld == Held(Blank) /\ ~Blank.messages
<1>1. << >> \in Evidence
  <2>1. << >> \in [{} -> [participant : Participants \union {NULL}, capability : BOOLEAN]]
    OBVIOUS
  <2> QED
    BY <2>1 DEF Evidence
<1>2. Blank \in Databases
  BY <1>1 DEF Blank, Databases
<1>3. Sound(Blank)
  BY DEF Sound, Truthful, Blank
<1> QED
  BY <1>2, <1>3 DEF Held, Blank

\* Then moves one process and leaves the other where it is.
LEMMA ThenMoves ==
  ASSUME process \in [Processes -> ProcessStates], NEW p \in Processes,
         NEW t \in SUBSET Nat, Then(p, t)
  PROVE  /\ process' \in [Processes -> ProcessStates]
         /\ process'[p].state = process[p].state /\ process'[p].todo = t
         /\ process'[p].at = IF t = {} THEN process[p].at + 1 ELSE process[p].at
         /\ \A q \in Processes \ {p} : process'[q] = process[q]
<1> DEFINE a == IF t = {} THEN process[p].at + 1 ELSE process[p].at
           r == [process[p] EXCEPT !.todo = t, !.at = a]
<1>1. process[p] \in ProcessStates
  OBVIOUS
<1>2. process' = [process EXCEPT ![p] = r]
  BY <1>1 DEF Then, ProcessStates
<1>3. a \in Nat
  BY <1>1 DEF ProcessStates
<1> HIDE DEF a
<1>4. r \in ProcessStates /\ r.state = process[p].state /\ r.todo = t /\ r.at = a
  BY <1>1, <1>3 DEF ProcessStates
<1> HIDE DEF r
<1> QED
  BY <1>2, <1>4 DEF a

\* A statement is done when what its look owes is done.
LEMMA StatementDone ==
  ASSUME process \in [Processes -> ProcessStates],
         NEW p \in Processes, Progress(p), Migrating(p), process[p].at > 1,
         main' = main \/ Evolves(main, main'), main' # NULL,
         NEW t \in SUBSET Nat, Then(p, t),
         LET here == Program(p)[process[p].at]
         IN IF t = {} THEN Holds(here, main')
            ELSE /\ here.op \in Looks /\ t \subseteq DOMAIN Statements(here)
                 /\ Owed(here, t, main')
  PROVE  Progress(p)'
<1> DEFINE at == process[p].at
           len == Len(Program(p))
<1>1. at \in 2..len /\ len \in Nat /\ process[p].state = "migrating"
  BY ProgramRead DEF Migrating, Initialized, Progress
<1>2. /\ process'[p].state = "migrating" /\ process'[p].todo = t
      /\ process'[p].at = IF t = {} THEN at + 1 ELSE at
  BY <1>1, ThenMoves
<1>3. ASSUME NEW n \in 1..len, n < at PROVE Holds(Program(p)[n], main')
  <2>1. Holds(Program(p)[n], main)
    BY <1>1, <1>3 DEF Progress, Connected
  <2>2. CASE n = 1
    BY <2>2, ProgramRead DEF Holds, Do
  <2>3. CASE n \in 2..len
    BY <2>1, <2>3, ProgramRead, HoldsStable
  <2> QED
    BY <1>1, <2>2, <2>3
<1>4. ASSUME NEW n \in 1..len, n < process'[p].at PROVE Holds(Program(p)[n], main')
  BY <1>1, <1>2, <1>3, <1>4
<1> HIDE DEF len
<1>5. CASE t = {}
  <2>1. process'[p].at \in 1..(len + 1)
    BY <1>1, <1>2, <1>5
  <2> QED
    BY <1>2, <1>4, <1>5, <2>1 DEF Progress, Connected, Serving, len
<1>6. CASE t # {}
  BY <1>1, <1>2, <1>4, <1>6 DEF Progress, Connected, Serving, len
<1> QED
  BY <1>5, <1>6

\* What a look decides on is what is missing.
LEMMA DecideOwed ==
  ASSUME NEW d, NEW look \in LaterStatements, look.op \in Looks
  PROVE  LET t == Decide(look, d.columns)
         IN /\ t \in SUBSET Nat /\ t \subseteq DOMAIN Statements(look)
            /\ t = {} => Holds(look, d)
            /\ t # {} => Owed(look, t, d)
<1>1. CASE look.op = "ensure" /\ look.on \in Seq(Added)
  <2>1. /\ Decide(look, d.columns) = {n \in DOMAIN look.on : look.on[n] \notin d.columns}
        /\ DOMAIN Statements(look) = DOMAIN look.on /\ DOMAIN look.on \subseteq Nat
    BY <1>1 DEF Decide, Statements
  <2> QED
    BY <1>1, <2>1 DEF Holds, Owed
<1>2. CASE look.op = "ensure-dropped" /\ look.on = <<"public_key">>
  <2>1. /\ Decide(look, d.columns) = {n \in DOMAIN look.on : look.on[n] \in d.columns}
        /\ DOMAIN Statements(look) = DOMAIN look.on /\ DOMAIN look.on \subseteq Nat
    BY <1>2 DEF Decide, Statements
  <2> QED
    BY <1>2, <2>1 DEF Holds, Owed
<1>3. CASE look.op = "ensure-role"
  <2>1. /\ Decide(look, d.columns) = IF "role" \in d.columns THEN {} ELSE {1, 2}
        /\ DOMAIN Statements(look) = {1, 2}
    BY <1>3 DEF Decide, Statements
  <2> QED
    BY <1>3, <2>1 DEF Holds, Owed
<1>4. CASE look.op = "ensure-ref"
  <2>1. /\ Decide(look, d.columns) = IF "conversation_ref" \in d.columns THEN {}
                                     ELSE IF "conversation_uuid" \in d.columns THEN {1} ELSE {2}
        /\ DOMAIN Statements(look) = {1, 2}
    BY <1>4 DEF Decide, Statements
  <2> QED
    BY <1>4, <2>1 DEF Holds, Owed
<1> QED
  BY <1>1, <1>2, <1>3, <1>4, LaterForms DEF Looks

\* The next statement of what a look decided on.
NextOf(look, todo, columns, m, st) ==
  \/ /\ look.op = "ensure" /\ look.on \in Seq(Added)
     /\ m \in DOMAIN look.on /\ st = Do("add", look.on[m])
  \/ /\ look.op = "ensure-dropped" /\ look.on = <<"public_key">>
     /\ m = 1 /\ st = Do("drop", "public_key")
  \/ look.op = "ensure-role" /\ m = 1 /\ st = Do("add", "role")
  \/ look.op = "ensure-role" /\ m = 2 /\ st = Do("promote", "role")
  \/ look.op = "ensure-ref" /\ todo = {1} /\ m = 1 /\ st = Do("rename", "conversation_uuid")
  \/ /\ look.op = "ensure-ref" /\ todo = {2} /\ m = 2 /\ st = Do("add", "conversation_ref")
     /\ "conversation_uuid" \notin columns

\* The first statement that is left of what a look decided on is one of these.
LEMMA NextOfLook ==
  ASSUME NEW d, NEW look \in LaterStatements, look.op \in Looks,
         NEW todo, todo # {}, todo \subseteq DOMAIN Statements(look), todo \subseteq Nat,
         Owed(look, todo, d)
  PROVE  /\ Min(todo) \in todo
         /\ {n \in todo : n > Min(todo)} = todo \ {Min(todo)}
         /\ NextOf(look, todo, d.columns, Min(todo), Statements(look)[Min(todo)])
<1> DEFINE m == Min(todo)
<1>1. m \in todo /\ \A n \in todo : m <= n
  BY LeastOf
<1> HIDE DEF m
<1>2. {n \in todo : n > m} = todo \ {m}
  <2>1. \A n \in todo : n > m <=> n # m
    BY <1>1
  <2> QED
    BY <2>1
<1>3. CASE look.op = "ensure" /\ look.on \in Seq(Added)
  <2>1. Statements(look) = [n \in DOMAIN look.on |-> Do("add", look.on[n])]
    BY <1>3 DEF Statements
  <2> QED
    BY <1>1, <1>2, <1>3, <2>1 DEF NextOf, m
<1>4. CASE look.op = "ensure-dropped" /\ look.on = <<"public_key">>
  <2>1. Statements(look) = [n \in DOMAIN look.on |-> Do("drop", look.on[n])]
    BY <1>4 DEF Statements
  <2>2. m = 1 /\ Statements(look)[m] = Do("drop", "public_key")
    BY <1>1, <1>4, <2>1
  <2> QED
    BY <1>1, <1>2, <1>4, <2>2 DEF NextOf, m
<1>5. CASE look.op = "ensure-role"
  <2>1. Statements(look) = <<Do("add", "role"), Do("promote", "role")>>
    BY <1>5 DEF Statements
  <2>2. m \in {1, 2}
    BY <1>1, <2>1
  <2> QED
    BY <1>1, <1>2, <1>5, <2>1, <2>2 DEF NextOf, m
<1>6. CASE look.op = "ensure-ref"
  <2>1. Statements(look) = <<Do("rename", "conversation_uuid"), Do("add", "conversation_ref")>>
    BY <1>6 DEF Statements
  <2>2. todo = {1} \/ (todo = {2} /\ "conversation_uuid" \notin d.columns)
    BY <1>6 DEF Owed
  <2> QED
    BY <1>1, <1>2, <1>6, <2>1, <2>2 DEF NextOf, m
<1> QED
  BY <1>3, <1>4, <1>5, <1>6, LaterForms DEF Looks

\* A statement that did its part leaves a look owing the rest.
LEMMA NextOfDone ==
  ASSUME NEW d, NEW f, Evolves(d, f),
         NEW look \in LaterStatements, NEW todo, NEW m \in todo, NEW st,
         NextOf(look, todo, d.columns, m, st), Owed(look, todo, d),
         st.op = "add" => st.on \in f.columns,
         st.op = "drop" => st.on \notin f.columns,
         st.op = "rename" => "conversation_ref" \in f.columns
  PROVE  IF todo \ {m} = {} THEN Holds(look, f) ELSE Owed(look, todo \ {m}, f)
<1>1. Owed(look, todo, f)
  BY HoldsStable
<1>2. CASE look.op = "ensure" /\ look.on \in Seq(Added)
           /\ m \in DOMAIN look.on /\ st = Do("add", look.on[m])
  <2>1. look.on[m] \in f.columns
    BY <1>2 DEF Do
  <2> QED
    BY <1>1, <1>2, <2>1 DEF Owed, Holds
<1>3. CASE look.op = "ensure-dropped" /\ look.on = <<"public_key">>
           /\ m = 1 /\ st = Do("drop", "public_key")
  <2>1. "public_key" \notin f.columns
    BY <1>3 DEF Do
  <2>2. \A n \in DOMAIN look.on : look.on[n] = "public_key"
    BY <1>3
  <2> QED
    BY <1>3, <2>1, <2>2 DEF Owed, Holds
<1>4. CASE look.op = "ensure-role" /\ m = 1 /\ st = Do("add", "role")
  BY <1>4 DEF Owed, Holds, Do
<1>5. CASE look.op = "ensure-role" /\ m = 2 /\ st = Do("promote", "role")
  BY <1>1, <1>5 DEF Owed, Holds
<1>6. CASE look.op = "ensure-ref" /\ todo = {1} /\ m = 1
           /\ st = Do("rename", "conversation_uuid")
  BY <1>6 DEF Holds, Do
<1>7. CASE look.op = "ensure-ref" /\ todo = {2} /\ m = 2
           /\ st = Do("add", "conversation_ref")
  BY <1>7 DEF Holds, Do
<1> QED
  BY <1>2, <1>3, <1>4, <1>5, <1>6, <1>7 DEF NextOf

\* A database that a step may leave: the one it found, grown, or a new one.
MainStep ==
  \/ main # NULL /\ main' # NULL /\ (main' = main \/ Evolves(main, main'))
  \/ main = NULL /\ main' = Blank

\* A step of a migration advances its process and takes nothing back.
LEMMA MigrationAdvances ==
  ASSUME process \in [Processes -> ProcessStates], NEW p \in Processes, Progress(p),
         main = NULL \/ Held(main), MigrationStep(p)
  PROVE  /\ Progress(p)' /\ MainStep
         /\ process' \in [Processes -> ProcessStates]
         /\ process[p].state = "migrating" /\ process'[p].state = "migrating"
         /\ \A q \in Processes \ {p} : process'[q] = process[q]
<1> DEFINE here == Program(p)[process[p].at]
           todo == process[p].todo
           rest == {n \in todo : n > Min(todo)}
           st == Statement(p)
<1>1. /\ Migrating(p) /\ process[p].state = "migrating"
      /\ process[p].at \in 1..Len(Program(p)) /\ Len(Program(p)) \in Nat /\ todo \in SUBSET Nat
  <2>1. Migrating(p)
    BY DEF MigrationStep, Connect, CreateTable, LookUp, AddColumn, DropColumn,
       PromoteAdministrator, RenameColumn, InsertChannels, BackfillCapabilities,
       BackfillParticipants, Running
  <2> QED
    BY <2>1, ProgramRead DEF Migrating, Initialized, Progress, ProcessStates
<1>2. rest \in SUBSET Nat
  BY <1>1
<1>3. CASE process[p].at = 1
  <2>1. todo = {}
    BY <1>1, <1>3 DEF Progress
  <2>2. st = Do("connect", "main")
    BY <1>3, <2>1, ProgramRead DEF Statement
  <2>3. Connect(p)
    BY <2>2 DEF MigrationStep, CreateTable, LookUp, AddColumn, DropColumn,
       PromoteAdministrator, RenameColumn, InsertChannels, BackfillCapabilities,
       BackfillParticipants, Running, Do, Looks
  <2>4. /\ process' \in [Processes -> ProcessStates]
        /\ process'[p].state = "migrating" /\ process'[p].todo = {} /\ process'[p].at = 2
        /\ \A q \in Processes \ {p} : process'[q] = process[q]
    BY <1>1, <1>3, <2>3, ThenMoves DEF Connect
  <2>5. MainStep /\ main' # NULL
    BY <2>3, BlankHeld, MigrationConstants DEF Connect, MainStep, Held
  <2>6. Holds(Program(p)[1], main')
    BY ProgramRead DEF Holds, Do
  <2>7. Progress(p)'
    BY <1>1, <2>4, <2>5, <2>6 DEF Progress, Connected, Serving
  <2> QED
    BY <1>1, <2>4, <2>5, <2>7
<1>4. CASE process[p].at > 1
  <2>1. main # NULL /\ main \in Databases /\ Sound(main)
    BY <1>1, <1>4 DEF Progress, Connected, Held
  <2>2. here \in LaterStatements
    BY <1>1, <1>4, ProgramRead
  <2>3. ASSUME NEW t \in SUBSET Nat, Then(p, t), main' = main \/ Evolves(main, main'),
               IF t = {} THEN Holds(here, main')
               ELSE /\ here.op \in Looks /\ t \subseteq DOMAIN Statements(here)
                    /\ Owed(here, t, main')
        PROVE  /\ Progress(p)' /\ MainStep
               /\ process' \in [Processes -> ProcessStates]
               /\ process'[p].state = "migrating"
               /\ \A q \in Processes \ {p} : process'[q] = process[q]
    <3>1. main' # NULL
      BY <2>1, <2>3, MigrationConstants DEF Evolves
    <3>2. Progress(p)'
      BY <1>1, <1>4, <2>3, <3>1, StatementDone
    <3>3. MainStep
      BY <2>1, <2>3, <3>1 DEF MainStep
    <3> QED
      BY <1>1, <2>3, <3>2, <3>3, ThenMoves
  <2>4. CASE todo = {}
    <3>1. st = here /\ rest = {}
      BY <2>4 DEF Statement
    <3>2. ~\E op \in {"connect", "add", "drop", "promote", "rename"} : Running(p, op)
      BY <2>2, <3>1, LaterForms DEF Running
    <3>3. ASSUME CreateTable(p) PROVE Evolves(main, main') /\ Holds(here, main') /\ Then(p, {})
      <4>1. here.op = "create" /\ here.on \in {"board", "policy", "execution"}
        BY <2>2, <3>1, <3>3, LaterForms DEF CreateTable, Running
      <4>2. Then(p, {})
        BY <3>1, <3>3 DEF CreateTable, Change
      <4>3. Evolves(main, main') /\ here.on \in main'.tables
        BY <2>1, <3>1, <3>3, <4>1, CreateEvolves DEF CreateTable, Change
      <4> QED
        BY <4>1, <4>2, <4>3 DEF Holds
    <3>4. ASSUME LookUp(p)
          PROVE  /\ main' = main /\ here.op \in Looks
                 /\ Then(p, Decide(here, main.columns))
      BY <3>1, <3>4 DEF LookUp
    <3>5. ASSUME InsertChannels(p) PROVE Evolves(main, main') /\ Holds(here, main') /\ Then(p, {})
      <4>1. here.op = "channels"
        BY <3>1, <3>5 DEF InsertChannels, Running
      <4>2. /\ main' = [main EXCEPT !.channel = @ \/ main.messages]
            /\ Then(p, {})
        BY <3>1, <3>5 DEF InsertChannels, Change
      <4>3. Evolves(main, main')
        BY <2>1, <4>2, RowsEvolve
      <4>4. main'.messages => main'.channel
        BY <2>1, <4>2 DEF Databases
      <4> QED
        BY <4>1, <4>2, <4>3, <4>4 DEF Holds
    <3>6. ASSUME BackfillCapabilities(p)
          PROVE  Evolves(main, main') /\ Holds(here, main') /\ Then(p, {})
      <4>1. here.op = "capabilities"
        BY <3>1, <3>6 DEF BackfillCapabilities, Running
      <4>2. /\ main' = [main EXCEPT !.evidence =
                          [e \in DOMAIN @ |-> [@[e] EXCEPT !.capability = TRUE]]]
            /\ Then(p, {})
        BY <3>1, <3>6 DEF BackfillCapabilities, Change
      <4>3. Evolves(main, main') /\ Capable(main')
        BY <2>1, <4>2, BackfillsEvolve
      <4> QED
        BY <4>1, <4>2, <4>3 DEF Holds
    <3>7. ASSUME BackfillParticipants(p)
          PROVE  Evolves(main, main') /\ Holds(here, main') /\ Then(p, {})
      <4>1. here.op = "attribute"
        BY <3>1, <3>7 DEF BackfillParticipants, Running
      <4>2. /\ main' = [main EXCEPT !.evidence =
                          [e \in DOMAIN @ |-> [@[e] EXCEPT !.participant = Attribution(main, e)]]]
            /\ Then(p, {})
        BY <3>1, <3>7 DEF BackfillParticipants, Change
      <4>3. Evolves(main, main') /\ Attributed(main')
        BY <2>1, <4>2, BackfillsEvolve
      <4> QED
        BY <4>1, <4>2, <4>3 DEF Holds
    <3>8. \/ CreateTable(p) \/ LookUp(p) \/ InsertChannels(p)
          \/ BackfillCapabilities(p) \/ BackfillParticipants(p)
      BY <3>2 DEF MigrationStep, Connect, AddColumn, DropColumn, PromoteAdministrator,
         RenameColumn
    <3>9. CASE LookUp(p)
      <4> DEFINE t == Decide(here, main.columns)
      <4>1. main' = main /\ here.op \in Looks /\ Then(p, t)
        BY <3>4, <3>9
      <4>2. /\ t \in SUBSET Nat /\ t \subseteq DOMAIN Statements(here)
            /\ t = {} => Holds(here, main)
            /\ t # {} => Owed(here, t, main)
        BY <2>2, <4>1, DecideOwed
      <4> HIDE DEF t, here
      <4> QED
        BY <1>1, <2>3, <4>1, <4>2
    <3>10. CASE Evolves(main, main') /\ Holds(here, main') /\ Then(p, {})
      BY <1>1, <2>3, <3>10
    <3> QED
      BY <3>3, <3>5, <3>6, <3>7, <3>8, <3>9, <3>10
  <2>5. CASE todo # {}
    <3> DEFINE m == Min(todo)
    <3>1. /\ here.op \in Looks /\ todo \subseteq DOMAIN Statements(here) /\ Owed(here, todo, main)
      BY <1>1, <2>5 DEF Progress
    <3>2. /\ m \in todo /\ rest = todo \ {m}
          /\ NextOf(here, todo, main.columns, m, st)
      BY <1>1, <2>2, <2>5, <3>1, NextOfLook DEF Statement
    <3>3. st.op \in {"add", "drop", "promote", "rename"}
      BY <3>2 DEF NextOf, Do
    <3>4. AddColumn(p) \/ DropColumn(p) \/ PromoteAdministrator(p) \/ RenameColumn(p)
      BY <3>3 DEF MigrationStep, Connect, CreateTable, LookUp, InsertChannels,
         BackfillCapabilities, BackfillParticipants, Running, Looks
    <3>5. ASSUME AddColumn(p) PROVE Evolves(main, main') /\ st.on \in main'.columns
      <4>1. main' = [main EXCEPT !.columns = main.columns \union {st.on}] /\ st.op = "add"
        BY <3>5 DEF AddColumn, Change, Running
      <4>2. /\ st.on \in Columns \ Dropped
            /\ st.on = "conversation_ref" => "conversation_uuid" \notin main.columns
        <5>1. CASE \E c \in Added : st.on = c
          BY <5>1 DEF Added
        <5>2. CASE st.on = "role"
          BY <5>2 DEF Columns, Dropped
        <5>3. CASE st.on = "conversation_ref" /\ "conversation_uuid" \notin main.columns
          BY <5>3 DEF Columns, Dropped
        <5> QED
          BY <3>2, <4>1, <5>1, <5>2, <5>3 DEF NextOf, Do
      <4>3. main.columns \union {st.on} \in SUBSET Columns
        BY <2>1, <4>2 DEF Databases
      <4> QED
        BY <2>1, <4>1, <4>2, <4>3, ColumnsEvolve DEF Databases
    <3>6. ASSUME DropColumn(p) PROVE Evolves(main, main') /\ st.on \notin main'.columns
      <4>1. main' = [main EXCEPT !.columns = main.columns \ {st.on}] /\ st.op = "drop"
        BY <3>6 DEF DropColumn, Change, Running
      <4>2. st.on = "public_key"
        BY <3>2, <4>1 DEF NextOf, Do
      <4>3. main.columns \ {st.on} \in SUBSET Columns
        BY <2>1 DEF Databases
      <4> QED
        BY <2>1, <4>1, <4>2, <4>3, ColumnsEvolve DEF Databases
    <3>7. ASSUME PromoteAdministrator(p) PROVE Evolves(main, main') /\ st.op = "promote"
      BY <2>1, <3>7, RowsEvolve DEF PromoteAdministrator, Change, Running
    <3>8. ASSUME RenameColumn(p)
          PROVE  /\ Evolves(main, main') /\ "conversation_ref" \in main'.columns
                 /\ st.op = "rename"
      <4> DEFINE columns == (main.columns \ {"conversation_uuid"}) \union {"conversation_ref"}
      <4>1. /\ main' = [main EXCEPT !.columns = (main.columns \ {st.on})
                                                   \union {"conversation_ref"}]
            /\ st.op = "rename"
        BY <3>8 DEF RenameColumn, Change, Running
      <4>2. st.on = "conversation_uuid"
        BY <3>2, <4>1 DEF NextOf, Do
      <4>3. main' = [main EXCEPT !.columns = columns] /\ columns \in SUBSET Columns
        BY <2>1, <4>1, <4>2 DEF Databases, Columns
      <4> QED
        BY <2>1, <4>1, <4>3, ColumnsEvolve DEF Databases
    <3>9. /\ Evolves(main, main') /\ Then(p, rest)
          /\ st.op = "add" => st.on \in main'.columns
          /\ st.op = "drop" => st.on \notin main'.columns
          /\ st.op = "rename" => "conversation_ref" \in main'.columns
      <4>1. Then(p, rest)
        BY <3>4 DEF AddColumn, DropColumn, PromoteAdministrator, RenameColumn, Change
      <4>2. /\ AddColumn(p) => st.op = "add"
            /\ DropColumn(p) => st.op = "drop"
        BY DEF AddColumn, DropColumn, Running
      <4> HIDE DEF rest, st
      <4> QED
        BY <3>4, <3>5, <3>6, <3>7, <3>8, <4>1, <4>2
    <3>10. IF rest = {} THEN Holds(here, main') ELSE Owed(here, rest, main')
      <4> HIDE DEF here, m, st, todo, rest
      <4> QED
        BY <2>2, <3>1, <3>2, <3>9, NextOfDone
    <3>11. rest \subseteq DOMAIN Statements(here)
      BY <3>1
    <3> HIDE DEF here, rest
    <3> QED
      BY <1>1, <1>2, <2>3, <3>1, <3>9, <3>10, <3>11
  <2> QED
    BY <2>4, <2>5
<1> QED
  BY <1>1, <1>3, <1>4

--------------------------------------------------------------------------------
(* The files and the commands *)

ServiceKinds == {"uninstall", "stop", "restart"}
StartSteps == {"query", "start", "await-running"}
ServiceSteps == {"query", "stop", "start", "await-stopped", "await-running", "delete"}
BackupSteps == {"vacuum", "clear", "rename"}
RestoreSteps == {"vacuum", "clear", "clear-wal", "rename"}

ServiceCommands ==
  {NoCommand} \union [kind : {"start"}, step : StartSteps, force : {FALSE}]
              \union [kind : ServiceKinds, step : ServiceSteps, force : {FALSE}]

CommandStates ==
  ServiceCommands \union [kind : {"backup"}, step : BackupSteps, force : {FALSE}]
                  \union [kind : {"restore"}, step : RestoreSteps, force : BOOLEAN]

\* A command of the service is none of the files.
LEMMA ServiceForms ==
  ASSUME NEW c \in ServiceCommands
  PROVE  \/ c = NoCommand /\ c.kind = "none" /\ c.step = "idle"
         \/ /\ c \in [kind : {"start"}, step : StartSteps, force : {FALSE}]
            /\ c.kind = "start" /\ c.step \in StartSteps
         \/ /\ c \in [kind : ServiceKinds, step : ServiceSteps, force : {FALSE}]
            /\ c.kind \in ServiceKinds /\ c.step \in ServiceSteps
<1>1. CASE c = NoCommand
  BY <1>1 DEF NoCommand
<1>2. CASE c \in [kind : {"start"}, step : StartSteps, force : {FALSE}]
  BY <1>2
<1>3. CASE c \in [kind : ServiceKinds, step : ServiceSteps, force : {FALSE}]
  BY <1>3
<1> QED
  BY <1>1, <1>2, <1>3 DEF ServiceCommands

\* Where a command is tells what it is.
LEMMA CommandForms ==
  ASSUME NEW c \in CommandStates
  PROVE  /\ c \in ServiceCommands <=> c.kind \notin {"backup", "restore"}
         /\ c.step \in ServiceSteps =>
              c \in ServiceCommands /\ c.kind \in {"start"} \union ServiceKinds
         /\ c.kind = "start" => c \in [kind : {"start"}, step : StartSteps, force : {FALSE}]
         /\ c.kind \in ServiceKinds =>
              c \in [kind : ServiceKinds, step : ServiceSteps, force : {FALSE}]
         /\ c.kind = "backup" => c \in [kind : {"backup"}, step : BackupSteps, force : {FALSE}]
         /\ c.kind = "restore" => c \in [kind : {"restore"}, step : RestoreSteps, force : BOOLEAN]
<1>1. c \in ServiceCommands => c.kind \notin {"backup", "restore"}
  BY ServiceForms DEF ServiceKinds
<1>2. CASE c \in ServiceCommands
  BY <1>1, <1>2, ServiceForms DEF ServiceKinds, ServiceSteps, StartSteps
<1>3. CASE c \in [kind : {"backup"}, step : BackupSteps, force : {FALSE}]
  <2>1. c.kind = "backup" /\ c.step \in BackupSteps
    BY <1>3
  <2> QED
    BY <1>1, <1>3, <2>1 DEF BackupSteps, ServiceSteps, ServiceKinds
<1>4. CASE c \in [kind : {"restore"}, step : RestoreSteps, force : BOOLEAN]
  <2>1. c.kind = "restore" /\ c.step \in RestoreSteps
    BY <1>4
  <2> QED
    BY <1>1, <1>4, <2>1 DEF RestoreSteps, ServiceSteps, ServiceKinds
<1> QED
  BY <1>2, <1>3, <1>4 DEF CommandStates

\* A command goes on to a step of its kind, or ends.
LEMMA CommandGoes ==
  ASSUME NEW step, command \in CommandStates, Goto(step),
         \/ step \in {"done", "error"}
         \/ command.kind = "start" /\ step \in StartSteps
         \/ command.kind \in ServiceKinds /\ step \in ServiceSteps
         \/ command.kind = "backup" /\ step \in BackupSteps
         \/ command.kind = "restore" /\ step \in RestoreSteps
  PROVE  /\ command' \in CommandStates
         /\ command.kind \notin {"backup", "restore"} => command'.kind \notin {"backup", "restore"}
         /\ IF step \in {"done", "error"}
            THEN command' = NoCommand /\ command'.kind = "none"
            ELSE /\ command'.kind = command.kind /\ command'.step = step
                 /\ command'.force = command.force
<1>1. CASE step \in {"done", "error"}
  BY <1>1 DEF Goto, NoCommand, CommandStates, ServiceCommands
<1>2. CASE step \notin {"done", "error"}
  <2>1. command' = [command EXCEPT !.step = step]
    BY <1>2 DEF Goto
  <2>2. CASE command.kind = "start" /\ step \in StartSteps
    <3>1. command \in [kind : {"start"}, step : StartSteps, force : {FALSE}]
      BY <2>2, CommandForms
    <3> QED
      BY <1>2, <2>1, <2>2, <3>1 DEF CommandStates, ServiceCommands
  <2>3. CASE command.kind \in ServiceKinds /\ step \in ServiceSteps
    <3>1. command \in [kind : ServiceKinds, step : ServiceSteps, force : {FALSE}]
      BY <2>3, CommandForms
    <3>2. command' \in [kind : ServiceKinds, step : ServiceSteps, force : {FALSE}]
      BY <2>1, <2>3, <3>1
    <3> QED
      BY <1>2, <2>1, <2>3, <3>1, <3>2 DEF CommandStates, ServiceCommands
  <2>4. CASE command.kind = "backup" /\ step \in BackupSteps
    <3>1. command \in [kind : {"backup"}, step : BackupSteps, force : {FALSE}]
      BY <2>4, CommandForms
    <3> QED
      BY <1>2, <2>1, <2>4, <3>1 DEF CommandStates
  <2>5. CASE command.kind = "restore" /\ step \in RestoreSteps
    <3>1. command \in [kind : {"restore"}, step : RestoreSteps, force : BOOLEAN]
      BY <2>5, CommandForms
    <3> QED
      BY <1>2, <2>1, <2>5, <3>1 DEF CommandStates
  <2> QED
    BY <1>2, <2>2, <2>3, <2>4, <2>5
<1> QED
  BY <1>1, <1>2

Processing ==
  /\ process \in [Processes -> ProcessStates]
  /\ \A p \in Processes : Progress(p)

\* A copy that was killed is never renamed into place.
Files ==
  /\ \A file \in {main, backup} : file = NULL \/ Held(file)
  /\ \A file \in {backupTmp, restoreTmp} : file = NULL \/ file = Partial \/ Held(file)

\* A restore has the installation to itself, and a complete copy of the backup
\* once it removes anything; a backup has its database, and a complete copy of it.
Commands ==
  /\ command \in CommandStates
  /\ command.kind = "restore" =>
       /\ \A p \in Processes : process[p].state = "down"
       /\ ~recovery /\ backup # NULL
       /\ command.step # "vacuum" => restoreTmp = backup
       /\ command.step = "rename" /\ command.force => journal # "foreign"
  /\ command.kind = "backup" =>
       /\ main # NULL
       /\ command.step # "vacuum" => Held(backupTmp)

\* Until a start finds no database, the record is in every complete copy, and there
\* is one.
Recorded ==
  ~lostSight =>
    /\ \A file \in {main, backup} \ {NULL} : file.messages
    /\ main # NULL \/ backup # NULL
    /\ command.kind = "backup" /\ command.step # "vacuum" => backupTmp.messages

Installed == Processing /\ Files /\ Commands /\ Recorded

Launched == [Down EXCEPT !.state = "launched"]
Serves == [Down EXCEPT !.state = "serving"]

\* A process that is launched, started, ended or killed leaves the others alone; one
\* that begins to serve has done its whole program.
LEMMA ProcessMoved ==
  ASSUME Processing, main' = main, NEW p \in Processes,
         NEW r \in {Down, Launched, AtStart, Serves}, r = Serves => Initialized(p),
         process' = [process EXCEPT ![p] = r]
  PROVE  Processing'
<1>1. process \in [Processes -> ProcessStates] /\ \A q \in Processes : Progress(q)
  BY DEF Processing
<1>2. r \in ProcessStates
  BY DEF ProcessStates, Down, Launched, AtStart, Serves
<1>3. process' \in [Processes -> ProcessStates]
  BY <1>1, <1>2
<1>4. ASSUME NEW q \in Processes PROVE Progress(q)'
  <2>1. CASE q # p
    <3>1. process'[q] = process[q]
      BY <1>1, <2>1
    <3> QED
      BY <1>1, <3>1, ProgressKept
  <2>2. CASE q = p /\ r \in {Down, Launched}
    <3>1. process'[q] = r /\ r.state \notin {"migrating", "serving"}
      BY <1>1, <2>2 DEF Down, Launched
    <3> QED
      BY <3>1 DEF Progress, Connected, Serving
  <2>3. CASE q = p /\ r = AtStart
    <3>1. process'[q].state = "migrating" /\ process'[q].at = 1 /\ process'[q].todo = {}
      BY <1>1, <2>3 DEF AtStart
    <3>2. Len(Program(q)) \in Nat
      BY ProgramRead
    <3> QED
      BY <3>1, <3>2 DEF Progress, Connected, Serving
  <2>4. CASE q = p /\ r = Serves
    <3>1. process'[q].state = "serving"
      BY <1>1, <2>4 DEF Serves, Down
    <3>2. process[q].state = "migrating" /\ process[q].at > Len(Program(q))
      BY <2>4 DEF Initialized
    <3>3. Len(Program(q)) \in Nat /\ Len(Program(q)) > 0
      BY ProgramRead
    <3>4. process[q].at \in Nat
      BY <1>1 DEF ProcessStates
    <3>5. Connected(q)
      BY <3>2, <3>3, <3>4 DEF Connected
    <3>6. main # NULL /\ \A n \in 1..Len(Program(q)) : Holds(Program(q)[n], main)
      <4>1. \A n \in 1..Len(Program(q)) : n < process[q].at
        BY <3>2, <3>3, <3>4
      <4> QED
        BY <1>1, <3>5, <4>1 DEF Progress
    <3> QED
      BY <3>1, <3>6 DEF Progress, Connected, Serving
  <2> QED
    BY <2>1, <2>2, <2>3, <2>4
<1> QED
  BY <1>3, <1>4 DEF Processing

\* Processes of which none runs a program claim nothing of the database.
LEMMA NobodyRuns ==
  ASSUME process' \in [Processes -> {Down, Launched}]
  PROVE  Processing'
<1>1. {Down, Launched} \subseteq ProcessStates
  BY DEF ProcessStates, Down, Launched
<1>2. process' \in [Processes -> ProcessStates]
  BY <1>1
<1>3. ASSUME NEW q \in Processes PROVE Progress(q)'
  <2>1. process'[q].state \notin {"migrating", "serving"}
    BY DEF Down, Launched
  <2> QED
    BY <2>1 DEF Progress, Connected, Serving
<1> QED
  BY <1>2, <1>3 DEF Processing

\* A statement of a migration, or an execution, by one process leaves what every
\* process has passed.
LEMMA DatabaseGrows ==
  ASSUME Processing, Files, NEW p \in Processes, MigrationStep(p) \/ Execute(p)
  PROVE  /\ Processing' /\ main' # NULL /\ Held(main')
         /\ main # NULL => (main.messages => main'.messages)
         /\ process[p].state # "down"
<1>1. process \in [Processes -> ProcessStates] /\ \A q \in Processes : Progress(q)
  BY DEF Processing
<1>2. main = NULL \/ Held(main)
  BY DEF Files
<1>3. Blank # NULL
  BY BlankHeld, MigrationConstants DEF Held
<1>4. CASE MigrationStep(p)
  <2>1. /\ Progress(p)' /\ MainStep
        /\ process' \in [Processes -> ProcessStates]
        /\ process[p].state = "migrating"
        /\ \A q \in Processes \ {p} : process'[q] = process[q]
    BY <1>1, <1>2, <1>4, MigrationAdvances
  <2>2. ASSUME NEW q \in Processes PROVE Progress(q)'
    <3>1. CASE q = p
      BY <2>1, <3>1
    <3>2. CASE q # p
      BY <1>1, <2>1, <3>2, ProgressKept DEF MainStep
    <3> QED
      BY <3>1, <3>2
  <2>3. /\ main' # NULL /\ Held(main')
        /\ main # NULL => (main.messages => main'.messages)
    BY <1>2, <1>3, <2>1, BlankHeld DEF MainStep, Evolves, Held
  <2> QED
    BY <2>1, <2>2, <2>3 DEF Processing
<1>5. CASE Execute(p)
  <2>1. Serving(p) /\ main # NULL /\ process' = process
    BY <1>5 DEF Execute
  <2>2. Evolves(main, main')
    <3>1. PICK e \in NewExecutions \ DOMAIN main.evidence :
            main' = [main EXCEPT !.messages = TRUE, !.channel = TRUE,
                       !.evidence = [g \in DOMAIN @ \union {e} |->
                          IF g = e THEN [participant |-> e[1], capability |-> TRUE] ELSE @[g]]]
      BY <1>5 DEF Execute
    <3> QED
      BY <1>2, <2>1, <3>1, ExecutionEvolves DEF Held
  <2>3. main' # NULL
    BY <2>2, MigrationConstants DEF Evolves
  <2>4. \A q \in Processes : Progress(q)'
    BY <1>1, <2>1, <2>2, <2>3, ProgressKept
  <2> QED
    BY <1>1, <2>1, <2>2, <2>3, <2>4 DEF Processing, Evolves, Held, Serving
<1> QED
  BY <1>4, <1>5

\* A step that leaves the database and the processes keeps what they have passed.
LEMMA ProcessingKept ==
  ASSUME Processing, UNCHANGED <<main, process>>
  PROVE  Processing'
BY DEF Processing, Progress, Connected, Serving

\* A step of a process, while no restore is under way.
LEMMA ProcessSteps ==
  ASSUME Installed, Processing', UNCHANGED <<fileVars, command>>,
         command.kind # "restore", lostSight => lostSight',
         \/ main' = main
         \/ /\ main' # NULL /\ Held(main')
            /\ IF main = NULL THEN lostSight' ELSE main.messages => main'.messages
  PROVE  Installed'
<1>1. UNCHANGED <<backup, backupTmp, restoreTmp, command>>
  BY DEF fileVars
<1>2. Files'
  BY <1>1 DEF Installed, Files
<1>3. Commands'
  BY <1>1 DEF Installed, Commands
<1>4. Recorded'
  <2> SUFFICES ASSUME ~lostSight'
               PROVE  /\ main' # NULL => main'.messages
                      /\ backup # NULL => backup.messages
                      /\ main' # NULL \/ backup # NULL
                      /\ command.kind = "backup" /\ command.step # "vacuum" => backupTmp.messages
    BY <1>1 DEF Recorded
  <2> QED
    BY DEF Installed, Recorded
<1> QED
  BY <1>2, <1>3, <1>4 DEF Installed

\* A step after which no backup and no restore is under way.
LEMMA CommandSteps ==
  ASSUME Installed, Processing', Files', UNCHANGED <<main, backup, lostSight>>,
         command' \in CommandStates, command'.kind \notin {"backup", "restore"}
  PROVE  Installed'
<1>1. Commands'
  BY DEF Commands
<1>2. Recorded'
  BY DEF Installed, Recorded
<1> QED
  BY <1>1, <1>2 DEF Installed

\* Nothing else runs while a restore is under way.
LEMMA RestoreAlone ==
  ASSUME Installed, \/ recovery
                    \/ \E p \in Processes : process[p].state # "down"
  PROVE  command.kind # "restore"
BY DEF Installed, Commands

\* Every step of the service keeps the installation in order.
LEMMA ServiceProcessSteps ==
  ASSUME Installed, ServiceStep \/ BindFails \/ ServiceKilled
  PROVE  Installed'
<1>1. Processing /\ Files
  BY DEF Installed
<1>2. "service" \in Processes
  BY DEF Processes
<1>3. ASSUME NEW r \in {Down, Launched, AtStart, Serves}, r = Serves => Initialized("service"),
             process' = [process EXCEPT !["service"] = r],
             UNCHANGED <<main, operatorVars, lostSight>>,
             process["service"].state # "down" \/ recovery
      PROVE  Installed'
  <2>1. Processing'
    BY <1>1, <1>2, <1>3, ProcessMoved
  <2>2. command.kind # "restore"
    BY <1>2, <1>3, RestoreAlone
  <2> QED
    BY <1>3, <2>1, <2>2, ProcessSteps DEF operatorVars
<1>4. CASE /\ MigrationStep("service") /\ lostSight' = (lostSight \/ main = NULL)
           /\ UNCHANGED operatorVars
  <2>1. /\ Processing' /\ main' # NULL /\ Held(main')
        /\ main # NULL => (main.messages => main'.messages)
        /\ process["service"].state # "down"
    BY <1>1, <1>2, <1>4, DatabaseGrows
  <2>2. command.kind # "restore"
    BY <1>2, <2>1, RestoreAlone
  <2> QED
    BY <1>4, <2>1, <2>2, ProcessSteps DEF operatorVars
<1>5. CASE ReportRunning
  BY <1>3, <1>5 DEF ReportRunning, faultVars, AtStart, Serves, Down
<1>6. CASE Bind
  BY <1>3, <1>6 DEF Bind, Serves, faultVars, Initialized
<1>7. ASSUME NEW failed, ServiceEnds(failed), process["service"].state # "down"
      PROVE  Installed'
  BY <1>3, <1>7 DEF ServiceEnds, Down, Serves
<1>8. CASE Shutdown
  BY <1>7, <1>8 DEF Shutdown, Serving
<1>9. CASE StartFails
  BY <1>7, <1>9 DEF StartFails, Refused, Running, Migrating
<1>10. CASE BindFails
  BY <1>7, <1>10 DEF BindFails, Initialized
<1>11. CASE ServiceKilled
  BY <1>3, <1>11 DEF ServiceKilled, Open, Down, Serves
<1>12. CASE ScmRestarts
  BY <1>3, <1>12 DEF ScmRestarts, Launch, Launched, Down, Serves, faultVars
<1> QED
  BY <1>4, <1>5, <1>6, <1>8, <1>9, <1>10, <1>11, <1>12 DEF ServiceStep

\* And so does every step of the second process.
LEMMA CliProcessSteps ==
  ASSUME Installed, CliStep \/ CliStart \/ CliKilled
  PROVE  Installed'
<1>1. Processing /\ Files
  BY DEF Installed
<1>2. "cli" \in Processes
  BY DEF Processes
<1>3. ASSUME NEW r \in {Down, AtStart, Serves}, r = Serves => Initialized("cli"),
             process' = [process EXCEPT !["cli"] = r],
             UNCHANGED <<main, fileVars, command, lostSight>>,
             process["cli"].state # "down" \/ command.kind # "restore"
      PROVE  Installed'
  <2>1. Processing'
    BY <1>1, <1>2, <1>3, ProcessMoved
  <2>2. command.kind # "restore"
    BY <1>2, <1>3, RestoreAlone
  <2> QED
    BY <1>3, <2>1, <2>2, ProcessSteps
<1>4. CASE /\ MigrationStep("cli") /\ lostSight' = (lostSight \/ main = NULL)
           /\ UNCHANGED operatorVars
  <2>1. /\ Processing' /\ main' # NULL /\ Held(main')
        /\ main # NULL => (main.messages => main'.messages)
        /\ process["cli"].state # "down"
    BY <1>1, <1>2, <1>4, DatabaseGrows
  <2>2. command.kind # "restore"
    BY <1>2, <2>1, RestoreAlone
  <2> QED
    BY <1>4, <2>1, <2>2, ProcessSteps DEF operatorVars
<1>5. CASE CliServes
  BY <1>3, <1>5 DEF CliServes, Serves, operatorVars, faultVars, Initialized
<1>6. CASE CliEnds
  BY <1>3, <1>6 DEF CliEnds, Serving, Refused, Running, Migrating, Serves, Down, operatorVars, faultVars
<1>7. CASE CliStart
  BY <1>3, <1>7 DEF CliStart, AtStart, Serves, Down, faultVars
<1>8. CASE CliKilled
  BY <1>3, <1>8 DEF CliKilled, Open, Serves, Down, operatorVars
<1> QED
  BY <1>4, <1>5, <1>6, <1>7, <1>8 DEF CliStep

\* An execution adds to the record.
LEMMA ExecuteSteps ==
  ASSUME Installed, NEW p \in Processes, Executes(p)
  PROVE  Installed'
<1>1. Execute(p) /\ UNCHANGED <<fileVars, command, lostSight>>
  BY DEF Executes, operatorVars, faultVars
<1>2. /\ Processing' /\ main' # NULL /\ Held(main')
      /\ main # NULL => (main.messages => main'.messages)
      /\ process[p].state # "down"
  BY <1>1, DatabaseGrows DEF Installed
<1>3. main # NULL /\ command.kind # "restore"
  BY <1>1, <1>2, RestoreAlone DEF Execute
<1> QED
  BY <1>1, <1>2, <1>3, ProcessSteps

\* The steps of the service commands.
LEMMA ServiceCommandSteps ==
  ASSUME Installed,
         \/ QueryStatus \/ SendStop \/ SendStart \/ WaitForState \/ DeleteService
         \/ Install \/ ServiceCommand
  PROVE  Installed'
<1>1. Processing /\ Files /\ command \in CommandStates
  BY DEF Installed, Commands
<1>2. ASSUME Processing', UNCHANGED <<main, fileVars, lostSight>>,
             command' \in CommandStates, command'.kind \notin {"backup", "restore"}
      PROVE  Installed'
  <2>1. UNCHANGED <<backup, backupTmp, restoreTmp>>
    BY <1>2 DEF fileVars
  <2>2. Files'
    BY <1>1, <1>2, <2>1 DEF Files
  <2> QED
    BY <1>2, <2>1, <2>2, CommandSteps
<1>3. ASSUME NEW step, Goto(step), command.step \in ServiceSteps,
             \/ step \in {"done", "error"}
             \/ command.kind = "start" /\ step \in StartSteps
             \/ command.kind \in ServiceKinds /\ step \in ServiceSteps
      PROVE  command' \in CommandStates /\ command'.kind \notin {"backup", "restore"}
  BY <1>1, <1>3, CommandForms, CommandGoes DEF ServiceKinds
<1>4. ASSUME UNCHANGED <<schemaVars, fileVars, faultVars>>,
             command' \in CommandStates, command'.kind \notin {"backup", "restore"}
      PROVE  Installed'
  <2>1. UNCHANGED <<main, process, lostSight>>
    BY <1>4 DEF schemaVars, faultVars
  <2> QED
    BY <1>1, <1>2, <1>4, <2>1, ProcessingKept
<1>5. command.step \in ServiceSteps => command.kind \in {"start"} \union ServiceKinds
  BY <1>1, CommandForms
<1>6. CASE QueryStatus
  <2> DEFINE step == IF command.kind = "start" THEN IF scm = "running" THEN "done" ELSE "start"
                     ELSE IF scm = "stopped" THEN OnceStopped ELSE "stop"
  <2>1. command.step = "query" /\ Goto(step) /\ UNCHANGED <<schemaVars, fileVars, faultVars>>
    BY <1>6 DEF QueryStatus
  <2>2. command.step \in ServiceSteps
    BY <2>1 DEF ServiceSteps
  <2>3. \/ step \in {"done", "error"}
        \/ command.kind = "start" /\ step \in StartSteps
        \/ command.kind \in ServiceKinds /\ step \in ServiceSteps
    <3>1. CASE command.kind = "start"
      BY <3>1 DEF StartSteps
    <3>2. CASE command.kind \in ServiceKinds
      <4>1. step \in {"stop", "done", "delete", "start"}
        BY <3>2 DEF ServiceKinds, OnceStopped
      <4> HIDE DEF step
      <4> QED
        BY <3>2, <4>1 DEF ServiceSteps
    <3> QED
      BY <1>5, <2>2, <3>1, <3>2
  <2> HIDE DEF step
  <2> QED
    BY <1>3, <1>4, <2>1, <2>2, <2>3
<1>7. CASE SendStop
  <2>1. command.step = "stop" /\ Goto(IF scm = "running" THEN "await-stopped" ELSE "error")
        /\ UNCHANGED <<schemaVars, fileVars, faultVars>>
    BY <1>7 DEF SendStop
  <2>2. command.kind \in ServiceKinds /\ command.step \in ServiceSteps
    BY <1>1, <2>1, CommandForms, ServiceForms DEF ServiceSteps, StartSteps
  <2> QED
    BY <1>3, <1>4, <2>1, <2>2 DEF ServiceSteps
<1>8. CASE SendStart
  <2>1. command.step = "start" /\ UNCHANGED <<main, fileVars, lostSight>>
    BY <1>8 DEF SendStart, faultVars
  <2>2. command.step \in ServiceSteps
    BY <2>1 DEF ServiceSteps
  <2>3. command' \in CommandStates /\ command'.kind \notin {"backup", "restore"}
    <3>1. CASE Goto("await-running")
      BY <1>3, <1>5, <2>2, <3>1 DEF StartSteps, ServiceSteps
    <3>2. CASE Goto("error")
      BY <1>3, <2>2, <3>2
    <3> QED
      BY <1>8, <3>1, <3>2 DEF SendStart
  <2>4. Processing'
    <3>1. CASE process' = process
      BY <1>1, <2>1, <3>1, ProcessingKept
    <3>2. CASE Launch
      <4>1. "service" \in Processes /\ Launched # Serves
        BY DEF Processes, Launched, Serves, Down
      <4>2. process' = [process EXCEPT !["service"] = Launched]
        BY <3>2 DEF Launch, Launched
      <4> QED
        BY <1>1, <2>1, <4>1, <4>2, ProcessMoved
    <3> QED
      BY <1>8, <3>1, <3>2 DEF SendStart
  <2> QED
    BY <1>2, <2>1, <2>3, <2>4
<1>9. CASE WaitForState
  <2>1. /\ command.step \in {"await-stopped", "await-running"}
        /\ UNCHANGED <<schemaVars, fileVars, faultVars>>
    BY <1>9 DEF WaitForState
  <2>2. command.step \in ServiceSteps
        /\ (command.step = "await-stopped" => command.kind \in ServiceKinds)
    BY <1>1, <2>1, CommandForms, ServiceForms DEF ServiceSteps, StartSteps
  <2>3. PICK step : /\ Goto(step)
                    /\ \/ step \in {"done", "error"}
                       \/ command.kind \in ServiceKinds /\ step \in ServiceSteps
    <3>1. CASE command.step = "await-running"
      <4>1. Goto("done") \/ Goto("error")
        BY <1>9, <3>1 DEF WaitForState
      <4> QED
        BY <4>1
    <3>2. CASE command.step = "await-stopped" /\ scm = "stopped"
      <4>1. Goto(OnceStopped)
        BY <1>9, <3>2 DEF WaitForState
      <4>2. OnceStopped \in {"done", "delete", "start"}
        BY <2>2, <3>2 DEF ServiceKinds, OnceStopped
      <4> QED
        BY <2>2, <3>2, <4>1, <4>2 DEF ServiceSteps
    <3>3. CASE command.step = "await-stopped" /\ scm # "stopped"
      <4>1. Goto("error")
        BY <1>9, <3>3 DEF WaitForState
      <4> QED
        BY <4>1
    <3> QED
      BY <2>1, <3>1, <3>2, <3>3
  <2> QED
    BY <1>3, <1>4, <2>1, <2>2, <2>3
<1>10. NoCommand \in CommandStates /\ NoCommand.kind \notin {"backup", "restore"}
  BY DEF CommandStates, ServiceCommands, NoCommand
<1>11. CASE DeleteService
  <2>1. command' = NoCommand
    BY <1>11 DEF DeleteService, Goto
  <2> QED
    BY <1>4, <1>10, <1>11, <2>1 DEF DeleteService
<1>12. CASE Install
  <2>1. command' = NoCommand
    BY <1>12 DEF Install, Begin
  <2> QED
    BY <1>4, <1>10, <1>12, <2>1 DEF Install
<1>13. CASE ServiceCommand
  <2>1. PICK kind \in {"uninstall", "start", "stop", "restart"} : Begin(kind, "query", FALSE)
    BY <1>13 DEF ServiceCommand
  <2>2. command' = [kind |-> kind, step |-> "query", force |-> FALSE]
    BY <2>1 DEF Begin
  <2>3. command' \in CommandStates /\ command'.kind \notin {"backup", "restore"}
    BY <2>2 DEF CommandStates, ServiceCommands, ServiceKinds, StartSteps, ServiceSteps
  <2> QED
    BY <1>4, <1>13, <2>3 DEF ServiceCommand
<1> QED
  BY <1>6, <1>7, <1>8, <1>9, <1>11, <1>12, <1>13

\* A command that begins is at its first step; one that is refused is over.
LEMMA CommandBegins ==
  /\ \A kind, force : Begin(kind, "error", force) =>
       command' \in CommandStates /\ command'.kind = "none"
  /\ Begin("backup", "vacuum", FALSE) =>
       command' \in CommandStates /\ command'.kind = "backup" /\ command'.step = "vacuum"
  /\ \A force \in BOOLEAN : Begin("restore", "vacuum", force) =>
       command' \in CommandStates /\ command'.kind = "restore" /\ command'.step = "vacuum"
<1>1. ASSUME NEW kind, NEW force, Begin(kind, "error", force)
      PROVE  command' \in CommandStates /\ command'.kind = "none"
  BY <1>1 DEF Begin, CommandStates, ServiceCommands, NoCommand
<1>2. ASSUME Begin("backup", "vacuum", FALSE)
      PROVE  command' \in CommandStates /\ command'.kind = "backup" /\ command'.step = "vacuum"
  <2>1. command' = [kind |-> "backup", step |-> "vacuum", force |-> FALSE]
    BY <1>2 DEF Begin
  <2> QED
    BY <2>1 DEF CommandStates, BackupSteps
<1>3. ASSUME NEW force \in BOOLEAN, Begin("restore", "vacuum", force)
      PROVE  command' \in CommandStates /\ command'.kind = "restore" /\ command'.step = "vacuum"
  <2>1. command' = [kind |-> "restore", step |-> "vacuum", force |-> force]
    BY <1>3 DEF Begin
  <2> QED
    BY <2>1 DEF CommandStates, RestoreSteps
<1> QED
  BY <1>1, <1>2, <1>3

\* db backup: the copy that replaces the last one is complete.
LEMMA BackupCommandSteps ==
  ASSUME Installed,
         BackupBegins \/ BackupVacuum \/ BackupRemovesOutput \/ BackupRenames
  PROVE  Installed'
<1>1. Processing /\ Files /\ Commands /\ Recorded /\ command \in CommandStates
  BY DEF Installed, Commands
<1>2. main' = main /\ process' = process /\ restoreTmp' = restoreTmp /\ lostSight' = lostSight
  BY DEF BackupBegins, BackupVacuum, BackupRemovesOutput, BackupRenames, schemaVars, faultVars
<1>3. Processing'
  BY <1>1, <1>2, ProcessingKept
<1>4. CASE BackupBegins
  <2>1. Begin("backup", IF main = NULL THEN "error" ELSE "vacuum", FALSE)
    BY <1>4 DEF BackupBegins
  <2>2. backup' = backup /\ backupTmp' = IF main = NULL THEN backupTmp ELSE NULL
    BY <1>4 DEF BackupBegins
  <2>3. Files'
    BY <1>1, <1>2, <2>2 DEF Files
  <2>4. CASE main = NULL
    <3>1. command' \in CommandStates /\ command'.kind = "none"
      <4>1. Begin("backup", "error", FALSE)
        BY <2>1, <2>4
      <4> QED
        BY <4>1, CommandBegins
    <3> QED
      BY <1>2, <1>3, <2>2, <2>3, <3>1, CommandSteps
  <2>5. CASE main # NULL
    <3>1. command' \in CommandStates /\ command'.kind = "backup" /\ command'.step = "vacuum"
      <4>1. Begin("backup", "vacuum", FALSE)
        BY <2>1, <2>5
      <4> QED
        BY <4>1, CommandBegins
    <3>2. Commands'
      BY <1>2, <2>5, <3>1 DEF Commands
    <3>3. Recorded'
      BY <1>1, <1>2, <2>2, <3>1 DEF Recorded
    <3> QED
      BY <1>3, <2>3, <3>2, <3>3 DEF Installed
  <2> QED
    BY <2>4, <2>5
<1>5. command.kind = "backup" => main # NULL /\ Held(main)
  BY <1>1 DEF Commands, Files
<1>6. CASE BackupVacuum
  <2>1. command.kind = "backup" /\ backup' = backup
    BY <1>6 DEF BackupVacuum, InCommand
  <2>2. CASE journal = "foreign"
    <3>1. Goto("error") /\ backupTmp' = NULL
      BY <1>6, <2>2 DEF BackupVacuum
    <3>2. command' \in CommandStates /\ command'.kind = "none"
      BY <1>1, <3>1, CommandGoes
    <3>3. Files'
      BY <1>1, <1>2, <2>1, <3>1 DEF Files
    <3> QED
      BY <1>2, <1>3, <2>1, <3>2, <3>3, CommandSteps
  <2>3. CASE journal # "foreign"
    <3>1. Goto("clear") /\ backupTmp' = main
      BY <1>6, <2>3 DEF BackupVacuum
    <3>2. command' \in CommandStates /\ command'.kind = "backup" /\ command'.step = "clear"
      BY <1>1, <2>1, <3>1, CommandGoes DEF BackupSteps
    <3>3. Files'
      BY <1>1, <1>2, <2>1, <3>1 DEF Files
    <3>4. Commands'
      <4>1. Held(backupTmp')
        BY <1>5, <2>1, <3>1
      <4> QED
        BY <1>2, <1>5, <2>1, <3>2, <4>1 DEF Commands
    <3>5. Recorded'
      BY <1>1, <1>2, <1>5, <2>1, <3>1 DEF Recorded
    <3> QED
      BY <1>3, <3>3, <3>4, <3>5 DEF Installed
  <2> QED
    BY <2>2, <2>3
<1>7. CASE BackupRemovesOutput
  <2>1. /\ command.kind = "backup" /\ command.step = "clear" /\ Goto("rename")
        /\ backup' = NULL /\ backupTmp' = backupTmp
    BY <1>7 DEF BackupRemovesOutput, InCommand
  <2>2. command' \in CommandStates /\ command'.kind = "backup" /\ command'.step = "rename"
    BY <1>1, <2>1, CommandGoes DEF BackupSteps
  <2>3. Files'
    BY <1>1, <1>2, <2>1 DEF Files
  <2>4. Commands'
    <3>1. Held(backupTmp')
      BY <1>1, <2>1 DEF Commands
    <3> QED
      BY <1>2, <1>5, <2>1, <2>2, <3>1 DEF Commands
  <2>5. Recorded'
    BY <1>1, <1>2, <1>5, <2>1 DEF Recorded
  <2> QED
    BY <1>3, <2>3, <2>4, <2>5 DEF Installed
<1>8. CASE BackupRenames
  <2>1. /\ command.kind = "backup" /\ command.step = "rename" /\ Goto("done")
        /\ backup' = backupTmp /\ backupTmp' = NULL
    BY <1>8 DEF BackupRenames, InCommand
  <2>2. command' \in CommandStates /\ command'.kind = "none"
    BY <1>1, <2>1, CommandGoes
  <2>3. Held(backupTmp)
    BY <1>1, <2>1 DEF Commands
  <2>4. Files'
    BY <1>1, <1>2, <2>1, <2>3 DEF Files
  <2>5. Commands'
    BY <2>2 DEF Commands
  <2>6. Recorded'
    BY <1>1, <1>2, <1>5, <2>1, <2>2 DEF Recorded
  <2> QED
    BY <1>3, <2>4, <2>5, <2>6 DEF Installed
<1> QED
  BY <1>4, <1>6, <1>7, <1>8

\* db restore: the database is removed when its replacement is complete.
LEMMA RestoreCommandSteps ==
  ASSUME Installed,
         \/ \E force \in BOOLEAN : RestoreBegins(force)
         \/ RestoreVacuum \/ RestoreRemovesTarget \/ RestoreRemovesWal \/ RestoreRenames
  PROVE  Installed'
<1>1. Processing /\ Files /\ Commands /\ Recorded /\ command \in CommandStates
  BY DEF Installed, Commands
<1>2. /\ process' = process /\ backup' = backup /\ backupTmp' = backupTmp
      /\ lostSight' = lostSight /\ recovery' = recovery
  BY DEF RestoreBegins, RestoreVacuum, RestoreRemovesTarget, RestoreRemovesWal, RestoreRenames,
         schemaVars, fileVars, serviceVars, faultVars
<1>3. CASE \E force \in BOOLEAN : RestoreBegins(force)
  <2>1. PICK force \in BOOLEAN : RestoreBegins(force)
    BY <1>3
  <2> DEFINE refused == backup = NULL \/ (main # NULL /\ ~force)
  <2>2. /\ Quiesced /\ Begin("restore", IF refused THEN "error" ELSE "vacuum", force)
        /\ restoreTmp' = (IF refused THEN restoreTmp ELSE NULL) /\ main' = main
    BY <2>1 DEF RestoreBegins, schemaVars
  <2>3. Processing'
    BY <1>1, <1>2, <2>2, ProcessingKept
  <2>4. Files'
    <3>1. restoreTmp' = restoreTmp \/ restoreTmp' = NULL
      BY <2>2
    <3> QED
      BY <1>1, <1>2, <2>2, <3>1 DEF Files
  <2>5. CASE refused
    <3>1. command' \in CommandStates /\ command'.kind = "none"
      <4>1. Begin("restore", "error", force)
        BY <2>2, <2>5
      <4> QED
        BY <4>1, CommandBegins
    <3> QED
      BY <1>2, <2>2, <2>3, <2>4, <3>1, CommandSteps
  <2>6. CASE ~refused
    <3>1. command' \in CommandStates /\ command'.kind = "restore" /\ command'.step = "vacuum"
      <4>1. Begin("restore", "vacuum", force)
        BY <2>2, <2>6
      <4> QED
        BY <4>1, CommandBegins
    <3>2. Commands'
      <4>1. \A p \in Processes : process'[p].state = "down"
        BY <1>2, <2>2 DEF Quiesced, Open
      <4>2. ~recovery' /\ backup' # NULL
        BY <1>2, <2>2, <2>6 DEF Quiesced
      <4> QED
        BY <3>1, <4>1, <4>2 DEF Commands
    <3>3. Recorded'
      BY <1>1, <1>2, <2>2, <3>1 DEF Recorded
    <3> QED
      BY <2>3, <2>4, <3>2, <3>3 DEF Installed
  <2> QED
    BY <2>5, <2>6
<1>4. ASSUME command.kind = "restore"
      PROVE  /\ \A p \in Processes : process[p].state = "down"
             /\ ~recovery /\ backup # NULL /\ Held(backup)
             /\ command.step # "vacuum" => restoreTmp = backup
             /\ ~lostSight => backup.messages
             /\ command \in [kind : {"restore"}, step : RestoreSteps, force : BOOLEAN]
  BY <1>1, <1>4, CommandForms DEF Commands, Files, Recorded
<1>5. ASSUME command.kind = "restore" PROVE Processing'
  <2>1. \A p \in Processes : process'[p].state = "down"
    BY <1>2, <1>4, <1>5
  <2>2. process' \in [Processes -> ProcessStates]
    BY <1>1, <1>2 DEF Processing
  <2> QED
    BY <2>1, <2>2 DEF Processing, Progress, Connected, Serving
<1>6. CASE RestoreVacuum
  <2>1. /\ command.kind = "restore" /\ main' = main /\ restoreTmp' = backup
        /\ Goto(IF command.force THEN "clear" ELSE "rename")
    BY <1>6 DEF RestoreVacuum, InCommand, schemaVars
  <2>2. /\ command' \in CommandStates /\ command'.kind = "restore"
        /\ command'.force = command.force
        /\ command'.step = IF command.force THEN "clear" ELSE "rename"
    BY <1>1, <2>1, CommandGoes DEF RestoreSteps
  <2>3. Files'
    BY <1>1, <1>2, <2>1 DEF Files
  <2>4. Commands'
    BY <1>2, <1>4, <2>1, <2>2 DEF Commands
  <2>5. Recorded'
    BY <1>1, <1>2, <2>1, <2>2 DEF Recorded
  <2> QED
    BY <1>5, <2>1, <2>3, <2>4, <2>5 DEF Installed
<1>7. CASE RestoreRemovesTarget
  <2>1. /\ command.kind = "restore" /\ command.step = "clear"
        /\ main' = NULL /\ restoreTmp' = restoreTmp /\ Goto("clear-wal")
    BY <1>7 DEF RestoreRemovesTarget, InCommand, fileVars
  <2>2. command' \in CommandStates /\ command'.kind = "restore" /\ command'.step = "clear-wal"
    BY <1>1, <2>1, CommandGoes DEF RestoreSteps
  <2>3. Files'
    BY <1>1, <1>2, <2>1 DEF Files
  <2>4. Commands'
    BY <1>2, <1>4, <2>1, <2>2 DEF Commands
  <2>5. Recorded'
    BY <1>2, <1>4, <2>1, <2>2 DEF Recorded
  <2> QED
    BY <1>5, <2>1, <2>3, <2>4, <2>5 DEF Installed
<1>8. CASE RestoreRemovesWal
  <2>1. /\ command.kind = "restore" /\ command.step = "clear-wal"
        /\ main' = main /\ restoreTmp' = restoreTmp /\ Goto("rename") /\ journal' = "none"
    BY <1>8 DEF RestoreRemovesWal, InCommand, fileVars
  <2>2. command' \in CommandStates /\ command'.kind = "restore" /\ command'.step = "rename"
    BY <1>1, <2>1, CommandGoes DEF RestoreSteps
  <2>3. Files'
    BY <1>1, <1>2, <2>1 DEF Files
  <2>4. Commands'
    BY <1>2, <1>4, <2>1, <2>2 DEF Commands
  <2>5. Recorded'
    BY <1>1, <1>2, <2>1, <2>2 DEF Recorded
  <2> QED
    BY <1>5, <2>1, <2>3, <2>4, <2>5 DEF Installed
<1>9. CASE RestoreRenames
  <2>1. /\ command.kind = "restore" /\ command.step = "rename"
        /\ main' = restoreTmp /\ restoreTmp' = NULL /\ Goto("done")
    BY <1>9 DEF RestoreRenames, InCommand
  <2>2. command' \in CommandStates /\ command'.kind = "none"
    BY <1>1, <2>1, CommandGoes
  <2>3. main' = backup
    BY <1>4, <2>1
  <2>4. Files'
    BY <1>1, <1>2, <1>4, <2>1, <2>3 DEF Files
  <2>5. Commands'
    BY <2>2 DEF Commands
  <2>6. Recorded'
    BY <1>2, <1>4, <2>1, <2>2, <2>3 DEF Recorded
  <2> QED
    BY <1>5, <2>1, <2>4, <2>5, <2>6 DEF Installed
<1> QED
  BY <1>3, <1>6, <1>7, <1>8, <1>9

\* Wherever a command is killed, what it leaves is in order.
LEMMA FaultSteps ==
  ASSUME Installed, CommandKilled \/ Reboot
  PROVE  Installed'
<1>1. Processing /\ Files /\ command \in CommandStates
  BY DEF Installed, Commands
<1>2. Interrupted /\ main' = main /\ lostSight' = lostSight
  BY DEF CommandKilled, Reboot, schemaVars
<1>3. /\ backupTmp' \in {backupTmp, NULL, Partial} /\ restoreTmp' \in {restoreTmp, NULL, Partial}
      /\ command' = NoCommand /\ backup' = backup
  BY <1>2 DEF Interrupted
<1>4. Files'
  BY <1>1, <1>2, <1>3 DEF Files
<1>5. Processing'
  <2>1. CASE CommandKilled
    <3>1. process' = process
      BY <2>1 DEF CommandKilled, schemaVars
    <3> QED
      BY <1>1, <1>2, <3>1, ProcessingKept
  <2>2. CASE Reboot
    <3>1. process' \in [Processes -> {Down, Launched}]
      BY <2>2 DEF Reboot, Launched
    <3> QED
      BY <3>1, NobodyRuns
  <2> QED
    BY <2>1, <2>2
<1>6. command' \in CommandStates /\ command'.kind \notin {"backup", "restore"}
  BY <1>3 DEF CommandStates, ServiceCommands, NoCommand
<1> QED
  BY <1>2, <1>3, <1>4, <1>5, <1>6, CommandSteps

--------------------------------------------------------------------------------
(* The installation *)

\* An installation begins with a database of a release and a backup of it.
LEMMA InstalledInitially == Init => Installed
<1> SUFFICES ASSUME Init PROVE Installed
  OBVIOUS
<1>1. /\ main \in Releases /\ backup = main /\ backupTmp = NULL /\ restoreTmp = NULL
      /\ process = [p \in Processes |-> Down] /\ command = NoCommand
  BY DEF Init
<1>2. Held(main) /\ main.messages
  <2>1. /\ main \in Databases /\ "board" \in main.tables /\ main.messages
        /\ "conversation_uuid" \in main.columns => "conversation_ref" \notin main.columns
        /\ "policy" \in main.tables => {"grants", "admin_events"} \subseteq main.columns
        /\ \A e \in DOMAIN main.evidence : main.evidence[e].participant \in {NULL, e[1]}
    BY <1>1, ReleasesTyped
  <2> QED
    BY <2>1 DEF Held, Sound, Truthful
<1>3. main # NULL
  BY <1>2, MigrationConstants DEF Held
<1>4. Processing
  <2>1. process \in [Processes -> ProcessStates] /\ \A p \in Processes : process[p].state = "down"
    BY <1>1 DEF ProcessStates, Down
  <2> QED
    BY <2>1 DEF Processing, Progress, Connected, Serving
<1>5. Files
  BY <1>1, <1>2 DEF Files
<1>6. Commands
  BY <1>1 DEF Commands, CommandStates, ServiceCommands, NoCommand
<1>7. Recorded
  BY <1>1, <1>2, <1>3 DEF Recorded, NoCommand
<1> QED
  BY <1>4, <1>5, <1>6, <1>7 DEF Installed

\* Every step keeps the installation in order.
LEMMA InstalledKept == Installed /\ [Next]_vars => Installed'
<1> SUFFICES ASSUME Installed, [Next]_vars PROVE Installed'
  OBVIOUS
<1>1. CASE ServiceStep \/ BindFails \/ ServiceKilled
  BY <1>1, ServiceProcessSteps
<1>2. CASE CliStep \/ CliStart \/ CliKilled
  BY <1>2, CliProcessSteps
<1>3. CASE \E p \in Processes : Executes(p)
  BY <1>3, ExecuteSteps
<1>4. CASE \/ QueryStatus \/ SendStop \/ SendStart \/ WaitForState \/ DeleteService
           \/ Install \/ ServiceCommand
  BY <1>4, ServiceCommandSteps
<1>5. CASE BackupBegins \/ BackupVacuum \/ BackupRemovesOutput \/ BackupRenames
  BY <1>5, BackupCommandSteps
<1>6. CASE \/ \E force \in BOOLEAN : RestoreBegins(force)
           \/ RestoreVacuum \/ RestoreRemovesTarget \/ RestoreRemovesWal \/ RestoreRenames
  BY <1>6, RestoreCommandSteps
<1>7. CASE CommandKilled \/ Reboot
  BY <1>7, FaultSteps
<1>8. CASE UNCHANGED vars
  <2>1. UNCHANGED <<main, process, journal, recovery, lostSight, command,
                    backup, backupTmp, restoreTmp>>
    BY <1>8 DEF vars, schemaVars, operatorVars, fileVars, serviceVars, faultVars
  <2>2. Processing'
    BY <2>1, ProcessingKept DEF Installed
  <2>3. Files' /\ Commands' /\ Recorded'
    BY <2>1 DEF Installed, Files, Commands, Recorded
  <2> QED
    BY <2>2, <2>3 DEF Installed
<1> QED
  BY <1>1, <1>2, <1>3, <1>4, <1>5, <1>6, <1>7, <1>8
     DEF Next, CommandStep, Operator, Fault

\* The files of an installation are complete databases where the code reads them,
\* a process has what it has passed, and a restore has the installation to itself.
THEOREM InstallationInOrder == Spec => []Installed
BY InstalledInitially, InstalledKept, PTL DEF Spec

\* What a process that serves has found or made: everything its program is for.
LEMMA ServedHolds ==
  ASSUME Installed, NEW p \in Processes, Serving(p)
  PROVE  /\ main # NULL /\ Held(main)
         /\ \A st \in NeededStatements(p) : Holds(st, main)
<1>1. main # NULL /\ \A n \in 1..Len(Program(p)) : Holds(Program(p)[n], main)
  BY DEF Installed, Processing, Progress, Connected
<1>2. Held(main)
  BY <1>1 DEF Installed, Files
<1>3. \A st \in ToSet(Program(p)) : Holds(st, main)
  <2>1. Program(p) \in Programs
    BY ProgramShape
  <2>2. DOMAIN Program(p) = 1..Len(Program(p))
    BY <2>1 DEF Programs
  <2> QED
    BY <1>1, <2>2 DEF ToSet
<1> QED
  BY <1>1, <1>2, <1>3, ProgramShape

\* A process serves only a database that has everything db::initialize adds, none of
\* the dropped columns, and the metadata of its channels; and the server only one
\* that has every column the code names, the owner columns included.  Whatever
\* release left the file, whichever other process migrated it at the same time, and
\* wherever earlier starts died (db::initialize, run_server).
THEOREM ServedDatabaseIsMigrated == Spec => []ServesMigrated
<1>1. Installed => ServesMigrated
  <2> SUFFICES ASSUME Installed, NEW p \in Processes, Serving(p)
               PROVE  /\ main # NULL
                      /\ InitializedColumns \subseteq main.columns
                      /\ p = "service" => RequiredColumns \subseteq main.columns
                      /\ main.columns \intersect {"public_key", "conversation_uuid"} = {}
                      /\ main.messages => main.channel
    BY DEF ServesMigrated, Processes
  <2>1. main # NULL /\ Held(main) /\ \A st \in NeededStatements(p) : Holds(st, main)
    BY ServedHolds
  <2>2. ASSUME NEW c, Ensure(<<c>>) \in NeededStatements(p) PROVE c \in main.columns
    <3>1. Holds(Ensure(<<c>>), main)
      BY <2>1, <2>2
    <3>2. Ensure(<<c>>).op = "ensure" /\ Ensure(<<c>>).on = <<c>>
      BY DEF Ensure
    <3>3. 1 \in DOMAIN <<c>> /\ <<c>>[1] = c
      OBVIOUS
    <3> QED
      BY <3>1, <3>2, <3>3 DEF Holds
  <2>3. /\ Ensure(<<"auth_secret">>) \in NeededStatements(p)
        /\ Ensure(<<"status">>) \in NeededStatements(p)
        /\ Ensure(<<"ingress_participant">>) \in NeededStatements(p)
        /\ \A c \in ToSet(TotpColumns) : Ensure(<<c>>) \in NeededStatements(p)
        /\ p = "service" => \A c \in ToSet(OwnerColumns) : Ensure(<<c>>) \in NeededStatements(p)
    BY Zenon DEF NeededStatements
  <2>4. /\ {"auth_secret", "status", "ingress_participant"} \subseteq main.columns
        /\ ToSet(TotpColumns) \subseteq main.columns
        /\ p = "service" => ToSet(OwnerColumns) \subseteq main.columns
    BY <2>2, <2>3
  <2>5. "role" \in main.columns /\ "conversation_ref" \in main.columns
    <3>1. Holds(Do("ensure-role", "role"), main) /\ Holds(Do("ensure-ref", "conversation_ref"), main)
      BY <2>1 DEF NeededStatements
    <3> QED
      BY <3>1 DEF Holds, Do
  <2>6. ToSet(ProvenanceColumns) \subseteq main.columns
    <3>1. Holds(Ensure(ProvenanceColumns), main)
      BY <2>1 DEF NeededStatements
    <3>2. \A n \in DOMAIN ProvenanceColumns : ProvenanceColumns[n] \in main.columns
      BY <3>1 DEF Holds, Ensure
    <3> QED
      BY <3>2 DEF ToSet
  <2>7. {"grants", "admin_events"} \subseteq main.columns
    <3>1. Holds(Do("create", "policy"), main)
      BY <2>1 DEF NeededStatements
    <3>2. "policy" \in main.tables
      BY <3>1 DEF Holds, Do
    <3> QED
      BY <2>1, <3>2 DEF Held, Sound
  <2>8. "public_key" \notin main.columns
    <3>1. Holds(DropColumns(<<"public_key">>), main)
      BY <2>1 DEF NeededStatements
    <3>2. \A n \in DOMAIN <<"public_key">> : <<"public_key">>[n] \notin main.columns
      BY <3>1 DEF Holds, DropColumns
    <3>3. 1 \in DOMAIN <<"public_key">> /\ <<"public_key">>[1] = "public_key"
      OBVIOUS
    <3> QED
      BY <3>2, <3>3
  <2>9. "conversation_uuid" \notin main.columns
    BY <2>1, <2>5 DEF Held, Sound
  <2>10. main.messages => main.channel
    <3>1. Holds(Do("channels", "channels"), main)
      BY <2>1 DEF NeededStatements
    <3> QED
      BY <3>1 DEF Holds, Do
  <2>11. InitializedColumns \subseteq main.columns
    BY <2>4, <2>5, <2>6, <2>7 DEF InitializedColumns
  <2>12. p = "service" => RequiredColumns \subseteq main.columns
    BY <2>4, <2>11 DEF RequiredColumns
  <2> QED
    BY <2>1, <2>8, <2>9, <2>10, <2>11, <2>12
<1> QED
  BY <1>1, InstallationInOrder, PTL

\* In no file does a backfill name a participant who did not execute a delivery's
\* intent; and where a server serves, only deliveries of an intent that several
\* participants executed are without one (migrate_execution_schema).
THEOREM BackfillsAreTruthful == Spec => []AttributionTruthful
<1>1. Installed => AttributionTruthful
  <2> SUFFICES ASSUME Installed PROVE AttributionTruthful
    OBVIOUS
  <2>1. ASSUME NEW file \in {main, backup, backupTmp, restoreTmp} \ {NULL, Partial},
               NEW e \in DOMAIN file.evidence
        PROVE  file.evidence[e].participant \in {NULL, e[1]}
    <3>1. Held(file)
      BY <2>1 DEF Installed, Files
    <3> QED
      BY <2>1, <3>1 DEF Held, Sound, Truthful
  <2>2. ASSUME NEW p \in Processes, Serving(p), NEW e \in DOMAIN main.evidence
        PROVE  /\ main.evidence[e].capability
               /\ main.evidence[e].participant = NULL => Cardinality(Executors(main, e[2])) > 1
    <3>1. \A st \in NeededStatements(p) : Holds(st, main)
      BY <2>2, ServedHolds
    <3>2. Holds(Do("capabilities", "execution"), main) /\ Holds(Do("attribute", "execution"), main)
      BY <3>1 DEF NeededStatements
    <3>3. Capable(main) /\ Attributed(main)
      BY <3>2 DEF Holds, Do
    <3> QED
      BY <2>2, <3>3 DEF Capable, Attributed
  <2> QED
    BY <2>1, <2>2 DEF AttributionTruthful
<1> QED
  BY <1>1, InstallationInOrder, PTL

\* Wherever a backup, a restore or a process is killed, the database or the backup
\* holds the record, until a start finds no database (backup_database,
\* restore_database).
THEOREM RecordIsKept == Spec => []RecordSurvives
<1>1. Installed => RecordSurvives
  BY DEF Installed, Recorded, RecordSurvives
<1> QED
  BY <1>1, InstallationInOrder, PTL

RestoredStep == RestoreRenames /\ command.force => journal' # "foreign"

\* A forced restore never leaves its database beside the -wal of the one it
\* replaced (remove_database_files).
THEOREM RestoreLeavesNoJournal == Spec => RestoredAlone
<1>1. Installed => RestoredStep
  BY DEF Installed, Commands, RestoredStep, RestoreRenames, InCommand
<1>2. Installed /\ [Next]_vars => [RestoredStep]_vars
  BY <1>1
<1>3. RestoredAlone <=> [][RestoredStep]_vars
  BY DEF RestoredAlone, RestoredStep
<1> QED
  BY <1>2, <1>3, InstallationInOrder, PTL DEF Spec

================================================================================
