-------------------------- MODULE WorkspaceProofs --------------------------
(***************************************************************************)
(* Every prompt keeps exactly one active version and its versions are      *)
(* numbered from one without a gap; an agent is stored with its            *)
(* configuration, its links and keys only with it; concurrent requests     *)
(* pass the cap on an agent's keys by no more than the others may add. For *)
(* any number of requests, agents, prompts, versions and fields.           *)
(*                                                                         *)
(* None is inductive: the database is good because what every open         *)
(* transaction sees is good, and two of them never hold the same row. A    *)
(* transaction that cleared the active version and has yet to set the new  *)
(* one is the only one that may see a prompt without. The keys are counted *)
(* with what each set of open operations would still commit.               *)
(***************************************************************************)
EXTENDS Workspace, FiniteSetTheorems, TLAPS

-----------------------------------------------------------------------------
(* Rows. *)

LEMMA VersionRows ==
    ASSUME NEW p \in Prompt, NEW n \in Version
    PROVE  /\ VersionRow(p, n) \in Row
           /\ VersionRow(p, n)[2] = p /\ VersionRow(p, n)[3] = n
           /\ \A q \in Prompt, m \in Version :
                 VersionRow(p, n) = VersionRow(q, m) => p = q /\ n = m
BY DEF VersionRow, Row

LEMMA AgentRows ==
    ASSUME NEW a \in Agent
    PROVE  /\ AgentRow(a) \in Row /\ AgentRow(a)[2] = a
           /\ \A p \in Prompt, n \in Version : AgentRow(a) # VersionRow(p, n)
<1>1. AgentRow(a) \in Row
  BY DEF AgentRow, Row
<1>2. AgentRow(a)[2] = a
  BY DEF AgentRow
<1>3. \A p \in Prompt, n \in Version : AgentRow(a)[1] # VersionRow(p, n)[1]
  BY DEF AgentRow, VersionRow
<1> QED BY <1>1, <1>2, <1>3

LEMMA ChildRows ==
    ASSUME NEW a \in Agent, NEW x \in Children(a)
    PROVE  /\ x \in Row /\ x[2] = a
           /\ \A p \in Prompt, n \in Version : x # VersionRow(p, n)
<1>1. x \in Row
  BY DEF Row
<1>2. /\ x[2] = a
      /\ x[1] \in {"link", "key", "config"}
  BY DEF Children, LinkRow, KeyRow, ConfigRow
<1>3. \A p \in Prompt, n \in Version : VersionRow(p, n)[1] = "version"
  BY DEF VersionRow
<1> QED BY <1>1, <1>2, <1>3

-----------------------------------------------------------------------------
(* The inductive invariant. *)

Mine(r, p, n) == mine[r][VersionRow(p, n)]
Db(p, n) == db[VersionRow(p, n)]
View(r, p, n) == IF Mine(r, p, n) = Untouched THEN Db(p, n) ELSE Mine(r, p, n)

(* Two transactions never hold the same version, none deletes one, and two    *)
(* never hold an active version of the same prompt.                          *)
Exclusive ==
    \A p \in Prompt, n \in Version, r, s \in Request :
        Mine(r, p, n) # Untouched /\ Mine(s, p, n) # Untouched => r = s

Kept == \A p \in Prompt, n \in Version, r \in Request : Mine(r, p, n) # Absent

OneHolder ==
    \A p \in Prompt, m, n \in Version, r, s \in Request :
        Mine(r, p, m) = "active" /\ Mine(s, p, n) = "active" => r = s

DbNumbered ==
    \A p \in Prompt, n \in Version : Db(p, n) # Absent =>
        \A m \in Version : m <= n => Db(p, m) # Absent

DbAtMostOne ==
    \A p \in Prompt, m, n \in Version : Db(p, m) = "active" /\ Db(p, n) = "active" => m = n

DbAtLeastOne ==
    \A p \in Prompt, n \in Version : Db(p, n) # Absent => \E m \in Version : Db(p, m) = "active"

Numbered(r) ==
    \A p \in Prompt, n \in Version : View(r, p, n) # Absent =>
        \A m \in Version : m <= n => View(r, p, m) # Absent

AtMostOne(r) ==
    \A p \in Prompt, m, n \in Version :
        View(r, p, m) = "active" /\ View(r, p, n) = "active" => m = n

Setting(r, p) == req[r].step = "set" /\ req[r].row[2] = p

AtLeastOne(r) ==
    \A p \in Prompt, n \in Version : View(r, p, n) # Absent /\ ~ Setting(r, p) =>
        \E m \in Version : View(r, p, m) = "active"

(* What the statement a request is about to run acts on. *)
InsertStep(r) ==
    req[r].step = "version" => \E p \in Prompt, n \in Version :
        /\ req[r].row = VersionRow(p, n)
        /\ \/ req[r].to = "active" /\ n = 1
           \/ req[r].to = "idle" /\ \E m \in Version : m + 1 = n /\ View(r, p, m) # Absent

ActivateStep(r) ==
    req[r].step \in {"clear", "set"} => \E p \in Prompt, n \in Version :
        req[r].row = VersionRow(p, n) /\ View(r, p, n) # Absent

AgentStep(r) ==
    /\ req[r].step \in {"edit", "erase"} => \E a \in Agent : req[r].row = AgentRow(a)
    /\ req[r].step \in {"grant", "flip", "mint", "revoke"} =>
          \E a \in Agent : req[r].row \in Children(a)

AtStep(r) == InsertStep(r) /\ ActivateStep(r) /\ AgentStep(r)

Held == Exclusive /\ Kept /\ OneHolder
DbGood == DbNumbered /\ DbAtMostOne /\ DbAtLeastOne
Sees(r) == Numbered(r) /\ AtMostOne(r) /\ AtLeastOne(r) /\ AtStep(r)
VInv == Held /\ DbGood /\ \A r \in Request : Sees(r)

IInv == TypeOK /\ VInv

-----------------------------------------------------------------------------
(* Type correctness, by what an action does to the variables. *)

Filled == Value \cup {Absent}

LEMMA GoOnTyped ==
    ASSUME TypeOK, NEW r \in Request, NEW step \in Step, NEW x \in Row, NEW v \in Filled,
           NEW seen \in SUBSET Version, StartsField(r), GoOn(r, step, x, v, seen)
    PROVE  TypeOK'
<1>1. req[r].fields + 1 \in 0 .. MaxFields
  BY WorkspaceAssumption DEF TypeOK, StartsField
<1> QED BY <1>1 DEF TypeOK, GoOn, Filled

LEMMA WritesNothingTyped ==
    ASSUME TypeOK, NEW r \in Request, StartsField(r), WritesNothing(r)
    PROVE  TypeOK'
<1>1. req[r].fields + 1 \in 0 .. MaxFields
  BY WorkspaceAssumption DEF TypeOK, StartsField
<1> QED BY <1>1 DEF TypeOK, WritesNothing

LEMMA FieldDoneTyped ==
    ASSUME TypeOK, NEW r \in Request, FieldDone(r)
    PROVE  /\ req' \in [Request -> [step : Step, row : Row \cup {Absent}, to : Value \cup {Absent},
                                    seen : SUBSET Version, fields : 0 .. MaxFields,
                                    broken : BOOLEAN]]
           /\ req'[r].step = "field"
           /\ \A s \in Request \ {r} : req'[s] = req[s]
BY DEF TypeOK, FieldDone, Step

LEMMA FlushFailsTyped ==
    ASSUME TypeOK, NEW r \in Request, FlushFails(r)
    PROVE  TypeOK'
BY DEF TypeOK, FlushFails, Unwritten, Step

LEMMA FlushTyped ==
    ASSUME TypeOK, NEW r \in Request, NEW w, Flush(r, w),
           \A x \in DOMAIN w : w[x] \in Filled
    PROVE  TypeOK'
<1>1. mine' \in [Request -> [Row -> Value \cup {Absent, Untouched}]]
  BY DEF TypeOK, Flush, Filled
<1> QED BY <1>1, FieldDoneTyped DEF TypeOK, Flush

(* The rows a statement acts on are rows, and what it writes are values. *)
LEMMA RowsOfAgent ==
    ASSUME NEW a \in Agent
    PROVE  /\ AgentRow(a) \in Row /\ ConfigRow(a) \in Row
           /\ \A t \in Tool : LinkRow(a, t) \in Row
           /\ \A k \in Key : KeyRow(a, k) \in Row
BY DEF Row, Children

LEMMA FieldTyped ==
    ASSUME TypeOK, NEW r \in Request, Field(r)
    PROVE  TypeOK'
<1>1. ASSUME NEW p \in Prompt, CreatePrompt(r, p) PROVE TypeOK'
  <2>1. 1 \in Version
    BY WorkspaceAssumption DEF Version
  <2> QED BY <1>1, <2>1, VersionRows, GoOnTyped DEF CreatePrompt, Step, Filled, Value
<1>2. ASSUME NEW p \in Prompt, CreateVersion(r, p) PROVE TypeOK'
  <2>1. CASE WritesNothing(r)
    BY <1>2, <2>1, WritesNothingTyped DEF CreateVersion
  <2>2. ASSUME NEW n \in 1 .. MaxVersion - 1,
               GoOn(r, "version", VersionRow(p, n + 1), "idle", {})
        PROVE  TypeOK'
    <3>1. n + 1 \in Version
      BY <2>2, WorkspaceAssumption DEF Version
    <3> QED BY <1>2, <2>2, <3>1, VersionRows, GoOnTyped DEF CreateVersion, Step, Filled, Value
  <2> QED BY <1>2, <2>1, <2>2 DEF CreateVersion
<1>3. ASSUME NEW p \in Prompt, NEW n \in Version, ActivateVersion(r, p, n) PROVE TypeOK'
  BY <1>3, VersionRows, GoOnTyped, WritesNothingTyped DEF ActivateVersion, Step, Filled, Value
<1>4. ASSUME NEW a \in Agent,
             CreateAgent(r, a) \/ DeleteAgent(r, a) \/ UpdateConfig(r, a)
      PROVE  TypeOK'
  BY <1>4, RowsOfAgent, GoOnTyped, WritesNothingTyped
     DEF CreateAgent, DeleteAgent, UpdateConfig, Step, Filled, Value
<1>5. ASSUME NEW a \in Agent, NEW prompts, SetPrompt(r, a, prompts) PROVE TypeOK'
  BY <1>5, RowsOfAgent, GoOnTyped, WritesNothingTyped DEF SetPrompt, Step, Filled, Value
<1>6. ASSUME NEW a \in Agent, NEW status \in Status, UpdateAgent(r, a, status) PROVE TypeOK'
  BY <1>6, RowsOfAgent, GoOnTyped, WritesNothingTyped
     DEF UpdateAgent, Status, Step, Filled, Value
<1>7. ASSUME NEW a \in Agent, NEW t \in Tool, NEW v \in {"on", "off"}, SetToolEnabled(r, a, t, v)
      PROVE  TypeOK'
  BY <1>7, RowsOfAgent, GoOnTyped, WritesNothingTyped DEF SetToolEnabled, Step, Filled, Value
<1>8. ASSUME NEW a \in Agent, NEW k \in Key, NEW privileged \in BOOLEAN,
             CreateKey(r, a, k, privileged) \/ Revoke(r, a, k, privileged)
      PROVE  TypeOK'
  BY <1>8, RowsOfAgent, GoOnTyped, WritesNothingTyped DEF CreateKey, Revoke, Step, Filled, Value
<1> QED BY <1>1, <1>2, <1>3, <1>4, <1>5, <1>6, <1>7, <1>8 DEF Field

LEMMA OneTyped ==
    ASSUME TypeOK, NEW r \in Request, NEW x, NEW v \in Filled, Flush(r, One(x, v))
    PROVE  TypeOK'
BY FlushTyped DEF One

LEMMA StatementTyped ==
    ASSUME TypeOK, NEW r \in Request, Statement(r)
    PROVE  TypeOK'
<1>1. req[r].to \in Filled
  BY DEF TypeOK, Filled
<1>2. CASE InsertVersion(r)
  BY <1>1, <1>2, OneTyped, FlushFailsTyped DEF InsertVersion
<1>3. CASE Deactivate(r)
  <2>1. mine' \in [Request -> [Row -> Value \cup {Absent, Untouched}]]
    BY <1>3 DEF TypeOK, Deactivate, Value
  <2>2. req' \in [Request -> [step : Step, row : Row \cup {Absent}, to : Value \cup {Absent},
                              seen : SUBSET Version, fields : 0 .. MaxFields,
                              broken : BOOLEAN]]
    BY <1>3 DEF TypeOK, Deactivate, Step
  <2> QED BY <1>3, <2>1, <2>2 DEF TypeOK, Deactivate
<1>4. CASE Activate(r)
  BY <1>4, OneTyped, FlushFailsTyped DEF Activate, Filled, Value
<1>5. CASE InsertAgent(r)
  <2>1. \A a : \A x \in DOMAIN Newborn(a) : Newborn(a)[x] \in Filled
    BY DEF Newborn, Filled, Value
  <2> QED BY <1>5, <2>1, FlushTyped, FlushFailsTyped DEF InsertAgent
<1>6. CASE WriteAgent(r)
  <2>1. CASE FlushFails(r)
    BY <2>1, FlushFailsTyped
  <2>2. CASE /\ Visible(r, req[r].row) # Absent
             /\ Flush(r, One(req[r].row, IF req[r].to = "set" THEN Visible(r, req[r].row)
                                         ELSE req[r].to))
    <3>2. CASE req[r].to # "set"
      BY <1>1, <2>2, <3>2, OneTyped
    <3>3. CASE req[r].to = "set" /\ req[r].row \in Row
      <4>1. Visible(r, req[r].row) \in Filled
        BY <3>3 DEF Visible, TypeOK, Filled
      <4> QED BY <2>2, <3>3, <4>1, OneTyped
    <3>4. CASE req[r].to = "set" /\ req[r].row \notin Row
      <4>1. mine' \in [Request -> [Row -> Value \cup {Absent, Untouched}]]
        <5>1. \A x \in Row : x \notin {req[r].row}
          BY <3>4
        <5> QED BY <2>2, <5>1 DEF TypeOK, Flush, One
      <4> QED BY <2>2, <4>1, FieldDoneTyped DEF TypeOK, Flush
    <3> QED BY <3>2, <3>3, <3>4
  <2> QED BY <1>6, <2>1, <2>2 DEF WriteAgent
<1>7. CASE EraseAgent(r)
  BY <1>7, FlushTyped DEF EraseAgent, Filled
<1>8. ASSUME NEW step, InsertChild(r, step) PROVE TypeOK'
  BY <1>1, <1>8, OneTyped, FlushFailsTyped DEF InsertChild
<1>9. ASSUME NEW step, UpdateChild(r, step) PROVE TypeOK'
  BY <1>1, <1>9, OneTyped, FlushFailsTyped DEF UpdateChild
<1> QED BY <1>2, <1>3, <1>4, <1>5, <1>6, <1>7, <1>8, <1>9
        DEF Statement, InsertLink, FlipLink, InsertKey, WriteRevoked

LEMMA CloseTyped ==
    ASSUME TypeOK, NEW r \in Request, Commit(r) \/ Rollback(r)
    PROVE  TypeOK'
<1>1. mine' \in [Request -> [Row -> Value \cup {Absent, Untouched}]]
  BY DEF TypeOK, Commit, Rollback, Close, Unwritten
<1>2. Idle \in [step : Step, row : Row \cup {Absent}, to : Value \cup {Absent},
                seen : SUBSET Version, fields : 0 .. MaxFields, broken : BOOLEAN]
  BY WorkspaceAssumption DEF Idle, Step
<1>3. req' = [req EXCEPT ![r] = Idle]
  BY DEF Commit, Rollback, Close
<1>4. db' \in [Row -> Value \cup {Absent}]
  BY DEF TypeOK, Commit, Rollback, Visible
<1> QED BY <1>1, <1>2, <1>3, <1>4 DEF TypeOK

LEMMA TypeInit == Init => TypeOK
BY WorkspaceAssumption DEF Init, TypeOK, Unwritten, Idle, Step

LEMMA TypeNext == TypeOK /\ [Next]_vars => TypeOK'
<1> SUFFICES ASSUME TypeOK, [Next]_vars PROVE TypeOK'
  OBVIOUS
<1>1. CASE UNCHANGED vars
  BY <1>1 DEF vars, TypeOK
<1>2. ASSUME NEW r \in Request,
             Field(r) \/ Statement(r) \/ Commit(r) \/ Rollback(r) \/ DeadlockVictim(r)
      PROVE  TypeOK'
  BY <1>2, FieldTyped, StatementTyped, CloseTyped, FlushFailsTyped DEF DeadlockVictim
<1> QED BY <1>1, <1>2 DEF Next

(* Every variable keeps its shape. *)
THEOREM WorkspaceTyped == Spec => []TypeOK
BY TypeInit, TypeNext, PTL DEF Spec

-----------------------------------------------------------------------------
(* What an action does to the versions, whatever else it does. *)

SameMine(s) == \A p \in Prompt, n \in Version : Mine(s, p, n)' = Mine(s, p, n)
SameDb == \A p \in Prompt, n \in Version : Db(p, n)' = Db(p, n)
Others(r) == \A s \in Request \ {r} : SameMine(s) /\ req'[s] = req[s]

LEMMA Steady ==
    ASSUME NEW s \in Request, AtStep(s), req'[s] = req[s],
           \A p \in Prompt, n \in Version : View(s, p, n) # Absent => View(s, p, n)' # Absent
    PROVE  AtStep(s)'
BY DEF AtStep, InsertStep, ActivateStep, AgentStep

(* A step of r that leaves the database alone changes nothing for the others. *)
LEMMA OthersSee ==
    ASSUME VInv, NEW r \in Request, SameDb, Others(r)
    PROVE  DbGood' /\ \A s \in Request \ {r} : Sees(s)'
<1>1. DbGood'
  BY DEF VInv, DbGood, DbNumbered, DbAtMostOne, DbAtLeastOne, SameDb
<1>2. ASSUME NEW s \in Request \ {r} PROVE Sees(s)'
  <2>1. \A p \in Prompt, n \in Version : View(s, p, n)' = View(s, p, n)
    BY DEF View, SameDb, Others, SameMine
  <2>2. Numbered(s) /\ AtMostOne(s) /\ AtLeastOne(s) /\ AtStep(s)
    BY DEF VInv, Sees
  <2>3. req'[s] = req[s]
    BY DEF Others
  <2>4. Numbered(s)'
    BY <2>1, <2>2 DEF Numbered
  <2>5. AtMostOne(s)'
    BY <2>1, <2>2 DEF AtMostOne
  <2>6. AtLeastOne(s)'
    BY <2>1, <2>2, <2>3 DEF AtLeastOne, Setting
  <2>7. AtStep(s)'
    BY <2>1, <2>2, <2>3, Steady
  <2> QED BY <2>4, <2>5, <2>6, <2>7 DEF Sees
<1> QED BY <1>1, <1>2

(* It wrote no version. *)
LEMMA Quietly ==
    ASSUME VInv, NEW r \in Request, SameDb, Others(r), SameMine(r),
           req[r].step # "set", AtStep(r)'
    PROVE  VInv'
<1>1. Held'
  BY DEF VInv, Held, Exclusive, Kept, OneHolder, Others, SameMine
<1>2. \A p \in Prompt, n \in Version : View(r, p, n)' = View(r, p, n)
  BY DEF View, SameDb, SameMine
<1>3. Numbered(r) /\ AtMostOne(r) /\ AtLeastOne(r)
  BY DEF VInv, Sees
<1>4. Numbered(r)' /\ AtMostOne(r)'
  BY <1>2, <1>3 DEF Numbered, AtMostOne
<1>5. AtLeastOne(r)'
  BY <1>2, <1>3 DEF AtLeastOne, Setting
<1> QED BY <1>1, <1>4, <1>5, OthersSee DEF VInv, Sees

(* Its transaction was rolled back. *)
LEMMA Aborted ==
    ASSUME VInv, NEW r \in Request, SameDb, Others(r), AtStep(r)',
           \A p \in Prompt, n \in Version : Mine(r, p, n)' = Untouched
    PROVE  VInv'
<1>1. Held'
  <2>1. \A s \in Request, p \in Prompt, n \in Version :
           Mine(s, p, n)' = Mine(s, p, n) \/ Mine(s, p, n)' = Untouched
    BY DEF Others, SameMine
  <2>2. Untouched # Absent /\ Untouched # "active"
    BY WorkspaceAssumption DEF Value
  <2>3. Exclusive /\ Kept /\ OneHolder
    BY DEF VInv, Held
  <2>4. Exclusive'
    BY <2>1, <2>3 DEF Exclusive
  <2>5. Kept'
    BY <2>1, <2>2, <2>3 DEF Kept
  <2>6. OneHolder'
    BY <2>1, <2>2, <2>3 DEF OneHolder
  <2> QED BY <2>4, <2>5, <2>6 DEF Held
<1>2. \A p \in Prompt, n \in Version : View(r, p, n)' = Db(p, n)
  BY DEF View, SameDb
<1>3. DbNumbered /\ DbAtMostOne /\ DbAtLeastOne
  BY DEF VInv, DbGood
<1>4. Numbered(r)' /\ AtMostOne(r)' /\ AtLeastOne(r)'
  BY <1>2, <1>3 DEF Numbered, AtMostOne, AtLeastOne, DbNumbered, DbAtMostOne, DbAtLeastOne
<1> QED BY <1>1, <1>4, OthersSee DEF VInv, Sees

(* It inserted version n of p, which it did not see and nobody else holds. *)
LEMMA Inserted ==
    ASSUME VInv, NEW r \in Request, SameDb, Others(r), AtStep(r)',
           NEW p \in Prompt, NEW n \in Version, NEW v,
           View(r, p, n) = Absent, req[r].step # "set",
           \A s \in Request \ {r} : Mine(s, p, n) = Untouched,
           Mine(r, p, n)' = v,
           \A q \in Prompt, m \in Version : q # p \/ m # n => Mine(r, q, m)' = Mine(r, q, m),
           \/ v = "active" /\ n = 1
           \/ v = "idle" /\ \E m \in Version : m + 1 = n /\ View(r, p, m) # Absent
    PROVE  VInv'
<1>1. v # Absent /\ v # Untouched /\ Absent # Untouched
  BY WorkspaceAssumption DEF Value
<1>2. Exclusive /\ Kept /\ OneHolder /\ DbNumbered
  BY DEF VInv, Held, DbGood
<1>3. \A s \in Request : Numbered(s)
  BY DEF VInv, Sees
<1>4. AtMostOne(r) /\ AtLeastOne(r)
  BY DEF VInv, Sees
<1>5. Exclusive' /\ Kept'
  BY <1>1, <1>2 DEF Exclusive, Kept, Others, SameMine
<1>6. ASSUME v = "active" PROVE \A m \in Version : View(r, p, m) = Absent
  <2>1. n = 1 /\ \A m \in Version : n <= m
    BY <1>6 DEF Version
  <2> QED BY <1>3, <2>1 DEF Numbered
<1>7. ASSUME v = "active", NEW s \in Request \ {r}, NEW m \in Version, Mine(s, p, m) = "active"
      PROVE  FALSE
  <2>1. View(s, p, m) # Absent
    BY <1>7, <1>2, WorkspaceAssumption DEF View, Value
  <2>2. n <= m
    BY <1>7 DEF Version
  <2>3. View(s, p, n) # Absent
    BY <2>1, <2>2, <1>3 DEF Numbered
  <2>4. Db(p, n) # Absent
    BY <2>3 DEF View
  <2>5. Db(p, n) = Absent
    BY <1>2 DEF View, Kept
  <2> QED BY <2>4, <2>5
<1>8. OneHolder'
  <2> SUFFICES ASSUME NEW q \in Prompt, NEW k \in Version, NEW m \in Version,
                      NEW s \in Request, NEW t \in Request,
                      Mine(s, q, k)' = "active", Mine(t, q, m)' = "active", s # t
               PROVE  FALSE
    BY DEF OneHolder
  <2>1. CASE s # r /\ t # r
    BY <2>1, <1>2 DEF OneHolder, Others, SameMine
  <2>2. ASSUME NEW u \in Request \ {r}, NEW i \in Version, NEW j \in Version,
               Mine(r, q, i)' = "active", Mine(u, q, j)' = "active"
        PROVE  FALSE
    <3>1. Mine(u, q, j) = "active"
      BY <2>2 DEF Others, SameMine
    <3>2. CASE q # p \/ i # n
      BY <2>2, <3>1, <3>2, <1>2 DEF OneHolder
    <3>3. CASE q = p /\ i = n
      BY <2>2, <3>1, <3>3, <1>7
    <3> QED BY <3>2, <3>3
  <2> QED BY <2>1, <2>2
<1>9. /\ View(r, p, n)' = v
      /\ \A q \in Prompt, m \in Version : q # p \/ m # n => View(r, q, m)' = View(r, q, m)
  BY <1>1 DEF View, SameDb
<1>10. Numbered(r)'
  <2> SUFFICES ASSUME NEW q \in Prompt, NEW k \in Version, NEW m \in Version,
                      View(r, q, k)' # Absent, m <= k
               PROVE  View(r, q, m)' # Absent
    BY DEF Numbered
  <2>1. CASE q # p
    BY <2>1, <1>3, <1>9 DEF Numbered
  <2>2. CASE q = p /\ m = n
    BY <2>2, <1>1, <1>9
  <2>3. CASE q = p /\ m # n /\ k # n
    BY <2>3, <1>3, <1>9 DEF Numbered
  <2>4. CASE q = p /\ m # n /\ k = n
    <3>1. CASE n = 1
      BY <2>4, <3>1 DEF Version
    <3>2. ASSUME NEW i \in Version, i + 1 = n, View(r, p, i) # Absent PROVE View(r, p, m) # Absent
      <4>1. m <= i
        BY <2>4, <3>2 DEF Version
      <4> QED BY <4>1, <3>2, <1>3 DEF Numbered
    <3> QED BY <2>4, <3>1, <3>2, <1>9
  <2> QED BY <2>1, <2>2, <2>3, <2>4
<1>11. AtMostOne(r)'
  <2>1. CASE v = "active"
    BY <2>1, <1>4, <1>6, <1>9, WorkspaceAssumption DEF AtMostOne, Value
  <2>2. CASE v = "idle"
    BY <2>2, <1>4, <1>9 DEF AtMostOne
  <2> QED BY <2>1, <2>2
<1>12. AtLeastOne(r)'
  <2> SUFFICES ASSUME NEW q \in Prompt, NEW k \in Version, View(r, q, k)' # Absent
               PROVE  \E m \in Version : View(r, q, m)' = "active"
    BY DEF AtLeastOne
  <2>1. CASE v = "active" /\ q = p
    BY <2>1, <1>9
  <2>2. ASSUME NEW j \in Version, View(r, q, j) # Absent, q # p \/ v # "active"
        PROVE  \E m \in Version : View(r, q, m)' = "active"
    <3>1. PICK m \in Version : View(r, q, m) = "active"
      BY <2>2, <1>4 DEF AtLeastOne, Setting
    <3>2. q # p \/ m # n
      BY <3>1, WorkspaceAssumption DEF Value
    <3> QED BY <3>1, <3>2, <1>9
  <2>3. CASE q # p \/ k # n
    BY <2>1, <2>2, <2>3, <1>9
  <2>4. CASE q = p /\ k = n /\ v = "idle"
    BY <2>2, <2>4
  <2> QED BY <2>1, <2>3, <2>4
<1> QED BY <1>5, <1>8, <1>10, <1>11, <1>12, OthersSee DEF VInv, Held, Sees

(* It deactivated the versions it had found active, which nobody else holds. *)
LEMMA Deactivated ==
    ASSUME VInv, NEW r \in Request, SameDb, Others(r), AtStep(r)',
           NEW p \in Prompt, NEW still \in SUBSET Version,
           req[r].step # "set", Setting(r, p)',
           \A m \in still : View(r, p, m) = "active"
                            /\ \A s \in Request \ {r} : Mine(s, p, m) = Untouched,
           \A m \in still : Mine(r, p, m)' = "idle",
           \A q \in Prompt, m \in Version : q # p \/ m \notin still =>
               Mine(r, q, m)' = Mine(r, q, m)
    PROVE  VInv'
<1>1. "idle" # Absent /\ "idle" # Untouched /\ "active" # Absent
  BY WorkspaceAssumption DEF Value
<1>2. Exclusive /\ Kept /\ OneHolder
  BY DEF VInv, Held
<1>3. Numbered(r) /\ AtMostOne(r) /\ AtLeastOne(r)
  BY DEF VInv, Sees
<1>4. \A s \in Request, q \in Prompt, m \in Version :
         \/ Mine(s, q, m)' = Mine(s, q, m)
         \/ s = r /\ q = p /\ m \in still /\ Mine(s, q, m)' = "idle"
  <2> SUFFICES ASSUME NEW s \in Request, NEW q \in Prompt, NEW m \in Version
               PROVE  \/ Mine(s, q, m)' = Mine(s, q, m)
                      \/ s = r /\ q = p /\ m \in still /\ Mine(s, q, m)' = "idle"
    OBVIOUS
  <2>1. CASE s # r
    BY <2>1 DEF Others, SameMine
  <2>2. CASE s = r /\ (q # p \/ m \notin still)
    BY <2>2
  <2>3. CASE s = r /\ q = p /\ m \in still
    BY <2>3
  <2> QED BY <2>1, <2>2, <2>3
<1>5. Held'
  <2>1. Exclusive'
    BY <1>2, <1>4 DEF Exclusive
  <2>2. Kept'
    BY <1>1, <1>2, <1>4 DEF Kept
  <2>3. OneHolder'
    BY <1>2, <1>4 DEF OneHolder
  <2> QED BY <2>1, <2>2, <2>3 DEF Held
<1>6. \A q \in Prompt, m \in Version :
         \/ View(r, q, m)' = View(r, q, m)
         \/ q = p /\ m \in still /\ View(r, q, m)' = "idle"
  BY <1>1, <1>4 DEF View, SameDb
<1>7. Numbered(r)'
  BY <1>1, <1>3, <1>6 DEF Numbered
<1>8. AtMostOne(r)'
  BY <1>3, <1>6 DEF AtMostOne
<1>9. AtLeastOne(r)'
  <2> SUFFICES ASSUME NEW q \in Prompt, NEW n \in Version, View(r, q, n)' # Absent, q # p
               PROVE  \E m \in Version : View(r, q, m)' = "active"
    BY DEF AtLeastOne
  <2> QED BY <1>3, <1>6 DEF AtLeastOne, Setting
<1> QED BY <1>5, <1>7, <1>8, <1>9, OthersSee DEF VInv, Sees

(* It activated version n of p, with no other active version in sight. *)
LEMMA Activated ==
    ASSUME VInv, NEW r \in Request, SameDb, Others(r), AtStep(r)',
           NEW p \in Prompt, NEW n \in Version, View(r, p, n) # Absent,
           \A q \in Prompt : Setting(r, q) => q = p,
           \A m \in Version : View(r, p, m) = "active" => m = n,
           \A s \in Request \ {r} :
               Mine(s, p, n) = Untouched /\ \A m \in Version : Mine(s, p, m) # "active",
           Mine(r, p, n)' = "active",
           \A q \in Prompt, m \in Version : q # p \/ m # n => Mine(r, q, m)' = Mine(r, q, m)
    PROVE  VInv'
<1>1. "active" # Absent /\ "active" # Untouched
  BY WorkspaceAssumption DEF Value
<1>2. Exclusive /\ Kept /\ OneHolder
  BY DEF VInv, Held
<1>3. Numbered(r) /\ AtMostOne(r) /\ AtLeastOne(r)
  BY DEF VInv, Sees
<1>4. \A s \in Request, q \in Prompt, m \in Version :
         \/ Mine(s, q, m)' = Mine(s, q, m)
         \/ s = r /\ q = p /\ m = n /\ Mine(s, q, m)' = "active"
  BY DEF Others, SameMine
<1>5. Held'
  <2>1. Exclusive'
    BY <1>2, <1>4 DEF Exclusive
  <2>2. Kept'
    BY <1>1, <1>2, <1>4 DEF Kept
  <2>3. OneHolder'
    BY <1>2, <1>4 DEF OneHolder
  <2> QED BY <2>1, <2>2, <2>3 DEF Held
<1>6. /\ View(r, p, n)' = "active"
      /\ \A q \in Prompt, m \in Version : q # p \/ m # n => View(r, q, m)' = View(r, q, m)
  BY <1>1 DEF View, SameDb
<1>7. Numbered(r)'
  BY <1>1, <1>3, <1>6 DEF Numbered
<1>8. AtMostOne(r)'
  BY <1>3, <1>6 DEF AtMostOne
<1>9. AtLeastOne(r)'
  <2> SUFFICES ASSUME NEW q \in Prompt, NEW k \in Version, View(r, q, k)' # Absent
               PROVE  \E m \in Version : View(r, q, m)' = "active"
    BY DEF AtLeastOne
  <2>1. CASE q = p
    BY <2>1, <1>6
  <2>2. CASE q # p
    BY <2>2, <1>3, <1>6 DEF AtLeastOne
  <2> QED BY <2>1, <2>2
<1> QED BY <1>5, <1>7, <1>8, <1>9, OthersSee DEF VInv, Sees

(* It committed: what it saw is what everybody reads from now on. *)
LEMMA Committed ==
    ASSUME VInv, NEW r \in Request, Others(r), req[r].step = "field", AtStep(r)',
           \A p \in Prompt, n \in Version :
               Db(p, n)' = View(r, p, n) /\ Mine(r, p, n)' = Untouched
    PROVE  VInv'
<1>1. Untouched # Absent /\ Untouched # "active" /\ "active" # Absent
  BY WorkspaceAssumption DEF Value
<1>2. Exclusive /\ Kept /\ OneHolder
  BY DEF VInv, Held
<1>3. /\ Numbered(r) /\ AtMostOne(r)
      /\ \A p \in Prompt, n \in Version : View(r, p, n) # Absent =>
             \E m \in Version : View(r, p, m) = "active"
  BY DEF VInv, Sees, AtLeastOne, Setting
<1>4. DbNumbered' /\ DbAtMostOne' /\ DbAtLeastOne'
  BY <1>3 DEF DbNumbered, DbAtMostOne, DbAtLeastOne, Numbered, AtMostOne
<1>5. \A s \in Request, p \in Prompt, n \in Version :
         Mine(s, p, n)' = Mine(s, p, n) \/ Mine(s, p, n)' = Untouched
  BY DEF Others, SameMine
<1>6. Held'
  <2>1. Exclusive'
    BY <1>2, <1>5 DEF Exclusive
  <2>2. Kept'
    BY <1>1, <1>2, <1>5 DEF Kept
  <2>3. OneHolder'
    BY <1>1, <1>2, <1>5 DEF OneHolder
  <2> QED BY <2>1, <2>2, <2>3 DEF Held
<1>7. \A p \in Prompt, n \in Version : View(r, p, n)' = Db(p, n)'
  BY DEF View
<1>8. Numbered(r)' /\ AtMostOne(r)' /\ AtLeastOne(r)'
  BY <1>4, <1>7 DEF Numbered, AtMostOne, AtLeastOne, DbNumbered, DbAtMostOne, DbAtLeastOne
<1>9. ASSUME NEW s \in Request \ {r} PROVE Sees(s)'
  <2>1. /\ \A p \in Prompt, n \in Version : Mine(s, p, n)' = Mine(s, p, n)
        /\ req'[s] = req[s]
    BY DEF Others, SameMine
  <2>2. Numbered(s) /\ AtMostOne(s) /\ AtLeastOne(s) /\ AtStep(s)
    BY DEF VInv, Sees
  <2>3. \A p \in Prompt, n \in Version :
           View(s, p, n)' = IF Mine(s, p, n) = Untouched THEN View(r, p, n) ELSE Mine(s, p, n)
    BY <2>1 DEF View
  (* What s saw is still there, and nothing it could not see appears out of order. *)
  <2>4. \A p \in Prompt, n \in Version : View(s, p, n) # Absent => View(s, p, n)' # Absent
    BY <2>3, <1>2 DEF View, Kept
  <2>5. \A p \in Prompt, n \in Version : View(r, p, n) # Absent => View(s, p, n)' # Absent
    BY <2>3, <1>2 DEF Kept
  <2>6. \A p \in Prompt, n \in Version :
           View(s, p, n)' # Absent => View(s, p, n) # Absent \/ View(r, p, n) # Absent
    BY <2>3 DEF View
  <2>7. Numbered(s)'
    BY <2>2, <1>3, <2>4, <2>5, <2>6 DEF Numbered
  <2>8. AtMostOne(s)'
    <3> SUFFICES ASSUME NEW p \in Prompt, NEW m \in Version, NEW n \in Version,
                        View(s, p, m)' = "active", View(s, p, n)' = "active"
                 PROVE  m = n
      BY DEF AtMostOne
    <3>1. CASE Mine(s, p, m) # Untouched /\ Mine(s, p, n) # Untouched
      BY <3>1, <2>2, <2>3 DEF AtMostOne, View
    <3>2. CASE Mine(s, p, m) = Untouched /\ Mine(s, p, n) = Untouched
      BY <3>2, <1>3, <2>3 DEF AtMostOne
    <3>3. ASSUME NEW i \in Version, NEW j \in Version,
                 Mine(s, p, i) = "active", Mine(s, p, j) = Untouched, View(r, p, j) = "active"
          PROVE  i = j
      <4>1. Mine(r, p, j) # "active"
        BY <3>3, <1>2 DEF OneHolder
      <4>2. View(s, p, j) = "active"
        BY <3>3, <4>1 DEF View
      <4>3. View(s, p, i) = "active"
        BY <3>3, <1>1 DEF View
      <4> QED BY <4>2, <4>3, <2>2 DEF AtMostOne
    <3> QED BY <3>1, <3>2, <3>3, <2>3
  <2>9. AtLeastOne(s)'
    <3> SUFFICES ASSUME NEW p \in Prompt, NEW n \in Version,
                        View(s, p, n)' # Absent, ~ Setting(s, p)
                 PROVE  \E m \in Version : View(s, p, m)' = "active"
      BY <2>1 DEF AtLeastOne, Setting
    <3>1. ASSUME NEW j \in Version, View(s, p, j) # Absent
          PROVE  \E m \in Version : View(s, p, m)' = "active"
      <4>1. PICK m \in Version : View(s, p, m) = "active"
        BY <3>1, <2>2 DEF AtLeastOne
      <4>2. CASE View(s, p, m)' = "active"
        BY <4>2
      <4>3. CASE View(s, p, m)' # "active"
        (* r replaced the version s had seen active by another one. *)
        <5>1. Mine(s, p, m) = Untouched /\ Db(p, m) = "active" /\ View(r, p, m) # "active"
          BY <4>1, <4>3, <2>3 DEF View
        <5>2. Mine(r, p, m) # Untouched
          BY <5>1 DEF View
        <5>3. View(r, p, m) # Absent
          BY <5>2, <1>2 DEF View, Kept
        <5>4. PICK k \in Version : View(r, p, k) = "active"
          BY <5>3, <1>3
        <5>5. CASE Mine(s, p, k) = Untouched
          BY <5>4, <5>5, <2>3
        <5>6. CASE Mine(s, p, k) # Untouched
          <6>1. Mine(r, p, k) = Untouched
            BY <5>6, <1>2 DEF Exclusive
          <6>2. Db(p, k) = "active"
            BY <6>1, <5>4 DEF View
          <6>3. k = m
            BY <6>2, <5>1 DEF VInv, DbGood, DbAtMostOne
          <6> QED BY <6>3, <5>1, <5>6
        <5> QED BY <5>5, <5>6
      <4> QED BY <4>2, <4>3
    <3>2. CASE View(s, p, n) = Absent
      <4>1. Mine(s, p, n) = Untouched /\ Db(p, n) = Absent /\ View(r, p, n) # Absent
        BY <3>2, <2>3, <1>2 DEF View, Kept
      <4>2. PICK k \in Version : View(r, p, k) = "active"
        BY <4>1, <1>3
      <4>3. CASE Mine(s, p, k) = Untouched
        BY <4>2, <4>3, <2>3
      <4>4. CASE Mine(s, p, k) # Untouched
        <5>1. View(s, p, k) # Absent
          BY <4>4, <1>2 DEF View, Kept
        <5> QED BY <5>1, <3>1
      <4> QED BY <4>3, <4>4
    <3> QED BY <3>1, <3>2
  <2>10. AtStep(s)'
    BY <2>1, <2>2, <2>4, Steady
  <2> QED BY <2>7, <2>8, <2>9, <2>10 DEF Sees
<1> QED BY <1>4, <1>6, <1>8, <1>9 DEF VInv, DbGood, Sees, Held

-----------------------------------------------------------------------------
(* Every action keeps the invariant. *)

LEMMA SeenVersions ==
    ASSUME NEW r \in Request, NEW p \in Prompt, NEW n \in Version
    PROVE  Visible(r, VersionRow(p, n)) = View(r, p, n)
BY DEF Visible, View, Mine, Db

LEMMA GoOnKeeps ==
    ASSUME IInv, NEW r \in Request, NEW step \in Step, NEW x, NEW v, NEW seen,
           StartsField(r), GoOn(r, step, x, v, seen), AtStep(r)'
    PROVE  VInv'
<1>1. SameDb /\ Others(r) /\ SameMine(r)
  BY DEF GoOn, SameDb, Others, SameMine, Db, Mine, IInv, TypeOK
<1> QED BY <1>1, Quietly DEF IInv, StartsField

(* The row and the value a field goes on to are what its statement expects. *)
LEMMA Aims ==
    ASSUME IInv, NEW r \in Request, NEW step \in Step, NEW x, NEW v, NEW seen,
           GoOn(r, step, x, v, seen)
    PROVE  /\ req'[r].step = step /\ req'[r].row = x /\ req'[r].to = v
           /\ \A p \in Prompt, n \in Version : View(r, p, n)' = View(r, p, n)
BY DEF GoOn, IInv, TypeOK, View, Mine, Db

LEMMA WritesNothingKeeps ==
    ASSUME IInv, NEW r \in Request, StartsField(r), WritesNothing(r)
    PROVE  VInv'
<1>1. SameDb /\ Others(r) /\ SameMine(r)
  BY DEF WritesNothing, SameDb, Others, SameMine, Db, Mine, IInv, TypeOK
<1>2. req[r].step = "field" /\ req'[r].step = "field"
  BY DEF WritesNothing, StartsField, IInv, TypeOK
<1>3. AtStep(r)'
  BY <1>2 DEF AtStep, InsertStep, ActivateStep, AgentStep
<1> QED BY <1>1, <1>2, <1>3, Quietly DEF IInv

LEMMA FlushFailsKeeps ==
    ASSUME IInv, NEW r \in Request, FlushFails(r)
    PROVE  VInv'
<1>1. SameDb /\ Others(r)
  BY DEF FlushFails, SameDb, Others, SameMine, Db, Mine, IInv, TypeOK
<1>2. \A p \in Prompt, n \in Version : Mine(r, p, n)' = Untouched
  BY VersionRows DEF FlushFails, Unwritten, Mine, IInv, TypeOK
<1>3. req'[r].step = "field"
  BY DEF FlushFails, IInv, TypeOK
<1>4. AtStep(r)'
  BY <1>3 DEF AtStep, InsertStep, ActivateStep, AgentStep
<1> QED BY <1>1, <1>2, <1>4, Aborted DEF IInv

(* A flush that writes no version. *)
LEMMA FlushKeeps ==
    ASSUME IInv, NEW r \in Request, NEW w, Flush(r, w), req[r].step # "set",
           \A p \in Prompt, n \in Version : VersionRow(p, n) \notin DOMAIN w
    PROVE  VInv'
<1>1. SameDb
  BY DEF Flush, SameDb, Db
<1>2. SameMine(r)
  BY VersionRows DEF Flush, SameMine, Mine, IInv, TypeOK
<1>3. req'[r].step = "field" /\ \A s \in Request \ {r} : req'[s] = req[s]
  BY FieldDoneTyped DEF Flush, IInv
<1>4. Others(r)
  BY <1>3 DEF Others, SameMine, Mine, Flush, IInv, TypeOK
<1>5. AtStep(r)'
  BY <1>3 DEF AtStep, InsertStep, ActivateStep, AgentStep
<1> QED BY <1>1, <1>2, <1>4, <1>5, Quietly DEF IInv

LEMMA PromptFieldKeeps ==
    ASSUME IInv, NEW r \in Request, NEW p \in Prompt,
           \/ CreatePrompt(r, p) \/ CreateVersion(r, p)
           \/ \E n \in Version : ActivateVersion(r, p, n)
    PROVE  VInv'
<1>1. CASE CreatePrompt(r, p)
  <2>1. GoOn(r, "version", VersionRow(p, 1), "active", {}) /\ StartsField(r)
    BY <1>1 DEF CreatePrompt
  <2>2. 1 \in Version
    BY WorkspaceAssumption DEF Version
  <2>3. /\ req'[r].step = "version" /\ req'[r].row = VersionRow(p, 1) /\ req'[r].to = "active"
    BY <2>1, Aims DEF Step
  <2>4. AtStep(r)'
    BY <2>2, <2>3 DEF AtStep, InsertStep, ActivateStep, AgentStep
  <2> QED BY <2>1, <2>4, GoOnKeeps DEF Step
<1>2. CASE CreateVersion(r, p)
  <2>1. CASE WritesNothing(r)
    BY <1>2, <2>1, WritesNothingKeeps DEF CreateVersion
  <2>2. ASSUME NEW n \in 1 .. MaxVersion - 1, Highest(r, p, n),
               GoOn(r, "version", VersionRow(p, n + 1), "idle", {})
        PROVE  VInv'
    <3>1. n + 1 \in Version /\ n \in Version /\ n > 0
      BY <2>2, WorkspaceAssumption DEF Version
    <3>2. View(r, p, n) # Absent
      BY <2>2, <3>1, SeenVersions DEF Highest
    <3>3. /\ req'[r].step = "version" /\ req'[r].row = VersionRow(p, n + 1)
          /\ req'[r].to = "idle" /\ View(r, p, n)' # Absent
      BY <2>2, <3>1, <3>2, Aims DEF Step
    <3>4. AtStep(r)'
      BY <3>1, <3>3 DEF AtStep, InsertStep, ActivateStep, AgentStep
    <3> QED BY <1>2, <2>2, <3>4, GoOnKeeps DEF CreateVersion, Step
  <2> QED BY <1>2, <2>1, <2>2 DEF CreateVersion
<1>3. ASSUME NEW n \in Version, ActivateVersion(r, p, n) PROVE VInv'
  <2> DEFINE seen == {m \in Version : Visible(r, VersionRow(p, m)) = "active"}
  <2>1. CASE WritesNothing(r)
    BY <1>3, <2>1, WritesNothingKeeps DEF ActivateVersion
  <2>2. CASE /\ Visible(r, VersionRow(p, n)) # Absent
             /\ GoOn(r, "clear", VersionRow(p, n), "active", seen)
    <3> HIDE DEF seen
    <3>1. /\ req'[r].step = "clear" /\ req'[r].row = VersionRow(p, n)
          /\ View(r, p, n)' # Absent
      BY <2>2, Aims, SeenVersions DEF Step
    <3>2. AtStep(r)'
      BY <3>1 DEF AtStep, InsertStep, ActivateStep, AgentStep
    <3> QED BY <1>3, <2>2, <3>2, GoOnKeeps DEF ActivateVersion, Step
  <2> QED BY <1>3, <2>1, <2>2 DEF ActivateVersion
<1> QED BY <1>1, <1>2, <1>3

(* The fields about agents go on to a row of an agent, or write nothing. *)
AgentAims(r, a) ==
    \/ WritesNothing(r)
    \/ \E step \in {"edit", "erase"} : \E v : GoOn(r, step, AgentRow(a), v, {})
    \/ \E step \in {"grant", "flip", "mint", "revoke"} : \E x \in Children(a) : \E v :
           GoOn(r, step, x, v, {})

LEMMA AgentFieldKeeps ==
    ASSUME IInv, NEW r \in Request, NEW a \in Agent, StartsField(r), AgentAims(r, a)
    PROVE  VInv'
<1>1. CASE WritesNothing(r)
  BY <1>1, WritesNothingKeeps
<1>2. ASSUME NEW step \in {"edit", "erase"}, NEW v, GoOn(r, step, AgentRow(a), v, {})
      PROVE  VInv'
  <2>1. req'[r].step = step /\ req'[r].row = AgentRow(a)
    BY <1>2, Aims DEF Step
  <2>2. AtStep(r)'
    BY <1>2, <2>1 DEF AtStep, InsertStep, ActivateStep, AgentStep
  <2> QED BY <1>2, <2>2, GoOnKeeps DEF Step
<1>3. ASSUME NEW step \in {"grant", "flip", "mint", "revoke"}, NEW x \in Children(a), NEW v,
             GoOn(r, step, x, v, {})
      PROVE  VInv'
  <2>1. req'[r].step = step /\ req'[r].row = x
    BY <1>3, Aims DEF Step
  <2>2. AtStep(r)'
    <3>1. AgentStep(r)' = (/\ req'[r].step \in {"edit", "erase"} =>
                                 \E b \in Agent : req'[r].row = AgentRow(b)
                           /\ req'[r].step \in {"grant", "flip", "mint", "revoke"} =>
                                 \E b \in Agent : req'[r].row \in Children(b))
      BY DEF AgentStep, Children, LinkRow, KeyRow, ConfigRow, AgentRow
    <3> QED BY <1>3, <2>1, <3>1 DEF AtStep, InsertStep, ActivateStep
  <2> QED BY <1>3, <2>2, GoOnKeeps DEF Step
<1> QED BY <1>1, <1>2, <1>3 DEF AgentAims

LEMMA FieldKeeps ==
    ASSUME IInv, NEW r \in Request, Field(r)
    PROVE  VInv'
<1>1. ASSUME NEW p \in Prompt,
             \/ CreatePrompt(r, p) \/ CreateVersion(r, p)
             \/ \E n \in Version : ActivateVersion(r, p, n)
      PROVE  VInv'
  BY <1>1, PromptFieldKeeps
<1>2. ASSUME NEW a \in Agent,
             CreateAgent(r, a) \/ DeleteAgent(r, a) \/ \E prompts : SetPrompt(r, a, prompts)
      PROVE  StartsField(r) /\ AgentAims(r, a)
  BY <1>2 DEF CreateAgent, DeleteAgent, SetPrompt, AgentAims
<1>3. ASSUME NEW a \in Agent, NEW status, UpdateAgent(r, a, status)
      PROVE  StartsField(r) /\ AgentAims(r, a)
  BY <1>3 DEF UpdateAgent, AgentAims
<1>4. ASSUME NEW a \in Agent, UpdateConfig(r, a)
      PROVE  StartsField(r) /\ AgentAims(r, a)
  <2>1. ConfigRow(a) \in Children(a)
    BY DEF Children
  <2> QED BY <1>4, <2>1 DEF UpdateConfig, AgentAims
<1>5. ASSUME NEW a \in Agent, NEW t \in Tool, NEW v, SetToolEnabled(r, a, t, v)
      PROVE  StartsField(r) /\ AgentAims(r, a)
  <2>1. LinkRow(a, t) \in Children(a)
    BY DEF Children
  <2> QED BY <1>5, <2>1 DEF SetToolEnabled, AgentAims
<1>6. ASSUME NEW a \in Agent, NEW k \in Key, NEW privileged,
             CreateKey(r, a, k, privileged) \/ Revoke(r, a, k, privileged)
      PROVE  StartsField(r) /\ AgentAims(r, a)
  <2>1. KeyRow(a, k) \in Children(a)
    BY DEF Children
  <2> QED BY <1>6, <2>1 DEF CreateKey, Revoke, AgentAims
<1> QED BY <1>1, <1>2, <1>3, <1>4, <1>5, <1>6, AgentFieldKeeps DEF Field

LEMMA NoWriters ==
    ASSUME NEW r \in Request, NEW X, Writers(r, X) = {}, NEW p \in Prompt, NEW n \in Version,
           VersionRow(p, n) \in X, NEW s \in Request \ {r}
    PROVE  Mine(s, p, n) = Untouched
BY DEF Writers, Mine

LEMMA InsertVersionKeeps ==
    ASSUME IInv, NEW r \in Request, InsertVersion(r)
    PROVE  VInv'
<1>1. CASE FlushFails(r)
  BY <1>1, FlushFailsKeeps
<1>2. CASE /\ Visible(r, req[r].row) = Absent
           /\ Flush(r, One(req[r].row, req[r].to))
  <2>1. req[r].step = "version" /\ Blockers(r) = {} /\ InsertStep(r)
    BY DEF InsertVersion, Runs, IInv, VInv, Sees, AtStep
  <2>2. PICK p \in Prompt, n \in Version :
           /\ req[r].row = VersionRow(p, n)
           /\ \/ req[r].to = "active" /\ n = 1
              \/ req[r].to = "idle" /\ \E m \in Version : m + 1 = n /\ View(r, p, m) # Absent
    BY <2>1 DEF InsertStep
  <2>3. View(r, p, n) = Absent
    BY <1>2, <2>2, SeenVersions
  <2>4. \A s \in Request \ {r} : Mine(s, p, n) = Untouched
    <3>1. Writers(r, {req[r].row}) = {}
      BY <2>1 DEF Blockers
    <3> QED BY <3>1, <2>2, NoWriters
  <2>5. SameDb
    BY <1>2 DEF Flush, SameDb, Db
  <2>6. req'[r].step = "field" /\ \A s \in Request \ {r} : req'[s] = req[s]
    BY <1>2, FieldDoneTyped DEF Flush, IInv
  <2>7. Others(r)
    BY <1>2, <2>6 DEF Others, SameMine, Mine, Flush, IInv, TypeOK
  <2>8. AtStep(r)'
    BY <2>6 DEF AtStep, InsertStep, ActivateStep, AgentStep
  <2>9. Mine(r, p, n)' = req[r].to
    BY <1>2, <2>2, VersionRows DEF Flush, One, Mine, IInv, TypeOK
  <2>10. \A q \in Prompt, m \in Version : q # p \/ m # n => Mine(r, q, m)' = Mine(r, q, m)
    BY <1>2, <2>2, VersionRows DEF Flush, One, Mine, IInv, TypeOK
  <2> HIDE DEF IInv
  <2>11. VInv /\ req[r].step # "set"
    BY <2>1 DEF IInv
  <2> QED BY <2>2, <2>3, <2>4, <2>5, <2>7, <2>8, <2>9, <2>10, <2>11, Inserted
<1> QED BY <1>1, <1>2 DEF InsertVersion

LEMMA DeactivateKeeps ==
    ASSUME IInv, NEW r \in Request, Deactivate(r)
    PROVE  VInv'
<1>1. req[r].step = "clear" /\ Blockers(r) = {} /\ ActivateStep(r)
  BY DEF Deactivate, Runs, IInv, VInv, Sees, AtStep
<1>2. PICK p \in Prompt, n \in Version : req[r].row = VersionRow(p, n) /\ View(r, p, n) # Absent
  BY <1>1 DEF ActivateStep
<1>3. req[r].row[2] = p
  BY <1>2, VersionRows
<1>4. req[r].seen \in SUBSET Version
  BY DEF IInv, TypeOK
<1> DEFINE still == {m \in req[r].seen : Visible(r, VersionRow(p, m)) = "active"}
           rows == {VersionRow(p, m) : m \in still}
<1>5. mine' = [mine EXCEPT ![r] = [x \in Row |-> IF x \in rows THEN "idle" ELSE mine[r][x]]]
  BY <1>3 DEF Deactivate
<1>6. req' = [req EXCEPT ![r] = [req[r] EXCEPT !.step = "set", !.seen = {}]] /\ UNCHANGED db
  BY DEF Deactivate
<1>7. still \in SUBSET Version
  BY <1>4
<1>8. \A m \in still : View(r, p, m) = "active"
                       /\ \A s \in Request \ {r} : Mine(s, p, m) = Untouched
  <2>1. Writers(r, {VersionRow(p, m) : m \in req[r].seen}) = {}
    BY <1>1, <1>3 DEF Blockers
  <2> SUFFICES ASSUME NEW m \in still
               PROVE  View(r, p, m) = "active" /\ \A s \in Request \ {r} : Mine(s, p, m) = Untouched
    OBVIOUS
  <2>2. m \in Version /\ m \in req[r].seen
    BY <1>7
  <2>3. View(r, p, m) = "active"
    BY <2>2, SeenVersions
  <2> DEFINE X == {VersionRow(p, k) : k \in req[r].seen}
  <2>4. VersionRow(p, m) \in X
    BY <2>2
  <2> HIDE DEF X
  <2>5. \A s \in Request \ {r} : Mine(s, p, m) = Untouched
    BY <2>1, <2>2, <2>4, NoWriters DEF X
  <2> QED BY <2>3, <2>5
<1>9. \A q \in Prompt, m \in Version : VersionRow(q, m) \in rows <=> q = p /\ m \in still
  BY <1>7, VersionRows
<1> HIDE DEF still, rows
<1>10. \A m \in still : Mine(r, p, m)' = "idle"
  BY <1>5, <1>7, <1>9, VersionRows DEF Mine, IInv, TypeOK
<1>11. \A q \in Prompt, m \in Version : q # p \/ m \notin still => Mine(r, q, m)' = Mine(r, q, m)
  BY <1>5, <1>9, VersionRows DEF Mine, IInv, TypeOK
<1>12. SameDb
  BY <1>6 DEF SameDb, Db
<1>13. Others(r)
  BY <1>5, <1>6 DEF Others, SameMine, Mine, IInv, TypeOK
<1>14. req'[r].step = "set" /\ req'[r].row = req[r].row
  BY <1>6 DEF IInv, TypeOK
<1>15. Setting(r, p)'
  BY <1>3, <1>14 DEF Setting
<1>16. View(r, p, n)' # Absent
  <2>1. "idle" # Absent /\ "idle" # Untouched
    BY WorkspaceAssumption DEF Value
  <2>2. CASE n \in still
    BY <2>1, <2>2, <1>10 DEF View
  <2>3. CASE n \notin still
    BY <2>3, <1>2, <1>11, <1>12 DEF View, SameDb
  <2> QED BY <2>2, <2>3
<1>17. AtStep(r)'
  BY <1>2, <1>14, <1>16 DEF AtStep, InsertStep, ActivateStep, AgentStep
<1>18. VInv /\ req[r].step # "set"
  BY <1>1 DEF IInv
<1> HIDE DEF IInv
<1> QED BY <1>7, <1>8, <1>10, <1>11, <1>12, <1>13, <1>15, <1>17, <1>18, Deactivated

LEMMA ActivateKeeps ==
    ASSUME IInv, NEW r \in Request, Activate(r)
    PROVE  VInv'
<1>1. CASE FlushFails(r)
  BY <1>1, FlushFailsKeeps
<1>2. CASE ~ OtherActive(r, req[r].row) /\ Flush(r, One(req[r].row, "active"))
  <2>1. req[r].step = "set" /\ Blockers(r) = {} /\ ActivateStep(r)
    BY DEF Activate, Runs, IInv, VInv, Sees, AtStep
  <2>2. PICK p \in Prompt, n \in Version :
           req[r].row = VersionRow(p, n) /\ View(r, p, n) # Absent
    BY <2>1 DEF ActivateStep
  <2>3. req[r].row[2] = p
    BY <2>2, VersionRows
  <2>4. \A q \in Prompt : Setting(r, q) => q = p
    BY <2>3 DEF Setting
  <2>5. \A m \in Version : View(r, p, m) = "active" => m = n
    BY <1>2, <2>2, <2>3, SeenVersions, VersionRows DEF OtherActive
  <2>6. Writers(r, {req[r].row}) = {} /\ Activators(r, p) = {}
    BY <2>1, <2>3 DEF Blockers
  <2>7. \A s \in Request \ {r} :
           Mine(s, p, n) = Untouched /\ \A m \in Version : Mine(s, p, m) # "active"
    BY <2>2, <2>6, NoWriters DEF Activators, Mine
  <2>8. SameDb
    BY <1>2 DEF Flush, SameDb, Db
  <2>9. req'[r].step = "field" /\ \A s \in Request \ {r} : req'[s] = req[s]
    BY <1>2, FieldDoneTyped DEF Flush, IInv
  <2>10. Others(r)
    BY <1>2, <2>9 DEF Others, SameMine, Mine, Flush, IInv, TypeOK
  <2>11. AtStep(r)'
    BY <2>9 DEF AtStep, InsertStep, ActivateStep, AgentStep
  <2>12. Mine(r, p, n)' = "active"
    BY <1>2, <2>2, VersionRows DEF Flush, One, Mine, IInv, TypeOK
  <2>13. \A q \in Prompt, m \in Version : q # p \/ m # n => Mine(r, q, m)' = Mine(r, q, m)
    BY <1>2, <2>2, VersionRows DEF Flush, One, Mine, IInv, TypeOK
  <2>14. VInv
    BY DEF IInv
  <2> QED BY <2>2, <2>4, <2>5, <2>7, <2>8, <2>10, <2>11, <2>12, <2>13, <2>14, Activated
<1> QED BY <1>1, <1>2 DEF Activate

(* The other statements write rows of agents. *)
LEMMA AgentStatementKeeps ==
    ASSUME IInv, NEW r \in Request,
           InsertAgent(r) \/ WriteAgent(r) \/ EraseAgent(r) \/ InsertLink(r) \/ FlipLink(r)
             \/ InsertKey(r) \/ WriteRevoked(r)
    PROVE  VInv'
<1>1. AgentStep(r)
  BY DEF IInv, VInv, Sees, AtStep
<1>2. ASSUME req[r].step \in {"edit", "erase"}
      PROVE  \E a \in Agent : req[r].row = AgentRow(a) /\ req[r].row[2] = a
  BY <1>1, <1>2, AgentRows DEF AgentStep
<1>3. ASSUME req[r].step \in {"grant", "flip", "mint", "revoke"}, NEW v,
             Flush(r, One(req[r].row, v))
      PROVE  VInv'
  <2>1. \A p \in Prompt, n \in Version : VersionRow(p, n) # req[r].row
    BY <1>1, <1>3, ChildRows DEF AgentStep
  <2> QED BY <1>3, <2>1, FlushKeeps DEF One
<1>4. CASE FlushFails(r)
  BY <1>4, FlushFailsKeeps
<1>5. CASE InsertAgent(r)
  <2>1. req[r].step = "edit"
    BY <1>5 DEF InsertAgent, Runs
  <2>2. PICK a \in Agent : req[r].row = AgentRow(a) /\ req[r].row[2] = a
    BY <1>2, <2>1
  <2>3. CASE Flush(r, Newborn(req[r].row[2]))
    <3>1. DOMAIN Newborn(a) = {AgentRow(a), ConfigRow(a)} \cup {LinkRow(a, t) : t \in Default}
      BY DEF Newborn
    <3>2. {ConfigRow(a)} \cup {LinkRow(a, t) : t \in Default} \subseteq Children(a)
      BY WorkspaceAssumption DEF Children
    <3>3. \A p \in Prompt, n \in Version : VersionRow(p, n) \notin DOMAIN Newborn(a)
      BY <3>1, <3>2, AgentRows, ChildRows
    <3> QED BY <2>1, <2>2, <2>3, <3>3, FlushKeeps
  <2> QED BY <1>4, <1>5, <2>3 DEF InsertAgent
<1>6. CASE WriteAgent(r)
  <2>1. req[r].step = "edit"
    BY <1>6 DEF WriteAgent, Runs
  <2>2. PICK a \in Agent : req[r].row = AgentRow(a)
    BY <1>2, <2>1
  <2>3. ASSUME NEW v, Flush(r, One(req[r].row, v)) PROVE VInv'
    <3>1. \A p \in Prompt, n \in Version : VersionRow(p, n) # req[r].row
      BY <2>2, AgentRows
    <3> QED BY <2>1, <2>3, <3>1, FlushKeeps DEF One
  <2> QED BY <1>4, <1>6, <2>3 DEF WriteAgent
<1>7. CASE EraseAgent(r)
  <2>1. req[r].step = "erase"
    BY <1>7 DEF EraseAgent, Runs
  <2>2. PICK a \in Agent : req[r].row = AgentRow(a) /\ req[r].row[2] = a
    BY <1>2, <2>1
  <2> DEFINE w == [x \in {y \in {req[r].row} \cup Children(req[r].row[2]) :
                             Visible(r, y) # Absent} |-> Absent]
  <2>3. Flush(r, w)
    BY <1>7 DEF EraseAgent
  <2>4. \A p \in Prompt, n \in Version : VersionRow(p, n) \notin DOMAIN w
    BY <2>2, AgentRows, ChildRows
  <2> HIDE DEF w
  <2> QED BY <2>1, <2>3, <2>4, FlushKeeps
<1>8. CASE InsertLink(r) \/ InsertKey(r)
  BY <1>3, <1>4, <1>8 DEF InsertLink, InsertKey, InsertChild, Runs
<1>9. CASE FlipLink(r) \/ WriteRevoked(r)
  BY <1>3, <1>4, <1>9 DEF FlipLink, WriteRevoked, UpdateChild, Runs
<1> QED BY <1>5, <1>6, <1>7, <1>8, <1>9

LEMMA CommitKeeps ==
    ASSUME IInv, NEW r \in Request, Commit(r)
    PROVE  VInv'
<1>1. req'[r].step = "field" /\ \A s \in Request \ {r} : req'[s] = req[s]
  BY DEF Commit, Close, Idle, IInv, TypeOK
<1>2. Others(r)
  BY <1>1 DEF Others, SameMine, Mine, Commit, Close, IInv, TypeOK
<1>3. AtStep(r)'
  BY <1>1 DEF AtStep, InsertStep, ActivateStep, AgentStep
<1>4. \A p \in Prompt, n \in Version : Mine(r, p, n)' = Untouched
  BY VersionRows DEF Mine, Commit, Close, Unwritten, IInv, TypeOK
<1>5. \A p \in Prompt, n \in Version : Db(p, n)' = View(r, p, n)
  BY VersionRows, SeenVersions DEF Db, Commit
<1>6. VInv /\ req[r].step = "field"
  BY DEF IInv, Commit
<1> QED BY <1>2, <1>3, <1>4, <1>5, <1>6, Committed

LEMMA RollbackKeeps ==
    ASSUME IInv, NEW r \in Request, Rollback(r)
    PROVE  VInv'
<1>1. req'[r].step = "field" /\ \A s \in Request \ {r} : req'[s] = req[s]
  BY DEF Rollback, Close, Idle, IInv, TypeOK
<1>2. Others(r) /\ SameDb
  BY <1>1 DEF Others, SameMine, SameDb, Db, Mine, Rollback, Close, IInv, TypeOK
<1>3. AtStep(r)'
  BY <1>1 DEF AtStep, InsertStep, ActivateStep, AgentStep
<1>4. \A p \in Prompt, n \in Version : Mine(r, p, n)' = Untouched
  BY VersionRows DEF Mine, Rollback, Close, Unwritten, IInv, TypeOK
<1> QED BY <1>2, <1>3, <1>4, Aborted DEF IInv

LEMMA StutterKeeps == IInv /\ UNCHANGED vars => VInv'
<1> SUFFICES ASSUME IInv, UNCHANGED vars PROVE VInv'
  OBVIOUS
<1>1. CASE Request = {}
  <2>1. SameDb
    BY DEF vars, SameDb, Db
  <2> QED BY <1>1, <2>1 DEF IInv, VInv, Held, Exclusive, Kept, OneHolder, DbGood, DbNumbered,
                           DbAtMostOne, DbAtLeastOne, SameDb
<1>2. ASSUME NEW r \in Request PROVE VInv'
  <2>1. SameDb
    BY DEF vars, SameDb, Db
  <2>2. \A s \in Request : SameMine(s) /\ req'[s] = req[s]
    BY DEF vars, SameMine, Mine
  <2>3. \A s \in Request, p \in Prompt, n \in Version : View(s, p, n)' = View(s, p, n)
    BY <2>1, <2>2 DEF View, SameDb, SameMine
  <2>4. AtStep(r)'
    <3>1. AtStep(r) /\ req'[r] = req[r]
      BY <2>2 DEF IInv, VInv, Sees
    <3> QED BY <2>3, <3>1, Steady
  <2>5. CASE req[r].step # "set"
    BY <2>1, <2>2, <2>4, <2>5, Quietly DEF IInv, Others
  <2>6. CASE req[r].step = "set"
    <3>1. Held'
      BY <2>2 DEF IInv, VInv, Held, Exclusive, Kept, OneHolder, SameMine
    <3>2. Numbered(r) /\ AtMostOne(r) /\ AtLeastOne(r) /\ req'[r] = req[r]
      BY <2>2 DEF IInv, VInv, Sees
    <3>3. Numbered(r)' /\ AtMostOne(r)'
      BY <2>3, <3>2 DEF Numbered, AtMostOne
    <3>4. AtLeastOne(r)'
      BY <2>3, <3>2 DEF AtLeastOne, Setting
    <3>5. DbGood' /\ \A s \in Request \ {r} : Sees(s)'
      BY <2>1, <2>2, OthersSee DEF IInv, Others
    <3> QED BY <2>4, <3>1, <3>3, <3>4, <3>5 DEF VInv, Sees
  <2> QED BY <2>5, <2>6
<1> QED BY <1>1, <1>2

LEMMA VersionsInit == Init => IInv
<1> SUFFICES ASSUME Init PROVE VInv
  BY TypeInit DEF IInv
<1>1. \A p \in Prompt, n \in Version : Db(p, n) = Absent
  BY VersionRows DEF Init, Db
<1>2. \A r \in Request, p \in Prompt, n \in Version : Mine(r, p, n) = Untouched
  BY VersionRows DEF Init, Mine, Unwritten
<1>3. Absent # Untouched /\ "active" # Absent /\ Untouched # "active"
  BY WorkspaceAssumption DEF Value
<1>4. Held
  BY <1>2, <1>3 DEF Held, Exclusive, Kept, OneHolder
<1>5. DbGood
  BY <1>1, <1>3 DEF DbGood, DbNumbered, DbAtMostOne, DbAtLeastOne
<1>6. ASSUME NEW r \in Request PROVE Sees(r)
  <2>1. \A p \in Prompt, n \in Version : View(r, p, n) = Absent
    BY <1>1, <1>2 DEF View
  <2>2. req[r].step = "field"
    BY DEF Init, Idle
  <2> QED BY <1>3, <2>1, <2>2 DEF Sees, Numbered, AtMostOne, AtLeastOne, AtStep, InsertStep,
                                  ActivateStep, AgentStep
<1> QED BY <1>4, <1>5, <1>6 DEF VInv

LEMMA VersionsNext == IInv /\ [Next]_vars => IInv'
<1> SUFFICES ASSUME IInv, [Next]_vars PROVE IInv'
  OBVIOUS
<1>1. TypeOK'
  BY TypeNext DEF IInv
<1>2. CASE UNCHANGED vars
  BY <1>1, <1>2, StutterKeeps DEF IInv
<1>3. ASSUME NEW r \in Request,
             Field(r) \/ Statement(r) \/ Commit(r) \/ Rollback(r) \/ DeadlockVictim(r)
      PROVE  VInv'
  <2>1. CASE Statement(r)
    BY <2>1, InsertVersionKeeps, DeactivateKeeps, ActivateKeeps, AgentStatementKeeps DEF Statement
  <2> QED BY <1>3, <2>1, FieldKeeps, CommitKeeps, RollbackKeeps, FlushFailsKeeps
          DEF DeadlockVictim
<1> QED BY <1>1, <1>2, <1>3 DEF Next, IInv

-----------------------------------------------------------------------------
(* The theorems. *)

(* Every prompt that has versions has exactly one active one, whatever        *)
(* activations raced, failed or shared an operation.                         *)
THEOREM PromptsHaveOneActive == Spec => []OneActiveVersion
<1>1. IInv => OneActiveVersion
  <2> SUFFICES ASSUME IInv, NEW p \in Prompt, NEW k \in Versions(p)
               PROVE  \E n \in Versions(p) : \A m \in Versions(p) :
                         (db[VersionRow(p, m)] = "active") <=> m = n
    BY DEF OneActiveVersion
  <2>1. k \in Version /\ Db(p, k) # Absent
    BY DEF Versions, Db
  <2>2. PICK n \in Version : Db(p, n) = "active"
    BY <2>1 DEF IInv, VInv, DbGood, DbAtLeastOne
  <2>3. "active" # Absent
    BY WorkspaceAssumption DEF Value
  <2>4. n \in Versions(p)
    BY <2>2, <2>3 DEF Versions, Db
  <2>5. \A m \in Versions(p) : (Db(p, m) = "active") <=> m = n
    BY <2>2 DEF Versions, IInv, VInv, DbGood, DbAtMostOne
  <2> QED BY <2>4, <2>5 DEF Db
<1> QED BY <1>1, VersionsInit, VersionsNext, PTL DEF Spec

(* The numbers of a prompt's versions have no gap, whatever was rolled back. *)
THEOREM VersionsAreNumbered == Spec => []NumberedWithoutGap
<1>1. IInv => NumberedWithoutGap
  <2> SUFFICES ASSUME IInv, NEW p \in Prompt, NEW n \in Versions(p), NEW m \in 1 .. n
               PROVE  m \in Versions(p)
    BY DEF NumberedWithoutGap
  <2>1. n \in Version /\ Db(p, n) # Absent
    BY DEF Versions, Db
  <2>2. m \in Version /\ m <= n
    BY <2>1, WorkspaceAssumption DEF Version
  <2>3. Db(p, m) # Absent
    BY <2>1, <2>2 DEF IInv, VInv, DbGood, DbNumbered
  <2> QED BY <2>2, <2>3 DEF Versions, Db
<1> QED BY <1>1, VersionsInit, VersionsNext, PTL DEF Spec

-----------------------------------------------------------------------------
(* Agents.  Neither half of AgentsAreWhole is inductive: what each open       *)
(* transaction sees of an agent is whole as well, no two hold a row of one    *)
(* agent's family, and whoever deletes an agent shares it with nobody who    *)
(* writes a child of it.                                                     *)

Family(a) == {AgentRow(a)} \cup Children(a)

LEMMA FamilyRows ==
    ASSUME NEW a \in Agent
    PROVE  /\ AgentRow(a) \notin Children(a) /\ ConfigRow(a) \in Children(a)
           /\ \A x \in Family(a) : x \in Row /\ x[2] = a
           /\ \A b \in Agent : b # a => \A x \in Family(b) : x \notin Family(a)
           /\ \A p \in Prompt, n \in Version : VersionRow(p, n) \notin Family(a)
<1>1. AgentRow(a)[1] = "agent" /\ \A x \in Children(a) : x[1] \in {"link", "key", "config"}
  BY DEF AgentRow, Children, LinkRow, KeyRow, ConfigRow
<1>2. AgentRow(a) \notin Children(a)
  BY <1>1
<1>3. ConfigRow(a) \in Children(a)
  BY DEF Children
<1>4. \A b \in Agent : \A x \in Family(b) : x \in Row /\ x[2] = b
  BY AgentRows, ChildRows DEF Family
<1>5. \A p \in Prompt, n \in Version : VersionRow(p, n) \notin Family(a)
  BY AgentRows, ChildRows DEF Family
<1> QED BY <1>2, <1>3, <1>4, <1>5

Sole(a) ==
    \A x \in Family(a), r, s \in Request :
        mine[r][x] # Untouched /\ mine[s][x] # Untouched => r = s

Spared(a) ==
    \A x \in Children(a), r, s \in Request :
        mine[s][AgentRow(a)] = Absent /\ mine[r][x] # Untouched => r = s

(* A child is only deleted with its agent. *)
Cascades(r, a) ==
    \A x \in Children(a) : mine[r][x] = Absent => mine[r][AgentRow(a)] # Untouched

SeesWhole(r, a) ==
    /\ \A x \in Children(a) : Visible(r, x) # Absent => Visible(r, AgentRow(a)) # Absent
    /\ Visible(r, AgentRow(a)) # Absent => Visible(r, ConfigRow(a)) # Absent

DbWhole(a) ==
    /\ \A x \in Children(a) : db[x] # Absent => db[AgentRow(a)] # Absent
    /\ db[AgentRow(a)] # Absent => db[ConfigRow(a)] # Absent

Whole(a) ==
    /\ Sole(a) /\ Spared(a) /\ DbWhole(a)
    /\ \A r \in Request : Cascades(r, a) /\ SeesWhole(r, a)

(* What is inserted into or changed in a child's row is a value. *)
Fills(r) == req[r].step \in {"grant", "flip", "mint", "revoke"} => req[r].to \in Value

AInv == (\A a \in Agent : Whole(a)) /\ \A r \in Request : Fills(r)

LEMMA FamilySame ==
    ASSUME NEW a \in Agent, Whole(a),
           \A x \in Family(a) : db'[x] = db[x] /\ \A r \in Request : mine'[r][x] = mine[r][x]
    PROVE  Whole(a)'
<1>1. /\ \A x \in Children(a) : x \in Family(a)
      /\ AgentRow(a) \in Family(a) /\ ConfigRow(a) \in Family(a)
  BY FamilyRows DEF Family
<1>2. \A r \in Request, x \in Family(a) : Visible(r, x)' = Visible(r, x)
  BY DEF Visible
<1>3. Sole(a)' /\ Spared(a)' /\ DbWhole(a)'
  BY <1>1 DEF Whole, Sole, Spared, DbWhole
<1>4. ASSUME NEW r \in Request PROVE Cascades(r, a)' /\ SeesWhole(r, a)'
  BY <1>1, <1>2 DEF Whole, Cascades, SeesWhole
<1> QED BY <1>3, <1>4 DEF Whole

(* A transaction writes in one family what nobody else holds, and sees it    *)
(* whole afterwards.                                                         *)
LEMMA FamilyWritten ==
    ASSUME NEW a \in Agent, NEW r \in Request, Whole(a),
           \A x \in Family(a) : db'[x] = db[x],
           \A x \in Family(a), s \in Request \ {r} : mine'[s][x] = mine[s][x],
           \A x \in Family(a), s \in Request \ {r} :
              mine'[r][x] # mine[r][x] => mine[s][x] = Untouched,
           \A x \in Children(a), s \in Request \ {r} :
              mine'[r][x] # mine[r][x] => mine[s][AgentRow(a)] # Absent,
           mine'[r][AgentRow(a)] = Absent /\ mine[r][AgentRow(a)] # Absent =>
              \A x \in Children(a), s \in Request \ {r} : mine[s][x] = Untouched,
           Cascades(r, a)', SeesWhole(r, a)'
    PROVE  Whole(a)'
<1>1. /\ \A x \in Children(a) : x \in Family(a)
      /\ AgentRow(a) \in Family(a) /\ ConfigRow(a) \in Family(a)
  BY FamilyRows DEF Family
<1>2. Sole(a)'
  BY DEF Whole, Sole
<1>3. Spared(a)'
  <2> SUFFICES ASSUME NEW x \in Children(a), NEW t \in Request, NEW s \in Request, s # t,
                      mine'[s][AgentRow(a)] = Absent, mine'[t][x] # Untouched
               PROVE  FALSE
    BY DEF Spared
  <2>1. CASE s # r /\ t # r
    BY <1>1, <2>1 DEF Whole, Spared
  <2>2. CASE s = r
    BY <1>1, <2>2 DEF Whole, Spared
  <2>3. CASE t = r
    BY <1>1, <2>3 DEF Whole, Spared
  <2> QED BY <2>1, <2>2, <2>3
<1>4. DbWhole(a)'
  BY <1>1 DEF Whole, DbWhole
<1>5. ASSUME NEW s \in Request \ {r} PROVE Cascades(s, a)' /\ SeesWhole(s, a)'
  <2>1. \A x \in Family(a) : Visible(s, x)' = Visible(s, x)
    BY DEF Visible
  <2> QED BY <1>1, <2>1 DEF Whole, Cascades, SeesWhole
<1> QED BY <1>2, <1>3, <1>4, <1>5 DEF Whole

(* A transaction ends without a trace. *)
LEMMA FamilyAborted ==
    ASSUME NEW a \in Agent, NEW r \in Request, Whole(a),
           \A x \in Family(a) : db'[x] = db[x],
           \A x \in Family(a), s \in Request \ {r} : mine'[s][x] = mine[s][x],
           \A x \in Family(a) : mine'[r][x] = Untouched
    PROVE  Whole(a)'
<1>0. Untouched # Absent
  BY WorkspaceAssumption
<1>1. /\ \A x \in Children(a) : x \in Family(a)
      /\ AgentRow(a) \in Family(a) /\ ConfigRow(a) \in Family(a)
  BY FamilyRows DEF Family
<1>2. Sole(a)' /\ Spared(a)'
  BY <1>0, <1>1 DEF Whole, Sole, Spared
<1>3. DbWhole(a)'
  BY <1>1 DEF Whole, DbWhole
<1>4. ASSUME NEW s \in Request \ {r} PROVE Cascades(s, a)' /\ SeesWhole(s, a)'
  <2>1. \A x \in Family(a) : Visible(s, x)' = Visible(s, x)
    BY DEF Visible
  <2> QED BY <1>1, <2>1 DEF Whole, Cascades, SeesWhole
<1>5. Cascades(r, a)' /\ SeesWhole(r, a)'
  <2>1. \A x \in Family(a) : Visible(r, x)' = db[x]
    BY DEF Visible
  <2> QED BY <1>0, <1>1, <2>1 DEF Whole, DbWhole, Cascades, SeesWhole
<1> QED BY <1>2, <1>3, <1>4, <1>5 DEF Whole

(* A transaction commits: the others see what it wrote, where they wrote      *)
(* nothing themselves.                                                       *)
LEMMA FamilyCommitted ==
    ASSUME NEW a \in Agent, NEW r \in Request, Whole(a),
           \A x \in Family(a) : db'[x] = Visible(r, x),
           \A x \in Family(a), s \in Request \ {r} : mine'[s][x] = mine[s][x],
           \A x \in Family(a) : mine'[r][x] = Untouched
    PROVE  Whole(a)'
<1>0. Untouched # Absent
  BY WorkspaceAssumption
<1> DEFINE A == AgentRow(a)
           C == ConfigRow(a)
<1>1. (\A x \in Children(a) : x \in Family(a)) /\ A \in Family(a) /\ C \in Family(a)
      /\ C \in Children(a)
  BY FamilyRows DEF Family
<1> HIDE DEF A, C
<1>2. Sole(a)' /\ Spared(a)'
  BY <1>0, <1>1 DEF Whole, Sole, Spared, A
<1>3. DbWhole(a)'
  BY <1>1 DEF Whole, SeesWhole, DbWhole, A, C
<1>4. Cascades(r, a)' /\ SeesWhole(r, a)'
  <2>1. \A x \in Family(a) : Visible(r, x)' = db'[x]
    BY DEF Visible
  <2> QED BY <1>0, <1>1, <1>3, <2>1 DEF DbWhole, Cascades, SeesWhole, A, C
<1>5. ASSUME NEW s \in Request \ {r} PROVE Cascades(s, a)' /\ SeesWhole(s, a)'
  <2>0. /\ Cascades(s, a) /\ SeesWhole(s, a) /\ Cascades(r, a) /\ SeesWhole(r, a)
        /\ Sole(a) /\ Spared(a)
    BY DEF Whole
  <2>1. \A x \in Family(a) :
           Visible(s, x)' = IF mine[s][x] = Untouched THEN Visible(r, x) ELSE mine[s][x]
    BY DEF Visible
  <2>2. Cascades(s, a)'
    BY <1>1, <2>0 DEF Cascades, A
  <2>3. ASSUME NEW x \in Children(a), Visible(s, x)' # Absent, Visible(s, A)' = Absent PROVE FALSE
    <3>1. CASE mine[s][x] = Untouched /\ mine[s][A] = Untouched
      BY <1>1, <2>0, <2>1, <2>3, <3>1 DEF SeesWhole, A
    <3>2. CASE mine[s][x] = Untouched /\ mine[s][A] # Untouched
      <4>1. mine[s][A] = Absent
        BY <1>1, <2>1, <2>3, <3>2
      <4>2. mine[r][x] = Untouched
        BY <1>5, <2>0, <4>1 DEF Spared, A
      <4>3. db[x] # Absent
        BY <1>1, <2>1, <2>3, <3>2, <4>2 DEF Visible
      <4> QED BY <1>0, <1>1, <2>0, <3>2, <4>1, <4>3 DEF SeesWhole, Visible, A
    <3>3. CASE mine[s][x] # Untouched
      <4>1. mine[s][x] # Absent
        BY <1>1, <2>1, <2>3, <3>3
      <4>2. Visible(s, A) # Absent
        BY <2>0, <3>3, <4>1 DEF SeesWhole, Visible, A
      <4>3. mine[s][A] = Untouched /\ db[A] # Absent /\ Visible(r, A) = Absent
        BY <1>1, <2>1, <2>3, <4>2 DEF Visible
      <4>4. mine[r][A] = Absent
        BY <4>3 DEF Visible
      <4> QED BY <1>5, <2>0, <3>3, <4>4 DEF Spared, A
    <3> QED BY <3>1, <3>2, <3>3
  <2>4. ASSUME Visible(s, A)' # Absent, Visible(s, C)' = Absent PROVE FALSE
    <3>1. CASE mine[s][A] = Untouched
      <4>1. Visible(r, A) # Absent /\ Visible(r, C) # Absent
        BY <1>1, <2>0, <2>1, <2>4, <3>1 DEF SeesWhole, A, C
      <4>2. mine[s][C] = Absent
        BY <1>1, <2>1, <2>4, <4>1
      <4> QED BY <1>1, <2>0, <3>1, <4>2 DEF Cascades, A
    <3>2. CASE mine[s][A] # Untouched
      <4>1. mine[s][A] # Absent
        BY <1>1, <2>1, <2>4, <3>2
      <4>2. Visible(s, C) # Absent
        BY <2>0, <3>2, <4>1 DEF SeesWhole, Visible, A, C
      <4>3. mine[s][C] = Untouched /\ db[C] # Absent /\ Visible(r, C) = Absent
        BY <1>1, <2>1, <2>4, <4>2 DEF Visible
      <4>4. mine[r][C] = Absent
        BY <4>3 DEF Visible
      <4>5. mine[r][A] # Untouched
        BY <1>1, <2>0, <4>4 DEF Cascades, A
      <4> QED BY <1>1, <1>5, <2>0, <3>2, <4>5 DEF Sole
    <3> QED BY <3>1, <3>2
  <2>5. SeesWhole(s, a)'
    BY <2>3, <2>4 DEF SeesWhole, A, C
  <2> QED BY <2>2, <2>5
<1> QED BY <1>2, <1>3, <1>4, <1>5 DEF Whole

LEMMA Flushed ==
    ASSUME TypeOK, NEW r \in Request, NEW w, Flush(r, w)
    PROVE  /\ UNCHANGED db /\ \A s \in Request \ {r} : mine'[s] = mine[s] /\ req'[s] = req[s]
           /\ \A x \in Row : mine'[r][x] = IF x \in DOMAIN w THEN w[x] ELSE mine[r][x]
           /\ req'[r].step = "field"
<1>1. req'[r].step = "field" /\ \A s \in Request \ {r} : req'[s] = req[s]
  BY FieldDoneTyped DEF Flush
<1> QED BY <1>1 DEF Flush, TypeOK

(* A flush that writes in one family only. *)
LEMMA FlushWhole ==
    ASSUME TypeOK, AInv, NEW r \in Request, NEW w, NEW a \in Agent, Flush(r, w),
           DOMAIN w \subseteq Family(a), Whole(a)'
    PROVE  AInv'
<1>1. /\ UNCHANGED db /\ \A s \in Request \ {r} : mine'[s] = mine[s] /\ req'[s] = req[s]
      /\ \A x \in Row : mine'[r][x] = IF x \in DOMAIN w THEN w[x] ELSE mine[r][x]
      /\ req'[r].step = "field"
  BY Flushed
<1>2. ASSUME NEW b \in Agent, b # a PROVE Whole(b)'
  <2>1. \A x \in Family(b) : x \in Row /\ x \notin DOMAIN w
    BY <1>2, FamilyRows
  <2>2. \A x \in Family(b) : db'[x] = db[x] /\ \A s \in Request : mine'[s][x] = mine[s][x]
    BY <1>1, <2>1
  <2> QED BY <2>2, FamilySame DEF AInv
<1>3. \A s \in Request : Fills(s)'
  BY <1>1 DEF AInv, Fills
<1> QED BY <1>2, <1>3 DEF AInv

(* The conditions of FamilyWritten, for a flush. *)
LEMMA FlushFamily ==
    ASSUME TypeOK, AInv, NEW r \in Request, NEW w, NEW a \in Agent, Flush(r, w),
           DOMAIN w \subseteq Family(a),
           \A x \in DOMAIN w, s \in Request \ {r} : mine[s][x] = Untouched,
           \A x \in Children(a) \cap DOMAIN w, s \in Request \ {r} : mine[s][AgentRow(a)] # Absent,
           AgentRow(a) \in DOMAIN w /\ w[AgentRow(a)] = Absent =>
              \A x \in Children(a), s \in Request \ {r} : mine[s][x] = Untouched,
           Cascades(r, a)', SeesWhole(r, a)'
    PROVE  AInv'
<1>1. /\ UNCHANGED db /\ \A s \in Request \ {r} : mine'[s] = mine[s] /\ req'[s] = req[s]
      /\ \A x \in Row : mine'[r][x] = IF x \in DOMAIN w THEN w[x] ELSE mine[r][x]
  BY Flushed
<1>2. /\ (\A x \in Family(a) : x \in Row) /\ (\A x \in Children(a) : x \in Family(a))
      /\ AgentRow(a) \in Family(a)
  BY FamilyRows DEF Family
<1>3. Whole(a)
  BY DEF AInv
<1>4. \A x \in Family(a), s \in Request \ {r} :
              mine'[r][x] # mine[r][x] => mine[s][x] = Untouched
  BY <1>1, <1>2
<1>5. \A x \in Children(a), s \in Request \ {r} :
              mine'[r][x] # mine[r][x] => mine[s][AgentRow(a)] # Absent
  BY <1>1, <1>2
<1>6. mine'[r][AgentRow(a)] = Absent /\ mine[r][AgentRow(a)] # Absent =>
              \A x \in Children(a), s \in Request \ {r} : mine[s][x] = Untouched
  BY <1>1, <1>2
<1>7. Whole(a)'
  BY <1>1, <1>3, <1>4, <1>5, <1>6, FamilyWritten
<1> QED BY <1>7, FlushWhole

(* A link or a key is inserted under an agent nobody deletes, or updated where *)
(* it is seen.                                                                *)
LEMMA ChildWritten ==
    ASSUME TypeOK, AInv, NEW r \in Request, NEW a \in Agent, NEW x \in Children(a), NEW v \in Value,
           Flush(r, One(x, v)), Writers(r, {x}) = {},
           Visible(r, AgentRow(a)) # Absent,
           Erasers(r, a) = {} \/ Visible(r, x) # Absent
    PROVE  AInv'
<1>0. Absent # Untouched /\ v # Absent /\ v # Untouched
  BY WorkspaceAssumption
<1> DEFINE A == AgentRow(a)
<1>1. /\ UNCHANGED db
      /\ \A y \in Row : mine'[r][y] = IF y \in DOMAIN One(x, v) THEN One(x, v)[y] ELSE mine[r][y]
  BY Flushed
<1>2. DOMAIN One(x, v) = {x} /\ One(x, v)[x] = v
  BY DEF One
<1>3. /\ (\A y \in Family(a) : y \in Row) /\ (\A y \in Children(a) : y \in Family(a))
      /\ A \in Family(a) /\ A # x /\ ConfigRow(a) \in Children(a)
  BY FamilyRows DEF Family
<1>4. /\ Sole(a) /\ Spared(a) /\ \A s \in Request : Cascades(s, a) /\ SeesWhole(s, a)
  BY DEF AInv, Whole
<1>5. \A s \in Request \ {r} : mine[s][x] = Untouched
  BY DEF Writers
<1>6. \A s \in Request \ {r} : mine[s][A] # Absent
  <2> SUFFICES ASSUME NEW s \in Request \ {r}, mine[s][A] = Absent PROVE FALSE
    OBVIOUS
  <2>1. Visible(r, x) # Absent
    BY DEF Erasers
  <2>2. mine[r][x] = Untouched
    BY <1>4 DEF Spared
  <2>3. db[x] # Absent
    BY <2>1, <2>2 DEF Visible
  <2>4. Visible(s, x) # Absent /\ Visible(s, A) = Absent
    BY <1>0, <1>5, <2>3 DEF Visible
  <2> QED BY <1>4, <2>4 DEF SeesWhole
<1>7. Visible(r, A)' = Visible(r, A) /\ mine'[r][A] = mine[r][A]
  BY <1>1, <1>2, <1>3 DEF Visible
<1>8. \A y \in Children(a) :
         /\ mine'[r][y] = IF y = x THEN v ELSE mine[r][y]
         /\ Visible(r, y)' = IF y = x THEN v ELSE Visible(r, y)
  BY <1>0, <1>1, <1>2, <1>3 DEF Visible
<1>9. Cascades(r, a)'
  BY <1>0, <1>4, <1>7, <1>8 DEF Cascades
<1>10. SeesWhole(r, a)'
  BY <1>0, <1>3, <1>4, <1>7, <1>8 DEF SeesWhole
<1> QED BY <1>2, <1>3, <1>5, <1>6, <1>9, <1>10, FlushFamily

LEMMA ChildStatement ==
    ASSUME IInv, AInv, NEW r \in Request, FlushFails(r) => AInv',
           \/ InsertChild(r, "grant") \/ InsertChild(r, "mint")
           \/ UpdateChild(r, "flip") \/ UpdateChild(r, "revoke")
    PROVE  AInv'
<1>0. TypeOK /\ AgentStep(r) /\ Fills(r)
  BY DEF IInv, VInv, Sees, AtStep, AInv
<1>1. req[r].step \in {"grant", "flip", "mint", "revoke"} /\ Blockers(r) = {}
  BY DEF InsertChild, UpdateChild, Runs
<1>2. PICK a \in Agent : req[r].row \in Children(a)
  BY <1>0, <1>1 DEF AgentStep
<1>3. req[r].row[2] = a /\ req[r].to \in Value
  BY <1>0, <1>1, <1>2, ChildRows DEF Fills
<1>4. SeesWhole(r, a)
  BY DEF AInv, Whole
<1>5. CASE InsertChild(r, "grant") \/ InsertChild(r, "mint")
  <2>1. Writers(r, {req[r].row}) = {} /\ Erasers(r, a) = {}
    BY <1>1, <1>3, <1>5 DEF Blockers, InsertChild, Runs
  <2>2. FlushFails(r) \/ (Visible(r, AgentRow(a)) # Absent /\ Flush(r, One(req[r].row, req[r].to)))
    BY <1>3, <1>5 DEF InsertChild
  <2> HIDE DEF IInv, AInv
  <2> QED BY <1>0, <1>2, <1>3, <2>1, <2>2, ChildWritten
<1>6. CASE UpdateChild(r, "flip") \/ UpdateChild(r, "revoke")
  <2>1. Writers(r, {req[r].row}) = {}
    BY <1>1, <1>6 DEF Blockers, UpdateChild, Runs
  <2>2. FlushFails(r) \/ (Visible(r, req[r].row) # Absent /\ Flush(r, One(req[r].row, req[r].to)))
    BY <1>6 DEF UpdateChild
  <2>3. Visible(r, req[r].row) # Absent => Visible(r, AgentRow(a)) # Absent
    BY <1>2, <1>4 DEF SeesWhole
  <2> QED BY <1>0, <1>2, <1>3, <2>1, <2>2, <2>3, ChildWritten
<1> QED BY <1>5, <1>6

(* The agent, its configuration and its default links are new, and nobody     *)
(* else can hold any of them.                                                 *)
LEMMA InsertAgentWhole ==
    ASSUME IInv, AInv, NEW r \in Request, FlushFails(r) => AInv', InsertAgent(r)
    PROVE  AInv'
<1>0. TypeOK /\ AgentStep(r)
  BY DEF IInv, VInv, Sees, AtStep
<1>1. req[r].step = "edit" /\ Blockers(r) = {}
  BY DEF InsertAgent, Runs
<1>2. PICK a \in Agent : req[r].row = AgentRow(a) /\ req[r].row[2] = a
  BY <1>0, <1>1, AgentRows DEF AgentStep
<1> DEFINE A == AgentRow(a)
           w == Newborn(a)
<1>3. CASE Visible(r, A) = Absent /\ Flush(r, w)
  <2>1. Writers(r, {A}) = {}
    BY <1>1, <1>2 DEF Blockers
  <2>2. \A s \in Request \ {r} : mine[s][A] = Untouched
    BY <2>1 DEF Writers
  <2>3. /\ DOMAIN w = {A, ConfigRow(a)} \cup {LinkRow(a, t) : t \in Default}
        /\ \A x \in DOMAIN w : w[x] \in Value
    BY DEF Newborn, Value
  <2>4. /\ (\A y \in Family(a) : y \in Row) /\ (\A y \in Children(a) : y \in Family(a))
        /\ A \in Family(a) /\ ConfigRow(a) \in Children(a) /\ A \notin Children(a)
    BY FamilyRows DEF Family
  <2>5. DOMAIN w \subseteq Family(a)
    BY <2>3, WorkspaceAssumption DEF Family, Children
  <2>6. /\ Sole(a) /\ Spared(a) /\ \A s \in Request : Cascades(s, a) /\ SeesWhole(s, a)
    BY DEF AInv, Whole
  <2>7. Absent # Untouched /\ Absent \notin Value /\ Untouched \notin Value
    BY WorkspaceAssumption
  <2> HIDE DEF w
  <2>8. \A x \in Children(a), s \in Request \ {r} : mine[s][x] = Untouched
    <3> SUFFICES ASSUME NEW x \in Children(a), NEW s \in Request \ {r}, mine[s][x] # Untouched
                 PROVE  FALSE
      OBVIOUS
    <3>1. mine[s][x] # Absent
      BY <2>2, <2>6 DEF Cascades
    <3>2. Visible(s, x) # Absent
      BY <3>1 DEF Visible
    <3>3. db[A] # Absent
      BY <2>2, <2>6, <3>2 DEF SeesWhole, Visible
    <3>4. mine[r][A] = Absent
      BY <1>3, <3>3 DEF Visible
    <3> QED BY <2>6, <3>4 DEF Spared
  <2>9. /\ UNCHANGED db
        /\ \A y \in Row : mine'[r][y] = IF y \in DOMAIN w THEN w[y] ELSE mine[r][y]
    BY <1>0, <1>3, Flushed
  <2>10. mine'[r][A] \in Value /\ mine'[r][ConfigRow(a)] \in Value
    BY <2>3, <2>4, <2>9
  <2>11. Visible(r, A)' # Absent /\ Visible(r, ConfigRow(a))' # Absent
    BY <2>7, <2>10 DEF Visible
  <2>12. Cascades(r, a)'
    BY <2>7, <2>10 DEF Cascades
  <2>13. SeesWhole(r, a)'
    BY <2>11 DEF SeesWhole
  <2>14. \A x \in DOMAIN w, s \in Request \ {r} : mine[s][x] = Untouched
    BY <2>2, <2>5, <2>8 DEF Family
  <2>15. \A s \in Request \ {r} : mine[s][A] # Absent
    BY <2>2, <2>7
  <2>16. w[A] # Absent
    BY <2>3, <2>7
  <2> QED BY <1>0, <1>3, <2>5, <2>12, <2>13, <2>14, <2>15, <2>16, FlushFamily
<1> QED BY <1>2, <1>3 DEF InsertAgent

LEMMA WriteAgentWhole ==
    ASSUME IInv, AInv, NEW r \in Request, FlushFails(r) => AInv', WriteAgent(r)
    PROVE  AInv'
<1>0. TypeOK /\ AgentStep(r)
  BY DEF IInv, VInv, Sees, AtStep
<1>1. req[r].step = "edit" /\ Blockers(r) = {} /\ req[r].to \in Value
  BY <1>0 DEF WriteAgent, Runs, TypeOK
<1>2. PICK a \in Agent : req[r].row = AgentRow(a)
  BY <1>0, <1>1 DEF AgentStep
<1> DEFINE A == AgentRow(a)
           v == IF req[r].to = "set" THEN Visible(r, A) ELSE req[r].to
<1>3. CASE Visible(r, A) # Absent /\ Flush(r, One(A, v))
  <2>1. Writers(r, {A}) = {}
    BY <1>1, <1>2 DEF Blockers
  <2>2. \A s \in Request \ {r} : mine[s][A] = Untouched
    BY <2>1 DEF Writers
  <2>3. DOMAIN One(A, v) = {A} /\ One(A, v)[A] = v
    BY DEF One
  <2>4. /\ (\A y \in Family(a) : y \in Row) /\ (\A y \in Children(a) : y \in Family(a))
        /\ A \in Family(a) /\ ConfigRow(a) \in Children(a) /\ A \notin Children(a)
    BY FamilyRows DEF Family
  <2>5. SeesWhole(r, a) /\ Cascades(r, a)
    BY DEF AInv, Whole
  <2>6. v # Absent /\ v # Untouched /\ Absent # Untouched
    BY <1>0, <1>1, <1>3, <2>4, WorkspaceAssumption DEF Visible, TypeOK
  <2> HIDE DEF v
  <2>7. /\ UNCHANGED db
        /\ \A y \in Row : mine'[r][y] = IF y \in DOMAIN One(A, v) THEN One(A, v)[y] ELSE mine[r][y]
    BY <1>0, <1>3, Flushed
  <2>8. mine'[r][A] = v /\ \A x \in Children(a) : mine'[r][x] = mine[r][x]
    BY <2>3, <2>4, <2>7
  <2>9. Visible(r, A)' = v /\ \A x \in Children(a) : Visible(r, x)' = Visible(r, x)
    BY <2>6, <2>7, <2>8 DEF Visible
  <2>10. Cascades(r, a)'
    BY <2>6, <2>8 DEF Cascades
  <2>11. SeesWhole(r, a)'
    BY <1>3, <2>4, <2>5, <2>6, <2>9 DEF SeesWhole
  <2>12. DOMAIN One(A, v) \subseteq Family(a)
    BY <2>3, <2>4
  <2> QED BY <1>0, <1>3, <2>2, <2>3, <2>4, <2>6, <2>10, <2>11, <2>12, FlushFamily
<1> QED BY <1>2, <1>3 DEF WriteAgent

(* The agent goes with every child its transaction sees. *)
LEMMA EraseAgentWhole ==
    ASSUME IInv, AInv, NEW r \in Request, EraseAgent(r)
    PROVE  AInv'
<1>0. TypeOK /\ AgentStep(r)
  BY DEF IInv, VInv, Sees, AtStep
<1>1. req[r].step = "erase" /\ Blockers(r) = {}
  BY DEF EraseAgent, Runs
<1>2. PICK a \in Agent : req[r].row = AgentRow(a) /\ req[r].row[2] = a
  BY <1>0, <1>1, AgentRows DEF AgentStep
<1> DEFINE A == AgentRow(a)
           w == [x \in {y \in Family(a) : Visible(r, y) # Absent} |-> Absent]
<1>3. Flush(r, w)
  BY <1>2 DEF EraseAgent, Family
<1>4. Writers(r, Family(a)) = {}
  BY <1>1, <1>2 DEF Blockers, Family
<1>5. \A x \in Family(a), s \in Request \ {r} : mine[s][x] = Untouched
  BY <1>4 DEF Writers
<1>6. DOMAIN w = {y \in Family(a) : Visible(r, y) # Absent} /\ \A x \in DOMAIN w : w[x] = Absent
  OBVIOUS
<1> HIDE DEF w
<1>7. /\ (\A y \in Family(a) : y \in Row) /\ (\A y \in Children(a) : y \in Family(a))
      /\ A \in Family(a) /\ ConfigRow(a) \in Children(a) /\ A \notin Children(a)
  BY FamilyRows DEF Family
<1>8. SeesWhole(r, a) /\ Cascades(r, a) /\ Absent # Untouched
  BY WorkspaceAssumption DEF AInv, Whole
<1>9. /\ UNCHANGED db
      /\ \A y \in Row : mine'[r][y] = IF y \in DOMAIN w THEN w[y] ELSE mine[r][y]
  BY <1>0, <1>3, Flushed
<1>10. \A x \in Family(a) : Visible(r, x)' = Absent
  BY <1>6, <1>7, <1>8, <1>9 DEF Visible
<1>11. Cascades(r, a)'
  <2> SUFFICES ASSUME NEW x \in Children(a), mine'[r][x] = Absent PROVE mine'[r][A] # Untouched
    BY DEF Cascades
  <2>1. CASE x \in DOMAIN w
    <3>1. A \in DOMAIN w
      BY <1>6, <1>7, <1>8, <2>1 DEF SeesWhole
    <3> QED BY <1>6, <1>7, <1>8, <1>9, <3>1
  <2>2. CASE x \notin DOMAIN w
    <3>1. mine[r][A] # Untouched
      BY <1>7, <1>8, <1>9, <2>2 DEF Cascades
    <3> QED BY <1>6, <1>7, <1>8, <1>9, <3>1
  <2> QED BY <2>1, <2>2
<1>12. SeesWhole(r, a)'
  BY <1>7, <1>10 DEF SeesWhole
<1> QED BY <1>0, <1>3, <1>5, <1>6, <1>7, <1>8, <1>11, <1>12, FlushFamily

(* The statements on prompts write in no family. *)
LEMMA PromptStatementWhole ==
    ASSUME IInv, AInv, NEW r \in Request, FlushFails(r) => AInv',
           InsertVersion(r) \/ Deactivate(r) \/ Activate(r)
    PROVE  AInv'
<1>0. TypeOK /\ InsertStep(r) /\ ActivateStep(r)
  BY DEF IInv, VInv, Sees, AtStep
<1>1. req[r].step \in {"version", "clear", "set"}
  BY DEF InsertVersion, Deactivate, Activate, Runs
<1>2. PICK p \in Prompt, n \in Version : req[r].row = VersionRow(p, n)
  BY <1>0, <1>1 DEF InsertStep, ActivateStep
<1>3. ASSUME \A s \in Request \ {r} : mine'[s] = mine[s] /\ req'[s] = req[s], UNCHANGED db,
             \A x \in Row : x \notin {VersionRow(q, m) : q \in Prompt, m \in Version} =>
                mine'[r][x] = mine[r][x],
             req'[r].step \in {"field", "set"}
      PROVE  AInv'
  <2>1. ASSUME NEW a \in Agent PROVE Whole(a)'
    <3>1. \A x \in Family(a) :
             x \in Row /\ x \notin {VersionRow(q, m) : q \in Prompt, m \in Version}
      BY FamilyRows
    <3>2. \A x \in Family(a) : db'[x] = db[x] /\ \A s \in Request : mine'[s][x] = mine[s][x]
      BY <1>3, <3>1
    <3> QED BY <3>2, FamilySame DEF AInv
  <2>2. \A s \in Request : Fills(s)'
    BY <1>3 DEF AInv, Fills
  <2> QED BY <2>1, <2>2 DEF AInv
<1>4. ASSUME NEW v, Flush(r, One(req[r].row, v)) PROVE AInv'
  <2>1. DOMAIN One(req[r].row, v) = {VersionRow(p, n)}
    BY <1>2 DEF One
  <2>2. /\ UNCHANGED db /\ \A s \in Request \ {r} : mine'[s] = mine[s] /\ req'[s] = req[s]
        /\ \A x \in Row : x # VersionRow(p, n) => mine'[r][x] = mine[r][x]
        /\ req'[r].step = "field"
    BY <1>0, <1>4, <2>1, Flushed
  <2> QED BY <1>3, <2>2
<1>5. CASE Deactivate(r)
  <2>1. req[r].row[2] = p /\ req[r].seen \subseteq Version
    BY <1>0, <1>2, VersionRows DEF TypeOK
  <2> DEFINE still == {VersionRow(p, m) : m \in {k \in req[r].seen :
                                              Visible(r, VersionRow(p, k)) = "active"}}
  <2>2. mine' = [mine EXCEPT ![r] = [x \in Row |-> IF x \in still THEN "idle" ELSE mine[r][x]]]
    BY <1>5, <2>1 DEF Deactivate
  <2>3. \A x \in still : x \in {VersionRow(q, m) : q \in Prompt, m \in Version}
    BY <2>1
  <2> HIDE DEF still
  <2>4. /\ \A s \in Request \ {r} : mine'[s] = mine[s] /\ req'[s] = req[s]
        /\ UNCHANGED db /\ req'[r].step = "set"
    BY <1>0, <1>5, <2>2 DEF Deactivate, TypeOK
  <2>5. \A x \in Row : x \notin still => mine'[r][x] = mine[r][x]
    BY <1>0, <2>2 DEF TypeOK
  <2> QED BY <1>3, <2>3, <2>4, <2>5
<1> QED BY <1>4, <1>5 DEF InsertVersion, Activate

(* A field's reads aim at a row, and what it will write there is a value. *)
LEMMA FieldWhole ==
    ASSUME IInv, AInv, NEW r \in Request, Field(r)
    PROVE  AInv'
<1>0. TypeOK
  BY DEF IInv
<1>1. ASSUME UNCHANGED <<db, mine>>, \A s \in Request : Fills(s)' PROVE AInv'
  <2>1. ASSUME NEW a \in Agent PROVE Whole(a)'
    BY <1>1, FamilySame DEF AInv
  <2> QED BY <1>1, <2>1 DEF AInv
<1>2. ASSUME WritesNothing(r) PROVE AInv'
  <2>1. UNCHANGED <<db, mine>>
    BY <1>2 DEF WritesNothing
  <2>2. \A s \in Request : req'[s].step = req[s].step /\ req'[s].to = req[s].to
    BY <1>0, <1>2 DEF WritesNothing, TypeOK
  <2> QED BY <1>1, <2>1, <2>2 DEF AInv, Fills
<1>3. ASSUME NEW step \in Step, NEW x, NEW v, NEW seen, GoOn(r, step, x, v, seen),
             step \in {"grant", "flip", "mint", "revoke"} => v \in Value
      PROVE  AInv'
  <2>1. UNCHANGED <<db, mine>>
    BY <1>3 DEF GoOn
  <2>2. req'[r].step = step /\ req'[r].to = v /\ \A s \in Request \ {r} : req'[s] = req[s]
    BY <1>0, <1>3 DEF GoOn, TypeOK
  <2> QED BY <1>1, <1>3, <2>1, <2>2 DEF AInv, Fills
<1>4. ASSUME NEW p \in Prompt, CreatePrompt(r, p) PROVE AInv'
  BY <1>3, <1>4 DEF CreatePrompt, Step
<1>5. ASSUME NEW p \in Prompt, CreateVersion(r, p) PROVE AInv'
  BY <1>2, <1>3, <1>5 DEF CreateVersion, Step
<1>6. ASSUME NEW p \in Prompt, NEW n \in Version, ActivateVersion(r, p, n) PROVE AInv'
  BY <1>2, <1>3, <1>6 DEF ActivateVersion, Step
<1>7. ASSUME NEW a \in Agent, CreateAgent(r, a) \/ DeleteAgent(r, a) \/ UpdateConfig(r, a)
      PROVE  AInv'
  BY <1>2, <1>3, <1>7 DEF CreateAgent, DeleteAgent, UpdateConfig, Step, Value
<1>8. ASSUME NEW a \in Agent, NEW prompts, SetPrompt(r, a, prompts) PROVE AInv'
  BY <1>2, <1>3, <1>8 DEF SetPrompt, Step
<1>9. ASSUME NEW a \in Agent, NEW status \in Status, UpdateAgent(r, a, status) PROVE AInv'
  BY <1>2, <1>3, <1>9 DEF UpdateAgent, Step
<1>10. ASSUME NEW a \in Agent, NEW t \in Tool, NEW v \in {"on", "off"}, SetToolEnabled(r, a, t, v)
       PROVE  AInv'
  BY <1>2, <1>3, <1>10 DEF SetToolEnabled, Step, Value
<1>11. ASSUME NEW a \in Agent, NEW k \in Key, NEW privileged \in BOOLEAN,
              CreateKey(r, a, k, privileged) \/ Revoke(r, a, k, privileged)
       PROVE  AInv'
  BY <1>2, <1>3, <1>11 DEF CreateKey, Revoke, Step, Value
<1> QED BY <1>4, <1>5, <1>6, <1>7, <1>8, <1>9, <1>10, <1>11 DEF Field

LEMMA AbortWhole ==
    ASSUME TypeOK, AInv, NEW r \in Request, FlushFails(r) \/ Rollback(r)
    PROVE  AInv'
<1>1. /\ UNCHANGED db /\ req'[r].step = "field"
      /\ \A s \in Request \ {r} : mine'[s] = mine[s] /\ req'[s] = req[s]
      /\ mine'[r] = Unwritten
  <2>1. CASE FlushFails(r)
    BY <2>1 DEF FlushFails, TypeOK
  <2>2. CASE Rollback(r)
    BY <2>2 DEF Rollback, Close, Idle, TypeOK
  <2> QED BY <2>1, <2>2
<1>2. ASSUME NEW a \in Agent PROVE Whole(a)'
  <2>1. \A x \in Family(a) : mine'[r][x] = Untouched
    BY <1>1, FamilyRows DEF Unwritten
  <2> QED BY <1>1, <2>1, FamilyAborted DEF AInv
<1>3. \A s \in Request : Fills(s)'
  BY <1>1 DEF AInv, Fills
<1> QED BY <1>2, <1>3 DEF AInv

LEMMA CommitWhole ==
    ASSUME TypeOK, AInv, NEW r \in Request, Commit(r)
    PROVE  AInv'
<1>1. /\ req'[r].step = "field" /\ db' = [x \in Row |-> Visible(r, x)]
      /\ \A s \in Request \ {r} : mine'[s] = mine[s] /\ req'[s] = req[s]
      /\ mine'[r] = Unwritten
  BY DEF Commit, Close, Idle, TypeOK
<1>2. ASSUME NEW a \in Agent PROVE Whole(a)'
  <2>1. \A x \in Family(a) : mine'[r][x] = Untouched /\ db'[x] = Visible(r, x)
    BY <1>1, FamilyRows DEF Unwritten
  <2> QED BY <1>1, <2>1, FamilyCommitted DEF AInv
<1>3. \A s \in Request : Fills(s)'
  BY <1>1 DEF AInv, Fills
<1> QED BY <1>2, <1>3 DEF AInv

LEMMA AgentsInit == Init => AInv
<1> SUFFICES ASSUME Init PROVE AInv
  OBVIOUS
<1>1. ASSUME NEW a \in Agent PROVE Whole(a)
  <2>1. \A x \in Family(a) : db[x] = Absent /\ \A r \in Request : mine[r][x] = Untouched
    BY FamilyRows DEF Init, Unwritten
  <2>2. /\ \A x \in Children(a) : x \in Family(a)
        /\ AgentRow(a) \in Family(a) /\ ConfigRow(a) \in Family(a)
    BY FamilyRows DEF Family
  <2>3. Untouched # Absent /\ \A r \in Request, x \in Family(a) : Visible(r, x) = Absent
    BY <2>1, WorkspaceAssumption DEF Visible
  <2> QED BY <2>1, <2>2, <2>3 DEF Whole, Sole, Spared, DbWhole, Cascades, SeesWhole
<1>2. \A r \in Request : Fills(r)
  BY DEF Init, Idle, Fills
<1> QED BY <1>1, <1>2 DEF AInv

LEMMA AgentsNext == IInv /\ AInv /\ [Next]_vars => AInv'
<1> SUFFICES ASSUME IInv, AInv, [Next]_vars PROVE AInv'
  OBVIOUS
<1>0. TypeOK
  BY DEF IInv
<1>1. CASE UNCHANGED vars
  <2>1. UNCHANGED <<db, mine, req>>
    BY <1>1 DEF vars
  <2>2. ASSUME NEW a \in Agent PROVE Whole(a)'
    BY <2>1, FamilySame DEF AInv
  <2>3. \A r \in Request : Fills(r)'
    BY <2>1 DEF AInv, Fills
  <2> QED BY <2>2, <2>3 DEF AInv
<1>2. ASSUME NEW r \in Request,
             Field(r) \/ Statement(r) \/ Commit(r) \/ Rollback(r) \/ DeadlockVictim(r)
      PROVE  AInv'
  <2>1. FlushFails(r) \/ Rollback(r) => AInv'
    BY <1>0, AbortWhole
  <2>2. CASE Statement(r)
    BY <2>1, <2>2, ChildStatement, InsertAgentWhole, WriteAgentWhole, EraseAgentWhole,
       PromptStatementWhole
       DEF Statement, InsertLink, FlipLink, InsertKey, WriteRevoked
  <2> QED BY <1>0, <1>2, <2>1, <2>2, FieldWhole, CommitWhole DEF DeadlockVictim
<1> QED BY <1>1, <1>2 DEF Next

LEMMA AgentsAlways == Spec => [](IInv /\ AInv)
BY VersionsInit, VersionsNext, AgentsInit, AgentsNext, PTL DEF Spec

(* No link, key or configuration outlives its agent and no agent is without a *)
(* configuration, whatever deletes, grants and keys were under way at once.  *)
THEOREM AgentsStayWhole == Spec => []AgentsAreWhole
<1>1. AInv => AgentsAreWhole
  BY DEF AInv, Whole, DbWhole, AgentsAreWhole
<1> QED BY <1>1, AgentsAlways, PTL

-----------------------------------------------------------------------------
(* The keys of an agent.  What bounds them is not what the database holds but *)
(* what it would hold if any of the open transactions committed: each was     *)
(* below the cap when it began to mint, whatever the others add to it since.  *)

Takes(r, a) ==
    {k \in Key : mine[r][KeyRow(a, k)] = "live"}
    \cup {k \in Key : req[r].step = "mint" /\ req[r].row = KeyRow(a, k)}

Drops(r, a) == {k \in Key : mine[r][KeyRow(a, k)] \notin {Untouched, "live"}}

After(C, a) == (LiveKeys(a) \ UNION {Drops(s, a) : s \in C}) \cup UNION {Takes(s, a) : s \in C}

Share == Least(KeyCap, MaxFields)

Most == KeyCap + (Cardinality(Request) - 1) * Share

TakesLittle(r, a) ==
    /\ IsFiniteSet(Takes(r, a))
    /\ Cardinality(Takes(r, a)) <= KeyCap /\ Cardinality(Takes(r, a)) <= req[r].fields

Bounded(a) ==
    /\ \A r \in Request : TakesLittle(r, a)
    /\ \A C \in SUBSET Request : IsFiniteSet(After(C, a)) /\ Cardinality(After(C, a)) <= Most

(* Only a mint makes a key active. *)
KeyStep(r) == req[r].step \in {"grant", "flip", "revoke"} => req[r].to # "live"

KInv == (\A a \in Agent : Bounded(a)) /\ \A r \in Request : KeyStep(r)

LEMMA KeyRows ==
    ASSUME NEW a \in Agent, NEW k \in Key
    PROVE  /\ KeyRow(a, k) \in Children(a) /\ KeyRow(a, k) \in Family(a) /\ KeyRow(a, k) \in Row
           /\ \A b \in Agent, j \in Key : KeyRow(a, k) = KeyRow(b, j) => a = b /\ k = j
           /\ \A t \in Tool : KeyRow(a, k) # LinkRow(a, t)
           /\ KeyRow(a, k) # AgentRow(a) /\ KeyRow(a, k) # ConfigRow(a)
<1>1. KeyRow(a, k) \in Children(a)
  BY DEF Children
<1>2. KeyRow(a, k) \in Family(a) /\ KeyRow(a, k) \in Row
  BY <1>1, FamilyRows DEF Family
<1>3. \A b \in Agent, j \in Key : KeyRow(a, k) = KeyRow(b, j) => a = b /\ k = j
  BY DEF KeyRow
<1>4. KeyRow(a, k)[1] = "key" /\ AgentRow(a)[1] = "agent" /\ ConfigRow(a)[1] = "config"
      /\ \A t \in Tool : LinkRow(a, t)[1] = "link"
  BY DEF KeyRow, AgentRow, ConfigRow, LinkRow
<1> QED BY <1>1, <1>2, <1>3, <1>4

LEMMA ShareTyped ==
    /\ Share \in Nat /\ Share <= KeyCap /\ Share <= MaxFields
    /\ KeyCap \in Nat /\ MaxFields \in Nat
    /\ \A n \in Nat : n <= KeyCap /\ n <= MaxFields => n <= Share
BY WorkspaceAssumption DEF Share, Least

LEMMA Subset ==
    ASSUME NEW S, NEW T, T \subseteq S, IsFiniteSet(S)
    PROVE  IsFiniteSet(T) /\ Cardinality(T) \in Nat /\ Cardinality(S) \in Nat
           /\ Cardinality(T) <= Cardinality(S)
BY FS_Subset, FS_CardinalityType

(* The union of so many sets of so many elements. *)
LEMMA UnionOfSmall ==
    ASSUME NEW R, IsFiniteSet(R), NEW n \in Nat, NEW T,
           \A s \in R : IsFiniteSet(T[s]) /\ Cardinality(T[s]) <= n
    PROVE  /\ IsFiniteSet(UNION {T[s] : s \in R})
           /\ Cardinality(UNION {T[s] : s \in R}) <= Cardinality(R) * n
<1> DEFINE U == UNION {T[s] : s \in R}
           D == R \X (1 .. n)
           b(s) == CHOOSE f : f \in Bijection(1 .. Cardinality(T[s]), T[s])
<1>1. IsFiniteSet(D) /\ Cardinality(D) = Cardinality(R) * n /\ Cardinality(D) \in Nat
  <2>1. IsFiniteSet(1 .. n) /\ Cardinality(1 .. n) = n
    <3>1. IsFiniteSet(1 .. n) /\ Cardinality(1 .. n) = IF 1 > n THEN 0 ELSE n - 1 + 1
      <4>1. 1 \in Int /\ n \in Int
        OBVIOUS
      <4> QED BY <4>1, FS_Interval
    <3>2. (IF 1 > n THEN 0 ELSE n - 1 + 1) = n
      OBVIOUS
    <3> QED BY <3>1, <3>2
  <2>2. IsFiniteSet(D) /\ Cardinality(D) = Cardinality(R) * Cardinality(1 .. n)
    BY <2>1, FS_Product
  <2>3. Cardinality(D) \in Nat
    BY <2>2, FS_CardinalityType
  <2> HIDE DEF D
  <2> QED BY <2>1, <2>2, <2>3
<1>2. CASE U = {}
  BY <1>1, <1>2, FS_EmptySet
<1>3. ASSUME NEW u \in U PROVE IsFiniteSet(U) /\ Cardinality(U) <= Cardinality(D)
  <2> DEFINE F == [p \in D |-> IF p[2] <= Cardinality(T[p[1]]) THEN b(p[1])[p[2]] ELSE u]
  <2>1. ASSUME NEW s \in R
        PROVE  /\ Cardinality(T[s]) \in Nat /\ Cardinality(T[s]) <= n
               /\ b(s) \in [1 .. Cardinality(T[s]) -> T[s]]
               /\ \A x \in T[s] : \E i \in 1 .. Cardinality(T[s]) : b(s)[i] = x
    <3>1. Cardinality(T[s]) \in Nat /\ ExistsBijection(1 .. Cardinality(T[s]), T[s])
      BY FS_CardinalityType
    <3>2. b(s) \in Bijection(1 .. Cardinality(T[s]), T[s])
      BY <3>1 DEF ExistsBijection
    <3> QED BY <3>1, <3>2 DEF Bijection, Injection, Surjection
  <2> HIDE DEF b
  <2>2. ASSUME NEW p \in D PROVE F[p] \in U
    <3>1. p[1] \in R /\ p[2] \in 1 .. n
      OBVIOUS
    <3>2. CASE p[2] <= Cardinality(T[p[1]])
      <4>1. p[2] \in 1 .. Cardinality(T[p[1]])
        BY <2>1, <3>1, <3>2
      <4>2. b(p[1])[p[2]] \in T[p[1]]
        BY <2>1, <3>1, <4>1
      <4> QED BY <3>1, <3>2, <4>2
    <3>3. CASE ~ (p[2] <= Cardinality(T[p[1]]))
      BY <3>3
    <3> QED BY <3>2, <3>3
  <2>3. ASSUME NEW x \in U PROVE \E p \in D : F[p] = x
    <3>1. PICK s \in R : x \in T[s]
      OBVIOUS
    <3>2. PICK i \in 1 .. Cardinality(T[s]) : b(s)[i] = x
      BY <2>1, <3>1
    <3>3. i \in 1 .. n /\ i <= Cardinality(T[s])
      BY <2>1, <3>2
    <3>4. <<s, i>> \in D /\ F[<<s, i>>] = x
      BY <3>2, <3>3
    <3> QED BY <3>4
  <2>4. F \in [D -> U]
    <3>1. F = [p \in D |-> F[p]]
      OBVIOUS
    <3> HIDE DEF F, D, U
    <3> QED BY <2>2, <3>1
  <2> HIDE DEF F, D, U
  <2>5. F \in Surjection(D, U)
    BY <2>3, <2>4 DEF Surjection
  <2> QED BY <1>1, <2>5, FS_Surjection
<1> QED BY <1>1, <1>2, <1>3

(* What r sees as active is what would be there if it alone committed. *)
LEMMA ActiveIsAfter ==
    ASSUME NEW a \in Agent, NEW r \in Request
    PROVE  /\ ActiveKeys(r, a) \subseteq After({r}, a)
           /\ LiveKeys(a) \ Drops(r, a) \subseteq ActiveKeys(r, a)
           /\ {k \in Key : mine[r][KeyRow(a, k)] = "live"} \subseteq ActiveKeys(r, a)
<1>1. "live" # Untouched
  BY WorkspaceAssumption DEF Value
<1> QED BY <1>1 DEF ActiveKeys, Visible, After, LiveKeys, Drops, Takes

(* Only r moves, and what it would leave behind does not grow. *)
LEMMA Shrinks ==
    ASSUME NEW a \in Agent, NEW r \in Request, Bounded(a), LiveKeys(a)' = LiveKeys(a),
           \A s \in Request \ {r} : Takes(s, a)' = Takes(s, a) /\ Drops(s, a)' = Drops(s, a)
                                    /\ req'[s].fields = req[s].fields,
           Takes(r, a)' \subseteq Takes(r, a),
           Drops(r, a) \subseteq Drops(r, a)' \cup Takes(r, a)',
           req[r].fields \in Nat, req'[r].fields \in Nat, req[r].fields <= req'[r].fields
    PROVE  Bounded(a)'
<1>1. ASSUME NEW s \in Request PROVE TakesLittle(s, a)'
  <2>1. CASE s # r
    BY <2>1 DEF Bounded, TakesLittle
  <2>2. CASE s = r
    <3>1. /\ IsFiniteSet(Takes(r, a)) /\ Cardinality(Takes(r, a)) <= KeyCap
          /\ Cardinality(Takes(r, a)) <= req[r].fields
      BY DEF Bounded, TakesLittle
    <3>2. /\ IsFiniteSet(Takes(r, a)') /\ Cardinality(Takes(r, a)') \in Nat
          /\ Cardinality(Takes(r, a)) \in Nat
          /\ Cardinality(Takes(r, a)') <= Cardinality(Takes(r, a))
      BY <3>1, Subset
    <3> QED BY <2>2, <3>1, <3>2, ShareTyped DEF TakesLittle
  <2> QED BY <2>1, <2>2
<1>2. ASSUME NEW C \in SUBSET Request
      PROVE  IsFiniteSet(After(C, a)') /\ Cardinality(After(C, a)') <= Most
  <2>1. After(C, a)' \subseteq After(C, a)
    <3> SUFFICES ASSUME NEW k \in After(C, a)' PROVE k \in After(C, a)
      OBVIOUS
    <3>1. CASE \E s \in C : k \in Takes(s, a)'
      BY <3>1 DEF After
    <3>2. CASE k \in LiveKeys(a) /\ \A s \in C : k \notin Drops(s, a)' /\ k \notin Takes(s, a)'
      <4>1. \A s \in C : k \notin Drops(s, a)
        BY <3>2
      <4> QED BY <3>2, <4>1 DEF After
    <3> QED BY <3>1, <3>2 DEF After
  <2>2. IsFiniteSet(After(C, a)) /\ Cardinality(After(C, a)) <= Most
    BY DEF Bounded
  <2>3. /\ IsFiniteSet(After(C, a)') /\ Cardinality(After(C, a)') \in Nat
        /\ Cardinality(After(C, a)) \in Nat /\ Cardinality(After(C, a)') <= Cardinality(After(C, a))
    BY <2>1, <2>2, Subset
  <2>4. Most \in Int
    BY ShareTyped, WorkspaceAssumption, FS_CardinalityType DEF Most
  <2> QED BY <2>2, <2>3, <2>4
<1> QED BY <1>1, <1>2 DEF Bounded, Most

LEMMA AllShrink ==
    ASSUME TypeOK, KInv, NEW r \in Request, UNCHANGED db,
           \A s \in Request \ {r} : mine'[s] = mine[s] /\ req'[s] = req[s],
           \A a \in Agent : /\ Takes(r, a)' \subseteq Takes(r, a)
                            /\ Drops(r, a) \subseteq Drops(r, a)' \cup Takes(r, a)',
           req'[r].fields \in Nat, req[r].fields <= req'[r].fields, KeyStep(r)'
    PROVE  KInv'
<1>1. ASSUME NEW a \in Agent PROVE Bounded(a)'
  <2>1. Bounded(a) /\ LiveKeys(a)' = LiveKeys(a)
    BY DEF KInv, LiveKeys
  <2>2. \A s \in Request \ {r} : Takes(s, a)' = Takes(s, a) /\ Drops(s, a)' = Drops(s, a)
                                 /\ req'[s].fields = req[s].fields
    BY DEF Takes, Drops
  <2>3. req[r].fields \in Nat
    BY DEF TypeOK
  <2> QED BY <2>1, <2>2, <2>3, Shrinks
<1>2. ASSUME NEW s \in Request PROVE KeyStep(s)'
  BY DEF KInv, KeyStep
<1> QED BY <1>1, <1>2 DEF KInv

(* A flush adds no key but the one it was to mint. *)
LEMMA FlushShrinks ==
    ASSUME TypeOK, KInv, NEW r \in Request, NEW w, Flush(r, w),
           \A a \in Agent, k \in Key : KeyRow(a, k) \in DOMAIN w =>
              /\ w[KeyRow(a, k)] # Untouched
              /\ w[KeyRow(a, k)] = "live" => req[r].step = "mint" /\ req[r].row = KeyRow(a, k)
    PROVE  KInv'
<1>1. /\ UNCHANGED db /\ \A s \in Request \ {r} : mine'[s] = mine[s] /\ req'[s] = req[s]
      /\ \A x \in Row : mine'[r][x] = IF x \in DOMAIN w THEN w[x] ELSE mine[r][x]
      /\ req'[r].step = "field"
  BY Flushed
<1>2. req'[r].fields = req[r].fields /\ req[r].fields \in Nat
  BY DEF Flush, FieldDone, TypeOK
<1>3. ASSUME NEW a \in Agent
      PROVE  /\ Takes(r, a)' \subseteq Takes(r, a)
             /\ Drops(r, a) \subseteq Drops(r, a)' \cup Takes(r, a)'
  <2>1. \A k \in Key : mine'[r][KeyRow(a, k)] =
                          IF KeyRow(a, k) \in DOMAIN w THEN w[KeyRow(a, k)]
                          ELSE mine[r][KeyRow(a, k)]
    BY <1>1, KeyRows
  <2> QED BY <1>1, <2>1 DEF Takes, Drops
<1>4. KeyStep(r)'
  BY <1>1 DEF KeyStep
<1> QED BY <1>1, <1>2, <1>3, <1>4, AllShrink

(* A transaction that ends without a trace. *)
LEMMA AbortShrinks ==
    ASSUME TypeOK, KInv, NEW r \in Request, FlushFails(r) \/ Rollback(r)
    PROVE  KInv'
<1>1. /\ UNCHANGED db /\ req'[r].step = "field" /\ req'[r].fields \in Nat
      /\ \A s \in Request \ {r} : mine'[s] = mine[s] /\ req'[s] = req[s]
      /\ mine'[r] = Unwritten
  <2>1. CASE FlushFails(r)
    BY <2>1 DEF FlushFails, TypeOK
  <2>2. CASE Rollback(r)
    BY <2>2 DEF Rollback, Close, Idle, TypeOK
  <2> QED BY <2>1, <2>2
<1>2. ASSUME NEW a \in Agent PROVE Bounded(a)'
  <2>1. \A k \in Key : mine'[r][KeyRow(a, k)] = Untouched
    BY <1>1, KeyRows DEF Unwritten
  <2>2. Takes(r, a)' = {} /\ Drops(r, a)' = {}
    BY <1>1, <2>1, WorkspaceAssumption DEF Takes, Drops, Value
  <2>3. \A s \in Request \ {r} : Takes(s, a)' = Takes(s, a) /\ Drops(s, a)' = Drops(s, a)
                                 /\ req'[s].fields = req[s].fields
    BY <1>1 DEF Takes, Drops
  <2>4. ASSUME NEW s \in Request PROVE TakesLittle(s, a)'
    <3>1. CASE s # r
      BY <2>3, <3>1 DEF KInv, Bounded, TakesLittle
    <3>2. CASE s = r
      BY <1>1, <2>2, <3>2, FS_EmptySet, ShareTyped DEF TakesLittle
    <3> QED BY <3>1, <3>2
  <2>5. ASSUME NEW C \in SUBSET Request
        PROVE  IsFiniteSet(After(C, a)') /\ Cardinality(After(C, a)') <= Most
    <3>1. After(C, a)' = After(C \ {r}, a)
      <4>1. UNION {Drops(s, a)' : s \in C} = UNION {Drops(s, a) : s \in C \ {r}}
        BY <2>2, <2>3
      <4>2. UNION {Takes(s, a)' : s \in C} = UNION {Takes(s, a) : s \in C \ {r}}
        BY <2>2, <2>3
      <4>3. LiveKeys(a)' = LiveKeys(a)
        BY <1>1 DEF LiveKeys
      <4> QED BY <4>1, <4>2, <4>3 DEF After
    <3>2. C \ {r} \in SUBSET Request
      OBVIOUS
    <3> QED BY <3>1, <3>2 DEF KInv, Bounded
  <2> QED BY <2>4, <2>5 DEF Bounded, Most
<1>3. ASSUME NEW s \in Request PROVE KeyStep(s)'
  BY <1>1 DEF KInv, KeyStep
<1> QED BY <1>2, <1>3 DEF KInv

(* What r leaves behind by committing is what its commit would have left. *)
LEMMA CommitShrinks ==
    ASSUME TypeOK, KInv, NEW r \in Request, Commit(r)
    PROVE  KInv'
<1>1. /\ req'[r].step = "field" /\ req'[r].fields \in Nat
      /\ db' = [x \in Row |-> Visible(r, x)] /\ req[r].step = "field"
      /\ \A s \in Request \ {r} : mine'[s] = mine[s] /\ req'[s] = req[s]
      /\ mine'[r] = Unwritten
  BY DEF Commit, Close, Idle, TypeOK
<1>2. ASSUME NEW a \in Agent PROVE Bounded(a)'
  <2>1. \A k \in Key : mine'[r][KeyRow(a, k)] = Untouched
                       /\ db'[KeyRow(a, k)] = Visible(r, KeyRow(a, k))
    BY <1>1, KeyRows DEF Unwritten
  <2>2. Takes(r, a)' = {} /\ Drops(r, a)' = {}
    BY <1>1, <2>1, WorkspaceAssumption DEF Takes, Drops, Value
  <2>3. \A s \in Request \ {r} : Takes(s, a)' = Takes(s, a) /\ Drops(s, a)' = Drops(s, a)
                                 /\ req'[s].fields = req[s].fields
    BY <1>1 DEF Takes, Drops
  <2>4. ASSUME NEW s \in Request PROVE TakesLittle(s, a)'
    <3>1. CASE s # r
      BY <2>3, <3>1 DEF KInv, Bounded, TakesLittle
    <3>2. CASE s = r
      BY <1>1, <2>2, <3>2, FS_EmptySet, ShareTyped DEF TakesLittle
    <3> QED BY <3>1, <3>2
  <2>5. LiveKeys(a)' \subseteq (LiveKeys(a) \ Drops(r, a)) \cup Takes(r, a)
    BY <2>1 DEF LiveKeys, Visible, Drops, Takes
  <2>6. ASSUME NEW C \in SUBSET Request
        PROVE  IsFiniteSet(After(C, a)') /\ Cardinality(After(C, a)') <= Most
    <3>1. After(C, a)' \subseteq After(C \cup {r}, a)
      <4> SUFFICES ASSUME NEW k \in After(C, a)' PROVE k \in After(C \cup {r}, a)
        OBVIOUS
      <4>1. CASE \E s \in C : k \in Takes(s, a)'
        <5>1. \E s \in C : k \in Takes(s, a)
          BY <2>2, <2>3, <4>1
        <5> QED BY <5>1 DEF After
      <4>2. CASE k \in LiveKeys(a)' /\ \A s \in C : k \notin Drops(s, a)'
        <5>1. CASE k \in Takes(r, a)
          BY <5>1 DEF After
        <5>2. CASE k \in LiveKeys(a) /\ k \notin Drops(r, a)
          <6>1. \A s \in C \cup {r} : k \notin Drops(s, a)
            BY <2>3, <4>2, <5>2
          <6> QED BY <5>2, <6>1 DEF After
        <5> QED BY <2>5, <4>2, <5>1, <5>2
      <4> QED BY <4>1, <4>2 DEF After
    <3>2. IsFiniteSet(After(C \cup {r}, a)) /\ Cardinality(After(C \cup {r}, a)) <= Most
      BY DEF KInv, Bounded
    <3>3. /\ IsFiniteSet(After(C, a)') /\ Cardinality(After(C, a)') \in Nat
          /\ Cardinality(After(C \cup {r}, a)) \in Nat
          /\ Cardinality(After(C, a)') <= Cardinality(After(C \cup {r}, a))
      BY <3>1, <3>2, Subset
    <3>4. Most \in Int
      BY ShareTyped, WorkspaceAssumption, FS_CardinalityType DEF Most
    <3> QED BY <3>2, <3>3, <3>4
  <2> QED BY <2>4, <2>6 DEF Bounded, Most
<1>3. ASSUME NEW s \in Request PROVE KeyStep(s)'
  BY <1>1 DEF KInv, KeyStep
<1> QED BY <1>2, <1>3 DEF KInv

(* A key about to be minted by an operation that sees fewer than the cap. *)
LEMMA MintBounded ==
    ASSUME TypeOK, KInv, NEW r \in Request, NEW a \in Agent, NEW k \in Key, UNCHANGED <<db, mine>>,
           \A s \in Request \ {r} : req'[s] = req[s],
           req[r].step = "field", req'[r].step = "mint", req'[r].row = KeyRow(a, k),
           req'[r].fields = req[r].fields + 1,
           Cardinality(ActiveKeys(r, a)) < KeyCap
    PROVE  Bounded(a)'
<1> DEFINE Elsewhere == UNION {Takes(s, a) : s \in Request \ {r}}
<1>1. IsFiniteSet(ActiveKeys(r, a)) /\ Cardinality(ActiveKeys(r, a)) \in Nat
  <2>1. IsFiniteSet(After({r}, a))
    BY DEF KInv, Bounded
  <2> QED BY <2>1, ActiveIsAfter, Subset
<1>2. /\ Takes(r, a)' = Takes(r, a) \cup {k} /\ Takes(r, a) \subseteq ActiveKeys(r, a)
      /\ Drops(r, a)' = Drops(r, a)
  <2>1. \A j \in Key : KeyRow(a, k) = KeyRow(a, j) <=> j = k
    BY KeyRows
  <2>2. \A j \in Key : (j \in Takes(r, a)) <=> mine[r][KeyRow(a, j)] = "live"
    BY DEF Takes
  <2>3. \A j \in Key : (j \in Takes(r, a)') <=> (mine[r][KeyRow(a, j)] = "live" \/ j = k)
    BY <2>1 DEF Takes
  <2>4. Takes(r, a) \subseteq Key /\ Takes(r, a)' \subseteq Key
    BY DEF Takes
  <2>5. Takes(r, a)' = Takes(r, a) \cup {k}
    BY <2>2, <2>3, <2>4
  <2>6. Takes(r, a) \subseteq ActiveKeys(r, a)
    BY <2>2, <2>4, ActiveIsAfter
  <2>7. Drops(r, a)' = Drops(r, a)
    BY DEF Drops
  <2> QED BY <2>5, <2>6, <2>7
<1>3. \A s \in Request \ {r} : Takes(s, a)' = Takes(s, a) /\ Drops(s, a)' = Drops(s, a)
                               /\ req'[s].fields = req[s].fields
  BY DEF Takes, Drops
<1>4. \A s \in Request : /\ TakesLittle(s, a) /\ Cardinality(Takes(s, a)) \in Nat
                         /\ req[s].fields \in Nat /\ req[s].fields <= MaxFields
  <2>1. \A s \in Request : TakesLittle(s, a)
    BY DEF KInv, Bounded
  <2>2. \A s \in Request : req[s].fields \in Nat /\ req[s].fields <= MaxFields
    BY ShareTyped DEF TypeOK
  <2> QED BY <2>1, <2>2, FS_CardinalityType DEF TakesLittle
<1>5. ASSUME NEW s \in Request PROVE TakesLittle(s, a)'
  <2>1. CASE s # r
    BY <1>3, <1>4, <2>1 DEF TakesLittle
  <2>2. CASE s = r
    <3>1. /\ IsFiniteSet(Takes(r, a) \cup {k})
          /\ Cardinality(Takes(r, a) \cup {k}) <= Cardinality(Takes(r, a)) + 1
      <4>1. IsFiniteSet(Takes(r, a)) /\ Cardinality(Takes(r, a)) \in Nat
        BY <1>4 DEF TakesLittle
      <4>2. /\ IsFiniteSet(Takes(r, a) \cup {k})
            /\ Cardinality(Takes(r, a) \cup {k}) =
                  IF k \in Takes(r, a) THEN Cardinality(Takes(r, a)) ELSE Cardinality(Takes(r, a)) + 1
        BY <4>1, FS_AddElement
      <4> QED BY <4>1, <4>2
    <3>2. Cardinality(Takes(r, a)) <= Cardinality(ActiveKeys(r, a))
      BY <1>1, <1>2, Subset
    <3>3. Cardinality(Takes(r, a) \cup {k}) \in Nat
      BY <3>1, FS_CardinalityType
    <3>4. Cardinality(Takes(r, a)) <= req[r].fields
      BY <1>4 DEF TakesLittle
    <3>5. /\ Cardinality(Takes(r, a) \cup {k}) <= KeyCap
          /\ Cardinality(Takes(r, a) \cup {k}) <= req'[r].fields
      BY <1>1, <1>4, <3>1, <3>2, <3>3, <3>4, ShareTyped
    <3> QED BY <1>2, <2>2, <3>1, <3>5 DEF TakesLittle
  <2> QED BY <2>1, <2>2
<1>6. /\ IsFiniteSet(Elsewhere) /\ Cardinality(Elsewhere) \in Nat
      /\ Cardinality(Elsewhere) <= (Cardinality(Request) - 1) * Share
  <2> DEFINE T == [s \in Request |-> Takes(s, a)]
  <2>1. /\ IsFiniteSet(Request \ {r}) /\ Cardinality(Request \ {r}) = Cardinality(Request) - 1
    BY FS_RemoveElement, WorkspaceAssumption
  <2>2. \A s \in Request \ {r} : IsFiniteSet(T[s]) /\ Cardinality(T[s]) <= Share
    <3> SUFFICES ASSUME NEW s \in Request \ {r}
                 PROVE  IsFiniteSet(Takes(s, a)) /\ Cardinality(Takes(s, a)) <= Share
      OBVIOUS
    <3>1. /\ Cardinality(Takes(s, a)) <= KeyCap /\ Cardinality(Takes(s, a)) <= MaxFields
          /\ Cardinality(Takes(s, a)) \in Nat
      BY <1>4, ShareTyped DEF TakesLittle
    <3> QED BY <1>4, <3>1, ShareTyped DEF TakesLittle
  <2>3. Share \in Nat
    BY ShareTyped
  <2>4. Elsewhere = UNION {T[s] : s \in Request \ {r}}
    OBVIOUS
  <2> HIDE DEF T, Elsewhere
  <2>5. IsFiniteSet(Elsewhere) /\ Cardinality(Elsewhere) <= Cardinality(Request \ {r}) * Share
    <3>1. /\ IsFiniteSet(UNION {T[s] : s \in Request \ {r}})
          /\ Cardinality(UNION {T[s] : s \in Request \ {r}}) <= Cardinality(Request \ {r}) * Share
      BY <2>1, <2>2, <2>3, UnionOfSmall
    <3> QED BY <2>4, <3>1
  <2> QED BY <2>1, <2>5, FS_CardinalityType
<1>7. ASSUME NEW C \in SUBSET Request
      PROVE  IsFiniteSet(After(C, a)') /\ Cardinality(After(C, a)') <= Most
  <2>1. CASE r \notin C
    <3>1. \A s \in C : Takes(s, a)' = Takes(s, a) /\ Drops(s, a)' = Drops(s, a)
      BY <1>3, <2>1
    <3>2. UNION {Drops(s, a)' : s \in C} = UNION {Drops(s, a) : s \in C}
      BY <3>1
    <3>3. UNION {Takes(s, a)' : s \in C} = UNION {Takes(s, a) : s \in C}
      BY <3>1
    <3>4. After(C, a)' = After(C, a)
      BY <3>2, <3>3 DEF After, LiveKeys
    <3> QED BY <3>4 DEF KInv, Bounded
  <2>2. CASE r \in C
    <3> DEFINE Here == ActiveKeys(r, a) \cup {k}
    <3>1. /\ IsFiniteSet(Here) /\ Cardinality(Here) \in Nat /\ Cardinality(Here) <= KeyCap
      <4>1. IsFiniteSet(Here) /\ Cardinality(Here) <= Cardinality(ActiveKeys(r, a)) + 1
        <5>1. /\ IsFiniteSet(ActiveKeys(r, a) \cup {k})
              /\ Cardinality(ActiveKeys(r, a) \cup {k}) =
                    IF k \in ActiveKeys(r, a) THEN Cardinality(ActiveKeys(r, a))
                    ELSE Cardinality(ActiveKeys(r, a)) + 1
          BY <1>1, FS_AddElement
        <5> QED BY <1>1, <5>1
      <4>2. Cardinality(Here) \in Nat
        BY <4>1, FS_CardinalityType
      <4> QED BY <1>1, <4>1, <4>2, ShareTyped
    <3>2. After(C, a)' \subseteq Here \cup Elsewhere
      <4> SUFFICES ASSUME NEW j \in After(C, a)' PROVE j \in Here \cup Elsewhere
        OBVIOUS
      <4>1. CASE \E s \in C : j \in Takes(s, a)'
        BY <1>2, <1>3, <4>1
      <4>2. CASE j \in LiveKeys(a)' /\ \A s \in C : j \notin Drops(s, a)'
        BY <1>2, <2>2, <4>2, ActiveIsAfter DEF LiveKeys
      <4> QED BY <4>1, <4>2 DEF After
    <3> HIDE DEF Here, Elsewhere
    <3>3. /\ IsFiniteSet(Here \cup Elsewhere) /\ Cardinality(Here \cup Elsewhere) \in Nat
          /\ Cardinality(Here \cup Elsewhere) <= Cardinality(Here) + Cardinality(Elsewhere)
      <4>1. /\ IsFiniteSet(Here \cup Elsewhere)
            /\ Cardinality(Here \cup Elsewhere) =
                  Cardinality(Here) + Cardinality(Elsewhere) - Cardinality(Here \cap Elsewhere)
        BY <1>6, <3>1, FS_Union
      <4>2. Cardinality(Here \cap Elsewhere) \in Nat
        BY <3>1, FS_Intersection, FS_CardinalityType
      <4>3. Cardinality(Here \cup Elsewhere) \in Nat
        BY <4>1, FS_CardinalityType
      <4> QED BY <1>6, <3>1, <4>1, <4>2, <4>3
    <3>4. /\ IsFiniteSet(After(C, a)') /\ Cardinality(After(C, a)') \in Nat
          /\ Cardinality(After(C, a)') <= Cardinality(Here \cup Elsewhere)
      BY <3>2, <3>3, Subset
    <3>5. Most \in Int /\ Cardinality(Here) + Cardinality(Elsewhere) <= Most
      <4>1. (Cardinality(Request) - 1) * Share \in Int
        BY ShareTyped, WorkspaceAssumption, FS_CardinalityType
      <4> DEFINE others == (Cardinality(Request) - 1) * Share
      <4>2. Most = KeyCap + others /\ others \in Int /\ Cardinality(Elsewhere) <= others
        BY <1>6, <4>1 DEF Most
      <4> HIDE DEF others
      <4> QED BY <1>6, <3>1, <4>2, ShareTyped
    <3> QED BY <1>6, <3>1, <3>3, <3>4, <3>5
  <2> QED BY <2>1, <2>2
<1> QED BY <1>5, <1>7 DEF Bounded, Most

LEMMA FieldBounded ==
    ASSUME TypeOK, KInv, NEW r \in Request, Field(r)
    PROVE  KInv'
<1>1. req[r].step = "field" /\ req[r].fields \in Nat
  <2>1. req[r].fields \in Nat
    BY DEF TypeOK
  <2>2. StartsField(r)
    BY DEF Field, CreatePrompt, CreateVersion, ActivateVersion, CreateAgent, DeleteAgent,
           UpdateConfig, SetPrompt, UpdateAgent, SetToolEnabled, CreateKey, Revoke
  <2> QED BY <2>1, <2>2 DEF StartsField
<1>2. ASSUME UNCHANGED <<db, mine>>, \A s \in Request \ {r} : req'[s] = req[s],
             req'[r].step # "mint", req'[r].fields = req[r].fields + 1, KeyStep(r)'
      PROVE  KInv'
  <2>1. ASSUME NEW a \in Agent PROVE Takes(r, a)' \subseteq Takes(r, a) /\ Drops(r, a)' = Drops(r, a)
    BY <1>2 DEF Takes, Drops
  <2> QED BY <1>1, <1>2, <2>1, AllShrink
<1>3. ASSUME WritesNothing(r) PROVE KInv'
  <2>1. /\ UNCHANGED <<db, mine>> /\ \A s \in Request \ {r} : req'[s] = req[s]
        /\ req'[r].step = "field" /\ req'[r].fields = req[r].fields + 1
    BY <1>1, <1>3 DEF WritesNothing, TypeOK
  <2> QED BY <1>2, <2>1 DEF KeyStep
<1>4. ASSUME NEW step, NEW x, NEW v, NEW seen, GoOn(r, step, x, v, seen)
      PROVE  /\ UNCHANGED <<db, mine>> /\ \A s \in Request \ {r} : req'[s] = req[s]
             /\ req'[r].step = step /\ req'[r].row = x /\ req'[r].to = v
             /\ req'[r].fields = req[r].fields + 1
  BY <1>4 DEF GoOn, TypeOK
<1>5. ASSUME NEW step, NEW x, NEW v, NEW seen, GoOn(r, step, x, v, seen), step # "mint",
             step \in {"grant", "flip", "revoke"} => v # "live"
      PROVE  KInv'
  BY <1>2, <1>4, <1>5 DEF KeyStep
<1>6. ASSUME NEW a \in Agent, NEW k \in Key, GoOn(r, "mint", KeyRow(a, k), "live", {}),
             Cardinality(ActiveKeys(r, a)) < KeyCap
      PROVE  KInv'
  <2>1. /\ UNCHANGED <<db, mine>> /\ \A s \in Request \ {r} : req'[s] = req[s]
        /\ req'[r].step = "mint" /\ req'[r].row = KeyRow(a, k)
        /\ req'[r].fields = req[r].fields + 1
    BY <1>4, <1>6
  <2>2. Bounded(a)'
    BY <1>1, <1>6, <2>1, MintBounded
  <2>3. ASSUME NEW b \in Agent, b # a PROVE Bounded(b)'
    <3>1. Takes(r, b)' \subseteq Takes(r, b) /\ Drops(r, b)' = Drops(r, b)
      BY <2>1, <2>3, KeyRows DEF Takes, Drops
    <3>2. \A s \in Request \ {r} : Takes(s, b)' = Takes(s, b) /\ Drops(s, b)' = Drops(s, b)
                                   /\ req'[s].fields = req[s].fields
      BY <2>1 DEF Takes, Drops
    <3>3. Bounded(b) /\ LiveKeys(b)' = LiveKeys(b)
      BY <2>1 DEF KInv, LiveKeys
    <3>4. req'[r].fields \in Nat /\ req[r].fields <= req'[r].fields
      BY <1>1, <2>1
    <3> QED BY <1>1, <3>1, <3>2, <3>3, <3>4, Shrinks
  <2>4. ASSUME NEW s \in Request PROVE KeyStep(s)'
    BY <2>1 DEF KInv, KeyStep
  <2> QED BY <2>2, <2>3, <2>4 DEF KInv
<1>7. ASSUME NEW p \in Prompt, CreatePrompt(r, p) \/ CreateVersion(r, p) PROVE KInv'
  BY <1>3, <1>5, <1>7 DEF CreatePrompt, CreateVersion
<1>8. ASSUME NEW p \in Prompt, NEW n \in Version, ActivateVersion(r, p, n) PROVE KInv'
  BY <1>3, <1>5, <1>8 DEF ActivateVersion
<1>9. ASSUME NEW a \in Agent, CreateAgent(r, a) \/ DeleteAgent(r, a) \/ UpdateConfig(r, a)
      PROVE  KInv'
  BY <1>3, <1>5, <1>9 DEF CreateAgent, DeleteAgent, UpdateConfig
<1>10. ASSUME NEW a \in Agent, NEW prompts, SetPrompt(r, a, prompts) PROVE KInv'
  BY <1>3, <1>5, <1>10 DEF SetPrompt
<1>11. ASSUME NEW a \in Agent, NEW status \in Status, UpdateAgent(r, a, status) PROVE KInv'
  BY <1>3, <1>5, <1>11 DEF UpdateAgent
<1>12. ASSUME NEW a \in Agent, NEW t \in Tool, NEW v \in {"on", "off"}, SetToolEnabled(r, a, t, v)
       PROVE  KInv'
  BY <1>3, <1>5, <1>12 DEF SetToolEnabled
<1>13. ASSUME NEW a \in Agent, NEW k \in Key, NEW privileged \in BOOLEAN,
              CreateKey(r, a, k, privileged) \/ Revoke(r, a, k, privileged)
       PROVE  KInv'
  BY <1>3, <1>5, <1>6, <1>13 DEF CreateKey, Revoke
<1> QED BY <1>7, <1>8, <1>9, <1>10, <1>11, <1>12, <1>13 DEF Field

LEMMA StatementBounded ==
    ASSUME IInv, AInv, KInv, NEW r \in Request, Statement(r)
    PROVE  KInv'
<1>0. TypeOK /\ InsertStep(r) /\ ActivateStep(r) /\ AgentStep(r) /\ Fills(r) /\ KeyStep(r)
  BY DEF IInv, VInv, Sees, AtStep, AInv, KInv
<1>1. FlushFails(r) => KInv'
  BY <1>0, AbortShrinks
<1>2. Untouched \notin Value /\ Untouched # Absent
  BY WorkspaceAssumption
<1>3. ASSUME NEW w, Flush(r, w), \A a \in Agent, k \in Key : KeyRow(a, k) \notin DOMAIN w
      PROVE  KInv'
  BY <1>0, <1>3, FlushShrinks
<1>4. \A a \in Agent, k \in Key, p \in Prompt, n \in Version : KeyRow(a, k) # VersionRow(p, n)
  BY KeyRows, FamilyRows
<1>5. \A a, b \in Agent, k \in Key :
         KeyRow(a, k) # AgentRow(b) /\ KeyRow(a, k) # ConfigRow(b)
         /\ \A t \in Tool : KeyRow(a, k) # LinkRow(b, t)
  BY DEF KeyRow, AgentRow, ConfigRow, LinkRow
<1>6. CASE InsertVersion(r) \/ Activate(r)
  <2>1. PICK p \in Prompt, n \in Version : req[r].row = VersionRow(p, n)
    BY <1>0, <1>6 DEF InsertVersion, Activate, Runs, InsertStep, ActivateStep
  <2>2. \A v : DOMAIN One(req[r].row, v) = {VersionRow(p, n)}
    BY <2>1 DEF One
  <2> QED BY <1>1, <1>3, <1>4, <1>6, <2>2 DEF InsertVersion, Activate
<1>7. CASE Deactivate(r)
  <2>1. PICK p \in Prompt, n \in Version : req[r].row = VersionRow(p, n)
    BY <1>0, <1>7 DEF Deactivate, Runs, ActivateStep
  <2>2. req[r].row[2] = p /\ req[r].seen \subseteq Version
    BY <1>0, <2>1, VersionRows DEF TypeOK
  <2> DEFINE still == {VersionRow(p, m) : m \in {k \in req[r].seen :
                                              Visible(r, VersionRow(p, k)) = "active"}}
  <2>3. mine' = [mine EXCEPT ![r] = [x \in Row |-> IF x \in still THEN "idle" ELSE mine[r][x]]]
    BY <1>7, <2>2 DEF Deactivate
  <2>4. \A a \in Agent, k \in Key : KeyRow(a, k) \notin still
    BY <1>4, <2>2
  <2> HIDE DEF still
  <2>5. \A a \in Agent, k \in Key : mine'[r][KeyRow(a, k)] = mine[r][KeyRow(a, k)]
    BY <1>0, <2>3, <2>4, KeyRows DEF TypeOK
  <2>6. /\ UNCHANGED db /\ \A s \in Request \ {r} : mine'[s] = mine[s] /\ req'[s] = req[s]
        /\ req'[r].step = "set" /\ req'[r].fields = req[r].fields /\ req[r].fields \in Nat
    BY <1>0, <1>7, <2>3 DEF Deactivate, TypeOK
  <2>7. ASSUME NEW a \in Agent PROVE Takes(r, a)' \subseteq Takes(r, a) /\ Drops(r, a)' = Drops(r, a)
    BY <2>5, <2>6 DEF Takes, Drops
  <2> QED BY <1>0, <2>6, <2>7, AllShrink DEF KeyStep
<1>8. CASE InsertAgent(r)
  <2>1. PICK a \in Agent : req[r].row = AgentRow(a) /\ req[r].row[2] = a
    BY <1>0, <1>8, AgentRows DEF InsertAgent, Runs, AgentStep
  <2>2. \A b \in Agent, k \in Key : KeyRow(b, k) \notin DOMAIN Newborn(a)
    BY <1>5, WorkspaceAssumption DEF Newborn
  <2> QED BY <1>1, <1>3, <1>8, <2>1, <2>2 DEF InsertAgent
<1>9. CASE WriteAgent(r)
  <2>1. PICK a \in Agent : req[r].row = AgentRow(a)
    BY <1>0, <1>9 DEF WriteAgent, Runs, AgentStep
  <2>2. \A v : DOMAIN One(req[r].row, v) = {AgentRow(a)}
    BY <2>1 DEF One
  <2> QED BY <1>1, <1>3, <1>5, <1>9, <2>2 DEF WriteAgent
<1>10. CASE EraseAgent(r)
  <2> DEFINE w == [x \in {y \in {req[r].row} \cup Children(req[r].row[2]) :
                            Visible(r, y) # Absent} |-> Absent]
  <2>1. Flush(r, w)
    BY <1>10 DEF EraseAgent
  <2>2. \A x \in DOMAIN w : w[x] # Untouched /\ w[x] # "live"
    BY <1>2, WorkspaceAssumption DEF Value
  <2> HIDE DEF w
  <2> QED BY <1>0, <2>1, <2>2, FlushShrinks
<1>11. CASE InsertLink(r) \/ InsertKey(r) \/ FlipLink(r) \/ WriteRevoked(r)
  <2>1. req[r].step \in {"grant", "mint", "flip", "revoke"}
        /\ (FlushFails(r) \/ Flush(r, One(req[r].row, req[r].to)))
    BY <1>11 DEF InsertLink, InsertKey, FlipLink, WriteRevoked, InsertChild, UpdateChild, Runs
  <2>2. \A x \in DOMAIN One(req[r].row, req[r].to) :
           x = req[r].row /\ One(req[r].row, req[r].to)[x] = req[r].to
    BY DEF One
  <2>3. req[r].to # Untouched /\ (req[r].to = "live" => req[r].step = "mint")
    BY <1>0, <1>2, <2>1 DEF Fills, KeyStep
  <2> QED BY <1>0, <1>1, <2>1, <2>2, <2>3, FlushShrinks
<1> QED BY <1>6, <1>7, <1>8, <1>9, <1>10, <1>11 DEF Statement

LEMMA KeysInit == Init => KInv
<1> SUFFICES ASSUME Init PROVE KInv
  OBVIOUS
<1>1. ASSUME NEW a \in Agent PROVE Bounded(a)
  <2>1. \A k \in Key : db[KeyRow(a, k)] = Absent /\ \A r \in Request : mine[r][KeyRow(a, k)] = Untouched
    BY KeyRows DEF Init, Unwritten
  <2>2. LiveKeys(a) = {} /\ \A r \in Request : Takes(r, a) = {} /\ Drops(r, a) = {}
    BY <2>1, WorkspaceAssumption DEF Init, Idle, LiveKeys, Takes, Drops, Value
  <2>3. \A C \in SUBSET Request : After(C, a) = {}
    BY <2>2 DEF After
  <2>4. ASSUME NEW C \in SUBSET Request PROVE 0 <= Most
    <3>1. CASE Request = {}
      <4>1. Cardinality(Request) = 0
        BY <3>1, FS_EmptySet
      <4>2. Most = KeyCap + (0 - 1) * Share
        BY <4>1 DEF Most
      <4>3. (0 - 1) * Share = 0 - Share
        BY ShareTyped
      <4> QED BY <4>2, <4>3, ShareTyped
    <3>2. CASE Request # {}
      <4>1. Cardinality(Request) \in Nat /\ Cardinality(Request) # 0
        BY <3>2, WorkspaceAssumption, FS_CardinalityType, FS_EmptySet
      <4>2. Cardinality(Request) - 1 \in Nat
        BY <4>1
      <4>3. (Cardinality(Request) - 1) * Share \in Nat
        BY <4>2, ShareTyped
      <4> QED BY <4>3, ShareTyped DEF Most
    <3> QED BY <3>1, <3>2
  <2>5. \A r \in Request : req[r].fields = 0
    BY DEF Init, Idle
  <2> QED BY <2>2, <2>3, <2>4, <2>5, FS_EmptySet, ShareTyped DEF Bounded, TakesLittle
<1>2. \A r \in Request : KeyStep(r)
  BY DEF Init, Idle, KeyStep
<1> QED BY <1>1, <1>2 DEF KInv

LEMMA KeysNext == IInv /\ AInv /\ KInv /\ [Next]_vars => KInv'
<1> SUFFICES ASSUME IInv, AInv, KInv, [Next]_vars PROVE KInv'
  OBVIOUS
<1>0. TypeOK
  BY DEF IInv
<1>1. CASE UNCHANGED vars
  BY <1>1 DEF vars, KInv, Bounded, TakesLittle, After, LiveKeys, Takes, Drops, Most, KeyStep
<1>2. ASSUME NEW r \in Request,
             Field(r) \/ Statement(r) \/ Commit(r) \/ Rollback(r) \/ DeadlockVictim(r)
      PROVE  KInv'
  BY <1>0, <1>2, FieldBounded, StatementBounded, CommitShrinks, AbortShrinks DEF DeadlockVictim
<1> QED BY <1>1, <1>2 DEF Next

(* The active keys of an agent pass the cap by no more than what the other    *)
(* operations under way can each have added: none of them can mint more than  *)
(* the cap, nor more than it has fields.                                      *)
THEOREM KeyOverrunHolds == Spec => []KeyOverrunIsBounded
<1>1. KInv => KeyOverrunIsBounded
  <2> SUFFICES ASSUME KInv, NEW a \in Agent PROVE Cardinality(LiveKeys(a)) <= Most
    BY DEF KeyOverrunIsBounded, Most, Share
  <2>1. After({}, a) = LiveKeys(a)
    BY DEF After
  <2>2. Cardinality(After({}, a)) <= Most
    BY DEF KInv, Bounded
  <2> QED BY <2>1, <2>2
<1> QED BY <1>1, AgentsAlways, KeysInit, KeysNext, PTL DEF Spec
=============================================================================
