----------------------------- MODULE Workspace -----------------------------
(***************************************************************************)
(* The configuration of one organization: its prompts and their versions,  *)
(* its agents, the tools granted to them and their API keys, as the        *)
(* dashboard's GraphQL mutations change them.  An operation is one         *)
(* database transaction of one or more mutation fields                     *)
(* (app/graphql/context.py); a field reads, then flushes what it writes.   *)
(*                                                                         *)
(* The database is PostgreSQL at READ COMMITTED: a statement sees what was *)
(* committed when it started and what its own transaction wrote; a row     *)
(* written by an open transaction makes every other writer of it wait; an  *)
(* UPDATE that waited looks again at the rows it had found, and at no      *)
(* others.  A failed flush rolls the transaction back and leaves the       *)
(* session unusable until the operation ends.                              *)
(***************************************************************************)
EXTENDS Naturals, FiniteSets

CONSTANTS
    Request,    \* operations in flight at the same time
    Prompt, Agent, Tool, Key,
    Default,    \* the tools a new agent is given
    KeyCap,     \* active API keys per agent
    MaxVersion, \* bound: versions of a prompt
    MaxFields,  \* bound: mutation fields of an operation
    Absent,     \* no such row
    Untouched   \* not written by this transaction

(* What a row can hold: a version, an agent, a tool link, a key, a config. *)
Value == {"idle", "active", "draft", "on", "off", "live", "revoked", "set"}

ASSUME WorkspaceAssumption ==
    /\ IsFiniteSet(Request)
    /\ KeyCap \in Nat /\ MaxVersion \in Nat \ {0} /\ MaxFields \in Nat
    /\ Default \subseteq Tool
    /\ Absent # Untouched
    /\ {Absent, Untouched} \cap Value = {}

VARIABLES
    db,     \* the committed rows
    mine,   \* what each open transaction has written
    req     \* what each request is doing

vars == <<db, mine, req>>

Version == 1 .. MaxVersion

VersionRow(p, n) == <<"version", p, n>>
AgentRow(a)      == <<"agent", a>>
LinkRow(a, t)    == <<"link", a, t>>
KeyRow(a, k)     == <<"key", a, k>>
ConfigRow(a)     == <<"config", a>>

(* The rows that belong to an agent, which the database deletes with it. *)
Children(a) ==
    {LinkRow(a, t) : t \in Tool} \cup {KeyRow(a, k) : k \in Key}
    \cup {ConfigRow(a)}

Row == {VersionRow(p, n) : p \in Prompt, n \in Version}
       \cup {AgentRow(a) : a \in Agent}
       \cup UNION {Children(a) : a \in Agent}

(* Of the statuses, two are enough: nothing here tells the others apart. *)
Status == {"draft", "active"}

(* The statement a request is about to run; between two fields, "field". *)
Step == {"field", "version", "clear", "set", "edit", "erase", "grant", "flip",
         "mint", "revoke"}

Idle == [step |-> "field", row |-> Absent, to |-> Absent, seen |-> {},
         fields |-> 0, broken |-> FALSE]

(* The type invariant. *)
TypeOK ==
    /\ db \in [Row -> Value \cup {Absent}]
    /\ mine \in [Request -> [Row -> Value \cup {Absent, Untouched}]]
    /\ req \in [Request -> [step : Step, row : Row \cup {Absent},
                            to : Value \cup {Absent}, seen : SUBSET Version,
                            fields : 0 .. MaxFields,
                            broken : BOOLEAN]]

Unwritten == [x \in Row |-> Untouched]

Init ==
    /\ db = [x \in Row |-> Absent]
    /\ mine = [r \in Request |-> Unwritten]
    /\ req = [r \in Request |-> Idle]

-----------------------------------------------------------------------------
(* What one transaction sees of a row, and the transactions it waits for. *)

Visible(r, x) == IF mine[r][x] = Untouched THEN db[x] ELSE mine[r][x]

Writers(r, X) == {s \in Request \ {r} : \E x \in X : mine[s][x] # Untouched}

(* Writers of a child row share the key of its parent, but not with the      *)
(* transaction that deletes the parent.                                      *)
Erasers(r, a) == {s \in Request \ {r} : mine[s][AgentRow(a)] = Absent}

(* The unique index over the active version of a prompt also waits for an    *)
(* active version that another transaction has not committed.                *)
Activators(r, p) ==
    {s \in Request \ {r} : \E n \in Version : mine[s][VersionRow(p, n)] = "active"}

(* The open transactions that hold what the next statement of r needs. *)
Blockers(r) ==
    LET x == req[r].row IN
    CASE req[r].step \in {"version", "edit", "flip", "revoke"} -> Writers(r, {x})
      [] req[r].step = "clear" -> Writers(r, {VersionRow(x[2], n) : n \in req[r].seen})
      [] req[r].step = "set" -> Writers(r, {x}) \cup Activators(r, x[2])
      [] req[r].step = "erase" -> Writers(r, {x} \cup Children(x[2]))
      [] req[r].step \in {"grant", "mint"} -> Writers(r, {x}) \cup Erasers(r, x[2])
      [] OTHER -> {}

(* The next field of r may start, if an earlier one did not break the session. *)
StartsField(r) == req[r].step = "field" /\ ~ req[r].broken /\ req[r].fields < MaxFields

(* Its reads let it go on to a statement that writes row x. *)
GoOn(r, step, x, v, seen) ==
    /\ req' = [req EXCEPT ![r] = [req[r] EXCEPT !.step = step, !.row = x, !.to = v, !.seen = seen,
                                             !.fields = req[r].fields + 1]]
    /\ UNCHANGED <<db, mine>>

(* It wrote nothing: it found things as they should be, or the resolver      *)
(* raised one of the application's own errors, which becomes the GraphQL     *)
(* error of its field and leaves the transaction as it was.                  *)
WritesNothing(r) ==
    /\ req' = [req EXCEPT ![r].fields = req[r].fields + 1]
    /\ UNCHANGED <<db, mine>>

(* The next statement of r is this one, and nothing it needs is held. *)
Runs(r, step) == req[r].step = step /\ Blockers(r) = {}

(* The field has flushed what it writes. *)
FieldDone(r) ==
    req' = [req EXCEPT ![r] = [req[r] EXCEPT !.step = "field", !.row = Absent, !.to = Absent,
                                             !.seen = {}]]

(* A failed flush rolls the transaction back at once, and the session is of  *)
(* no use to the fields that follow.                                         *)
FlushFails(r) ==
    /\ req' = [req EXCEPT ![r] = [req[r] EXCEPT !.step = "field", !.row = Absent, !.to = Absent,
                                                !.seen = {}, !.broken = TRUE]]
    /\ mine' = [mine EXCEPT ![r] = Unwritten]
    /\ UNCHANGED db

Flush(r, writes) ==
    /\ mine' = [mine EXCEPT ![r] = [x \in Row |-> IF x \in DOMAIN writes THEN writes[x]
                                               ELSE mine[r][x]]]
    /\ FieldDone(r)
    /\ UNCHANGED db

One(x, v) == [y \in {x} |-> v]

-----------------------------------------------------------------------------
(* Prompts. *)

(* The prompt and its first version, active, are one flush; the key of the   *)
(* prompt is unique.                                                         *)
CreatePrompt(r, p) ==
    /\ StartsField(r)
    /\ GoOn(r, "version", VersionRow(p, 1), "active", {})

(* Mutant: the highest number comes from a counter that no rollback undoes. *)
HighestEver(r, p, n) ==
    /\ n > 0 => \E s \in Request : Visible(s, VersionRow(p, n)) # Absent
    /\ \A m \in Version, s \in Request : Visible(s, VersionRow(p, m)) # Absent => m <= n

(* n is the highest number r sees of the versions of p, or 0. *)
Highest(r, p, n) ==
    /\ n > 0 => Visible(r, VersionRow(p, n)) # Absent
    /\ \A m \in Version : Visible(r, VersionRow(p, m)) # Absent => m <= n

(* A new version takes the highest number it sees plus one. *)
CreateVersion(r, p) ==
    /\ StartsField(r)
    /\ \/ /\ Highest(r, p, 0)
          /\ WritesNothing(r)
       \/ \E n \in 1 .. MaxVersion - 1 :
             /\ Highest(r, p, n)
             /\ GoOn(r, "version", VersionRow(p, n + 1), "idle", {})

(* Two transactions can have computed the same number, or chosen the same    *)
(* key: the later one's flush fails.                                         *)
InsertVersion(r) ==
    /\ Runs(r, "version")
    /\ \/ /\ Visible(r, req[r].row) = Absent
          /\ Flush(r, One(req[r].row, req[r].to))
       \/ /\ Visible(r, req[r].row) # Absent
          /\ FlushFails(r)

(* Activation finds the version, and its UPDATE finds the active ones. *)
ActivateVersion(r, p, n) ==
    /\ StartsField(r)
    /\ \/ /\ Visible(r, VersionRow(p, n)) = Absent
          /\ WritesNothing(r)
       \/ /\ Visible(r, VersionRow(p, n)) # Absent
          /\ GoOn(r, "clear", VersionRow(p, n), "active",
                  {m \in Version : Visible(r, VersionRow(p, m)) = "active"})

(* Mutant: the session still takes the version for active, and writes nothing. *)
DeactivateUnsynced(r) ==
    LET p == req[r].row[2]
        still == {VersionRow(p, m) : m \in {k \in req[r].seen :
                                              Visible(r, VersionRow(p, k)) = "active"}}
    IN
    /\ Runs(r, "clear")
    /\ mine' = [mine EXCEPT ![r] = [x \in Row |-> IF x \in still THEN "idle" ELSE mine[r][x]]]
    /\ IF req[r].row[3] \in req[r].seen
       THEN FieldDone(r)
       ELSE req' = [req EXCEPT ![r] = [req[r] EXCEPT !.step = "set", !.seen = {}]]
    /\ UNCHANGED db

(* Having waited, it deactivates those of them that are still active. *)
Deactivate(r) ==
    LET p == req[r].row[2]
        still == {VersionRow(p, m) : m \in {k \in req[r].seen :
                                              Visible(r, VersionRow(p, k)) = "active"}}
    IN
    /\ Runs(r, "clear")
    /\ mine' = [mine EXCEPT ![r] = [x \in Row |-> IF x \in still THEN "idle" ELSE mine[r][x]]]
    /\ req' = [req EXCEPT ![r] = [req[r] EXCEPT !.step = "set", !.seen = {}]]
    /\ UNCHANGED db

OtherActive(r, x) ==
    \E m \in Version : VersionRow(x[2], m) # x /\ Visible(r, VersionRow(x[2], m)) = "active"

(* The index takes a single active version of a prompt. *)
Activate(r) ==
    /\ Runs(r, "set")
    /\ \/ /\ ~ OtherActive(r, req[r].row)
          /\ Flush(r, One(req[r].row, "active"))
       \/ /\ OtherActive(r, req[r].row)
          /\ FlushFails(r)

-----------------------------------------------------------------------------
(* Agents, their tools and keys. *)

(* The agent, its configuration and the default links are one flush; the     *)
(* agent's slug is unique.                                                   *)
CreateAgent(r, a) ==
    /\ StartsField(r)
    /\ GoOn(r, "edit", AgentRow(a), Absent, {})

Newborn(a) ==
    [x \in {AgentRow(a), ConfigRow(a)} \cup {LinkRow(a, t) : t \in Default} |->
        IF x = AgentRow(a) THEN "draft" ELSE IF x = ConfigRow(a) THEN "set" ELSE "on"]

InsertAgent(r) ==
    /\ Runs(r, "edit") /\ req[r].to = Absent
    /\ \/ /\ Visible(r, req[r].row) = Absent
          /\ Flush(r, Newborn(req[r].row[2]))
       \/ /\ Visible(r, req[r].row) # Absent
          /\ FlushFails(r)

(* An edit changes the agent's status, or other columns of its row. *)
UpdateAgent(r, a, status) ==
    /\ StartsField(r)
    /\ \/ /\ Visible(r, AgentRow(a)) = Absent
          /\ WritesNothing(r)
       \/ /\ Visible(r, AgentRow(a)) # Absent
          /\ GoOn(r, "edit", AgentRow(a), status, {})

(* Linking a prompt changes no status; the prompt must be there. *)
SetPrompt(r, a, prompts) ==
    LET found == /\ Visible(r, AgentRow(a)) # Absent
                 /\ \A p \in prompts : Visible(r, VersionRow(p, 1)) # Absent
    IN
    /\ StartsField(r)
    /\ \/ ~ found /\ WritesNothing(r)
       \/ found /\ GoOn(r, "edit", AgentRow(a), "set", {})

(* An UPDATE that no longer finds its row fails the flush. *)
WriteAgent(r) ==
    /\ Runs(r, "edit") /\ req[r].to # Absent
    /\ \/ /\ Visible(r, req[r].row) # Absent
          /\ Flush(r, One(req[r].row, IF req[r].to = "set" THEN Visible(r, req[r].row)
                                      ELSE req[r].to))
       \/ /\ Visible(r, req[r].row) = Absent
          /\ FlushFails(r)

UpdateConfig(r, a) ==
    /\ StartsField(r)
    /\ \/ /\ Visible(r, ConfigRow(a)) = Absent
          /\ WritesNothing(r)
       \/ /\ Visible(r, ConfigRow(a)) # Absent
          /\ GoOn(r, "flip", ConfigRow(a), "set", {})

DeleteAgent(r, a) ==
    /\ StartsField(r)
    /\ \/ /\ Visible(r, AgentRow(a)) = Absent
          /\ WritesNothing(r)
       \/ /\ Visible(r, AgentRow(a)) # Absent
          /\ GoOn(r, "erase", AgentRow(a), Absent, {})

(* Mutant: only the children the transaction knew of. *)
EraseAgentAlone(r) ==
    /\ Runs(r, "erase")
    /\ Flush(r, [x \in {y \in {req[r].row} : Visible(r, y) # Absent} |-> Absent])

(* The cascade takes every child the database has by then; a DELETE that no  *)
(* longer finds its row is only a warning.                                   *)
EraseAgent(r) ==
    /\ Runs(r, "erase")
    /\ Flush(r, [x \in {y \in {req[r].row} \cup Children(req[r].row[2]) :
                          Visible(r, y) # Absent} |-> Absent])

(* Granting a tool creates the agent's link or flips it; a link that already *)
(* says so is not written.                                                   *)
SetToolEnabled(r, a, t, v) ==
    LET link == Visible(r, LinkRow(a, t)) IN
    /\ StartsField(r)
    /\ \/ /\ Visible(r, AgentRow(a)) = Absent
          /\ WritesNothing(r)
       \/ /\ Visible(r, AgentRow(a)) # Absent /\ link = Absent
          /\ GoOn(r, "grant", LinkRow(a, t), v, {})
       \/ /\ Visible(r, AgentRow(a)) # Absent /\ link \notin {Absent, v}
          /\ GoOn(r, "flip", LinkRow(a, t), v, {})
       \/ /\ Visible(r, AgentRow(a)) # Absent /\ link = v
          /\ WritesNothing(r)

(* The link or the key is inserted: its row must be new, its agent must still *)
(* be there.                                                                  *)
InsertChild(r, step) ==
    /\ Runs(r, step)
    /\ \/ /\ Visible(r, req[r].row) = Absent
          /\ Visible(r, AgentRow(req[r].row[2])) # Absent
          /\ Flush(r, One(req[r].row, req[r].to))
       \/ /\ \/ Visible(r, req[r].row) # Absent
             \/ Visible(r, AgentRow(req[r].row[2])) = Absent
          /\ FlushFails(r)

(* The link or the key is updated, if it is still there. *)
UpdateChild(r, step) ==
    /\ Runs(r, step)
    /\ \/ /\ Visible(r, req[r].row) # Absent
          /\ Flush(r, One(req[r].row, req[r].to))
       \/ /\ Visible(r, req[r].row) = Absent
          /\ FlushFails(r)

InsertLink(r) == InsertChild(r, "grant")
FlipLink(r)   == UpdateChild(r, "flip")

(* Mutant: the keys this operation minted itself are not counted. *)
ActiveKeysCommitted(r, a) == {k \in Key : db[KeyRow(a, k)] = "live"}

ActiveKeys(r, a) == {k \in Key : Visible(r, KeyRow(a, k)) = "live"}

(* A key is minted for an owner or an admin, if the agent has fewer active   *)
(* keys than the cap.                                                        *)
CreateKey(r, a, k, privileged) ==
    /\ StartsField(r)
    /\ \A s \in Request : mine[s][KeyRow(a, k)] = Untouched /\ req[s].row # KeyRow(a, k)
    /\ db[KeyRow(a, k)] = Absent
    /\ \/ /\ \/ ~ privileged
             \/ Visible(r, AgentRow(a)) = Absent
             \/ Cardinality(ActiveKeys(r, a)) >= KeyCap
          /\ WritesNothing(r)
       \/ /\ privileged
          /\ Visible(r, AgentRow(a)) # Absent
          /\ Cardinality(ActiveKeys(r, a)) < KeyCap
          /\ GoOn(r, "mint", KeyRow(a, k), "live", {})

InsertKey(r) == InsertChild(r, "mint")

(* Revoking a revoked key writes nothing. *)
Revoke(r, a, k, privileged) ==
    /\ StartsField(r)
    /\ \/ /\ ~ privileged \/ Visible(r, KeyRow(a, k)) = Absent
          /\ WritesNothing(r)
       \/ /\ privileged /\ Visible(r, KeyRow(a, k)) = "revoked"
          /\ WritesNothing(r)
       \/ /\ privileged /\ Visible(r, KeyRow(a, k)) = "live"
          /\ GoOn(r, "revoke", KeyRow(a, k), "revoked", {})

WriteRevoked(r) == UpdateChild(r, "revoke")

-----------------------------------------------------------------------------
(* The end of an operation.  The resolvers' errors never reach the context   *)
(* manager of the session, so it commits unless a flush has failed.          *)

Close(r) ==
    /\ mine' = [mine EXCEPT ![r] = Unwritten]
    /\ req' = [req EXCEPT ![r] = Idle]

Commit(r) ==
    /\ req[r].step = "field" /\ req[r].fields > 0 /\ ~ req[r].broken
    /\ db' = [x \in Row |-> Visible(r, x)]
    /\ Close(r)

Rollback(r) ==
    /\ req[r].step = "field" /\ req[r].broken
    /\ UNCHANGED db
    /\ Close(r)

(* PostgreSQL breaks a circle of waiting transactions by failing one. *)
Deadlocked(S) == \A s \in S : Blockers(s) \cap S # {}

DeadlockVictim(r) ==
    /\ \E S \in SUBSET Request : r \in S /\ Deadlocked(S)
    /\ FlushFails(r)

Field(r) ==
    \/ \E p \in Prompt :
          \/ CreatePrompt(r, p)
          \/ CreateVersion(r, p)
          \/ \E n \in Version : ActivateVersion(r, p, n)
    \/ \E a \in Agent :
          \/ CreateAgent(r, a)
          \/ DeleteAgent(r, a)
          \/ UpdateConfig(r, a)
          \/ \E prompts \in {{}} \cup {{p} : p \in Prompt} : SetPrompt(r, a, prompts)
          \/ \E status \in Status : UpdateAgent(r, a, status)
          \/ \E t \in Tool, v \in {"on", "off"} : SetToolEnabled(r, a, t, v)
          \/ \E k \in Key, privileged \in BOOLEAN :
                CreateKey(r, a, k, privileged) \/ Revoke(r, a, k, privileged)

Statement(r) ==
    \/ InsertVersion(r) \/ Deactivate(r) \/ Activate(r)
    \/ InsertAgent(r) \/ WriteAgent(r) \/ EraseAgent(r)
    \/ InsertLink(r) \/ FlipLink(r)
    \/ InsertKey(r) \/ WriteRevoked(r)

Next == \E r \in Request :
            Field(r) \/ Statement(r) \/ Commit(r) \/ Rollback(r) \/ DeadlockVictim(r)

Spec == Init /\ [][Next]_vars

-----------------------------------------------------------------------------
(* Properties. *)

Versions(p) == {n \in Version : db[VersionRow(p, n)] # Absent}

(* Every prompt has exactly one active version, whatever activations raced,  *)
(* failed or shared an operation.                                            *)
OneActiveVersion ==
    \A p \in Prompt : Versions(p) # {} =>
        \E n \in Versions(p) : \A m \in Versions(p) : (db[VersionRow(p, m)] = "active") <=> m = n

(* The versions of a prompt are numbered from one without a gap. *)
NumberedWithoutGap == \A p \in Prompt : \A n \in Versions(p) : 1 .. n \subseteq Versions(p)

(* No link, key or configuration row survives the agent it belongs   *)
(* to, and every agent has its configuration.                                *)
AgentsAreWhole ==
    \A a \in Agent :
        /\ \A x \in Children(a) : db[x] # Absent => db[AgentRow(a)] # Absent
        /\ db[AgentRow(a)] # Absent => db[ConfigRow(a)] # Absent

LiveKeys(a) == {k \in Key : db[KeyRow(a, k)] = "live"}

Least(m, n) == IF m <= n THEN m ELSE n

(* The cap on an agent's active keys is counted before the insert, without a *)
(* lock.  Operations that overlap can pass it, by what the others add.       *)
KeyOverrunIsBounded ==
    \A a \in Agent : Cardinality(LiveKeys(a)) <= KeyCap + (Cardinality(Request) - 1) * Least(KeyCap, MaxFields)

(* docs/PHASE-7.md:196 -- "At most 10 active keys per agent." *)
KeysWithinCap == \A a \in Agent : Cardinality(LiveKeys(a)) <= KeyCap

=============================================================================
