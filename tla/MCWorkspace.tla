---------------------------- MODULE MCWorkspace ----------------------------
(* Workspace on small instances: requests are interchangeable, and so are the keys. *)
EXTENDS Workspace, TLC

Symmetry == Permutations(Request) \cup Permutations(Key)

(* The versions of a prompt, the tool links of an agent and its keys share no *)
(* row: what happens to one never meets what happens to another, but that an  *)
(* agent can be linked to a prompt that exists and takes its children along.  *)
(* An instance explores each of them by itself.                               *)
Touched(x) == db[x] # Absent \/ \E r \in Request : mine[r][x] # Untouched \/ req[r].row = x

OneSubject ==
    /\ \/ \A a \in Agent : ~ Touched(AgentRow(a))
       \/ \A p \in Prompt, n \in Version :
             IF n > 1 THEN ~ Touched(VersionRow(p, n))
             ELSE \A r \in Request : mine[r][VersionRow(p, n)] = Untouched
                                     /\ req[r].row # VersionRow(p, n)
    /\ \/ \A a \in Agent, t \in Tool :
             IF t \notin Default THEN ~ Touched(LinkRow(a, t))
             ELSE /\ db[LinkRow(a, t)] # "off"
                  /\ \A r \in Request : mine[r][LinkRow(a, t)] # "off" /\ req[r].row # LinkRow(a, t)
       \/ \A a \in Agent, k \in Key : ~ Touched(KeyRow(a, k))
=============================================================================
