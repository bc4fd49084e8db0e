---------------------------- MODULE MCFrontDoor ----------------------------
EXTENDS FrontDoor, TLC

(* Browsers and tabs are only compared. *)
Symmetry == Permutations(Browser) \union Permutations(Tab)

MCKind == {"frame", "config", "session", "visitor", "ip", "day", "register", "login"}

(* A day's limit is its cap; a visitor may send less than an address. *)
MCLimit == [k \in MCKind \ {"day"} |-> IF k \in {"register", "login"} THEN 1 ELSE 2]

MCWindow == [k \in MCKind |-> IF k \in {"frame", "config", "day"} THEN 2 ELSE 1]

(* What the parts share is the clock and the counters' code, so each is      *)
(* explored without the others, for as long as its own hazard takes.         *)
Counted == {key[1] : key \in DOMAIN counter \cup Keys}

Visiting ==
    \/ widget # [a \in Agent |-> [open |-> FALSE, cap |-> DefaultCap]]
    \/ minted # {} \/ call # [b \in Browser |-> NoCall]

Signing ==
    \/ account # {} \/ tab # [t \in Tab |-> NoTab]
    \/ "register" \in Counted \/ "login" \in Counted

(* One public key of one kind: windows of two ticks that begin at any time.  *)
OneKey == Cardinality(DOMAIN counter \cup Keys) <= 1 /\ ~ Visiting /\ ~ Signing

One == CHOOSE a \in Agent : TRUE

(* Messages to one agent up to their count under the day, over two days,     *)
(* with other caps and a failure of Redis.                                   *)
OneDay ==
    /\ ~ Signing /\ "frame" \notin Counted /\ "config" \notin Counted
    /\ \A b \in Browser : call[b].step \notin {"handed", "stream"} /\ call[b].conv = None
    /\ conversation = [k \in Conversation |-> None]
    /\ now <= 2
    /\ \A a \in Agent \ {One} : widget[a] = [open |-> FALSE, cap |-> DefaultCap]
    /\ minted # {} /\ now > 0 => widget[One].open
    /\ \A b \in Browser :
          /\ token[b] # None => token[b].agent = One /\ token[b].until = TokenLife
          /\ orphaned[b] = 0
    /\ \A key \in DOMAIN counter :
          /\ key[1] = "visitor" => counter[key].count = 1
          /\ key[1] = "session" => counter[key].count <= 2
          /\ key[1] = "ip" => counter[key].count <= (IF now = 0 THEN 2 ELSE 1)
    /\ \A b, c \in Browser : {call[b].step, call[c].step} \cap {"idle", "cap"} = {} => b = c
    /\ faults > 0 => daily # <<>>
    /\ \A key \in DOMAIN daily : key[2] = One
    /\ minted # Visitor => daily = <<>>

First == CHOOSE v \in Visitor : TRUE
FirstBegun == CHOOSE k \in Conversation : TRUE

Begun(k) ==
    \/ conversation[k] # None
    \/ \E b \in Browser : call[b].conv = k /\ call[b].step \in {"handed", "stream"}

(* Conversations of two agents' visitors, within one window. The agents and  *)
(* the conversations are only compared: the first visitor is the first       *)
(* agent's, and no conversation begins before the first.                     *)
OneWindow ==
    /\ ~ Signing /\ "frame" \notin Counted /\ "config" \notin Counted
    /\ now = 0 /\ faults = 0 /\ \A a \in Agent : widget[a].cap = DefaultCap
    /\ \A b \in Browser : call[b].cap \in {0, DefaultCap}
    /\ \A key \in DOMAIN daily : daily[key].cap = DefaultCap
    /\ minted # {} => \A a \in Agent : widget[a].open
    /\ \A b \in Browser : token[b] # None /\ token[b].visitor = First => token[b].agent = One
    /\ (\E k \in Conversation : Begun(k)) => Begun(FirstBegun)
    /\ \A key \in DOMAIN counter : counter[key].count <= 2

(* One user, until a token has been refreshed and expired: the account is    *)
(* there, and the tabs signed in, before anything is refreshed.              *)
OneUser ==
    /\ ~ Visiting /\ Counted \subseteq {"register", "login"}
    /\ now <= 2 /\ faults = 0 /\ \A key \in DOMAIN counter : counter[key].count = 1
    /\ Counted # {} => now = 0 \/ (now = 1 /\ "login" \notin Counted /\ burned = {})

OneSubject == OneKey \/ OneDay \/ OneWindow \/ OneUser
=============================================================================
