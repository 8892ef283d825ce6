---------------------------- MODULE MCClientSession ----------------------------
(* Small instances of ClientSession. *)
EXTENDS ClientSession, TLC

CONSTANTS b1, b2

\* Calls that fail and tokens that expire, with room for a switch and a refresh;
\* an app that is killed, and changes of the session that meet, with less room; a
\* call that outlasts two tokens.
Calls == [hazards |-> {"network"}, tokens |-> 3, agent |-> FALSE, joined |-> "staff"]
Killed == [Calls EXCEPT !.hazards = @ \cup {"restart"}, !.tokens = 2, !.joined = "manager"]
Overlaps == [Calls EXCEPT !.hazards = @ \cup {"overlap", "second_business"}, !.tokens = 2,
                          !.joined = "owner"]
Outlasted == [Calls EXCEPT !.hazards = {"overlap"}]

SessionWorlds ==
  {[w EXCEPT !.agent = a] : w \in {Calls, Killed, Overlaps}, a \in BOOLEAN} \cup {Outlasted}

SessionSymmetry == Permutations(Requests)
================================================================================
