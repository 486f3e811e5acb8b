------------------------------- MODULE MCCalls ------------------------------
EXTENDS Calls

CONSTANTS alice, bob, dm, v, w

MCPeople == {alice, bob}
MCRooms == {dm, v, w}
Pair == [p \in MCPeople |-> "web"]
Alone(a) == [p \in MCPeople |-> IF p = alice THEN a ELSE "none"]
MCSpeaking == {Alone("web"), Alone("mobile")}
MCApps == MCSpeaking \cup {Pair}
MCReach == [a \in {"web", "mobile", "none"} |->
              CASE a = "web" -> {v} [] a = "mobile" -> {v, w} [] OTHER -> {}]
Most(n, m) == [p \in MCPeople |-> IF p = alice THEN n ELSE m]
MCMaxTries == [a \in MCApps |-> IF a = Pair THEN {Most(2, 0), Most(1, 1)} ELSE {Most(2, 0)}]
=============================================================================
