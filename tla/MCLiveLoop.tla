----------------------------- MODULE MCLiveLoop -----------------------------
(***************************************************************************)
(* Instances of LiveLoop for TLC.  Prices are relative to the entry.       *)
(***************************************************************************)
EXTENDS LiveLoop

Long  == [long |-> TRUE, entry |-> 0, stop |-> -2, targets |-> <<2, 4, 6>>, zeroDte |-> TRUE, validity |-> 1]
Short == [long |-> FALSE, entry |-> 0, stop |-> 2, targets |-> <<-2, -4, -6>>, zeroDte |-> FALSE, validity |-> 2]

Touch  == [low |-> 0, high |-> 1, close |-> 1]
Rally  == [low |-> 1, high |-> 6, close |-> 3]
Plunge == [low |-> -6, high |-> 0, close |-> -5]

McSymbol   == {1, 2}
McStrategy == {"orb", "macd"}
McModuleOf == [g \in McStrategy |-> IF g = "orb" THEN "0DTE" ELSE "SWING"]
McResearch == {"macd"}
McTerms    == [g \in McStrategy |-> IF g = "orb" THEN Long ELSE Short]
McBars     == [s \in McSymbol |-> IF s = 1 THEN {Touch, Rally, Plunge} ELSE {Touch}]
McSignals  == [s \in McSymbol |-> IF s = 1 THEN SUBSET McStrategy ELSE {{}}]
McBadFeeds == {{}, {1}, {1, 2}}
OneSymbol  == {1}
NoBadFeeds == {{}}
McClusterOf == [s \in McSymbol |-> "NDX"]
McModuleCap == [m \in {"0DTE", "SWING"} |-> 2]
=============================================================================
