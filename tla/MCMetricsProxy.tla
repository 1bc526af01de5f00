--------------------------- MODULE MCMetricsProxy ---------------------------
(* Two nodes with the same labels and the same address, told apart by the names of their    *)
(* tokens only, and one whose token is not listed; three time series in two requests.       *)
EXTENDS MetricsProxy, TLC

CONSTANTS n1, n2, n3

L(name, value) == [name |-> name, value |-> value]
F(name, type) == [name |-> name, field_type |-> type]
T(token, name) == [token |-> token, name |-> name]

MCToken == (n1 :> "t1") @@ (n2 :> "t2") @@ (n3 :> "t3")
MCBearerTokens == <<T("t1", "two"), T("t2", "two"), T("t1", "one")>>
MCInterval == [n \in Node |-> IF n = n1 THEN 1 ELSE 2]
MCConfigLabels == [n \in Node |-> {L("env", "dev"), L("hostname", "configured")}]
MCServerLabels == [n \in Node |-> {}]
MCHostname == [n \in Node |-> "h"]
MCPeer == [n \in Node |-> <<None, "10.0.0.1", None, "10.0.0.2">>]
MCAddLabels == {L("env", "prod"), L("proxy", "p")}
MCRemoveLabels == {"proxy"}
MCFamilies == <<F("c", "counter"), F("h", "histogram"), F("g", "gauge"), F("s", "summary"),
                F("d", "counter")>>
=============================================================================
