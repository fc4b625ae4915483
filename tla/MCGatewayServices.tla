------------------------- MODULE MCGatewayServices --------------------------
EXTENDS GatewayServices

MCMessages ==
  {[ts |-> t, form |-> "verify_request"] : t \in {0, 2, 4}}
    \cup {[ts |-> 1, form |-> "sign_request"]}
MCRetries == [h1 |-> 3, h2 |-> 1]
MCWanted == [h1 |-> {"*"}, h2 |-> {"health.change"}]
MCCasts == <<"trigger", "metrics", "trigger">>
=============================================================================
