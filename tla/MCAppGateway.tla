---------------------------- MODULE MCAppGateway ----------------------------
(* The instance of AppGateway that TLC checks. *)
EXTENDS AppGateway, TLC

\* One browser.
MCClients ==
    [ip: {"a"}, brand: {"Edge"}, brandVersion: {"1"}, agentBrowser: {"Edge"},
     agentVersion: {"1"}, platform: {"Windows"}, agentSystem: {"Windows"}, mobile: {"?0"}]

\* Histories, which no step reads and no property of the run mentions, do not tell
\* states apart.
WithoutHistories ==
    <<now, row, thread, inactive, conns, key, phase, channel, listener, closing,
      [c \in Casters |-> <<cast[c].on, cast[c].at, cast[c].dead>>], presented>>

=============================================================================
