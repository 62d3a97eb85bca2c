------------------------- MODULE MCSessionLifecycle -------------------------
\* Two processes, the second of an older program, on one campaign.
EXTENDS SessionLifecycle, TLC

CONSTANTS new, old
MCBuild == new :> 2 @@ old :> 1
MCGiven == new :> Db @@ old :> Alias
=============================================================================
