------------------------------ MODULE MCDashboard ------------------------------
EXTENDS Dashboard, TLC

Scope(panels, fields, launch, keyMax, elsewhere) ==
    [panels |-> panels, fields |-> fields, launch |-> launch, keys |-> keyMax,
     elsewhere |-> elsewhere]

\* The gateway's controls beside changes of config.yaml, the daemon's controls
\* beside the launch, more keys on them without it, and the model list.
MCScopes == {Scope({"gateway"}, {"config"}, FALSE, 2, 1),
             Scope({"daemon"}, {"config"}, TRUE, 1, 0),
             Scope({"daemon"}, {}, FALSE, 3, 0),
             Scope({}, {"models"}, FALSE, 2, 1)}
================================================================================
