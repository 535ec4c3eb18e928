-------------------------------- MODULE MCDaemon --------------------------------
EXTENDS Daemon, TLC

Scope(commands, runsMax, lines, follows, uses, foreground) ==
    [commands |-> commands, runs |-> runsMax, lines |-> lines, follows |-> follows,
     router |-> uses, foreground |-> foreground]
One == {CHOOSE c \in Commands : TRUE}

\* Two commands at once; one command beside foreground daemons and a Router that
\* is used; one command at a time beside a log that is followed.
MCScopes == {Scope(Commands, 3, 0, FALSE, FALSE, FALSE),
             Scope(One, 2, 0, FALSE, TRUE, TRUE),
             Scope(One, 2, 2, TRUE, FALSE, FALSE)}
================================================================================
