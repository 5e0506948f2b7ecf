------------------------------ MODULE MCDoctor ------------------------------
\* Every tier, on a host that has it and on one that has not; bubblewrap and the
\* container with the agents in sight and without; accounts with no
\* automatic slot, one and any number.  Sessions of two ticks with a margin of
\* one.  Three changes: a configuration, a login, and a new login or another
\* change under them.
EXTENDS Doctor
On(platform, forced, tools) == [platform |-> platform, forced |-> forced, tools |-> tools]
MCMachines ==
    {On("darwin", "unset", {}), On("linux", "unset", {"bwrap"}), On("linux", "unset", {"bwrap", "agents apart"}),
     On("linux", "unset", {}),
     On("win32", "unset", {}), On("linux", "container", {"docker"}),
     On("linux", "container", {"docker", "own image"}),
     On("darwin", "container", {}), On("linux", "seatbelt", {}), On("linux", "bwrap", {}),
     On("linux", "env", {}), On("linux", "none", {})}
MCOffers == {{}, {"claude-code"}, {"codex", "grok"}}
MCAccounts == [associated: {FALSE}, slots: {-1, 0, 1}, held: {0, 1}] \cup
              {[associated |-> TRUE, slots |-> 0, held |-> 1]}
=============================================================================
