------------------------------- MODULE Doctor -------------------------------
(***************************************************************************)
(* What a node's operator is told before a stranger pays: `xorv doctor`,   *)
(* `test` and `wallet associate`, over the machine, the configuration, the *)
(* payout account and the agents' sessions as they change under them.      *)
(*                                                                         *)
(* `start` runs on meanwhile, with a credential cache of its own; each of  *)
(* the other commands is a process that reads everything afresh, so that   *)
(* its report is an operator on the state and no action.                   *)
(***************************************************************************)
EXTENDS Integers, FiniteSets

CONSTANTS
    Machines,       \* platform, XORV_SANDBOX, and what of Tools it has
    Offers,         \* sets of agents an operator may sell
    Accounts,       \* the payout account at first
    MaxTime,        \* bound: ticks
    Margin,         \* EXPIRY_MARGIN_MS, in ticks
    Life,           \* how long an agent's session lasts, in ticks
    MaxChanges      \* bound: what the operator and the world do

Kinds == {"claude-code", "codex", "grok"}
Networks == {"testnet", "mainnet"}
Tiers == {"none", "env", "limits", "seatbelt", "bwrap", "container"}
\* Beside the two programs: agents installed outside the home directory, and an
\* image (XORV_SANDBOX_IMAGE) that holds them with sign-ins of its own.
Tools == {"bwrap", "docker", "agents apart", "own image"}
\* An agent's file under the home directory, or the key in the operator's shell.
SignIns == {"codex", "grok", "XAI_API_KEY"}

ASSUME DoctorAssumption ==
    /\ Machines \subseteq [platform: {"darwin", "linux", "win32"}, forced: Tiers \cup {"unset"},
                           tools: SUBSET Tools]
    /\ Offers \subseteq SUBSET Kinds
    /\ Accounts \subseteq [associated: BOOLEAN, slots: Nat \cup {-1}, held: Nat]
    /\ {MaxTime, Margin, Life, MaxChanges} \subseteq Nat /\ Margin < Life

VARIABLES
    machine,
    config,         \* config.json: what is sold, the account, the network
    paused,         \* the pause flag
    agents,         \* the agent CLIs that answer --version
    signed,         \* the sign-ins there are
    keychain, file, \* Claude Code's session, as stored
    cache,          \* the running node's copy of it
    clock,
    account,        \* the payout account: association, automatic slots, tokens held
    associating,    \* walletAssociate's transaction: none, under way, told done
    world,          \* which of the mirror and the broker answer, the broker's network
    changes

box == <<machine, agents, signed>>
session == <<keychain, file, cache, clock>>
wallet == <<account, associating>>
doctorVars == <<box, config, paused, session, wallet, world, changes>>

NoToken == [exp |-> 0, stated |-> FALSE]
Token == [exp: 0..(MaxTime + Life), stated: BOOLEAN]
NoConfig == [sells |-> {}, account |-> FALSE, network |-> "none", cheap |-> FALSE]

DoctorTypeOK ==
    /\ machine \in Machines
    /\ config = NoConfig \/ config \in [sells: SUBSET Kinds, account: BOOLEAN, cheap: BOOLEAN,
                                        network: Networks]
    /\ agents \subseteq Kinds /\ signed \subseteq SignIns
    /\ {keychain, file, cache} \subseteq Token /\ clock \in 0..MaxTime
    /\ account \in [associated: BOOLEAN, slots: Nat \cup {-1}, held: Nat]
    /\ associating \in {"no", "sent", "done"} /\ paused \in BOOLEAN
    /\ world \in [mirror: BOOLEAN, broker: BOOLEAN, network: Networks]
    /\ changes \in 0..MaxChanges

-----------------------------------------------------------------------------
(* Sandbox.                                                                *)
\* detectSandbox: the tier asked for, an error if the host lacks it, or the best
\* there is.
Refused == "refused"
Lacking ==
    \/ machine.forced = "container" /\ "docker" \notin machine.tools
    \/ machine.forced = "seatbelt" /\ machine.platform # "darwin"
    \/ machine.forced = "bwrap" /\ "bwrap" \notin machine.tools
detectSandbox ==
    IF Lacking THEN Refused
    ELSE IF machine.forced # "unset" THEN machine.forced
    ELSE CASE machine.platform = "darwin" -> "seatbelt"
           [] machine.platform = "linux" /\ "bwrap" \in machine.tools -> "bwrap"
           [] machine.platform = "win32" -> "env"
           [] OTHER -> "limits"

\* wrapCommand: bubblewrap puts an empty home in place of the operator's, but for
\* the directories of Claude Code and Codex; a container has the image's files and
\* none of the environment.  The others leave files and environment; Windows has none.
wrapCommand ==
    IF machine.platform # "win32" /\ detectSandbox \in {"bwrap", "container"}
    THEN detectSandbox ELSE "in place"
AgentInSight ==
    /\ wrapCommand = "bwrap" => "agents apart" \in machine.tools
    /\ wrapCommand = "container" => "own image" \in machine.tools

-----------------------------------------------------------------------------
(* Credentials.                                                            *)
Lives(token) == token # NoToken /\ clock < token.exp

\* claudeTokenFromKeychain, else claudeTokenFromFile.
Found == IF machine.platform = "darwin" /\ keychain # NoToken THEN keychain ELSE file

\* isStale.  Slip: what was read once is kept for good.
isStaleNever(token) == token = NoToken
isStale(token) ==
    token = NoToken \/ (token.stated /\ clock >= token.exp - Margin)
agentCredentials(cached) == IF isStale(cached) THEN Found ELSE cached

\* credentialsExpired, in a process that has just read them.
credentialsExpired == Found.stated /\ clock >= Found.exp

-----------------------------------------------------------------------------
(* doctor.                                                                 *)
\* probeAuth: signed in, signed out, or could not tell.  Slip: a token that is
\* there is a token that works.
Evidence(k) == IF k = "grok" THEN "XAI_API_KEY" ELSE k
probeAuthByPresence(k) ==
    IF (k = "claude-code" /\ Found # NoToken) \/ Evidence(k) \in signed
    THEN "in" ELSE "out"
probeAuth(k) ==
    IF k = "claude-code"
    THEN IF Found = NoToken THEN IF machine.platform = "darwin" THEN "out" ELSE "unsure"
         ELSE IF credentialsExpired THEN "out" ELSE "in"
    ELSE IF Evidence(k) \in signed THEN "in"
    ELSE IF k = "codex" THEN "out" ELSE "unsure"

configChecks ==
    IF config = NoConfig THEN {"fail"}
    ELSE {IF config.sells = {} THEN "fail" ELSE "ok", IF config.account THEN "ok" ELSE "fail",
          IF config.cheap THEN "warn" ELSE "ok"}

sandboxChecks == {IF detectSandbox \in {"none", "env"} THEN "warn" ELSE "ok"}

\* The ledger: a transfer lands on an associated account or in a free slot.
TransferLands ==
    account.associated \/ account.slots = -1 \/ account.slots > account.held

\* fetchBalances and payoutChecks.
canReceiveUsdc ==
    account.associated \/ account.slots = -1 \/ account.slots > account.held
payoutChecks ==
    IF ~config.account THEN {}
    ELSE IF ~world.mirror THEN {"fail"}
    ELSE {IF canReceiveUsdc THEN "ok" ELSE "fail"}

brokerChecks ==
    IF config = NoConfig THEN {}
    ELSE IF ~world.broker THEN {"fail"}
    ELSE {IF world.network = config.network THEN "ok" ELSE "fail"}

adapterCheck(k) ==
    IF k \in config.sells
      THEN IF k \notin agents THEN "fail"
           ELSE CASE probeAuth(k) = "out" -> "fail" [] probeAuth(k) = "in" -> "ok"
                  [] OTHER -> "warn"
      ELSE "warn"
\* The echo adapter is always there, so that "no agent CLI installed" never is.
adapterChecks == IF config = NoConfig THEN {} ELSE {adapterCheck(k) : k \in Kinds}

\* doctorCommand's last line; an error of detectSandbox ends it.
doctorCommand ==
    LET checks == configChecks \cup sandboxChecks \cup payoutChecks \cup brokerChecks
                  \cup adapterChecks
    IN IF detectSandbox = Refused THEN "error"
       ELSE IF "fail" \in checks THEN "problems"
       ELSE IF "warn" \in checks THEN "nothing broken" ELSE "all clear"

-----------------------------------------------------------------------------
(* The node, and test.                                                     *)
\* A job of an agent, in the environment that sandboxEnv leaves (no key of the
\* operator's shell) with the session of Claude Code that the process adds.
Answers(k, cached) ==
    /\ k \in agents /\ AgentInSight
    /\ wrapCommand # "container" =>
         CASE k = "claude-code" -> Lives(agentCredentials(cached))
           [] k = "codex" -> k \in signed
           [] OTHER -> k \in signed /\ wrapCommand # "bwrap"

\* testCommand: a job of every capability, and its cost if the agent reports one.
testCommand ==
    IF config.sells = {} \/ detectSandbox = Refused THEN "not ready"
    ELSE IF \E k \in config.sells : ~Answers(k, NoToken) THEN "not ready"
    ELSE IF config.cheap /\ "claude-code" \in config.sells THEN "below cost"
    ELSE "healthy"

-----------------------------------------------------------------------------
DoctorInit ==
    /\ machine \in Machines
    /\ config = NoConfig /\ paused = FALSE
    /\ agents \in {{"claude-code"}, Kinds} /\ signed = {}
    /\ keychain = NoToken /\ file = NoToken /\ cache = NoToken /\ clock = 0
    /\ account \in Accounts
    /\ associating = "no"
    /\ world = [mirror |-> TRUE, broker |-> TRUE, network |-> "testnet"]
    /\ changes = 0

Change == changes < MaxChanges /\ changes' = changes + 1

\* init writes a configuration; pause and resume, a flag.
Configure(sells, network, cheap) ==
    /\ Change
    /\ config' = [sells |-> sells, account |-> TRUE, network |-> network, cheap |-> cheap]
    /\ UNCHANGED <<box, paused, session, wallet, world>>
pauseCommand ==
    /\ Change /\ config # NoConfig /\ paused' = TRUE
    /\ UNCHANGED <<box, config, session, wallet, world>>
resumeCommand ==
    /\ Change /\ config # NoConfig /\ paused' = FALSE
    /\ UNCHANGED <<box, config, session, wallet, world>>

\* The agents come and go, and are signed in to; the expiry of Claude Code's
\* session is stored with it or is not.
Install(k) ==
    /\ Change /\ agents' = (agents \cup {k}) \ (agents \cap {k})
    /\ UNCHANGED <<machine, signed, config, paused, session, wallet, world>>
SignIn(way) ==
    /\ Change /\ signed' = signed \cup {way}
    /\ UNCHANGED <<machine, agents, config, paused, session, wallet, world>>
Login(stated) ==
    /\ Change
    /\ LET token == [exp |-> clock + Life, stated |-> stated]
       IN \/ machine.platform = "darwin" /\ keychain' = token /\ UNCHANGED file
          \/ file' = token /\ UNCHANGED keychain
    /\ UNCHANGED <<box, config, paused, cache, clock, wallet, world>>
Tick ==
    /\ clock < MaxTime /\ clock' = clock + 1
    /\ UNCHANGED <<box, config, paused, keychain, file, cache, wallet, world, changes>>

\* A Claude Code job on the running node fills the cache.
Job ==
    /\ "claude-code" \in config.sells /\ cache' = agentCredentials(cache)
    /\ UNCHANGED <<box, config, paused, keychain, file, clock, wallet, world, changes>>

\* walletAssociate: nothing to do, or a transaction after what was read; "already
\* associated" is as good as done.
walletAssociate ==
    /\ associating # "sent" /\ config # NoConfig
    /\ world.mirror => ~canReceiveUsdc
    /\ associating' = "sent"
    /\ UNCHANGED <<box, config, paused, session, account, world, changes>>
associateToken ==
    /\ associating = "sent"
    /\ \/ associating' = "done" /\ account' = [account EXCEPT !.associated = TRUE]
       \/ associating' = "no" /\ UNCHANGED account
    /\ UNCHANGED <<box, config, paused, session, world, changes>>

\* Another token lands on the account; a service answers or does not, or moves.
Airdrop ==
    /\ Change
    /\ account.slots = -1 \/ account.slots > account.held
    /\ account' = [account EXCEPT !.held = @ + 1]
    /\ UNCHANGED <<box, config, paused, session, associating, world>>
Turn ==
    /\ Change
    /\ world' \in {[world EXCEPT !.mirror = ~@], [world EXCEPT !.broker = ~@],
                   [world EXCEPT !.network = IF @ = "testnet" THEN "mainnet" ELSE "testnet"]}
    /\ UNCHANGED <<box, config, paused, session, wallet>>

Operator ==
    \/ \E sells \in Offers, network \in Networks, cheap \in BOOLEAN :
          Configure(sells, network, cheap)
    \/ pauseCommand \/ resumeCommand
    \/ \E k \in Kinds : Install(k)
    \/ \E way \in SignIns : SignIn(way)
    \/ \E stated \in BOOLEAN : Login(stated)
    \/ walletAssociate \/ associateToken
World == Tick \/ Airdrop \/ Turn
DoctorNext == Operator \/ World \/ Job
DoctorSpec == DoctorInit /\ [][DoctorNext]_doctorVars

-----------------------------------------------------------------------------
(***************************************************************************)
(* Properties                                                              *)
(***************************************************************************)
\* A broker can sell the node's capability to a buyer who pays in USDC, and the
\* buyer gets an answer.
Earns(k) ==
    /\ k \in config.sells /\ Answers(k, cache) /\ ~paused
    /\ config.account /\ TransferLands /\ config.network = world.network

\* When doctor finds nothing broken, Claude Code and Codex, their sign-in confirmed,
\* earn on the node that is running.  Doctor looks neither at the pause flag nor at
\* what the sandbox hides of the agent, and believes a session stored without its
\* expiry: the ways out.  (What it confirms of Grok is ConfirmedAnswers.)  And "can
\* now receive USDC" stays true, whatever lands on the account afterwards; a free
\* automatic slot, which doctor passes as well, does not.
NothingBrokenEarns ==
    /\ DoctorTypeOK
    /\ /\ doctorCommand \in {"nothing broken", "all clear"} /\ ~paused /\ AgentInSight
       /\ \A token \in {Found, cache} : token = NoToken \/ token.stated
       => \A k \in config.sells \ {"grok"} : probeAuth(k) = "in" => Earns(k)
    /\ associating = "done" => TransferLands

\* A job that `test` runs speaks for the node: what it finds working works there,
\* with the session that the node read long before, refreshed in another terminal.
TestSpeaksForNode ==
    testCommand \in {"healthy", "below cost"} /\ (cache = NoToken \/ cache.stated) =>
        \A k \in config.sells : Answers(k, cache)

\* What doctor.ts says of probeAuth, that it does not give "an optimistic yes": an
\* agent it finds signed in answers a job started now.  It fails: the key that is the
\* evidence for Grok is one that a job does not get, and bubblewrap and the container
\* hide agents and sign-ins that doctor sees.
ConfirmedAnswers ==
    (Found = NoToken \/ Found.stated) /\ doctorCommand \in {"nothing broken", "all clear"} =>
        \A k \in config.sells : probeAuth(k) = "in" => Answers(k, NoToken)
=============================================================================
