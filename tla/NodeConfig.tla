----------------------------- MODULE NodeConfig -----------------------------
(***************************************************************************)
(* The files under ~/.xorv and the commands that write them: `xorv init`,  *)
(* `price` and `wallet new` read the configuration, ask the operator, and  *)
(* write it back whole by way of one temporary file, two of them at a time *)
(* if the operator has two terminals; `start` appends to the ledger, which *)
(* `earnings` reads back.                                                  *)
(*                                                                         *)
(* A name is a link to an inode; a command that has opened the temporary   *)
(* file goes on writing to that inode, whatever name it has by then.       *)
(***************************************************************************)
EXTENDS Integers, Sequences, FiniteSetsExt

CONSTANTS
    Commands,       \* processes
    Wallets,        \* account and key, generated or pasted
    Fresh,          \* the wallet `wallet new` or init generates
    Prices,         \* in micro-USD
    Preset,         \* defaultCapability's price
    Limit,          \* readEarnings' limit: how many lines it looks at
    MaxRows,        \* bound: lines of the ledger
    MaxStops        \* bound: interrupted commands, appends that fail or are cut short

ASSUME ConfigAssumption ==
    /\ Prices \subseteq Nat \ {0} /\ Preset \in Prices /\ Fresh \in Wallets
    /\ Limit \in Nat \ {0} /\ MaxRows \in Nat /\ MaxStops \in Nat
    /\ IsFiniteSet(Commands)

VARIABLES
    disk,           \* inode -> what it holds
    cfg, tmp,       \* the inodes of config.json and config.json.tmp
    cmd,            \* every command: where it is, what it has read and made
    ledger,         \* earnings.jsonl: the jobs of its rows, or what is left of one
    said,           \* history: what the operator was last told is in force
    met,            \* history: two commands between read and write at once
    earned,         \* history: jobs the node has completed
    failed, cut,    \* history: appends that wrote nothing, or a part of the line
    stops

files == <<disk, cfg, tmp>>
rows == <<ledger, earned, failed, cut>>
configVars == <<files, cmd, rows, said, met, stops>>

Inodes == 1..(Cardinality(Commands) + 1)
NoFile == 0
Torn == [price |-> 0, account |-> "torn", key |-> "torn"]
Setting == [price: Nat \ {0}, account: Wallets, key: Wallets]
Blank == [price |-> Preset, account |-> Fresh, key |-> Fresh]
Off == [pc |-> "off", want |-> Blank, fd |-> 0]

ConfigTypeOK ==
    /\ DOMAIN disk = Inodes /\ \A i \in Inodes : disk[i] \in Setting \cup {Torn}
    /\ cfg \in Inodes \cup {NoFile} /\ tmp \in Inodes \cup {NoFile}
    /\ (cfg = tmp => cfg = NoFile)
    /\ cmd \in [Commands -> [pc: {"off", "asking", "saving", "opened", "written"},
                             want: Setting, fd: Inodes \cup {0}]]
    /\ \A c \in Commands : cmd[c].pc \in {"opened", "written"} => cmd[c].fd # 0
    /\ ledger \in Seq(Int) /\ Len(ledger) <= MaxRows
    /\ earned \in Nat /\ failed \in Nat /\ cut \in Nat
    /\ said \in Setting \cup {Torn}
    /\ met \in BOOLEAN /\ stops \in 0..MaxStops

-----------------------------------------------------------------------------
Readable == cfg # NoFile /\ disk[cfg] # Torn
Config == disk[cfg]
Busy == {c \in Commands : cmd[c].pc # "off"}
Begin(c, x) ==
    /\ cmd[c].pc = "off"
    /\ cmd' = [cmd EXCEPT ![c] = x]
    /\ met' = (met \/ Busy # {})
    /\ UNCHANGED <<files, rows, said, stops>>

ConfigInit ==
    /\ disk = [i \in Inodes |-> Blank] /\ cfg = NoFile /\ tmp = NoFile
    /\ cmd = [c \in Commands |-> Off]
    /\ ledger = <<>> /\ said = Torn /\ met = FALSE
    /\ earned = 0 /\ failed = 0 /\ cut = 0 /\ stops = 0

\* priceCommand: no prompt, one capability's price.
priceCommand(c, price) ==
    /\ Readable
    /\ Begin(c, [pc |-> "saving", want |-> [Config EXCEPT !.price = price], fd |-> 0])

\* initCommand: the answers make a configuration of their own; the wallet is kept,
\* pasted or generated.
initCommand(c, price, wallet) ==
    /\ cfg = NoFile \/ Readable
    /\ Begin(c, [pc |-> "asking", fd |-> 0,
                 want |-> [price |-> price, account |-> wallet, key |-> wallet]])

\* walletNew: the account asked for, the key just made.
walletNew(c) ==
    /\ Readable
    /\ Begin(c, [pc |-> "asking", fd |-> 0, want |-> [Config EXCEPT !.account = Fresh, !.key = Fresh]])

\* ask: the operator answers, or leaves.
Answered(c) ==
    /\ cmd[c].pc = "asking"
    /\ cmd' = [cmd EXCEPT ![c].pc = "saving"]
    /\ UNCHANGED <<files, rows, said, met, stops>>
Interrupt(c) ==
    /\ cmd[c].pc # "off" /\ stops < MaxStops /\ stops' = stops + 1
    /\ cmd' = [cmd EXCEPT ![c] = Off]
    /\ UNCHANGED <<files, rows, said, met>>

-----------------------------------------------------------------------------
(* saveConfig: open and truncate, write, rename.  Slip: the configuration    *)
(* itself is opened.                                                       *)
Unlinked == Inodes \ ({cfg, tmp} \cup {cmd[c].fd : c \in Commands})
OpenInPlace(c) ==
    /\ cmd[c].pc = "saving"
    /\ LET i == IF cfg # NoFile THEN cfg ELSE Min(Unlinked)
       IN /\ disk' = [disk EXCEPT ![i] = Torn]
          /\ cmd' = [cmd EXCEPT ![c].pc = "opened", ![c].fd = i]
          /\ cfg' = i /\ UNCHANGED tmp
    /\ UNCHANGED <<rows, said, met, stops>>
Open(c) ==
    /\ cmd[c].pc = "saving"
    /\ LET i == IF tmp # NoFile THEN tmp ELSE Min(Unlinked)
       IN /\ disk' = [disk EXCEPT ![i] = Torn]
          /\ cmd' = [cmd EXCEPT ![c].pc = "opened", ![c].fd = i]
          /\ tmp' = i /\ UNCHANGED cfg
    /\ UNCHANGED <<rows, said, met, stops>>

\* What is written over another command's text may leave some of that.  Slip: the
\* operator is told already.
WriteAndTell(c) ==
    /\ cmd[c].pc = "opened"
    /\ disk' = [disk EXCEPT ![cmd[c].fd] = cmd[c].want]
    /\ said' = cmd[c].want
    /\ cmd' = [cmd EXCEPT ![c].pc = "written"]
    /\ UNCHANGED <<cfg, tmp, rows, met, stops>>
Write(c) ==
    /\ cmd[c].pc = "opened"
    /\ LET i == cmd[c].fd
       IN \E text \in {cmd[c].want} \cup (IF disk[i] = Torn THEN {} ELSE {Torn}) :
              disk' = [disk EXCEPT ![i] = text]
    /\ cmd' = [cmd EXCEPT ![c].pc = "written"]
    /\ UNCHANGED <<cfg, tmp, rows, said, met, stops>>

\* The rename fails if the name is gone; else the operator is told.
Rename(c) ==
    /\ cmd[c].pc = "written"
    /\ \/ tmp # NoFile /\ cfg' = tmp /\ tmp' = NoFile /\ said' = cmd[c].want
       \/ tmp = NoFile /\ UNCHANGED <<cfg, tmp, said>>
    /\ cmd' = [cmd EXCEPT ![c] = Off]
    /\ disk' = [i \in Inodes |-> IF i \in {cfg', tmp'} \cup {cmd'[d].fd : d \in Commands}
                                 THEN disk[i] ELSE Blank]
    /\ UNCHANGED <<rows, met, stops>>

-----------------------------------------------------------------------------
(* The ledger.                                                             *)
\* appendEarning: a line; nothing, when the append throws and is caught; or a part of
\* the line, when the disk is full or the node dies in the middle.  The next row goes
\* on in that line and is lost with it.
Partial == -1
Spoilt == -2
appendEarning ==
    LET dangling == ledger # <<>> /\ ledger[Len(ledger)] = Partial
        front == IF dangling THEN SubSeq(ledger, 1, Len(ledger) - 1) ELSE ledger
    IN /\ Len(front) < MaxRows
       /\ earned' = earned + 1
       /\ \/ /\ ledger' = Append(front, IF dangling THEN Spoilt ELSE earned')
             /\ UNCHANGED <<failed, cut, stops>>
          \/ /\ stops < MaxStops /\ stops' = stops + 1
             /\ \/ UNCHANGED <<ledger, cut>> /\ failed' = failed + 1
                \/ ledger' = Append(front, Partial) /\ cut' = cut + 1 /\ UNCHANGED failed
       /\ UNCHANGED <<files, cmd, said, met>>

\* readEarnings: the last lines, those of them that parse, by their numbers (slip: one
\* that does not parse spoils them all).
Window(n) == {i \in DOMAIN ledger : i > Len(ledger) - n}
Parsed(lines) == {i \in lines : ledger[i] > 0}
readEarningsOrNone(n) == IF Parsed(Window(n)) = Window(n) THEN Window(n) ELSE {}
readEarnings(n) == Parsed(Window(n))

\* earningsCommand: what it calls lifetime is the sum over the rows it read.
earningsCommand == Cardinality(readEarnings(Limit))

-----------------------------------------------------------------------------
ConfigNext ==
    \/ \E c \in Commands :
         \/ \E price \in Prices : priceCommand(c, price)
         \/ \E price \in Prices, w \in Wallets : initCommand(c, price, w)
         \/ walletNew(c) \/ Answered(c) \/ Interrupt(c)
         \/ Open(c) \/ Write(c) \/ Rename(c)
    \/ appendEarning
ConfigSpec == ConfigInit /\ [][ConfigNext]_configVars

-----------------------------------------------------------------------------
(***************************************************************************)
(* Properties                                                              *)
(***************************************************************************)
\* A command that is interrupted anywhere leaves a configuration that parses: the
\* operator is not locked out of the account (saveConfig writes and renames).
\* Two commands at once share the temporary file, and can.  A configuration that
\* parses holds the key of its account, whichever commands ran, one over the other.
ConfigWhole ==
    /\ ConfigTypeOK
    /\ cfg # NoFile /\ ~met => disk[cfg] # Torn
    /\ Readable => Config.key = Config.account

\* What the operator was last told is what the file holds; a command that reads,
\* asks and writes the whole configuration loses nothing, one at a time.
SaidIsSaved == said # Torn /\ ~met => Readable /\ Config = said

\* What `earnings` calls lifetime is never more than the node earned.  It is less by
\* no more than the appends that failed, each a row, and those cut short, each a row
\* and the next: no other row is lost to the reader, as long as all are in the lines
\* it looks at; and where they are not, it misses no more than that of those lines.
LedgerKept ==
    /\ earningsCommand <= earned
    /\ \/ earningsCommand + failed + 2 * cut >= earned
       \/ earningsCommand + cut >= Limit
=============================================================================
