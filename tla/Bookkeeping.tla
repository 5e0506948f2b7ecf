----------------------------- MODULE Bookkeeping -----------------------------
(***************************************************************************)
(* What the paid path promises, without requests, quotes, prices, a fleet  *)
(* or restarts: a job is owed to one account from the start, a transfer is *)
(* signed to one account and executed once, and the books enter a transfer *)
(* at one job, for good, which is a job owed to the transfer's payee.      *)
(*                                                                         *)
(* They do not promise that it is the job the transfer was signed for.     *)
(***************************************************************************)
CONSTANTS Jobs, Accounts, Transfers, None

VARIABLES
    owed,           \* job -> the account its price is owed to
    payee,          \* transfer -> the account it was signed to
    executed,       \* the transfers the network has executed
    booked          \* job -> the transfer on it

books == <<owed, payee, executed, booked>>

Init ==
    /\ owed = [j \in Jobs |-> None]
    /\ payee = [k \in Transfers |-> None]
    /\ executed = {}
    /\ booked = [j \in Jobs |-> None]

Sign(k, a) ==
    /\ payee[k] = None
    /\ payee' = [payee EXCEPT ![k] = a]
    /\ UNCHANGED <<owed, executed, booked>>

Owe(j, a) ==
    /\ owed[j] = None
    /\ owed' = [owed EXCEPT ![j] = a]
    /\ UNCHANGED <<payee, executed, booked>>

Execute(k) ==
    /\ payee[k] # None /\ k \notin executed
    /\ executed' = executed \cup {k}
    /\ UNCHANGED <<owed, payee, booked>>

Book(j, k) ==
    /\ k \in executed /\ \A i \in Jobs : booked[i] # k
    /\ booked[j] = None /\ owed[j] = payee[k]
    /\ booked' = [booked EXCEPT ![j] = k]
    /\ UNCHANGED <<owed, payee, executed>>

Next ==
    \/ \E k \in Transfers, a \in Accounts : Sign(k, a)
    \/ \E j \in Jobs, a \in Accounts : Owe(j, a)
    \/ \E k \in Transfers : Execute(k)
    \/ \E j \in Jobs, k \in Transfers : Book(j, k)

Spec == Init /\ [][Next]_books
=============================================================================
