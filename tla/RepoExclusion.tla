--------------------------- MODULE RepoExclusion ---------------------------
(***************************************************************************)
(* What RepoActivity promises to its callers about transactions and        *)
(* maintenance: any number of transactions may be open at once, maintenance *)
(* belongs to one thread, starts only when nothing is open, and while it    *)
(* lasts only its own thread opens transactions.                           *)
(***************************************************************************)
EXTENDS Naturals

CONSTANTS Threads, NoThread

VARIABLES
    open,   \* the open transactions, each with its thread
    owner   \* the thread inside maintenance, or NoThread

vars == <<open, owner>>

Init == open = {} /\ owner = NoThread

Begin(t) == /\ owner \in {NoThread, t}
            /\ \E x \in open' : x[1] = t /\ x \notin open /\ open' = open \cup {x}
            /\ UNCHANGED owner

End(t) == /\ \E x \in open : x[1] = t /\ open' = open \ {x}
          /\ UNCHANGED owner

Claim(t) == owner = NoThread /\ open = {} /\ owner' = t /\ UNCHANGED open

Yield(t) == owner = t /\ owner' = NoThread /\ UNCHANGED open

Crash == open' = {} /\ owner' = NoThread

Next == (\E t \in Threads : Begin(t) \/ End(t) \/ Claim(t) \/ Yield(t)) \/ Crash

Spec == Init /\ [][Next]_vars
=============================================================================
