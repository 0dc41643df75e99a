------------------------------ MODULE Identity ------------------------------
(***************************************************************************)
(* What the accounts promise, without workers, readings, cookies and       *)
(* background tasks: the abstract specification that Accounts implements.  *)
(*                                                                         *)
(* An address is registered once and stays so.  Letters go to registered   *)
(* addresses only.  From then on the password changes only by a letter     *)
(* that named the password of the time and was followed while it was still *)
(* the password, by an account that was not off; several may be followed   *)
(* at a time, and each may then set a password, which the program has and  *)
(* this specification admits.  A password is never set twice.  An address  *)
(* is proven only once a letter has reached it, and neither that nor that  *)
(* the account was switched off is ever taken back.                        *)
(***************************************************************************)
CONSTANTS Users, Passwords, NoPassword

VARIABLES
    password,  \* of each address
    known,     \* the passwords that were ever set
    proven,    \* the addresses that are proven
    off,       \* the accounts that were switched off
    letters,   \* what reached an address
    following  \* the letters being followed: to whom, and the password they name

vars == <<password, known, proven, off, letters, following>>

Registered(u) == password[u] # NoPassword

Init ==
    /\ password = [u \in Users |-> NoPassword]
    /\ known = {}
    /\ proven = {}
    /\ off = {}
    /\ letters = {}
    /\ following = {}

\* A password nobody has had.
Sets(u, h) ==
    /\ h \in Passwords \ known
    /\ password' = [password EXCEPT ![u] = h]
    /\ known' = known \cup {h}

Register(u) ==
    /\ ~Registered(u)
    /\ \E h \in Passwords : Sets(u, h)
    /\ UNCHANGED <<proven, off, letters, following>>

\* A letter that only proves the address, or one that also lets the password be set.
Write(m) ==
    /\ Registered(m.to)
    /\ m.kind = "reset" => m.fp \in known
    /\ letters' = letters \cup {m}
    /\ UNCHANGED <<password, known, proven, off, following>>

Prove(u) ==
    /\ \E m \in letters : m.to = u
    /\ proven' = proven \cup {u}
    /\ UNCHANGED <<password, known, off, letters, following>>

Follow(m) ==
    /\ m.kind = "reset"
    /\ m.to \notin off
    /\ m.fp = password[m.to]
    /\ following' = following \cup {[to |-> m.to, fp |-> m.fp]}
    /\ UNCHANGED <<password, known, proven, off, letters>>

GiveUp(f) ==
    /\ following' = following \ {f}
    /\ UNCHANGED <<password, known, proven, off, letters>>

\* Others may be following the same letter.
Change(f) ==
    /\ \E h \in Passwords : Sets(f.to, h)
    /\ proven' = proven \cup {f.to}
    /\ following' \in {following, following \ {f}}
    /\ UNCHANGED <<off, letters>>

SwitchOff(u) ==
    /\ Registered(u)
    /\ off' = off \cup {u}
    /\ UNCHANGED <<password, known, proven, letters, following>>

Next ==
    \/ \E u \in Users : Register(u) \/ Prove(u) \/ SwitchOff(u)
    \/ \E u \in Users, h \in Passwords \cup {NoPassword}, kind \in {"verify", "reset"} :
         Write([kind |-> kind, to |-> u, fp |-> h])
    \/ \E m \in letters : Follow(m)
    \/ \E f \in following : Change(f) \/ GiveUp(f)

Spec == Init /\ [][Next]_vars
=============================================================================
