----------------------------- MODULE CreditWallet -----------------------------
(***************************************************************************)
(* What a prepaid wallet promises its tenant, with no rows, no handlers    *)
(* and no sweep: credits are put on hold before work is done for them, a   *)
(* hold is closed once, for at most what is free plus what it held itself, *)
(* and a keyed operation moves the balance at most once.  AiCredits        *)
(* implements this specification.                                          *)
(***************************************************************************)
EXTENDS Integers, FiniteSets

CONSTANTS Holds,  \* ids under which credits can be put on hold
          Keys    \* ids of the other operations that must not happen twice

VARIABLES balance,  \* the credits of the tenant
          held,     \* the credits on hold: <<h, k>> is the k-th credit of hold h
          opened,   \* the holds ever taken
          closed,   \* the holds that are over
          posted    \* the holds and keys that have moved the balance

vars == <<balance, held, opened, closed, posted>>

Init ==
  /\ balance = 0
  /\ held = {}
  /\ opened = {}
  /\ closed = {}
  /\ posted = {}

HeldBy(h) == {u \in held : u[1] = h}

Free == balance - Cardinality(held)

TakeHold(h) ==
  /\ h \notin opened
  /\ opened' = opened \cup {h}
  /\ \E n \in 0..Free : held' = held \cup ({h} \X (1..n))
  /\ UNCHANGED <<balance, closed, posted>>

\* The hold is charged, for less or for more than it held, or given back.
CloseHold(h) ==
  /\ h \in opened \ closed
  /\ closed' = closed \cup {h}
  /\ held' = held \ HeldBy(h)
  /\ \/ /\ h \notin posted
        /\ posted' = posted \cup {h}
        /\ \E n \in 0..(Free + Cardinality(HeldBy(h))) : balance' = balance - n
     \/ UNCHANGED <<posted, balance>>
  /\ UNCHANGED opened

\* A key may be used for one movement; a movement may also have no key.
Mark == posted' = posted \/ \E k \in Keys \ posted : posted' = posted \cup {k}

Deposit ==
  /\ balance' \in Int /\ balance' >= balance
  /\ Mark
  /\ UNCHANGED <<held, opened, closed>>

Withdraw ==
  /\ \E n \in 0..Free : balance' = balance - n
  /\ Mark
  /\ UNCHANGED <<held, opened, closed>>

Next == (\E h \in Holds : TakeHold(h) \/ CloseHold(h)) \/ Deposit \/ Withdraw

Spec == Init /\ [][Next]_vars
=============================================================================
