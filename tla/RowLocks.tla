------------------------------ MODULE RowLocks ------------------------------
(***************************************************************************)
(* Requests as PostgreSQL transactions: each takes row and advisory locks  *)
(* one after another and holds them to its end (db/client.ts, transaction).*)
(***************************************************************************)
EXTENDS Naturals, Sequences, FiniteSets

CONSTANT Calls   \* the requests in flight

VARIABLES
  txPc,     \* where each request is
  todo,   \* the locks its current statement still has to take
  locks   \* the locks its transaction holds

txVars == <<txPc, todo, locks>>

Share(row) == [mode |-> "share", row |-> row]
Update(row) == [mode |-> "update", row |-> row]
UserRow(u) == <<"users", u>>
OrgRow(o) == <<"organizations", o>>
MemberRow(o, u) == <<"organization_members", o, u>>

LocksInit ==
  /\ txPc = [c \in Calls |-> "new"]
  /\ todo = [c \in Calls |-> <<>>]
  /\ locks = [c \in Calls |-> {}]

Conflicts(l, k) == l.row = k.row /\ (l.mode = "update" \/ k.mode = "update")

\* The other requests whose locks keep c from taking lock l.
Holders(c, l) == {d \in Calls \ {c} : \E k \in locks[d] : Conflicts(l, k)}

Waits(c) == IF todo[c] = <<>> THEN {} ELSE Holders(c, Head(todo[c]))

At(c, where) == txPc[c] = where /\ todo[c] = <<>>

Goes(c, where) == txPc' = [txPc EXCEPT ![c] = where] /\ UNCHANGED <<todo, locks>>

\* The request goes on to `where`, which starts by taking the locks `then`.
Locking(c, then, where) ==
  /\ txPc' = [txPc EXCEPT ![c] = where]
  /\ todo' = [todo EXCEPT ![c] = then]

\* A statement takes its locks in order, waiting for each.
TakeLock(c) ==
  /\ todo[c] # <<>>
  /\ Waits(c) = {}
  /\ locks' = [locks EXCEPT ![c] = @ \cup {Head(todo[c])}]
  /\ todo' = [todo EXCEPT ![c] = Tail(@)]
  /\ UNCHANGED txPc

\* The end of a transaction, committed or not.
EndTx(c, outcome) ==
  /\ txPc' = [txPc EXCEPT ![c] = outcome]
  /\ locks' = [locks EXCEPT ![c] = {}]
  /\ todo' = [todo EXCEPT ![c] = <<>>]

\* The rows a request's authority rests on, read and held with SHARE at once;
\* the request goes on or is refused as they are then.
HoldActor(c, rows, authorized, then, where) ==
  /\ At(c, "authorize")
  /\ \A row \in rows : Holders(c, Share(row)) = {}
  /\ IF authorized
     THEN /\ Locking(c, then, where)
          /\ locks' = [locks EXCEPT ![c] = @ \cup {Share(row) : row \in rows}]
     ELSE EndTx(c, "refused")

\* The same without FOR SHARE: the rows are only read.
ReadActor(c, authorized, then, where) ==
  /\ At(c, "authorize")
  /\ IF authorized THEN Locking(c, then, where) /\ UNCHANGED locks ELSE EndTx(c, "refused")

\* PostgreSQL aborts one transaction of a cycle of waiting ones.
DeadlockVictim(c) ==
  /\ \E S \in SUBSET Calls :
       /\ c \in S
       /\ \A d \in S : Waits(d) \cap S # {} /\ \E e \in S : d \in Waits(e)
  /\ EndTx(c, "aborted")

\* No other request holds anything that keeps the row from being changed.
Unheld(row) == \A c \in Calls : \A k \in locks[c] : k.row # row
=============================================================================
