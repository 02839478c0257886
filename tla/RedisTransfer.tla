--------------------------- MODULE RedisTransfer ---------------------------
(***************************************************************************)
(* db-engines/redis/transaction/ex04-watch.go: client1 moves 20 from       *)
(* "balance" to "debt" under WATCH while client2 overwrites "balance".     *)
(* The server runs one command at a time; tx.Pipelined sends its commands  *)
(* in one batch but, unlike tx.TxPipelined, without MULTI and EXEC, so     *)
(* that other clients' commands can come between them.                     *)
(***************************************************************************)
EXTENDS Integers

CONSTANT MaxRetries     \* the attempts of client1: 3 in the code

VARIABLES
  balance, debt,        \* the two keys
  pc1, i, read, err,    \* client1: its next command, attempt, Get and error
  pc2,                  \* client2's next command
  conflict              \* balance was set between client1's WATCH and its
                        \* last write

vars == <<balance, debt, pc1, i, read, err, pc2, conflict>>

\* main: DEL and MSET, then the two goroutines.
Init ==
  /\ balance = 100 /\ debt = 0
  /\ pc1 = "watch" /\ i = 0 /\ read = 0 /\ err = "nil"
  /\ pc2 = "get1"
  /\ conflict = FALSE

Watch ==
  /\ pc1 = "watch"
  /\ pc1' = "get" /\ err' = "nil" /\ conflict' = FALSE
  /\ UNCHANGED <<balance, debt, i, read, pc2>>

\* tx.Get, and the check of what it returned.
Get ==
  /\ pc1 = "get"
  /\ read' = balance
  /\ IF balance < 20
       THEN pc1' = "unwatch" /\ err' = "insufficient balance"
       ELSE pc1' = "decrBy" /\ UNCHANGED err
  /\ UNCHANGED <<balance, debt, i, pc2, conflict>>

\* tx.Pipelined: DECRBY, then INCRBY.
DecrBy ==
  /\ pc1 = "decrBy"
  /\ balance' = balance - 20
  /\ pc1' = "incrBy"
  /\ UNCHANGED <<debt, i, read, err, pc2, conflict>>

IncrBy ==
  /\ pc1 = "incrBy"
  /\ debt' = debt + 20
  /\ pc1' = "unwatch"
  /\ UNCHANGED <<balance, i, read, err, pc2, conflict>>

\* A command or its answer is lost.
CommandFails ==
  /\ pc1 \in {"watch", "get", "decrBy", "incrBy"}
  /\ err' = "network"
  /\ pc1' = "unwatch"
  /\ UNCHANGED <<balance, debt, i, read, pc2, conflict>>

\* rdb.Watch returns: success, a retry after a failed transaction, or an error.
WatchReturns ==
  /\ pc1 = "unwatch"
  /\ i' = i + 1
  /\ pc1' = IF err = "nil" THEN "successful"
            ELSE IF err = "TxFailedErr" /\ i' < MaxRetries THEN "watch"
            ELSE "failed"
  /\ UNCHANGED <<balance, debt, read, err, pc2, conflict>>

\* client2: GET, SET balance 800, GET; it returns at the first error.
Client2 ==
  /\ \/ pc2 = "get1" /\ pc2' = "set" /\ UNCHANGED <<balance, conflict>>
     \/ /\ pc2 = "set" /\ pc2' = "get2"
        /\ balance' = 800
        /\ conflict' = (conflict \/ pc1 \in {"get", "decrBy", "incrBy"})
     \/ pc2 = "get2" /\ pc2' = "end" /\ UNCHANGED <<balance, conflict>>
     \/ pc2 \in {"get1", "set", "get2"} /\ pc2' = "end" /\ UNCHANGED <<balance, conflict>>
  /\ UNCHANGED <<debt, pc1, i, read, err>>

Next == Watch \/ Get \/ DecrBy \/ IncrBy \/ CommandFails \/ WatchReturns \/ Client2

Spec == Init /\ [][Next]_vars

\* ex04-watch.go:103-107, "optimistic-lock conflict, retry later"
\* (乐观锁冲突，稍后重试): an attempt of client1 that client2's SET has come
\* into is retried, and never reported as successful.
ConflictIsRetried == ~(conflict /\ pc1 = "successful")

=============================================================================
