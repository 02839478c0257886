------------------------------ MODULE LockCases ------------------------------
(***************************************************************************)
(* The programs under src/db-engines/mysql/locks: the eight lock cases, the *)
(* phantom read (shared) and the table lock demo (metadata).  Each starts  *)
(* two or three goroutines, "sessions", that run SQL over one pooled        *)
(* connection each and order themselves with unbuffered channels or a       *)
(* condition variable.  A program is data here: what it prepares, how many  *)
(* goroutines main waits for, and the script of each; one set of actions    *)
(* runs every program over the row locks of InnoDB.                         *)
(***************************************************************************)
EXTENDS InnoDB

CONSTANT MaxDrops          \* bound: sessions that get a new connection

ASSUME SessionNames == Sessions = {"A", "B", "C"}

VARIABLES
    prog,                  \* the program that runs
    pc,                    \* session -> position in its script
    tableLock,             \* the session with LOCK TABLES, or NoSession
    waiting,               \* sessions inside cond.Wait
    seen,                  \* session -> results of its SELECTs of d = 5
    err,                   \* session -> error of its call, or "killed"
    dropped,               \* sessions whose connection was replaced
    ended                  \* once the connections are closed: "returned", or
                           \* the error that the process died of

vars == <<dbVars, prog, pc, tableLock, waiting, seen, err, dropped, ended>>

NoSession == "none"

-----------------------------------------------------------------------------
(* Scripts.  A label "blocked" is that of the session string or comment. *)

Send(ch) == [op |-> "send", ch |-> ch]
Recv(ch) == [op |-> "recv", ch |-> ch]
Do(op)   == [op |-> op]
Free(st)    == [op |-> "sql", st |-> st, blocked |-> FALSE]
Blocked(st) == [op |-> "sql", st |-> st, blocked |-> TRUE]

Between(idx, lo, loIn, hi, hiIn) == [idx |-> idx, lo |-> lo, loIn |-> loIn, hi |-> hi, hiIn |-> hiIn]
Eq(idx, v) == Between(idx, v, TRUE, v, TRUE)
All        == Between("p", -1, FALSE, 999, TRUE)

Scan(do, w, mode, covering, limit) ==
    [do |-> do, w |-> w, mode |-> mode, covering |-> covering, limit |-> limit]
NoLimit         == 1000
ForUpdate(w)    == Scan("select", w, "X", FALSE, NoLimit)
ShareMode(w, covering) == Scan("select", w, "S", covering, NoLimit)
Add1(w)         == Scan("add1", w, "X", FALSE, NoLimit)
Set5(w)         == Scan("set5", w, "X", FALSE, NoLimit)
Delete(w, limit) == Scan("delete", w, "X", FALSE, limit)
Insert(id, c, d) == [do |-> "insert", id |-> id, c |-> c, d |-> d]
Phantoms        == Scan("select5", All, "X", FALSE, NoLimit)

(* preparingData: DROP, CREATE, INSERT.  Its errors are only logged; the
   programs are followed from where it has succeeded. *)
Six   == [i \in {0, 5, 10, 15, 20, 25} |-> [c |-> i, d |-> i, del |-> FALSE, sec |-> TRUE]]
Seven == Put(Six, 30, [c |-> 10, d |-> 30, del |-> FALSE, sec |-> TRUE])

Program(name, wg, data, a, b, c) ==
    [name |-> name, wg |-> wg, data |-> data, script |-> [A |-> a, B |-> b, C |-> c]]

(* Faulty variants, each named for what it gets wrong. *)
Case01SendLate == Program("case01", 3, Six,
    << Do("begin"), Free(Add1(Eq("p", 7))), Send("t2") >>,
    << Recv("t2"), Blocked(Insert(8, 8, 8)), Send("t3") >>,
    << Recv("t3"), Free(Add1(Eq("p", 5))), Free(Add1(Eq("p", 10))) >>)
Case03NoBegin == Program("case03", 3, Six,
    << Free(ForUpdate(Between("p", 10, TRUE, 11, FALSE))), Send("t2") >>,
    << Recv("t2"), Send("t3"), Free(Insert(8, 8, 8)), Blocked(Insert(13, 13, 13)) >>,
    << Recv("t3"), Free(Add1(Eq("p", 15))) >>)
Case05Row15 == Program("case05", 3, Six,
    << Do("begin"), Free(ForUpdate(Between("p", 10, FALSE, 15, TRUE))), Send("t2") >>,
    << Recv("t2"), Send("t3"), Free(Add1(Eq("p", 15))) >>,
    << Recv("t3"), Free(Insert(16, 16, 16)) >>)
Case07NoBegin == Program("case07", 2, Seven,
    << Free(Delete(Eq("c", 10), 2)), Send("t2") >>,
    << Recv("t2"), Free(Insert(16, 16, 16)), Free(Insert(12, 12, 12)) >>,
    << >>)
Case05WaitForFour == Program("case05", 4, Six,
    << Do("begin"), Free(ForUpdate(Between("p", 10, FALSE, 15, TRUE))), Send("t2") >>,
    << Recv("t2"), Send("t3"), Free(Add1(Eq("p", 20))) >>,
    << Recv("t3"), Free(Insert(16, 16, 16)) >>)
PhantomAdd1 == Program("phantom", 3, Six,
    << Do("readCommitted"), Do("begin"), Free(Phantoms), Send("t2"),
       Recv("t3"), Free(Phantoms), Send("t4"),
       Recv("t5"), Free(Phantoms), Do("commit") >>,
    << Recv("t2"), Free(Add1(Eq("p", 0))), Send("t3") >>,
    << Recv("t4"), Free(Insert(1, 1, 5)), Send("t5") >>)
BroadcastEarly == Program("metadata", 2, << >>,
    << Do("broadcast"), Do("lockTables"), Free(Add1(Eq("p", 123))), Do("unlockTables") >>,
    << Do("condWait"), Do("woken"), Do("select") >>,
    << >>)

Case01 == Program("case01", 3, Six,
    << Do("begin"), Free(Add1(Eq("p", 7))), Send("t2") >>,
    << Recv("t2"), Send("t3"), Blocked(Insert(8, 8, 8)) >>,
    << Recv("t3"), Free(Add1(Eq("p", 5))), Free(Add1(Eq("p", 10))) >>)

(* The live statements and the alternatives that the file keeps as comments
   with what each of them blocks. *)
Case02With(select, update, insert) == Program("case02", 3, Six,
    << Do("begin"), Free(select), Send("t2") >>,
    << Recv("t2"), Send("t3"), update >>,
    << Recv("t3"), insert >>)
Case02 == LET five == Eq("c", 5)
              updateB == Add1(Eq("p", 5))
              inserts == {Blocked(Insert(7, 7, 7)), Blocked(Insert(2, 2, 2))}
          IN  {Case02With(ShareMode(five, TRUE), Free(updateB), i) : i \in inserts} \cup
              {Case02With(ShareMode(five, FALSE), Blocked(updateB), i) : i \in inserts} \cup
              {Case02With(ForUpdate(five), Blocked(updateB), i) : i \in inserts}

Case03 == Program("case03", 3, Six,
    << Do("begin"), Free(ForUpdate(Between("p", 10, TRUE, 11, FALSE))), Send("t2") >>,
    << Recv("t2"), Send("t3"), Free(Insert(8, 8, 8)), Blocked(Insert(13, 13, 13)) >>,
    << Recv("t3"), Free(Add1(Eq("p", 15))) >>)

Case04 == Program("case04", 3, Six,
    << Do("begin"), Free(ForUpdate(Between("c", 10, TRUE, 11, FALSE))), Send("t2") >>,
    << Recv("t2"), Send("t3"), Free(Insert(16, 16, 16)), Blocked(Insert(8, 8, 8)) >>,
    << Recv("t3"), Free(Add1(Eq("c", 5))), Blocked(Add1(Eq("c", 15))) >>)

Case05 == Program("case05", 3, Six,
    << Do("begin"), Free(ForUpdate(Between("p", 10, FALSE, 15, TRUE))), Send("t2") >>,
    << Recv("t2"), Send("t3"), Free(Add1(Eq("p", 20))) >>,
    << Recv("t3"), Free(Insert(16, 16, 16)) >>)

Case06 == Program("case06", 3, Seven,
    << Do("begin"), Free(Delete(Eq("c", 10), NoLimit)), Send("t2") >>,
    << Recv("t2"), Send("t3"), Free(Insert(16, 16, 16)), Free(Insert(13, 50, 13)),
       Blocked(Insert(12, 12, 12)) >>,
    << Recv("t3"), Free(Add1(Eq("c", 15))) >>)

(* main opens session C in cases 07 and 08 but starts no goroutine for it. *)
Case07 == Program("case07", 2, Seven,
    << Do("begin"), Free(Delete(Eq("c", 10), 2)), Send("t2") >>,
    << Recv("t2"), Free(Insert(16, 16, 16)), Free(Insert(12, 12, 12)) >>,
    << >>)

Case08 == Program("case08", 2, Six,
    << Do("begin"), Free(ShareMode(Eq("c", 10), TRUE)), Send("t2"), Free(Insert(8, 8, 8)) >>,
    << Recv("t2"), Blocked(Add1(Eq("c", 10))) >>,
    << >>)

PhantomRead == Program("phantom", 3, Six,
    << Do("readCommitted"), Do("begin"), Free(Phantoms), Send("t2"),
       Recv("t3"), Free(Phantoms), Send("t4"),
       Recv("t5"), Free(Phantoms), Do("commit") >>,
    << Recv("t2"), Free(Set5(Eq("p", 0))), Send("t3") >>,
    << Recv("t4"), Free(Insert(1, 1, 5)), Send("t5") >>)

(* The table inventory is created empty; UNLOCK TABLES is deferred and runs
   before wg.Done. *)
MetadataDemo == Program("metadata", 2, << >>,
    << Do("lockTables"), Free(Add1(Eq("p", 123))), Do("broadcast"), Do("unlockTables") >>,
    << Do("condWait"), Do("woken"), Do("select") >>,
    << >>)

Programs == {Case01, Case03, Case04, Case05, Case06, Case07, Case08,
             PhantomRead, MetadataDemo} \cup Case02

-----------------------------------------------------------------------------
Script(s)   == prog.script[s]
Running(s)  == ended = "no" /\ err[s] = "" /\ pc[s] <= Len(Script(s))
Op(s)       == Script(s)[pc[s]]
Done(s)     == Script(s) # << >> /\ pc[s] > Len(Script(s))
Step(S)     == pc' = [s \in Sessions |-> IF s \in S THEN pc[s] + 1 ELSE pc[s]]
At(s, op)   == Running(s) /\ Op(s).op = op
TableFree(s) == tableLock \in {NoSession, s}

Init ==
    /\ prog \in Programs
    /\ InitDB(prog.data)
    /\ pc = [s \in Sessions |-> 1]
    /\ tableLock = NoSession /\ waiting = {} /\ dropped = {}
    /\ seen = [s \in Sessions |-> <<>>]
    /\ err = [s \in Sessions |-> ""]
    /\ ended = "no"

(* An unbuffered channel: sender and receiver go on together. *)
Rendezvous(s, r) ==
    /\ At(s, "send") /\ At(r, "recv") /\ Op(s).ch = Op(r).ch
    /\ Step({s, r})
    /\ UNCHANGED <<dbVars, prog, tableLock, waiting, seen, err, dropped, ended>>

(* BEGIN, SET TRANSACTION and COMMIT on the session's pooled connection. *)
BeginTx(s) ==
    /\ At(s, "begin") /\ Begin(s) /\ Step({s})
    /\ UNCHANGED <<prog, tableLock, waiting, seen, err, dropped, ended>>
SetIsolation(s) ==
    /\ At(s, "readCommitted") /\ SetReadCommitted(s) /\ Step({s})
    /\ UNCHANGED <<prog, tableLock, waiting, seen, err, dropped, ended>>
CommitTx(s) ==
    /\ At(s, "commit") /\ Commit(s) /\ Step({s})
    /\ UNCHANGED <<prog, tableLock, waiting, seen, err, dropped, ended>>

(* execSQL: the statement starts, takes its locks one by one, and returns.
   The server goes on with it whatever has become of the caller. *)
Statement(s) ==
    /\ TableFree(s)
    /\ \/ At(s, "sql") /\ Start(s, Op(s).st)
       \/ at[s] # Idle /\ (Wait(s, Op(s).st) \/ Proceed(s, Op(s).st))
    /\ UNCHANGED <<prog, pc, tableLock, waiting, seen, err, dropped, ended>>
Return(s) ==
    /\ At(s, "sql") /\ Finish(s) /\ Step({s})
    /\ seen' = IF Op(s).st.do = "select5" THEN [seen EXCEPT ![s] = Append(@, at[s].hits)] ELSE seen
    /\ UNCHANGED <<prog, tableLock, waiting, err, dropped, ended>>

LockTables(s) ==
    /\ At(s, "lockTables") /\ TableFree(s)
    /\ tableLock' = s /\ Step({s})
    /\ UNCHANGED <<dbVars, prog, waiting, seen, err, dropped, ended>>
UnlockTables(s) ==
    /\ At(s, "unlockTables")
    /\ tableLock' = IF tableLock = s THEN NoSession ELSE tableLock
    /\ Step({s})
    /\ UNCHANGED <<dbVars, prog, waiting, seen, err, dropped, ended>>

(* cond.Broadcast is called without the mutex and wakes only who waits. *)
CondWait(s) ==
    /\ At(s, "condWait")
    /\ waiting' = waiting \cup {s} /\ Step({s})
    /\ UNCHANGED <<dbVars, prog, tableLock, seen, err, dropped, ended>>
Broadcast(s) ==
    /\ At(s, "broadcast")
    /\ waiting' = {} /\ Step({s})
    /\ UNCHANGED <<dbVars, prog, tableLock, seen, err, dropped, ended>>
Woken(s) ==
    /\ At(s, "woken") /\ s \notin waiting /\ Step({s})
    /\ UNCHANGED <<dbVars, prog, tableLock, waiting, seen, err, dropped, ended>>
Select(s) ==
    /\ At(s, "select") /\ TableFree(s) /\ Step({s})
    /\ UNCHANGED <<dbVars, prog, tableLock, waiting, seen, err, dropped, ended>>

-----------------------------------------------------------------------------
(* A call returns an error: log.Panic in its goroutine ends the process. *)

Errors == {"deadlock", "timeout", "network"}

Fails(s, e) ==
    /\ err' = [err EXCEPT ![s] = e]
    /\ UNCHANGED <<prog, pc, tableLock, waiting, seen, ended>>

DeadlockFound(s) ==
    /\ Running(s) /\ Victim(s) /\ RollBack(s) /\ Fails(s, "deadlock")
    /\ UNCHANGED dropped

(* innodb_lock_wait_timeout is 50 s, far above every sleep and statement of
   these programs: it passes only when nothing else can happen. *)
Stuck(s) == \/ ended # "no" \/ Script(s) = << >> \/ Done(s)
            \/ Waiting(s) /\ \E t \in Sessions : WaitsFor(s, t)
            \/ At(s, "recv") /\ \A t \in Sessions : ~(At(t, "send") /\ Op(t).ch = Op(s).ch)
            \/ At(s, "send") /\ \A t \in Sessions : ~(At(t, "recv") /\ Op(t).ch = Op(s).ch)
            \/ At(s, "woken") /\ s \in waiting
LockWaitTimeout(s) ==
    /\ Running(s) /\ Waiting(s)
    /\ \A t \in Sessions : Stuck(t) /\ err[t] = "" /\ ~InCycle(t)
    /\ RollBack(s) /\ Fails(s, "timeout")
    /\ UNCHANGED dropped

(* What the server keeps for a connection, and gives up when it closes it. *)
Open(s) == at[s] # Idle \/ inTx[s] \/ iso[s] = "RC" \/ tableLock = s
Close(s) ==
    /\ RollBack(s)
    /\ tableLock' = IF tableLock = s THEN NoSession ELSE tableLock

(* Between two calls database/sql replaces a lost connection, without a word
   and without what the server kept; during a call the caller gets an error,
   and the server may have carried the call out or go on with it. *)
Calls == {"sql", "begin", "readCommitted", "commit", "lockTables", "unlockTables", "select"}
LostBetween(s) ==
    /\ at[s] = Idle /\ Open(s) /\ Cardinality(dropped) < MaxDrops
    /\ Close(s) /\ dropped' = dropped \cup {s}
    /\ UNCHANGED <<prog, pc, waiting, seen, err, ended>>
LostInCall(s) ==
    /\ Op(s).op \in Calls /\ Fails(s, "network")
    /\ UNCHANGED <<dbVars, dropped>>
ConnectionLost(s) == Running(s) /\ (LostBetween(s) \/ LostInCall(s))

(* No goroutine outlives the first panic. *)
ProcessDies(s) ==
    /\ ended = "no" /\ err[s] \in Errors
    /\ err' = [t \in Sessions |-> IF err[t] = "" THEN "killed" ELSE err[t]]
    /\ UNCHANGED <<dbVars, prog, pc, tableLock, waiting, seen, dropped, ended>>

(* The server notices one connection after the other.  Until then it goes on
   with the statement, which may end, and commit, with nobody to answer. *)
NobodyToAnswer(s) ==
    /\ err[s] # "" /\ Finish(s)
    /\ UNCHANGED <<prog, pc, tableLock, waiting, seen, err, dropped, ended>>
HangUp(s) ==
    /\ err[s] # "" /\ Open(s) /\ Close(s)
    /\ UNCHANGED <<prog, pc, waiting, seen, err, dropped, ended>>
AllClosed(s) ==
    /\ ended = "no" /\ err[s] \in Errors
    /\ \A t \in Sessions : err[t] # "" /\ ~Open(t)
    /\ ended' = err[s]
    /\ UNCHANGED <<dbVars, prog, pc, tableLock, waiting, seen, err, dropped>>

(* wg.Wait returns; the deferred Closes end the open transactions.  No
   statement is under way by then. *)
MainReturns ==
    /\ ended = "no" /\ Cardinality({s \in Sessions : Done(s)}) = prog.wg
    /\ ended' = "returned"
    /\ RollBackAll /\ tableLock' = NoSession
    /\ UNCHANGED <<prog, pc, waiting, seen, err, dropped>>

SessionStep(s) ==
    \/ \E r \in Sessions : Rendezvous(s, r)
    \/ BeginTx(s) \/ SetIsolation(s) \/ CommitTx(s)
    \/ Statement(s) \/ Return(s)
    \/ LockTables(s) \/ UnlockTables(s)
    \/ CondWait(s) \/ Broadcast(s) \/ Woken(s) \/ Select(s)
    \/ DeadlockFound(s) \/ LockWaitTimeout(s)
    \/ ProcessDies(s) \/ NobodyToAnswer(s) \/ HangUp(s) \/ AllClosed(s)

Next == \/ \E s \in Sessions : SessionStep(s) \/ ConnectionLost(s)
        \/ MainReturns

(* The goroutines, the server's detector and its timer are all served, and it
   closes a dead connection sometime; no connection has to be lost. *)
Spec == /\ Init /\ [][Next]_vars
        /\ \A s \in Sessions : WF_vars(SessionStep(s))
        /\ WF_vars(MainReturns)

-----------------------------------------------------------------------------
TypeOK ==
    /\ pc \in [Sessions -> 1 .. 11]
    /\ \A id \in DOMAIN rows : rows[id].c >= 0 /\ rows[id].d >= 0
    /\ \A l \in locks : l.s \in Sessions /\ l.mode \in {"S", "X"} /\ l.kind \in {"rec", "gap", "nextkey"}
    /\ tableLock \in Sessions \cup {NoSession}
    /\ waiting \subseteq Sessions /\ dropped \subseteq Sessions
    /\ \A s \in Sessions : err[s] \in {"", "killed"} \cup Errors
    /\ ended \in {"no", "returned"} \cup Errors

(* A statement whose session string or comment says "blocked" never returns:
   A never commits, so the locks that block it last as long as A's
   connection. *)
LostA == "A" \in dropped \/ err["A"] = "network"
BlockedAsLabelled ==
    \A s \in Sessions : \A i \in 1 .. pc[s] - 1 :
        Script(s)[i].op = "sql" => ~Script(s)[i].blocked \/ LostA

(* And only those wait for A: no other statement of B or C needs a lock that
   conflicts with one of A's, in any interleaving.  The phantom program may
   lose the connection for which it has set READ COMMITTED before it begins
   (phantom-read.go:47-50): A then reads at REPEATABLE READ and locks all. *)
AtDefaultLevel == prog.name = "phantom" /\ inTx["A"] /\ iso["A"] = "RR"
OnlyLabelledWait ==
    \A s \in Sessions :
        (\E l \in locks : l.s = "A" /\ Conflicts(waits[s], l)) => Op(s).blocked \/ AtDefaultLevel

(* The two errors a program dies of are those it is there to show.  Deadlock is
   case 08's alone, and B is rolled back (case-08-deadlock/README.md: Error 1213
   in session B).  When a lock wait times out, every session has shown what it
   has to show: it is finished or at its blocked statement, unless A of the
   phantom program had its connection replaced. *)
Shown(s) == Script(s) = << >> \/ Done(s) \/ (Op(s).op = "sql" /\ Op(s).blocked)
ErrorsAsShown ==
    \A s \in Sessions :
        /\ err[s] = "deadlock" => s = "B" /\ prog.name = "case08"
        /\ err[s] = "timeout" => \/ \A t \in Sessions : Shown(t)
                                \/ (prog.name = "phantom" /\ "A" \in dropped)

(* Nothing of session A survives cases 01 to 08 and nothing half-done of the
   others: when all connections are closed, the table holds the prepared rows,
   the rows whose INSERT in B or C returned and, at most, rows whose INSERT lost
   its connection or was under way when the process died.  A is excused once
   it goes on outside its transaction, on a new connection. *)
Inserts(s, I) == {id \in 0 .. 30 : \E i \in I : /\ i <= Len(Script(s)) /\ Script(s)[i].op = "sql"
                                               /\ Script(s)[i].st.do = "insert" /\ Script(s)[i].st.id = id}
Inserted   == UNION {Inserts(s, 1 .. pc[s] - 1) : s \in {"B", "C"}}
Unanswered == UNION {Inserts(s, {pc[s]}) : s \in {t \in {"B", "C"} : err[t] \in {"network", "killed"}}}
NothingOfA ==
    ended # "no" /\ "A" \notin dropped =>
        /\ DOMAIN prog.data \cup Inserted \subseteq DOMAIN rows
        /\ DOMAIN rows \subseteq DOMAIN prog.data \cup Inserted \cup Unanswered
        /\ \A id \in DOMAIN rows : ~rows[id].del /\ rows[id].sec

(* The phantom program shows one more row in each of its three SELECTs ...
   FOR UPDATE: read committed leaves the rows it does not match and the gaps
   free. *)
ShowsPhantoms ==
    prog.name = "phantom" /\ ended = "returned" => seen["A"] = <<{5}, {0, 5}, {0, 1, 5}>>

(* Session B of the table lock demo reads the inventory only after A has
   unlocked it (metadata/README.md), unless A lost the lock with its
   connection. *)
ReadsAfterUnlock ==
    prog.name = "metadata" /\ Done("B") /\ ~LostA => pc["A"] > 4

(* Every program ends, except the demo when Broadcast comes before Wait. *)
LostWakeup ==
    prog.name = "metadata" /\ "B" \in waiting /\ Done("A")
ProgramEnds == <>(ended # "no" \/ LostWakeup)
=============================================================================
