--------------------------- MODULE LockCasesProofs ---------------------------
(***************************************************************************)
(* The MySQL programs, however many connections are lost.  What a program  *)
(* must look like is stated first and shown of the ten; every step of the  *)
(* rest holds for any program that looks so.                               *)
(***************************************************************************)
EXTENDS LockCases, FiniteSetTheorems, SequenceTheorems, WellFoundedInduction, TLAPS

-----------------------------------------------------------------------------
(* Programs.                                                               *)

Row  == [c : 0 .. 999, d : Nat, del : BOOLEAN, sec : BOOLEAN]
UndoRow == Row \cup {NoRow}
Cond == [idx : {"p", "c"}, lo : -1 .. 999, loIn : BOOLEAN, hi : 0 .. 999, hiIn : BOOLEAN]

\* A table, or what is to be undone of one.
Table(f, R) == DOMAIN f \subseteq 0 .. 999 /\ f \in [DOMAIN f -> R]

IsScan(st) ==
  /\ st.do \in {"select", "select5", "add1", "set5", "delete"}
  /\ st.w \in Cond /\ st.mode \in {"S", "X"} /\ st.covering \in BOOLEAN /\ st.limit \in Nat
IsInsert(st) == st.do = "insert" /\ st.id \in 0 .. 999 /\ st.c \in 0 .. 999 /\ st.d \in Nat

OtherOps == {"send", "recv", "begin", "readCommitted", "commit", "lockTables", "unlockTables",
             "condWait", "broadcast", "woken", "select"}
IsOp(o) == \/ o.op \in OtherOps
           \/ o.op = "sql" /\ o.blocked \in BOOLEAN /\ (IsScan(o.st) \/ IsInsert(o.st))
IsScript(q) == Len(q) \in 0 .. 10 /\ \A i \in 1 .. Len(q) : IsOp(q[i])

WellTyped(p) == Table(p.data, Row) /\ \A s \in Sessions : IsScript(p.script[s])

\* What a condition is made of.
LEMMA CondParts ==
  ASSUME NEW w \in Cond
  PROVE  w.idx \in {"p", "c"} /\ w.lo \in -1 .. 999 /\ w.hi \in 0 .. 999
BY DEF Cond

\* What an INSERT does.
LEMMA InsertDoes ==
  ASSUME NEW st, IsInsert(st)
  PROVE  st.do = "insert"
BY DEF IsInsert

\* What an INSERT is made of.
LEMMA InsertParts ==
  ASSUME NEW st, IsInsert(st)
  PROVE  st.do = "insert" /\ st.id \in 0 .. 999 /\ st.c \in 0 .. 999
BY DEF IsInsert

\* The operators that scripts are written with.
LEMMA OpTypes ==
  /\ \A ch : IsOp(Send(ch)) /\ IsOp(Recv(ch))
  /\ \A op \in OtherOps : IsOp(Do(op))
  /\ \A st : IsScan(st) \/ IsInsert(st) => IsOp(Free(st)) /\ IsOp(Blocked(st))
BY DEF IsOp, OtherOps, Send, Recv, Do, Free, Blocked

\* Every scan the programs write down is well-typed.
LEMMA ScanTypes ==
  ASSUME NEW w \in Cond
  PROVE  /\ IsScan(ForUpdate(w)) /\ IsScan(Add1(w)) /\ IsScan(Set5(w))
         /\ IsScan(ShareMode(w, TRUE)) /\ IsScan(ShareMode(w, FALSE))
         /\ \A n \in Nat : IsScan(Delete(w, n))
<1>1. IsScan(ForUpdate(w)) /\ IsScan(Add1(w)) /\ IsScan(Set5(w))
  BY DEF IsScan, Scan, NoLimit, ForUpdate, Add1, Set5
<1>2. IsScan(ShareMode(w, TRUE)) /\ IsScan(ShareMode(w, FALSE))
  BY DEF IsScan, Scan, NoLimit, ShareMode
<1>3. \A n \in Nat : IsScan(Delete(w, n))
  BY DEF IsScan, Scan, Delete
<1> QED BY <1>1, <1>2, <1>3

\* So is every insert.
LEMMA InsertTypes ==
  \A id, c \in 0 .. 999, d \in Nat : IsInsert(Insert(id, c, d))
BY DEF IsInsert, Insert

\* The conditions that the scripts use.
LEMMA CondTypes ==
  /\ Eq("p", 0) \in Cond /\ Eq("p", 5) \in Cond /\ Eq("p", 7) \in Cond /\ Eq("p", 10) \in Cond
  /\ Eq("p", 15) \in Cond /\ Eq("p", 20) \in Cond /\ Eq("p", 123) \in Cond
  /\ Eq("c", 5) \in Cond /\ Eq("c", 10) \in Cond /\ Eq("c", 15) \in Cond
  /\ Between("p", 10, TRUE, 11, FALSE) \in Cond /\ Between("c", 10, TRUE, 11, FALSE) \in Cond
  /\ Between("p", 10, FALSE, 15, TRUE) \in Cond /\ All \in Cond
<1>1. All \in Cond
  BY DEF All, Between, Cond
<1>2. /\ Between("p", 10, TRUE, 11, FALSE) \in Cond /\ Between("c", 10, TRUE, 11, FALSE) \in Cond
      /\ Between("p", 10, FALSE, 15, TRUE) \in Cond
  BY DEF Between, Cond
<1>3. /\ Eq("p", 0) \in Cond /\ Eq("p", 5) \in Cond /\ Eq("p", 7) \in Cond /\ Eq("p", 10) \in Cond
      /\ Eq("p", 15) \in Cond /\ Eq("p", 20) \in Cond /\ Eq("p", 123) \in Cond
  BY DEF Eq, Between, Cond
<1>4. Eq("c", 5) \in Cond /\ Eq("c", 10) \in Cond /\ Eq("c", 15) \in Cond
  BY DEF Eq, Between, Cond
<1> QED BY <1>1, <1>2, <1>3, <1>4

\* So is the phantom program's SELECT.
LEMMA PhantomTypes == IsScan(Phantoms)
BY CondTypes DEF Phantoms, IsScan, Scan, NoLimit

\* A script of a few operations is well-typed when each of them is.
LEMMA Scripts ==
  /\ IsScript(<<>>)
  /\ \A a, b : IsOp(a) /\ IsOp(b) => IsScript(<<a, b>>)
  /\ \A a, b, c : IsOp(a) /\ IsOp(b) /\ IsOp(c) => IsScript(<<a, b, c>>)
  /\ \A a, b, c, d : IsOp(a) /\ IsOp(b) /\ IsOp(c) /\ IsOp(d) => IsScript(<<a, b, c, d>>)
  /\ \A a, b, c, d, e : IsOp(a) /\ IsOp(b) /\ IsOp(c) /\ IsOp(d) /\ IsOp(e)
                           => IsScript(<<a, b, c, d, e>>)
  /\ \A a, b, c, d, e, f, g, h, i, j :
        IsOp(a) /\ IsOp(b) /\ IsOp(c) /\ IsOp(d) /\ IsOp(e) /\ IsOp(f) /\ IsOp(g) /\ IsOp(h)
        /\ IsOp(i) /\ IsOp(j) => IsScript(<<a, b, c, d, e, f, g, h, i, j>>)
BY DEF IsScript

\* The prepared tables are tables.
LEMMA TableTypes == Table(Six, Row) /\ Table(Seven, Row) /\ Table(<<>>, Row)
<1>1. Table(Six, Row)
  BY DEF Table, Six, Row
<1>2. Table(Seven, Row)
  BY DEF Table, Seven, Six, Put, Row
<1>3. Table(<<>>, Row)
  BY DEF Table
<1> QED BY <1>1, <1>2, <1>3

\* A program is well-typed when its table and its three scripts are.
LEMMA ProgramTypes ==
  ASSUME NEW name, NEW wg, NEW data, NEW a, NEW b, NEW c,
         Table(data, Row), IsScript(a), IsScript(b), IsScript(c)
  PROVE  WellTyped(Program(name, wg, data, a, b, c))
BY SessionNames DEF WellTyped, Program

\* An SQL operation is well-typed when its statement is.
LEMMA SqlTypes ==
  ASSUME NEW w \in Cond
  PROVE  /\ IsOp(Free(Add1(w))) /\ IsOp(Blocked(Add1(w))) /\ IsOp(Free(Set5(w)))
         /\ IsOp(Free(ForUpdate(w))) /\ IsOp(Free(ShareMode(w, TRUE))) /\ IsOp(Free(ShareMode(w, FALSE)))
         /\ IsOp(Free(Delete(w, NoLimit))) /\ IsOp(Free(Delete(w, 2)))
<1>1. NoLimit \in Nat /\ 2 \in Nat
  BY DEF NoLimit
<1> QED BY <1>1, ScanTypes, OpTypes

\* The programs of the directory, one by one.
LEMMA CaseTypes == \A p \in Programs : WellTyped(p)
<1>1. WellTyped(Case01)
  <2>1. IsOp(Free(Add1(Eq("p", 7))))
    BY SqlTypes, CondTypes
  <2>2. IsOp(Blocked(Insert(8, 8, 8)))
    BY DEF IsOp, Free, Blocked, IsInsert, Insert
  <2>3. /\ IsOp(Free(Add1(Eq("p", 5))))
        /\ IsOp(Free(Add1(Eq("p", 10))))
    BY SqlTypes, CondTypes
  <2> QED BY <2>1, <2>2, <2>3, OpTypes, Scripts, TableTypes, ProgramTypes DEF Case01, OtherOps
<1>2. WellTyped(Case03)
  <2>1. IsOp(Free(ForUpdate(Between("p", 10, TRUE, 11, FALSE))))
    BY SqlTypes, CondTypes
  <2>2. /\ IsOp(Free(Insert(8, 8, 8)))
        /\ IsOp(Blocked(Insert(13, 13, 13)))
    BY DEF IsOp, Free, Blocked, IsInsert, Insert
  <2>3. IsOp(Free(Add1(Eq("p", 15))))
    BY SqlTypes, CondTypes
  <2> QED BY <2>1, <2>2, <2>3, OpTypes, Scripts, TableTypes, ProgramTypes DEF Case03, OtherOps
<1>3. WellTyped(Case04)
  <2>1. IsOp(Free(ForUpdate(Between("c", 10, TRUE, 11, FALSE))))
    BY SqlTypes, CondTypes
  <2>2. /\ IsOp(Free(Insert(16, 16, 16)))
        /\ IsOp(Blocked(Insert(8, 8, 8)))
    BY DEF IsOp, Free, Blocked, IsInsert, Insert
  <2>3. /\ IsOp(Free(Add1(Eq("c", 5))))
        /\ IsOp(Blocked(Add1(Eq("c", 15))))
    BY SqlTypes, CondTypes
  <2> QED BY <2>1, <2>2, <2>3, OpTypes, Scripts, TableTypes, ProgramTypes DEF Case04, OtherOps
<1>4. WellTyped(Case05)
  <2>1. IsOp(Free(ForUpdate(Between("p", 10, FALSE, 15, TRUE))))
    BY SqlTypes, CondTypes
  <2>2. IsOp(Free(Add1(Eq("p", 20))))
    BY SqlTypes, CondTypes
  <2>3. IsOp(Free(Insert(16, 16, 16)))
    BY DEF IsOp, Free, Blocked, IsInsert, Insert
  <2> QED BY <2>1, <2>2, <2>3, OpTypes, Scripts, TableTypes, ProgramTypes DEF Case05, OtherOps
<1>5. WellTyped(Case06)
  <2>1. IsOp(Free(Delete(Eq("c", 10), NoLimit)))
    BY SqlTypes, CondTypes
  <2>2. /\ IsOp(Free(Insert(16, 16, 16)))
        /\ IsOp(Free(Insert(13, 50, 13)))
        /\ IsOp(Blocked(Insert(12, 12, 12)))
    BY DEF IsOp, Free, Blocked, IsInsert, Insert
  <2>3. IsOp(Free(Add1(Eq("c", 15))))
    BY SqlTypes, CondTypes
  <2> QED BY <2>1, <2>2, <2>3, OpTypes, Scripts, TableTypes, ProgramTypes DEF Case06, OtherOps
<1>6. WellTyped(Case07)
  <2>1. IsOp(Free(Delete(Eq("c", 10), 2)))
    BY SqlTypes, CondTypes
  <2>2. /\ IsOp(Free(Insert(16, 16, 16)))
        /\ IsOp(Free(Insert(12, 12, 12)))
    BY DEF IsOp, Free, Blocked, IsInsert, Insert
  <2> QED BY <2>1, <2>2, OpTypes, Scripts, TableTypes, ProgramTypes DEF Case07, OtherOps
<1>7. WellTyped(Case08)
  <2>1. IsOp(Free(ShareMode(Eq("c", 10), TRUE)))
    BY SqlTypes, CondTypes
  <2>2. IsOp(Free(Insert(8, 8, 8)))
    BY DEF IsOp, Free, IsInsert, Insert
  <2>3. IsOp(Blocked(Add1(Eq("c", 10))))
    BY SqlTypes, CondTypes
  <2> QED BY <2>1, <2>3, <2>2, OpTypes, Scripts, TableTypes, ProgramTypes DEF Case08, OtherOps
<1>8. WellTyped(PhantomRead)
  <2>1. IsOp(Free(Phantoms))
    BY OpTypes, PhantomTypes
  <2>2. IsOp(Free(Set5(Eq("p", 0))))
    BY SqlTypes, CondTypes
  <2>3. IsOp(Free(Insert(1, 1, 5)))
    BY DEF IsOp, Free, Blocked, IsInsert, Insert
  <2> QED BY <2>1, <2>2, <2>3, OpTypes, Scripts, TableTypes, ProgramTypes DEF PhantomRead, OtherOps
<1>9. WellTyped(MetadataDemo)
  <2>1. IsOp(Free(Add1(Eq("p", 123))))
    BY SqlTypes, CondTypes
  <2> QED BY <2>1, OpTypes, Scripts, TableTypes, ProgramTypes DEF MetadataDemo, OtherOps
<1>10. \A p \in Case02 : WellTyped(p)
  <2> DEFINE five == Eq("c", 5)
             updateB == Add1(Eq("p", 5))
  <2>1. /\ IsOp(Free(ShareMode(five, TRUE))) /\ IsOp(Free(ShareMode(five, FALSE)))
        /\ IsOp(Free(ForUpdate(five))) /\ IsOp(Free(updateB)) /\ IsOp(Blocked(updateB))
    BY SqlTypes, CondTypes
  <2>2. IsOp(Blocked(Insert(7, 7, 7))) /\ IsOp(Blocked(Insert(2, 2, 2)))
    BY DEF IsOp, Blocked, IsInsert, Insert
  <2>3. \A a, b, c : IsOp(Free(a)) /\ IsOp(b) /\ IsOp(c) => WellTyped(Case02With(a, b, c))
    BY OpTypes, Scripts, TableTypes, ProgramTypes DEF Case02With, OtherOps
  <2> QED BY <2>1, <2>2, <2>3, Zenon DEF Case02
<1> QED BY <1>1, <1>2, <1>3, <1>4, <1>5, <1>6, <1>7, <1>8, <1>9, <1>10 DEF Programs

-----------------------------------------------------------------------------
(* Types.                                                                  *)

Stages == {"idle", "index", "row", "insP", "insC", "end"}

\* The session stands at a statement, whether or not its goroutine still runs.
InSql(s) == pc[s] <= Len(Script(s)) /\ Op(s).op = "sql"

LockOK(l) == l.s \in Sessions /\ l.mode \in {"S", "X"} /\ l.kind \in {"rec", "gap", "nextkey"}

\* The statement under way is the one at pc, and it is of the kind its stage says.
StageOK(s) ==
  /\ at[s] = [stage |-> at[s].stage, rec |-> at[s].rec, hits |-> at[s].hits]
  /\ at[s].stage \in Stages
  /\ at[s].stage # "idle" => InSql(s)
  /\ at[s].stage \in {"index", "row"} => IsScan(Op(s).st)
  /\ at[s].stage \in {"insP", "insC"} => IsInsert(Op(s).st)

DataOK ==
  /\ Table(rows, Row)
  /\ undo = [s \in Sessions |-> undo[s]] /\ \A s \in Sessions : Table(undo[s], UndoRow)
  /\ \A l \in locks : LockOK(l)

ControlOK ==
  /\ WellTyped(prog)
  /\ pc \in [Sessions -> Nat] /\ \A s \in Sessions : pc[s] \in 1 .. Len(Script(s)) + 1
  /\ tableLock \in Sessions \cup {NoSession}
  /\ waiting \subseteq Sessions /\ dropped \subseteq Sessions
  /\ err \in [Sessions -> Errors \cup {"", "killed"}]
  /\ ended \in Errors \cup {"no", "returned"}

TypeInv == DataOK /\ ControlOK /\ at = [s \in Sessions |-> at[s]] /\ \A s \in Sessions : StageOK(s)

\* The invariant has the types that TypeOK asks for.
LEMMA TypeInvImplies == TypeInv => TypeOK
<1> SUFFICES ASSUME TypeInv
             PROVE  TypeOK
  OBVIOUS
<1>1. pc \in [Sessions -> 1 .. 11]
  <2>1. \A s \in Sessions : Len(Script(s)) \in 0 .. 10 /\ pc[s] \in 1 .. Len(Script(s)) + 1
    BY DEF TypeInv, ControlOK, WellTyped, IsScript, Script
  <2>2. ASSUME NEW s \in Sessions PROVE pc[s] \in 1 .. 11
    <3> DEFINE n == Len(Script(s))
    <3>1. n \in 0 .. 10 /\ pc[s] \in 1 .. n + 1
      BY <2>1
    <3> HIDE DEF n
    <3> QED BY <3>1
  <2> QED BY <2>2 DEF TypeInv, ControlOK
<1>2. \A id \in DOMAIN rows : rows[id].c >= 0 /\ rows[id].d >= 0
  <2>1. \A id \in DOMAIN rows : rows[id] \in Row
    BY DEF TypeInv, DataOK, Table
  <2> QED BY <2>1 DEF Row
<1>3. \A s \in Sessions : err[s] \in {"", "killed"} \cup Errors
  BY DEF TypeInv, ControlOK
<1> QED BY <1>1, <1>2, <1>3 DEF TypeInv, DataOK, ControlOK, TypeOK, LockOK

IsId(k) == k \in 0 .. 999

\* A table stays one when a row is added or changed.
LEMMA PutTable ==
  ASSUME NEW R, NEW f, Table(f, R), NEW k, IsId(k), NEW v, v \in R
  PROVE  Table(Put(f, k, v), R) /\ Table(PutNew(f, k, v), R)
BY DEF Table, Put, PutNew, IsId

\* The same for a row that is there.
LEMMA ChangeTable ==
  ASSUME NEW R, NEW f, Table(f, R), NEW k, NEW v, v \in R
  PROVE  Table([f EXCEPT ![k] = v], R)
<1> DEFINE g == [f EXCEPT ![k] = v]
<1>1. f \in [DOMAIN f -> R] /\ DOMAIN f \subseteq 0 .. 999
  BY SMT DEF Table
<1>2. g \in [DOMAIN f -> R] /\ DOMAIN g = DOMAIN f
  BY <1>1
<1> HIDE DEF g
<1>3. DOMAIN g \subseteq 0 .. 999 /\ g \in [DOMAIN g -> R]
  BY <1>1, <1>2
<1>4. Table(g, R)
  BY <1>3 DEF Table
<1> QED BY <1>4 DEF g

\* A rollback leaves a table behind.
LEMMA UndoneTable ==
  ASSUME NEW u, Table(u, UndoRow), Table(rows, Row)
  PROVE  Table(Undone(u), Row)
BY DEF Table, Undone, UndoRow

\* Every program starts well-typed.
LEMMA InitTypes == Init => TypeInv
<1> SUFFICES ASSUME Init
             PROVE  TypeInv
  OBVIOUS
<1>1. WellTyped(prog)
  BY CaseTypes DEF Init
<1>2. DataOK
  <2>1. Table(rows, Row)
    BY <1>1 DEF Init, InitDB, WellTyped
  <2>2. Table(<<>>, UndoRow)
    BY DEF Table
  <2> QED BY <2>1, <2>2 DEF Init, InitDB, DataOK
<1>3. ControlOK
  <2>1. \A s \in Sessions : Len(Script(s)) \in 0 .. 10
    BY <1>1 DEF WellTyped, IsScript, Script
  <2>2. ASSUME NEW s \in Sessions PROVE 1 \in 1 .. Len(Script(s)) + 1
    <3>1. Len(Script(s)) \in 0 .. 10
      BY <2>1
    <3> QED BY <3>1
  <2> QED BY <1>1, <2>2 DEF Init, ControlOK, NoSession
<1> QED BY <1>2, <1>3 DEF Init, InitDB, TypeInv, StageOK, Idle, Stages

\* A step of the scripts of S leaves the rest of the control alone.
LEMMA StepControl ==
  ASSUME TypeInv, NEW S \in SUBSET Sessions, \A s \in S : Running(s), Step(S), prog' = prog
  PROVE  pc' \in [Sessions -> Nat] /\ \A s \in Sessions : pc'[s] \in 1 .. Len(Script(s)') + 1
<1>1. \A s \in Sessions : Len(Script(s)) \in 0 .. 10 /\ pc[s] \in 1 .. Len(Script(s)) + 1
  BY DEF TypeInv, ControlOK, WellTyped, IsScript, Script
<1>2. pc \in [Sessions -> Nat] /\ pc' = [s \in Sessions |-> IF s \in S THEN pc[s] + 1 ELSE pc[s]]
  BY DEF TypeInv, ControlOK, Step
<1>3. \A s \in S : pc[s] <= Len(Script(s))
  BY DEF Running
<1>4. ASSUME NEW s \in Sessions PROVE pc'[s] \in Nat /\ pc'[s] \in 1 .. Len(Script(s)) + 1
  <2> DEFINE n == Len(Script(s))
  <2>1. n \in 0 .. 10 /\ pc[s] \in 1 .. n + 1 /\ pc[s] \in Nat /\ (s \in S => pc[s] <= n)
    BY <1>1, <1>2, <1>3
  <2>2. pc'[s] = IF s \in S THEN pc[s] + 1 ELSE pc[s]
    BY <1>2
  <2> HIDE DEF n
  <2>3. pc'[s] \in Nat /\ pc'[s] \in 1 .. n + 1
    BY <2>1, <2>2
  <2> QED BY <2>3 DEF n
<1>5. \A s \in Sessions : Script(s)' = Script(s)
  BY DEF Script
<1> QED BY <1>2, <1>4, <1>5

\* A session that is in no statement may go on in its script.
LEMMA StepStages ==
  ASSUME TypeInv, NEW S \in SUBSET Sessions, \A s \in S : at'[s].stage = "idle", Step(S), prog' = prog,
         \A s \in Sessions : at'[s] = at[s] \/ (s \in S /\ at'[s] = Idle)
  PROVE  \A s \in Sessions : StageOK(s)'
<1>1. SUFFICES ASSUME NEW s \in Sessions
               PROVE  StageOK(s)'
  OBVIOUS
<1>2. StageOK(s) /\ Script(s)' = Script(s) /\ (s \notin S => pc'[s] = pc[s])
  BY DEF TypeInv, Step, Script
<1>3. CASE s \in S
  BY <1>2, <1>3 DEF StageOK, Idle, Stages
<1>4. CASE s \notin S
  BY <1>2, <1>4 DEF StageOK, InSql, Op
<1> QED BY <1>3, <1>4

\* Locks are given up, and what there is to undo is kept or forgotten.
LEMMA DataShrinks ==
  ASSUME DataOK, rows' = rows, locks' \subseteq locks,
         undo' = undo \/ \E s \in Sessions : undo' = [undo EXCEPT ![s] = <<>>]
  PROVE  DataOK'
<1>1. Table(<<>>, UndoRow)
  BY DEF Table
<1>2. undo' = [s \in Sessions |-> undo'[s]] /\ \A s \in Sessions : Table(undo'[s], UndoRow)
  <2>1. CASE undo' = undo
    BY <2>1 DEF DataOK
  <2>2. ASSUME NEW s \in Sessions, undo' = [undo EXCEPT ![s] = <<>>]
        PROVE  /\ undo' = [r \in Sessions |-> undo'[r]]
               /\ \A r \in Sessions : Table(undo'[r], UndoRow)
    BY <2>2, <1>1 DEF DataOK
  <2> QED BY <2>1, <2>2
<1>3. Table(rows', Row) /\ \A l \in locks' : LockOK(l)
  BY DEF DataOK
<1> QED BY <1>2, <1>3 DEF DataOK, LockOK

\* Everything a program does but its statements and its end.
Quiet(s) ==
  \/ \E r \in Sessions : Rendezvous(s, r)
  \/ BeginTx(s) \/ SetIsolation(s) \/ CommitTx(s)
  \/ LockTables(s) \/ UnlockTables(s)
  \/ CondWait(s) \/ Broadcast(s) \/ Woken(s) \/ Select(s)

\* What the steps without a statement have in common.
LEMMA QuietMoves ==
  ASSUME TypeInv, NEW s \in Sessions, Quiet(s)
  PROVE  \E S \in SUBSET Sessions : Step(S) /\ \A t \in S : Running(t) /\ Op(t).op # "sql"
<1>1. CASE \E r \in Sessions : Rendezvous(s, r)
  <2>1. PICK r \in Sessions : Rendezvous(s, r)
    BY <1>1
  <2> WITNESS {s, r} \in SUBSET Sessions
  <2> QED BY <2>1 DEF Rendezvous, At
<1>2. CASE ~ \E r \in Sessions : Rendezvous(s, r)
  <2> WITNESS {s} \in SUBSET Sessions
  <2> QED
    BY <1>2 DEF Quiet, At, BeginTx, SetIsolation, CommitTx, LockTables, UnlockTables, CondWait,
                Broadcast, Woken, Select
<1> QED BY <1>1, <1>2

\* They keep the types.
LEMMA QuietTypes ==
  ASSUME TypeInv, NEW s \in Sessions, Quiet(s)
  PROVE  TypeInv'
<1> USE DEF Quiet
<1>1. /\ at' = at /\ prog' = prog /\ err' = err /\ ended' = ended /\ dropped' = dropped
  BY DEF Rendezvous, BeginTx, SetIsolation, CommitTx, LockTables, UnlockTables, CondWait, Broadcast,
         Woken, Select, Begin, SetReadCommitted, Commit, dbVars
<1>2. PICK S \in SUBSET Sessions : Step(S) /\ \A t \in S : Running(t) /\ Op(t).op # "sql"
  BY QuietMoves
<1>3. \A t \in S : at[t].stage = "idle"
  BY <1>2 DEF TypeInv, StageOK, InSql
<1>4. at' = [t \in Sessions |-> at'[t]] /\ \A t \in Sessions : StageOK(t)'
  BY <1>1, <1>2, <1>3, StepStages DEF TypeInv
<1>5. DataOK'
  <2>1. CASE UNCHANGED <<rows, locks, undo>>
    BY <2>1, DataShrinks DEF TypeInv
  <2>2. CASE CommitTx(s)
    BY <2>2, DataShrinks DEF TypeInv, CommitTx, Commit, LocksAfter
  <2> QED
    BY <2>1, <2>2 DEF Rendezvous, BeginTx, SetIsolation, LockTables, UnlockTables, CondWait, Broadcast,
                      Woken, Select, Begin, SetReadCommitted, dbVars
<1>6. ControlOK'
  <2>1. tableLock' \in Sessions \cup {NoSession} /\ waiting' \subseteq Sessions
    BY DEF TypeInv, ControlOK, Rendezvous, BeginTx, SetIsolation, CommitTx, LockTables, UnlockTables,
           CondWait, Broadcast, Woken, Select
  <2> QED BY <2>1, <1>1, <1>2, StepControl DEF TypeInv, ControlOK, WellTyped
<1> QED BY <1>4, <1>5, <1>6 DEF TypeInv

\* The stage of one session's statement changes, and nothing else of the control.
LEMMA StageMoves ==
  ASSUME TypeInv, NEW s \in Sessions, NEW a, at' = [at EXCEPT ![s] = a],
         a = [stage |-> a.stage, rec |-> a.rec, hits |-> a.hits], a.stage \in Stages,
         InSql(s), a.stage \in {"index", "row"} => IsScan(Op(s).st),
         a.stage \in {"insP", "insC"} => IsInsert(Op(s).st), UNCHANGED <<prog, pc>>
  PROVE  at' = [t \in Sessions |-> at'[t]] /\ \A t \in Sessions : StageOK(t)'
<1>1. at' = [t \in Sessions |-> IF t = s THEN a ELSE at[t]]
  BY DEF TypeInv
<1>2. SUFFICES ASSUME NEW t \in Sessions
               PROVE  StageOK(t)'
  BY <1>1
<1>3. StageOK(t) /\ Op(t)' = Op(t) /\ Script(t)' = Script(t) /\ pc'[t] = pc[t]
  BY DEF TypeInv, Op, Script
<1>4. CASE t = s
  BY <1>1, <1>3, <1>4 DEF StageOK, InSql
<1>5. CASE t # s
  BY <1>1, <1>3, <1>5 DEF StageOK, InSql
<1> QED BY <1>4, <1>5

\* EXCEPT on a statement's record, written out.
LEMMA RecordChanges ==
  ASSUME NEW x, NEW y, NEW z, NEW g
  PROVE  [[stage |-> x, rec |-> y, hits |-> z] EXCEPT !.stage = g] = [stage |-> g, rec |-> y, hits |-> z]
OBVIOUS

\* The same for one field of one session.
LEMMA StageEnds ==
  ASSUME TypeInv, NEW s \in Sessions, NEW g, at' = [at EXCEPT ![s].stage = g]
  PROVE  at' = [at EXCEPT ![s] = [stage |-> g, rec |-> at[s].rec, hits |-> at[s].hits]]
<1>1. PICK x, y, z : at[s] = [stage |-> x, rec |-> y, hits |-> z]
  BY DEF TypeInv, StageOK
<1>2. [at[s] EXCEPT !.stage = g] = [stage |-> g, rec |-> at[s].rec, hits |-> at[s].hits]
  <2>1. at[s].rec = y /\ at[s].hits = z
    BY <1>1
  <2> QED BY <1>1, <2>1, RecordChanges
<1>3. at' = [at EXCEPT ![s] = [at[s] EXCEPT !.stage = g]]
  OBVIOUS
<1> QED BY <1>2, <1>3

\* A script's current statement is a scan or an insert.
LEMMA OpAt ==
  ASSUME TypeInv, NEW s \in Sessions, InSql(s)
  PROVE  IsScan(Op(s).st) \/ IsInsert(Op(s).st)
<1>1. IsScript(Script(s)) /\ pc[s] \in 1 .. Len(Script(s)) + 1 /\ pc[s] <= Len(Script(s))
  BY DEF TypeInv, ControlOK, WellTyped, Script, InSql
<1>2. IsScript(Script(s)) /\ pc[s] \in 1 .. Len(Script(s))
  <2> DEFINE n == Len(Script(s))
  <2>1. n \in 0 .. 10 /\ pc[s] \in 1 .. n + 1 /\ pc[s] <= n
    BY <1>1 DEF IsScript
  <2> HIDE DEF n
  <2>2. pc[s] \in 1 .. n
    BY <2>1
  <2> QED BY <1>1, <2>2 DEF n
<1> QED BY <1>2 DEF IsScript, IsOp, OtherOps, Op, InSql

\* One that is not an INSERT is a scan.
LEMMA NoInsert ==
  ASSUME TypeInv, NEW s \in Sessions, InSql(s), Op(s).st.do # "insert"
  PROVE  IsScan(Op(s).st)
<1>1. IsScan(Op(s).st) \/ IsInsert(Op(s).st)
  BY OpAt
<1>2. IsInsert(Op(s).st) => Op(s).st.do = "insert"
  BY InsertDoes, ZenonT(60)
<1> QED BY <1>1, <1>2

\* A statement under way asks for a well-typed lock.
LEMMA RequestTypes ==
  ASSUME TypeInv, NEW s \in Sessions, InSql(s), at[s].stage \in {"index", "row"}
  PROVE  LockOK(Request(s, Op(s).st))
<1>1. IsScan(Op(s).st)
  BY DEF TypeInv, StageOK
<1> QED BY <1>1 DEF LockOK, Request, Lock, ScanKind, IsScan

\* Reaching a row keeps the types.
LEMMA ReachTypes ==
  ASSUME TypeInv, NEW s \in Sessions, InSql(s), at[s].stage \in {"index", "row"},
         NEW req, LockOK(req), Reach(s, Op(s).st, req), UNCHANGED <<prog, pc>>
  PROVE  DataOK' /\ at' = [t \in Sessions |-> at'[t]] /\ \A t \in Sessions : StageOK(t)'
<1> DEFINE st   == Op(s).st
           id   == at[s].rec[2]
           hit  == Matches(st, id)
           new  == CASE st.do = "delete" -> [rows[id] EXCEPT !.del = TRUE]
                     [] st.do = "add1"   -> [rows[id] EXCEPT !.d = @ + 1]
                     [] st.do = "set5"   -> [rows[id] EXCEPT !.d = 5]
                     [] OTHER            -> rows[id]
<1>1. IsScan(st)
  BY DEF TypeInv, StageOK
<1>2. hit => id \in 0 .. 999 /\ rows[id] \in Row
  <2>1. Table(rows, Row)
    BY DEF TypeInv, DataOK
  <2> HIDE DEF st, id
  <2> QED BY <2>1 DEF Matches, Table
<1>3. hit => new \in Row
  <2>1. ASSUME NEW r \in Row, NEW b \in BOOLEAN PROVE [r EXCEPT !.del = b] \in Row
    BY DEF Row
  <2>2. ASSUME NEW r \in Row, NEW n \in Nat PROVE [r EXCEPT !.d = n] \in Row
    BY DEF Row
  <2>3. ASSUME NEW r \in Row PROVE r.d + 1 \in Nat /\ 5 \in Nat /\ TRUE \in BOOLEAN
    BY DEF Row
  <2>4. ASSUME NEW r \in Row
        PROVE  [r EXCEPT !.del = TRUE] \in Row /\ [r EXCEPT !.d = r.d + 1] \in Row /\ [r EXCEPT !.d = 5] \in Row
    BY <2>1, <2>2, <2>3, Zenon
  <2> QED BY <1>2, <2>4, ZenonT(60)
<1>4. /\ rows' = IF hit THEN [rows EXCEPT ![id] = new] ELSE rows
      /\ undo' = IF hit /\ new # rows[id] THEN [undo EXCEPT ![s] = PutNew(@, id, rows[id])] ELSE undo
  BY Zenon DEF Reach
<1>5. locks' \subseteq locks \cup {req}
  <2>1. locks' = locks \/ locks' = locks \cup {req}
    BY DEF Reach
  <2> QED BY <2>1
<1>6. \E a : /\ at' = [at EXCEPT ![s] = a] /\ a.stage \in {"end", "index"}
              /\ a = [stage |-> a.stage, rec |-> a.rec, hits |-> a.hits]
  <2>1. \E x, y, z : at' = [at EXCEPT ![s] = [stage |-> x, rec |-> y, hits |-> z]] /\ x \in {"end", "index"}
    <3> DEFINE hits == at[s].hits \cup (IF hit THEN {id} ELSE {})
               r    == at[s].rec
               done == Cardinality(hits) = st.limit \/ (st.w.idx = "p" /\ st.w.hiIn /\ r[1] = st.w.hi)
    <3>1. at' = [at EXCEPT ![s] = IF done THEN [stage |-> "end", rec |-> r, hits |-> hits]
                                  ELSE [stage |-> "index", rec |-> Successor(st.w.idx, r), hits |-> hits]]
      BY Zenon DEF Reach
    <3> QED BY <3>1
  <2>2. PICK x, y, z : at' = [at EXCEPT ![s] = [stage |-> x, rec |-> y, hits |-> z]] /\ x \in {"end", "index"}
    BY <2>1
  <2> WITNESS [stage |-> x, rec |-> y, hits |-> z]
  <2> QED BY <2>2
<1> HIDE DEF hit, id, new, st
<1>7. Table(rows', Row)
  <2>1. CASE hit
    <3>1. rows' = [rows EXCEPT ![id] = new] /\ Table(rows, Row)
      BY <1>4, <2>1 DEF TypeInv, DataOK
    <3>2. new \in Row
      BY <1>3, <2>1
    <3> QED BY <3>1, <3>2, ChangeTable, Zenon
  <2>2. CASE ~hit
    BY <1>4, <2>2 DEF TypeInv, DataOK
  <2> QED BY <2>1, <2>2
<1>8. undo' = [t \in Sessions |-> undo'[t]] /\ \A t \in Sessions : Table(undo'[t], UndoRow)
  <2>1. hit => Table(PutNew(undo[s], id, rows[id]), UndoRow)
    <3>1. hit => rows[id] \in UndoRow
      BY <1>2 DEF UndoRow
    <3>2. Table(undo[s], UndoRow) /\ (hit => IsId(id))
      BY <1>2 DEF TypeInv, DataOK, IsId
    <3> QED BY <3>1, <3>2, PutTable, Zenon
  <2> QED BY <1>4, <2>1 DEF TypeInv, DataOK
<1>9. \A l \in locks' : LockOK(l)
  BY <1>5 DEF TypeInv, DataOK
<1>10. DataOK'
  BY <1>7, <1>8, <1>9 DEF DataOK, LockOK
<1>11. PICK a : /\ at' = [at EXCEPT ![s] = a] /\ a.stage \in {"end", "index"}
               /\ a = [stage |-> a.stage, rec |-> a.rec, hits |-> a.hits]
  BY <1>6
<1>12. at' = [t \in Sessions |-> at'[t]] /\ \A t \in Sessions : StageOK(t)'
  BY <1>1, <1>11, StageMoves DEF Stages, st
<1> QED BY <1>10, <1>12

\* The locks that a split gap hands on are well-typed.
LEMMA InheritedTypes ==
  ASSUME NEW L, \A l \in L : LockOK(l), NEW idx, NEW succ, NEW k, L = locks
  PROVE  \A l \in Inherited(idx, succ, k) : LockOK(l)
<1> SUFFICES ASSUME NEW m \in locks
             PROVE  LockOK([m EXCEPT !.rec = k, !.kind = "gap"])
  BY DEF Inherited
<1>1. LockOK(m)
  OBVIOUS
<1> QED BY <1>1 DEF LockOK

\* One lock of a statement, granted.
LEMMA ProceedTypes ==
  ASSUME TypeInv, NEW s \in Sessions, InSql(s), Proceed(s, Op(s).st), UNCHANGED <<prog, pc>>
  PROVE  DataOK' /\ at' = [t \in Sessions |-> at'[t]] /\ \A t \in Sessions : StageOK(t)'
<1> DEFINE st  == Op(s).st
           req == Request(s, st)
           g   == at[s].stage
<1>1. ScanIndex(s, st, req) \/ ScanRow(s, st, req) \/ InsertPrimary(s, st, req) \/ InsertSecondary(s, st, req)
  BY DEF Proceed
<1>2. /\ g \in {"index", "row"} => IsScan(st) /\ LockOK(req)
      /\ g \in {"insP", "insC"} => IsInsert(st)
  BY RequestTypes DEF TypeInv, StageOK
<1>3. /\ Table(rows, Row) /\ \A l \in locks : LockOK(l)
      /\ undo = [t \in Sessions |-> undo[t]] /\ \A t \in Sessions : Table(undo[t], UndoRow)
  BY DEF TypeInv, DataOK
<1> HIDE DEF st, req
<1>4. CASE ScanIndex(s, st, req) /\ Reach(s, st, req)
  BY <1>2, <1>4, ReachTypes DEF ScanIndex, st
<1>5. CASE ScanRow(s, st, req)
  BY <1>2, <1>5, ReachTypes DEF ScanRow, st
<1>6. CASE ScanIndex(s, st, req) /\ ~Reach(s, st, req)
  <2>1. PICK h \in {"end", "row"} : at' = [at EXCEPT ![s].stage = h]
    BY <1>6 DEF ScanIndex
  <2>2. at' = [at EXCEPT ![s] = [stage |-> h, rec |-> at[s].rec, hits |-> at[s].hits]]
    BY <2>1, StageEnds
  <2>3. IsScan(st) /\ LockOK(req)
    BY <1>2, <1>6 DEF ScanIndex
  <2>4. at' = [t \in Sessions |-> at'[t]] /\ \A t \in Sessions : StageOK(t)'
    BY <2>2, <2>3, StageMoves DEF Stages, st
  <2>5. DataOK'
    <3>1. rows' = rows /\ undo' = undo /\ locks' \subseteq locks \cup {req}
      BY <1>6 DEF ScanIndex
    <3> QED BY <1>3, <2>3, <3>1 DEF DataOK, LockOK
  <2> QED BY <2>4, <2>5
<1>7. CASE InsertPrimary(s, st, req)
  <2>1. IsInsert(st)
    BY <1>2, <1>7 DEF InsertPrimary
  <2>2. at' = [at EXCEPT ![s] = [stage |-> "insC", rec |-> at[s].rec, hits |-> at[s].hits]]
    BY <1>7, StageEnds DEF InsertPrimary
  <2>3. at' = [t \in Sessions |-> at'[t]] /\ \A t \in Sessions : StageOK(t)'
    BY <2>1, <2>2, StageMoves DEF Stages, st
  <2>4. Table(rows', Row)
    <3>1. [c |-> st.c, d |-> st.d, del |-> FALSE, sec |-> FALSE] \in Row /\ IsId(st.id)
      BY <2>1 DEF IsInsert, Row, IsId
    <3>2. rows' = Put(rows, st.id, [c |-> st.c, d |-> st.d, del |-> FALSE, sec |-> FALSE])
      BY <1>7 DEF InsertPrimary
    <3>3. Table(rows, Row)
      BY <1>3
    <3> QED BY <3>1, <3>2, <3>3, PutTable, Zenon
  <2>5. undo' = [t \in Sessions |-> undo'[t]] /\ \A t \in Sessions : Table(undo'[t], UndoRow)
    <3>1. undo' = [undo EXCEPT ![s] = PutNew(undo[s], st.id, NoRow)] /\ IsId(st.id)
      BY <1>7, <2>1 DEF InsertPrimary, IsInsert, IsId
    <3>2. NoRow \in UndoRow
      BY DEF UndoRow
    <3>3. Table(undo[s], UndoRow)
      BY <1>3
    <3>4. Table(PutNew(undo[s], st.id, NoRow), UndoRow)
      BY <3>1, <3>2, <3>3, PutTable, Zenon
    <3> QED BY <1>3, <3>1, <3>4
  <2>6. \A l \in locks' : LockOK(l)
    <3>1. LockOK(Lock(s, "p", <<st.id, st.id>>, "X", "rec"))
      BY DEF LockOK, Lock
    <3> QED BY <1>3, <1>7, <3>1, InheritedTypes DEF InsertPrimary
  <2> QED BY <2>3, <2>4, <2>5, <2>6 DEF DataOK, LockOK
<1>8. CASE InsertSecondary(s, st, req)
  <2>1. IsInsert(st)
    BY <1>2, <1>8 DEF InsertSecondary
  <2>2. at' = [at EXCEPT ![s] = [stage |-> "end", rec |-> at[s].rec, hits |-> at[s].hits]]
    BY <1>8, StageEnds DEF InsertSecondary
  <2>3. at' = [t \in Sessions |-> at'[t]] /\ \A t \in Sessions : StageOK(t)'
    BY <2>1, <2>2, StageMoves DEF Stages, st
  <2>4. Table(rows', Row)
    <3>1. ASSUME NEW r \in Row, NEW b \in BOOLEAN PROVE [r EXCEPT !.sec = b] \in Row
      BY DEF Row
    <3>2. ASSUME NEW r \in Row, rows' = [rows EXCEPT ![st.id] = r] PROVE Table(rows', Row)
      <4>1. Table(rows, Row)
        BY <1>3
      <4> QED BY <3>2, <4>1, ChangeTable, Zenon
    <3>3. rows' = [rows EXCEPT ![st.id] = [rows[st.id] EXCEPT !.sec = TRUE]]
      BY <1>8 DEF InsertSecondary
    <3>4. CASE st.id \in DOMAIN rows
      <4>1. rows[st.id] \in Row
        BY <1>3, <3>4 DEF Table
      <4> QED BY <3>1, <3>2, <3>3, <4>1
    <3>5. CASE st.id \notin DOMAIN rows
      <4>1. rows' = rows
        BY <1>3, <3>3, <3>5 DEF Table
      <4> QED BY <1>3, <4>1
    <3> QED BY <3>4, <3>5
  <2>5. \A l \in locks' : LockOK(l)
    <3>1. LockOK(Lock(s, "c", <<st.c, st.id>>, "X", "rec"))
      BY DEF LockOK, Lock
    <3> QED BY <1>3, <1>8, <3>1, InheritedTypes DEF InsertSecondary
  <2>6. undo' = undo
    BY <1>8 DEF InsertSecondary
  <2> QED BY <1>3, <2>3, <2>4, <2>5, <2>6 DEF DataOK, LockOK
<1> QED BY <1>1, <1>4, <1>5, <1>6, <1>7, <1>8

\* A statement is only taken further where the script has one.
LEMMA StatementStands ==
  ASSUME TypeInv, NEW s \in Sessions, Statement(s)
  PROVE  /\ InSql(s) /\ UNCHANGED <<prog, pc, tableLock, waiting, seen, err, dropped, ended>>
         /\ \/ Start(s, Op(s).st) /\ Running(s)
            \/ Wait(s, Op(s).st)
            \/ Proceed(s, Op(s).st)
<1>1. at[s].stage # "idle" => InSql(s)
  BY DEF TypeInv, StageOK
<1>2. CASE At(s, "sql") /\ Start(s, Op(s).st)
  BY <1>2 DEF Statement, At, Running, InSql
<1>3. CASE Wait(s, Op(s).st) \/ Proceed(s, Op(s).st)
  <2>1. at[s].stage # "idle"
    BY <1>3 DEF Wait, Proceed
  <2> QED BY <1>1, <1>3, <2>1 DEF Statement
<1> QED BY <1>2, <1>3 DEF Statement

\* A step of a statement.
LEMMA StatementTypes ==
  ASSUME TypeInv, NEW s \in Sessions, Statement(s)
  PROVE  TypeInv'
<1> DEFINE st == Op(s).st
<1>1. InSql(s) /\ UNCHANGED <<prog, pc, tableLock, waiting, err, dropped, ended>>
  BY StatementStands
<1>2. ControlOK'
  BY <1>1 DEF TypeInv, ControlOK, WellTyped, Script
<1>3. DataOK' /\ at' = [t \in Sessions |-> at'[t]] /\ \A t \in Sessions : StageOK(t)'
  <2>1. CASE Start(s, st)
    <3>1. UNCHANGED <<rows, locks, undo>>
      BY <2>1 DEF Start
    <3>2. DataOK'
      BY <3>1, DataShrinks DEF TypeInv
    <3>3. IsScan(st) \/ IsInsert(st)
      BY <1>1, OpAt
    <3>4. [Idle EXCEPT !.stage = "insP"] = [stage |-> "insP", rec |-> Supremum, hits |-> {}]
      BY RecordChanges DEF Idle
    <3>5. CASE st.do = "insert"
      <4>1. at' = [at EXCEPT ![s] = [stage |-> "insP", rec |-> Supremum, hits |-> {}]] /\ IsInsert(st)
        BY <2>1, <3>3, <3>5, <3>4 DEF Start, IsScan
      <4> QED BY <1>1, <3>2, <4>1, StageMoves DEF Stages
    <3>6. CASE st.do # "insert"
      <4>1. at' = [at EXCEPT ![s] = [stage |-> "index", rec |-> FirstOf(st.w), hits |-> {}]] /\ IsScan(st)
        <5>1. at' = [at EXCEPT ![s] = [stage |-> "index", rec |-> FirstOf(st.w), hits |-> {}]]
          BY <2>1, <3>6 DEF Start
        <5>2. IsScan(st)
          BY <3>3, <3>6, ZenonT(60) DEF IsInsert
        <5> QED BY <5>1, <5>2
      <4> QED BY <1>1, <3>2, <4>1, StageMoves DEF Stages
    <3> QED BY <3>5, <3>6
  <2>2. CASE Wait(s, st)
    <3>1. UNCHANGED <<rows, locks, undo, at>>
      BY <2>2 DEF Wait
    <3>2. DataOK'
      BY <3>1, DataShrinks DEF TypeInv
    <3> QED BY <1>1, <3>1, <3>2 DEF TypeInv, StageOK, InSql, Op, Script
  <2>3. CASE Proceed(s, st)
    BY <1>1, <2>3, ProceedTypes
  <2> QED BY <2>1, <2>2, <2>3, StatementStands
<1> QED BY <1>2, <1>3 DEF TypeInv

\* A statement returns.
LEMMA ReturnTypes ==
  ASSUME TypeInv, NEW s \in Sessions, Return(s)
  PROVE  TypeInv'
<1>1. /\ UNCHANGED <<prog, tableLock, waiting, err, dropped, ended, rows>>
      /\ at' = [at EXCEPT ![s] = Idle] /\ Step({s}) /\ Running(s)
  BY DEF Return, Finish, At
<1>2. at' = [t \in Sessions |-> at'[t]] /\ \A t \in Sessions : at'[t] = IF t = s THEN Idle ELSE at[t]
  BY <1>1 DEF TypeInv
<1>3. \A t \in Sessions : StageOK(t)'
  BY <1>1, <1>2, StepStages DEF Idle
<1>4. DataOK'
  BY <1>1, DataShrinks DEF TypeInv, Return, Finish, LocksAfter
<1>5. ControlOK'
  BY <1>1, StepControl DEF TypeInv, ControlOK, WellTyped
<1> QED BY <1>2, <1>3, <1>4, <1>5 DEF TypeInv

\* One session is rolled back.
LEMMA RollBackTypes ==
  ASSUME TypeInv, NEW s \in Sessions, RollBack(s), UNCHANGED <<prog, pc>>
  PROVE  DataOK' /\ at' = [t \in Sessions |-> at'[t]] /\ \A t \in Sessions : StageOK(t)'
<1>1. Table(rows', Row)
  BY UndoneTable DEF RollBack, TypeInv, DataOK
<1>2. undo' = [t \in Sessions |-> undo'[t]] /\ \A t \in Sessions : Table(undo'[t], UndoRow)
  <2>1. Table(<<>>, UndoRow)
    BY DEF Table
  <2> QED BY <2>1 DEF RollBack, TypeInv, DataOK
<1>3. \A l \in locks' : LockOK(l)
  BY DEF RollBack, TypeInv, DataOK, LocksAfter
<1>4. at' = [t \in Sessions |-> IF t = s THEN Idle ELSE at[t]]
  BY DEF RollBack, TypeInv
<1>5. ASSUME NEW t \in Sessions PROVE StageOK(t)'
  <2>1. StageOK(t) /\ Op(t)' = Op(t) /\ Script(t)' = Script(t) /\ pc'[t] = pc[t]
    BY DEF TypeInv, Op, Script
  <2>2. CASE t = s
    BY <1>4, <2>2 DEF StageOK, Idle, Stages
  <2>3. CASE t # s
    BY <1>4, <2>1, <2>3 DEF StageOK, InSql
  <2> QED BY <2>2, <2>3
<1> QED BY <1>1, <1>2, <1>3, <1>4, <1>5 DEF DataOK, LockOK

\* The steps that roll a session back, and those that only end its goroutine.
Undoes(s) == \/ DeadlockFound(s) \/ LockWaitTimeout(s) \/ HangUp(s)
             \/ (Running(s) /\ LostBetween(s))
Dies(s)   == ProcessDies(s) \/ AllClosed(s) \/ (Running(s) /\ LostInCall(s))

\* Everything a session does is of one of these kinds.
LEMMA StepKinds ==
  ASSUME NEW s \in Sessions, SessionStep(s) \/ ConnectionLost(s)
  PROVE  Quiet(s) \/ Statement(s) \/ Return(s) \/ NobodyToAnswer(s) \/ Undoes(s) \/ Dies(s)
BY DEF SessionStep, ConnectionLost, Quiet, Undoes, Dies

\* What the first have in common.
LEMMA UndoesMoves ==
  ASSUME NEW s \in Sessions, Undoes(s)
  PROVE  /\ RollBack(s) /\ UNCHANGED <<prog, pc, waiting, seen, ended>>
         /\ err' = err \/ (Running(s) /\ \E e \in {"deadlock", "timeout"} : err' = [err EXCEPT ![s] = e])
         /\ tableLock' = tableLock \/ (tableLock = s /\ tableLock' = NoSession)
         /\ dropped' = dropped \/ (Running(s) /\ err' = err /\ dropped' = dropped \cup {s})
         /\ Running(s) \/ (err[s] # "" /\ err' = err /\ dropped' = dropped)
BY DEF Undoes, DeadlockFound, LockWaitTimeout, HangUp, LostBetween, Close, Fails

\* And the others: the server has not noticed yet.
LEMMA DiesMoves ==
  ASSUME NEW s \in Sessions, Dies(s)
  PROVE  /\ UNCHANGED <<dbVars, prog, pc, tableLock, waiting, seen, dropped>>
         /\ ended' = ended \/ (err' = err /\ ended' = err[s] /\ err[s] \in Errors)
         /\ \/ err' = err
            \/ err' = [t \in Sessions |-> IF err[t] = "" THEN "killed" ELSE err[t]] /\ err[s] \in Errors
            \/ err' = [err EXCEPT ![s] = "network"] /\ Running(s)
BY DEF Dies, ProcessDies, AllClosed, LostInCall, Fails

\* A statement fails, or a connection is closed.
LEMMA FailureTypes ==
  ASSUME TypeInv, NEW s \in Sessions, Undoes(s)
  PROVE  TypeInv'
<1>1. /\ RollBack(s) /\ UNCHANGED <<prog, pc, waiting, ended>>
      /\ err' = err \/ \E e \in Errors : err' = [err EXCEPT ![s] = e]
      /\ tableLock' \in {tableLock, NoSession} /\ dropped' \in {dropped, dropped \cup {s}}
  BY UndoesMoves DEF Errors
<1>2. DataOK' /\ at' = [t \in Sessions |-> at'[t]] /\ \A t \in Sessions : StageOK(t)'
  BY <1>1, RollBackTypes
<1>3. ControlOK'
  <2>1. err' \in [Sessions -> Errors \cup {"", "killed"}]
    BY <1>1 DEF TypeInv, ControlOK
  <2> QED BY <1>1, <2>1 DEF TypeInv, ControlOK, WellTyped, Script
<1> QED BY <1>2, <1>3 DEF TypeInv

\* A goroutine ends, the process ends, or the last connection has been closed.
LEMMA DeathTypes ==
  ASSUME TypeInv, NEW s \in Sessions, Dies(s)
  PROVE  TypeInv'
<1>1. UNCHANGED <<dbVars, prog, pc, tableLock, waiting, dropped>>
  BY DiesMoves
<1>2. err' \in [Sessions -> Errors \cup {"", "killed"}] /\ ended' \in Errors \cup {"no", "returned"}
  BY DiesMoves DEF TypeInv, ControlOK, Errors
<1>3. ControlOK'
  BY <1>1, <1>2 DEF TypeInv, ControlOK, WellTyped, Script
<1>4. DataOK'
  BY <1>1, DataShrinks DEF TypeInv, dbVars
<1>5. \A t \in Sessions : StageOK(t)'
  BY <1>1 DEF TypeInv, StageOK, InSql, Op, Script, dbVars
<1> QED BY <1>1, <1>3, <1>4, <1>5 DEF TypeInv, dbVars

\* A statement ends for a goroutine that is gone.
LEMMA AnswerTypes ==
  ASSUME TypeInv, NEW s \in Sessions, NobodyToAnswer(s)
  PROVE  TypeInv'
<1>1. UNCHANGED <<prog, pc, tableLock, waiting, err, dropped, ended, rows>> /\ at' = [at EXCEPT ![s] = Idle]
  BY DEF NobodyToAnswer, Finish
<1>2. at' = [t \in Sessions |-> IF t = s THEN Idle ELSE at[t]]
  BY <1>1 DEF TypeInv
<1>3. ASSUME NEW t \in Sessions PROVE StageOK(t)'
  <2>1. StageOK(t) /\ InSql(t)' = InSql(t) /\ Op(t)' = Op(t)
    BY <1>1 DEF TypeInv, InSql, Op, Script
  <2>2. CASE t = s
    BY <1>2, <2>2 DEF StageOK, Idle, Stages
  <2>3. CASE t # s
    BY <1>2, <2>1, <2>3 DEF StageOK
  <2> QED BY <2>2, <2>3
<1>4. DataOK'
  BY <1>1, DataShrinks DEF TypeInv, NobodyToAnswer, Finish, LocksAfter
<1>5. ControlOK'
  BY <1>1 DEF TypeInv, ControlOK, WellTyped, Script
<1> QED BY <1>2, <1>3, <1>4, <1>5 DEF TypeInv

\* main returns and everything is rolled back.
LEMMA EndTypes ==
  ASSUME TypeInv, MainReturns
  PROVE  TypeInv'
<1>1. /\ RollBackAll /\ UNCHANGED <<prog, pc, waiting, err, dropped>>
      /\ tableLock' = NoSession /\ ended' \in Errors \cup {"returned"}
  BY DEF MainReturns
<1>2. Table(rows', Row)
  <2> DEFINE touched == UNION {DOMAIN undo[s] : s \in Sessions}
             u == [i \in touched |-> undo[CHOOSE s \in Sessions : i \in DOMAIN undo[s]][i]]
  <2>1. ASSUME NEW i \in touched PROVE i \in 0 .. 999 /\ u[i] \in UndoRow
    <3> DEFINE t == CHOOSE s \in Sessions : i \in DOMAIN undo[s]
    <3>1. t \in Sessions /\ i \in DOMAIN undo[t]
      <4>1. \E s \in Sessions : i \in DOMAIN undo[s]
        OBVIOUS
      <4> QED BY <4>1
    <3>2. Table(undo[t], UndoRow) /\ u[i] = undo[t][i]
      BY <3>1 DEF TypeInv, DataOK
    <3> HIDE DEF t, u
    <3>3. i \in 0 .. 999 /\ undo[t][i] \in UndoRow
      BY <3>1, <3>2 DEF Table
    <3> QED BY <3>2, <3>3, Zenon
  <2>2. Table(u, UndoRow)
    BY <2>1, ZenonT(60) DEF Table
  <2>3. rows' = Undone(u)
    BY <1>1 DEF RollBackAll
  <2> HIDE DEF u
  <2> QED BY <2>2, <2>3, UndoneTable DEF TypeInv, DataOK
<1>3. DataOK'
  <2>1. Table(<<>>, UndoRow)
    BY DEF Table
  <2> QED BY <1>1, <1>2, <2>1 DEF RollBackAll, DataOK
<1>4. at' = [t \in Sessions |-> at'[t]] /\ \A t \in Sessions : StageOK(t)'
  BY <1>1 DEF RollBackAll, StageOK, Idle, Stages
<1>5. ControlOK'
  BY <1>1 DEF TypeInv, ControlOK, WellTyped, Script
<1> QED BY <1>3, <1>4, <1>5 DEF TypeInv

\* No step breaks the types.
LEMMA TypesStep == TypeInv /\ [Next]_vars => TypeInv'
<1> SUFFICES ASSUME TypeInv, [Next]_vars
             PROVE  TypeInv'
  OBVIOUS
<1>1. CASE \E s \in Sessions : SessionStep(s) \/ ConnectionLost(s)
  <2>1. PICK s \in Sessions : SessionStep(s) \/ ConnectionLost(s)
    BY <1>1
  <2> QED BY <2>1, StepKinds, QuietTypes, StatementTypes, ReturnTypes, FailureTypes, DeathTypes, AnswerTypes
<1>2. CASE MainReturns
  BY <1>2, EndTypes
<1>3. CASE UNCHANGED vars
  <2> USE <1>3 DEF vars, dbVars, TypeInv
  <2>1. DataOK'
    BY DataShrinks
  <2>2. ControlOK'
    BY DEF ControlOK, WellTyped, Script
  <2>3. \A s \in Sessions : StageOK(s)'
    BY DEF StageOK, InSql, Script, Op
  <2> QED BY <2>1, <2>2, <2>3
<1> QED BY <1>1, <1>2, <1>3 DEF Next

\* Rows, locks, waits, statements and control state have their types in every run.
THEOREM TypesHold == Spec => []TypeInv
<1>1. Init => TypeInv
  BY InitTypes
<1>2. TypeInv /\ [Next]_vars => TypeInv'
  BY TypesStep
<1> QED BY <1>1, <1>2, PTL DEF Spec

(* The typing of the table, the locks and the scripts, in every program and   *)
(* however many connections are lost: no statement ever writes a row of       *)
(* another shape, or goes on past the end of its script.                      *)
THEOREM TypesCorrect == Spec => []TypeOK
BY TypesHold, TypeInvImplies, PTL

-----------------------------------------------------------------------------
(* Indexes: the least of a set of places, and where a scan goes next.         *)

Smaller == {ss \in Nat \X Nat : ss[1] < ss[2]}

\* A set of naturals has a least element, by the well-founded order on Nat.
LEMMA SmallestNat ==
  ASSUME NEW S \in SUBSET Nat, S # {}
  PROVE  \E n \in S : \A m \in S : n <= m
<1>1. OpToRel(<, Nat) = Smaller
  BY Zenon DEF OpToRel, Smaller
<1>2. IsWellFoundedOn(Smaller, Nat)
  BY <1>1, NatLessThanWellFounded, Zenon
<1>3. PICK n \in S : \A m \in S : ~(<<m, n>> \in Smaller)
  BY <1>2, WFMin, Zenon
<1>4. ASSUME NEW m \in S PROVE n <= m
  <2>1. ~(m < n)
    BY <1>3 DEF Smaller
  <2> QED BY <2>1
<1> QED BY <1>4

Places == Nat \X Nat

\* Least(S) is the least of S when there is one.
LEMMA LeastIs ==
  ASSUME NEW S \in SUBSET Places, NEW x \in S, \A y \in S : x = y \/ Before(x, y)
  PROVE  Least(S) = x
<1> DEFINE z == Least(S)
<1>1. z \in S /\ \A y \in S : z = y \/ Before(z, y)
  BY DEF Least
<1>2. z = x \/ (Before(z, x) /\ Before(x, z))
  BY <1>1
<1>3. z[1] \in Nat /\ z[2] \in Nat /\ x[1] \in Nat /\ x[2] \in Nat
  BY <1>1 DEF Places
<1> HIDE DEF z
<1>4. z = x
  BY <1>2, <1>3 DEF Before
<1> QED BY <1>4 DEF z

\* A set of index places has a least element.
LEMMA LeastExists ==
  ASSUME NEW S \in SUBSET Places, S # {}
  PROVE  Least(S) \in S /\ \A y \in S : Least(S) = y \/ Before(Least(S), y)
<1>1. PICK a \in {y[1] : y \in S} : \A b \in {y[1] : y \in S} : a <= b
  <2>1. {y[1] : y \in S} \subseteq Nat /\ {y[1] : y \in S} # {}
    BY DEF Places
  <2> QED BY <2>1, SmallestNat
<1>2. PICK c \in {y[2] : y \in {z \in S : z[1] = a}} : \A b \in {y[2] : y \in {z \in S : z[1] = a}} : c <= b
  <2>1. {y[2] : y \in {z \in S : z[1] = a}} \subseteq Nat /\ {y[2] : y \in {z \in S : z[1] = a}} # {}
    BY <1>1 DEF Places
  <2> QED BY <2>1, SmallestNat
<1>3. PICK x \in S : x[1] = a /\ x[2] = c
  BY <1>2
<1>4. ASSUME NEW y \in S PROVE x = y \/ Before(x, y)
  <2>1. a <= y[1] /\ (y[1] = a => c <= y[2])
    BY <1>1, <1>2
  <2>2. x[1] \in Nat /\ x[2] \in Nat /\ y[1] \in Nat /\ y[2] \in Nat
    BY DEF Places
  <2>3. x = <<x[1], x[2]>> /\ y = <<y[1], y[2]>>
    BY DEF Places
  <2> QED BY <1>3, <2>1, <2>2, <2>3 DEF Before
<1> QED BY <1>4 DEF Least

Ids == DOMAIN rows

\* The records of the primary key.
LEMMA PrimaryPlaces ==
  ASSUME Ids \subseteq 0 .. 999
  PROVE  /\ Records("p") = {<<i, i>> : i \in Ids \cup {1000}}
         /\ Records("p") \in SUBSET Places
<1>1. Records("p") = {<<i, i>> : i \in Ids \cup {1000}}
  BY DEF Records, Key, Supremum, Ids
<1> QED BY <1>1 DEF Places

\* The next record of the primary index: nothing lies between.
NextId(n, m) ==
  /\ m = 1000 \/ m \in Ids
  /\ Successor("p", <<n, n>>) = <<m, m>> /\ n < m
  /\ \A i \in Ids : i <= n \/ m <= i
HasNext(n) == \E m \in 0 .. 1000 : NextId(n, m)

\* Behind every record of the primary key there is a next one, or the supremum.
LEMMA PrimarySuccessor ==
  ASSUME Ids \subseteq 0 .. 999, NEW n \in 0 .. 999
  PROVE  HasNext(n)
<1> DEFINE S == {r \in Records("p") : Before(<<n, n>>, r)}
           J == Ids \cup {1000}
<1>1. S = {<<i, i>> : i \in {j \in J : n < j}}
  BY PrimaryPlaces DEF Before
<1>2. S \in SUBSET Places /\ S # {}
  <2>1. 1000 \in J /\ n < 1000
    OBVIOUS
  <2>2. <<1000, 1000>> \in S
    BY <1>1, <2>1
  <2> QED BY <2>2, PrimaryPlaces
<1>3. Least(S) \in S /\ \A y \in S : Least(S) = y \/ Before(Least(S), y)
  BY <1>2, LeastExists
<1>4. PICK m \in J : Least(S) = <<m, m>> /\ n < m
  <2> HIDE DEF S, J
  <2> QED BY <1>1, <1>3
<1>5. J \subseteq 0 .. 1000
  OBVIOUS
<1>6. ASSUME NEW i \in J, n < i PROVE m <= i
  <2>1. <<i, i>> \in S
    BY <1>1, <1>6
  <2>2. <<m, m>> = <<i, i>> \/ Before(<<m, m>>, <<i, i>>)
    BY <1>3, <1>4, <2>1
  <2>3. i \in Nat /\ m \in Nat
    <3> HIDE DEF J
    <3> QED BY <1>5
  <2>4. m = i \/ m < i
    BY <2>2, <2>3 DEF Before
  <2> QED BY <2>3, <2>4
<1>7. \A i \in Ids : i <= n \/ m <= i
  BY <1>6
<1>8. Successor("p", <<n, n>>) = <<m, m>>
  BY <1>4 DEF Successor
<1>9. m \in 0 .. 1000 /\ (m = 1000 \/ m \in Ids)
  OBVIOUS
<1> QED BY <1>4, <1>7, <1>8, <1>9, ZenonT(60) DEF NextId, HasNext

\* A set of small numbers is small.
LEMMA SmallSet ==
  ASSUME NEW k \in Nat, NEW S, S \subseteq 0 .. k
  PROVE  IsFiniteSet(S) /\ Cardinality(S) \in 0 .. k + 1
<1> DEFINE z == 0
<1>1. z \in Int /\ k \in Int /\ z <= k /\ z = 0
  OBVIOUS
<1> HIDE DEF z
<1>2. IsFiniteSet(z .. k) /\ Cardinality(z .. k) = k - z + 1
  BY <1>1, FS_Interval
<1>3. S \subseteq z .. k
  BY <1>1
<1>4. IsFiniteSet(S) /\ Cardinality(S) <= Cardinality(z .. k) /\ Cardinality(S) \in Nat
  BY <1>2, <1>3, FS_Subset, FS_CardinalityType
<1> QED BY <1>1, <1>2, <1>4

-----------------------------------------------------------------------------
(* The program that runs stays the same.                                      *)

\* A run is of one program.
LEMMA ProgramStays == [Next]_vars => prog' = prog
BY DEF Next, SessionStep, Rendezvous, BeginTx, SetIsolation, CommitTx, Statement, Return, LockTables,
       UnlockTables, CondWait, Broadcast, Woken, Select, DeadlockFound, LockWaitTimeout, ProcessDies,
       NobodyToAnswer, HangUp, AllClosed, ConnectionLost, LostBetween, LostInCall, MainReturns, Fails, vars

\* It is one of the programs of the directory.
LEMMA ProgramHolds == Spec => [](prog \in Programs)
<1>1. Init => prog \in Programs
  BY DEF Init
<1>2. prog \in Programs /\ [Next]_vars => (prog \in Programs)'
  BY ProgramStays
<1> QED BY <1>1, <1>2, PTL DEF Spec

\* A program is known by its name.
LEMMA ProgramNames ==
  ASSUME NEW p \in Programs
  PROVE  /\ p.name = "metadata" => p = MetadataDemo
         /\ p.name = "phantom" => p = PhantomRead
<1>1. /\ Case01.name = "case01" /\ Case03.name = "case03" /\ Case04.name = "case04"
      /\ Case05.name = "case05" /\ Case06.name = "case06" /\ Case07.name = "case07"
      /\ Case08.name = "case08" /\ PhantomRead.name = "phantom" /\ MetadataDemo.name = "metadata"
  BY DEF Program, Case01, Case03, Case04, Case05, Case06, Case07, Case08, PhantomRead, MetadataDemo
<1>2. \A a, b, c : Case02With(a, b, c).name = "case02"
  BY DEF Case02With, Program
<1>3. \A q \in Case02 : q.name = "case02"
  BY <1>2, Zenon DEF Case02
<1> QED BY <1>1, <1>3 DEF Programs

-----------------------------------------------------------------------------
(* The phantom read program.  Its channels let one session at a time touch    *)
(* the table, so that each SELECT of A meets a table known to the row.        *)

Five0    == [Six EXCEPT ![0] = [c |-> 0, d |-> 5, del |-> FALSE, sec |-> TRUE]]
Five1(b) == Put(Five0, 1, [c |-> 1, d |-> 5, del |-> FALSE, sec |-> b])
IsFive(T, i) == i \in DOMAIN T /\ ~T[i].del /\ T[i].d = 5

\* What a scan that has passed every row below n has found.
FivesBelow(T, hits, n) ==
  hits \subseteq 0 .. 99 /\ \A i \in 0 .. 99 : i \in hits <=> (IsFive(T, i) /\ i < n)

PhantomPlaces ==
  \/ pc["A"] \in 1 .. 4 /\ pc["B"] = 1 /\ pc["C"] = 1
  \/ pc["A"] = 5 /\ pc["B"] \in {2, 3} /\ pc["C"] = 1
  \/ pc["A"] \in {6, 7} /\ pc["B"] = 4 /\ pc["C"] = 1
  \/ pc["A"] = 8 /\ pc["B"] = 4 /\ pc["C"] \in {2, 3}
  \/ pc["A"] \in {9, 10, 11} /\ pc["B"] = 4 /\ pc["C"] = 4

\* What A's SELECTs before its n-th operation have shown.
Shows(n) == CASE n \in 1 .. 3   -> << >>
              [] n \in 4 .. 6   -> << {5} >>
              [] n \in 7 .. 9   -> << {5}, {0, 5} >>
              [] n \in 10 .. 11 -> << {5}, {0, 5}, {0, 1, 5} >>
PhantomSeen == seen = [s \in Sessions |-> seen[s]] /\ seen["A"] = Shows(pc["A"])

\* The table is what the finished statements of B and C have made of it.
BWrites ==
  \/ at["B"].stage = "idle" /\ rows = Six /\ undo["B"] = << >>
  \/ /\ at["B"] = [stage |-> "index", rec |-> <<0, 0>>, hits |-> {}]
     /\ rows = Six /\ undo["B"] = << >>
  \/ at["B"].stage = "end" /\ rows = Five0
CWrites ==
  \/ at["C"].stage \in {"idle", "insP"} /\ rows = Five0 /\ undo["C"] = << >>
  \/ at["C"].stage = "insC" /\ rows = Five1(FALSE)
  \/ at["C"].stage = "end" /\ rows = Five1(TRUE)

\* A session at its statement: it has not failed there, or the server goes on.
Writing(s) == err[s] = "" \/ at[s].stage # "idle"

PhantomRows ==
  /\ inTx = [s \in Sessions |-> inTx[s]] /\ ~inTx["B"] /\ ~inTx["C"]
  /\ undo["A"] = << >>
  /\ pc["B"] # 2 => undo["B"] = << >>
  /\ pc["C"] # 2 => undo["C"] = << >>
  /\ pc["B"] = 1 => rows = Six
  /\ pc["B"] = 2 /\ Writing("B") => BWrites
  /\ pc["B"] \in {3, 4} /\ pc["C"] = 1 => rows = Five0
  /\ pc["C"] = 2 /\ Writing("C") => CWrites
  /\ pc["C"] \in {3, 4} => rows = Five1(TRUE)

\* A has found the fives of the rows it has passed.
Selects(T, a) ==
  /\ a.stage \in {"idle", "index", "end"}
  /\ a.stage = "index" =>
        \E n \in 0 .. 1000 : (n = 1000 \/ n \in DOMAIN T) /\ a.rec = <<n, n>> /\ FivesBelow(T, a.hits, n)
  /\ a.stage = "end" => FivesBelow(T, a.hits, 1000)

PhantomScan == Selects(rows, at["A"])

PhantomInv ==
  prog = PhantomRead => PhantomPlaces /\ PhantomSeen /\ (ended = "no" => PhantomRows /\ PhantomScan)

\* What A's three SELECTs have shown at each position of its script.
LEMMA PhantomShown ==
  /\ Shows(3) = << >>             /\ Shows(4) = Append(Shows(3), {5})
  /\ Shows(6) = << {5} >>         /\ Shows(7) = Append(Shows(6), {0, 5})
  /\ Shows(9) = << {5}, {0, 5} >> /\ Shows(10) = Append(Shows(9), {0, 1, 5})
  /\ Shows(1) = Shows(2) /\ Shows(2) = Shows(3) /\ Shows(10) = Shows(11)
  /\ Shows(4) = Shows(5) /\ Shows(5) = Shows(6) /\ Shows(7) = Shows(8) /\ Shows(8) = Shows(9)
BY DEF Shows

\* What a session does next.
LEMMA PhantomOps ==
  ASSUME prog = PhantomRead, PhantomPlaces, NEW s \in Sessions, Running(s) \/ InSql(s)
  PROVE  \/ s = "A" /\ pc[s] = 1 /\ Op(s).op = "readCommitted"
         \/ s = "A" /\ pc[s] = 2 /\ Op(s).op = "begin"
         \/ s = "A" /\ pc[s] \in {3, 6, 9} /\ Op(s).op = "sql" /\ Op(s).st = Phantoms
         \/ s = "A" /\ pc[s] = 4 /\ Op(s) = Send("t2")
         \/ s = "A" /\ pc[s] = 5 /\ Op(s) = Recv("t3")
         \/ s = "A" /\ pc[s] = 7 /\ Op(s) = Send("t4")
         \/ s = "A" /\ pc[s] = 8 /\ Op(s) = Recv("t5")
         \/ s = "A" /\ pc[s] = 10 /\ Op(s).op = "commit"
         \/ s = "B" /\ pc[s] = 1 /\ Op(s) = Recv("t2")
         \/ s = "B" /\ pc[s] = 2 /\ Op(s).op = "sql" /\ Op(s).st = Set5(Eq("p", 0))
         \/ s = "B" /\ pc[s] = 3 /\ Op(s) = Send("t3")
         \/ s = "C" /\ pc[s] = 1 /\ Op(s) = Recv("t4")
         \/ s = "C" /\ pc[s] = 2 /\ Op(s).op = "sql" /\ Op(s).st = Insert(1, 1, 5)
         \/ s = "C" /\ pc[s] = 3 /\ Op(s) = Send("t5")
<1>1. /\ Script("A") = << Do("readCommitted"), Do("begin"), Free(Phantoms), Send("t2"),
                          Recv("t3"), Free(Phantoms), Send("t4"),
                          Recv("t5"), Free(Phantoms), Do("commit") >>
      /\ Script("B") = << Recv("t2"), Free(Set5(Eq("p", 0))), Send("t3") >>
      /\ Script("C") = << Recv("t4"), Free(Insert(1, 1, 5)), Send("t5") >>
  BY DEF Script, PhantomRead, Program
<1>2. s \in {"A", "B", "C"} /\ pc[s] <= Len(Script(s))
  BY SessionNames DEF Running, InSql
<1>3. CASE s = "A"
  <2>1. Len(Script(s)) = 10 /\ pc[s] \in 1 .. 11
    BY <1>1, <1>3 DEF PhantomPlaces
  <2>2. pc[s] \in 1 .. 10
    BY <1>2, <2>1
  <2> QED BY <1>1, <1>3, <2>2 DEF Op, Do, Free
<1>4. CASE s = "B"
  <2>1. Len(Script(s)) = 3 /\ pc[s] \in 1 .. 4
    BY <1>1, <1>4 DEF PhantomPlaces
  <2>2. pc[s] \in 1 .. 3
    BY <1>2, <2>1
  <2> QED BY <1>1, <1>4, <2>2 DEF Op, Free
<1>5. CASE s = "C"
  <2>1. Len(Script(s)) = 3 /\ pc[s] \in 1 .. 4
    BY <1>1, <1>5 DEF PhantomPlaces
  <2>2. pc[s] \in 1 .. 3
    BY <1>2, <2>1
  <2> QED BY <1>1, <1>5, <2>2 DEF Op, Free
<1> QED BY <1>2, <1>3, <1>4, <1>5

\* The contents the table of the phantom program can have.
LEMMA PhantomTables ==
  /\ Table(Six, Row) /\ Table(Five0, Row) /\ Table(Five1(TRUE), Row) /\ Table(Five1(FALSE), Row)
  /\ rows \in {Six, Five0, Five1(TRUE), Five1(FALSE)} => Ids \subseteq 0 .. 99 /\ 0 \in Ids
<1>1. Table(Six, Row) /\ DOMAIN Six \subseteq 0 .. 99 /\ 0 \in DOMAIN Six
  BY TableTypes DEF Six
<1>2. Table(Five0, Row) /\ DOMAIN Five0 = DOMAIN Six
  BY <1>1 DEF Five0, Table, Row
<1>3. ASSUME NEW b \in BOOLEAN
      PROVE  Table(Five1(b), Row) /\ DOMAIN Five1(b) \subseteq 0 .. 99 /\ 0 \in DOMAIN Five1(b)
  <2> DEFINE k == 1
             r == [c |-> 1, d |-> 5, del |-> FALSE, sec |-> b]
  <2>1. r \in Row /\ IsId(k)
    BY DEF Row, IsId
  <2>2. DOMAIN Five1(b) \subseteq 0 .. 99 /\ 0 \in DOMAIN Five1(b)
    BY <1>1, <1>2 DEF Five1, Put
  <2>3. Five1(b) = Put(Five0, k, r)
    BY DEF Five1
  <2> HIDE DEF k, r
  <2>4. Table(Put(Five0, k, r), Row)
    BY <1>2, <2>1, PutTable, Zenon
  <2> QED BY <2>2, <2>3, <2>4
<1> QED BY <1>1, <1>2, <1>3 DEF Ids

\* The rows with d = 5 of each of them.
LEMMA PhantomFives ==
  ASSUME NEW hits, FivesBelow(rows, hits, 1000)
  PROVE  /\ rows = Six => hits = {5}
         /\ rows = Five0 => hits = {0, 5}
         /\ rows = Five1(TRUE) => hits = {0, 1, 5}
<1>1. ASSUME rows = Six, NEW i \in 0 .. 99 PROVE IsFive(rows, i) <=> i \in {5}
  BY <1>1 DEF IsFive, Six
<1>2. ASSUME rows = Five0, NEW i \in 0 .. 99 PROVE IsFive(rows, i) <=> i \in {0, 5}
  BY <1>2 DEF IsFive, Six, Five0
<1>3. ASSUME rows = Five1(TRUE), NEW i \in 0 .. 99 PROVE IsFive(rows, i) <=> i \in {0, 1, 5}
  BY <1>3 DEF IsFive, Six, Five0, Five1, Put
<1>4. hits \subseteq 0 .. 99 /\ \A i \in 0 .. 99 : i \in hits <=> IsFive(rows, i)
  <2>1. \A i \in 0 .. 99 : i < 1000
    OBVIOUS
  <2> QED BY <2>1 DEF FivesBelow
<1> DEFINE S1 == {5}
           S2 == {0, 5}
           S3 == {0, 1, 5}
<1>5. S1 \subseteq 0 .. 99 /\ S2 \subseteq 0 .. 99 /\ S3 \subseteq 0 .. 99
  OBVIOUS
<1>6. /\ rows = Six => \A i \in 0 .. 99 : IsFive(rows, i) <=> i \in S1
      /\ rows = Five0 => \A i \in 0 .. 99 : IsFive(rows, i) <=> i \in S2
      /\ rows = Five1(TRUE) => \A i \in 0 .. 99 : IsFive(rows, i) <=> i \in S3
  BY <1>1, <1>2, <1>3, ZenonT(60)
<1> HIDE DEF S1, S2, S3
<1>7. rows = Six => hits = S1
  BY <1>5, <1>6, <1>4, ZenonT(60)
<1>8. rows = Five0 => hits = S2
  BY <1>5, <1>6, <1>4, ZenonT(60)
<1>9. rows = Five1(TRUE) => hits = S3
  BY <1>5, <1>6, <1>4, ZenonT(60)
<1> USE DEF S1, S2, S3
<1> QED BY <1>7, <1>8, <1>9, ZenonT(60)

\* The table when A scans it.
LEMMA PhantomScanned ==
  ASSUME PhantomPlaces, PhantomRows, pc["A"] \in {3, 6, 9}
  PROVE  /\ pc["A"] = 3 => rows = Six
         /\ pc["A"] = 6 => rows = Five0
         /\ pc["A"] = 9 => rows = Five1(TRUE)
<1>1. ASSUME pc["A"] = 3 PROVE rows = Six
  <2>1. pc["B"] = 1
    BY <1>1 DEF PhantomPlaces
  <2> QED BY <2>1 DEF PhantomRows
<1>2. ASSUME pc["A"] = 6 PROVE rows = Five0
  <2>1. pc["B"] = 4 /\ pc["C"] = 1
    BY <1>2 DEF PhantomPlaces
  <2> QED BY <2>1 DEF PhantomRows
<1>3. ASSUME pc["A"] = 9 PROVE rows = Five1(TRUE)
  <2>1. pc["C"] = 4
    BY <1>3 DEF PhantomPlaces
  <2> QED BY <2>1 DEF PhantomRows
<1> QED BY <1>1, <1>2, <1>3, Zenon

\* A scan begins with row 0.
LEMMA PhantomFirst ==
  ASSUME Ids \subseteq 0 .. 999, 0 \in Ids, NEW w \in {All, Eq("p", 0)}
  PROVE  FirstOf(w) = <<0, 0>>
<1> DEFINE S == {r \in Records(w.idx) : w.lo < r[1] \/ (w.loIn /\ w.lo = r[1])}
<1>1. w.idx = "p" /\ ((w.lo = -1 /\ ~w.loIn) \/ (w.lo = 0 /\ w.loIn))
  BY DEF All, Eq, Between
<1>2. S \in SUBSET Places /\ <<0, 0>> \in S
  BY <1>1, PrimaryPlaces
<1>3. \A y \in S : <<0, 0>> = y \/ Before(<<0, 0>>, y)
  <2>1. \A i \in Ids \cup {1000} : <<0, 0>> = <<i, i>> \/ Before(<<0, 0>>, <<i, i>>)
    BY DEF Before
  <2> QED BY <1>1, <2>1, PrimaryPlaces
<1> QED BY <1>2, <1>3, LeastIs DEF FirstOf

\* One step of A's SELECT.
LEMMA PhantomSelects ==
  ASSUME TypeInv, PhantomScan, Ids \subseteq 0 .. 99, 0 \in Ids, undo["A"] = << >>,
         Start("A", Phantoms) \/ Wait("A", Phantoms) \/ Proceed("A", Phantoms)
  PROVE  PhantomScan' /\ rows' = rows /\ undo' = undo
<1>1. Table(rows, Row) /\ Ids \subseteq 0 .. 999
  BY ZenonT(60) DEF TypeInv, DataOK, Table, Ids
<1>2. Phantoms.w = All /\ Phantoms.do = "select5" /\ Phantoms.limit = 1000 /\ Phantoms.mode = "X"
  BY DEF Phantoms, Scan, NoLimit
<1>3. All.idx = "p" /\ All.hi = 999 /\ All.hiIn
  BY DEF All, Between
<1>4. "A" \in Sessions /\ at = [t \in Sessions |-> at[t]]
  BY SessionNames DEF TypeInv
<1>5. rows' = rows /\ Selects(rows, at'["A"]) => PhantomScan'
  BY DEF PhantomScan
<1>6. CASE Start("A", Phantoms)
  <2>1. rows' = rows /\ undo' = undo
    BY <1>6 DEF Start
  <2>2. at'["A"] = [stage |-> "index", rec |-> <<0, 0>>, hits |-> {}]
    <3>1. FirstOf(All) = <<0, 0>>
      BY <1>1, PhantomFirst
    <3> QED BY <1>2, <1>4, <1>6, <3>1 DEF Start
  <2> DEFINE z == 0
  <2>3. FivesBelow(rows, {}, z) /\ z \in 0 .. 1000 /\ z \in Ids /\ at'["A"].rec = <<z, z>>
    BY <2>2 DEF FivesBelow
  <2> HIDE DEF z
  <2> QED BY <1>5, <2>1, <2>2, <2>3 DEF Selects, Ids
<1>7. CASE Wait("A", Phantoms)
  <2>1. rows' = rows /\ undo' = undo /\ at' = at
    BY <1>7 DEF Wait
  <2> QED BY <2>1 DEF PhantomScan
<1>8. CASE Proceed("A", Phantoms)
  <2> DEFINE req == Request("A", Phantoms)
  <2>1. at["A"].stage = "index" /\ ScanIndex("A", Phantoms, req)
    BY <1>8, ZenonT(60) DEF Proceed, ScanIndex, ScanRow, InsertPrimary, InsertSecondary, PhantomScan, Selects
  <2>2. PICK n \in 0 .. 1000 : /\ n = 1000 \/ n \in Ids
                              /\ at["A"].rec = <<n, n>> /\ FivesBelow(rows, at["A"].hits, n)
    BY <2>1, ZenonT(60) DEF PhantomScan, Selects, Ids
  <2>3. ~NeedsRow(Phantoms) /\ (InRange(All, at["A"].rec) <=> n # 1000)
    <3>1. at["A"].rec[1] = n
      BY <2>2
    <3>2. n # 1000 => n < 999
      BY <2>2
    <3> QED BY <1>2, <1>3, <3>1, <3>2 DEF NeedsRow, InRange
  <2> HIDE DEF req
  <2>4. CASE n = 1000
    <3>1. at' = [at EXCEPT !["A"].stage = "end"] /\ rows' = rows /\ undo' = undo
      BY <1>2, <2>1, <2>3, <2>4 DEF ScanIndex
    <3>2. at' = [at EXCEPT !["A"] = [stage |-> "end", rec |-> at["A"].rec, hits |-> at["A"].hits]]
      BY <1>4, <3>1, StageEnds, ZenonT(60)
    <3>3. at'["A"].stage = "end" /\ at'["A"].hits = at["A"].hits
      BY <1>4, <3>2
    <3>4. FivesBelow(rows, at["A"].hits, 1000)
      BY <2>2, <2>4
    <3>5. Selects(rows, at'["A"])
      BY <3>3, <3>4, ZenonT(60) DEF Selects
    <3>6. rows' = rows /\ undo' = undo
      BY <3>1
    <3> QED BY <1>5, <3>5, <3>6
  <2>5. CASE n # 1000
    <3>1. Reach("A", Phantoms, req) /\ n \in Ids /\ n \in 0 .. 99
      BY <1>2, <2>1, <2>2, <2>3, <2>5 DEF ScanIndex
    <3> DEFINE hits == at["A"].hits \cup (IF Matches(Phantoms, n) THEN {n} ELSE {})
    <3>2. Matches(Phantoms, n) <=> IsFive(rows, n)
      BY <1>2 DEF Matches, IsFive, Ids
    <3>3. PICK m \in 0 .. 1000 : NextId(n, m)
      <4>1. n \in 0 .. 999
        BY <3>1
      <4>2. HasNext(n)
        BY <1>1, <4>1, PrimarySuccessor, ZenonT(60)
      <4> QED BY <4>2, ZenonT(60) DEF HasNext
    <3>4. FivesBelow(rows, hits, m)
      <4>1. ASSUME NEW i \in 0 .. 99 PROVE i \in hits <=> (IsFive(rows, i) /\ i < m)
        <5>1. i \in hits <=> ((IsFive(rows, i) /\ i < n) \/ (i = n /\ IsFive(rows, n)))
          BY <2>2, <3>1, <3>2, ZenonT(60) DEF FivesBelow
        <5>2. IsFive(rows, i) => i <= n \/ m <= i
          BY <3>3 DEF IsFive, Ids, NextId
        <5>3. n \in Int /\ m \in Int /\ i \in Int /\ n < m
          <6>1. n < m
            BY <3>3 DEF NextId
          <6>2. \A k \in 0 .. 1000 : k \in Int
            OBVIOUS
          <6> QED BY <6>1, <6>2
        <5> HIDE DEF hits
        <5>4. CASE i = n
          BY <5>1, <5>3, <5>4
        <5>5. CASE i < n
          BY <5>1, <5>3, <5>5
        <5>6. CASE i > n
          BY <5>1, <5>2, <5>3, <5>6
        <5> QED BY <5>3, <5>4, <5>5, <5>6
      <4>2. hits \subseteq 0 .. 99
        BY <2>2, <3>1, ZenonT(60) DEF FivesBelow
      <4> QED BY <4>1, <4>2, ZenonT(60) DEF FivesBelow
    <3>5. Cardinality(hits) # 1000
      <4>1. hits \subseteq 0 .. 99
        BY <3>4, ZenonT(60) DEF FivesBelow
      <4> HIDE DEF hits
      <4> DEFINE k == 99
      <4>2. k \in Nat /\ k + 1 < 1000
        OBVIOUS
      <4>3. hits \subseteq 0 .. k
        BY <4>1
      <4> HIDE DEF k
      <4>4. Cardinality(hits) \in 0 .. k + 1
        BY <4>2, <4>3, SmallSet, ZenonT(60)
      <4> QED BY <4>2, <4>4
    <3>6. rows' = rows /\ undo' = undo
      <4>1. rows' = IF Matches(Phantoms, n) THEN [rows EXCEPT ![n] = rows[n]] ELSE rows
        BY <1>2, <2>2, <3>1 DEF Reach
      <4>2. [rows EXCEPT ![n] = rows[n]] = rows
        BY <1>1 DEF Table
      <4>3. undo' = undo
        BY <1>2, <2>2, <3>1 DEF Reach
      <4> QED BY <4>1, <4>2, <4>3
    <3>7. at["A"].rec[1] = n /\ n # 999
      BY <2>2, <3>1
    <3>8. at' = [at EXCEPT !["A"] = [stage |-> "index", rec |-> <<m, m>>, hits |-> hits]]
      <4> DEFINE done == \/ Cardinality(hits) = Phantoms.limit
                         \/ Phantoms.w.idx = "p" /\ Phantoms.w.hiIn /\ at["A"].rec[1] = Phantoms.w.hi
      <4>1. ~done
        BY <1>2, <1>3, <3>5, <3>7
      <4>2. at' = [at EXCEPT !["A"] = IF done THEN [stage |-> "end", rec |-> at["A"].rec, hits |-> hits]
                    ELSE [stage |-> "index", rec |-> Successor(Phantoms.w.idx, at["A"].rec), hits |-> hits]]
        BY <2>2, <3>1 DEF Reach
      <4>3. Successor(Phantoms.w.idx, at["A"].rec) = <<m, m>>
        BY <1>2, <1>3, <2>2, <3>3 DEF NextId
      <4> HIDE DEF done, hits
      <4> QED BY <4>1, <4>2, <4>3
    <3> HIDE DEF hits
    <3>9. at'["A"].stage = "index" /\ at'["A"].rec = <<m, m>> /\ at'["A"].hits = hits
      BY <1>4, <3>8
    <3> QED BY <1>5, <3>3, <3>4, <3>6, <3>9, ZenonT(60) DEF Selects, Ids, NextId
  <2> QED BY <2>4, <2>5, SMTT(40)
<1> QED BY <1>6, <1>7, <1>8
PhantomNow ==
  /\ TypeInv /\ prog = PhantomRead /\ ended = "no"
  /\ PhantomPlaces /\ PhantomSeen /\ PhantomRows /\ PhantomScan

\* A session that is not at an SQL statement has none under way.
LEMMA PhantomIdle ==
  ASSUME PhantomNow
  PROVE  /\ pc["A"] \in {1, 2, 4, 5, 7, 8, 10, 11} => at["A"].stage = "idle"
         /\ pc["B"] \in {1, 3, 4} => at["B"].stage = "idle"
         /\ pc["C"] \in {1, 3, 4} => at["C"].stage = "idle"
<1>1. /\ Script("A") = << Do("readCommitted"), Do("begin"), Free(Phantoms), Send("t2"),
                          Recv("t3"), Free(Phantoms), Send("t4"),
                          Recv("t5"), Free(Phantoms), Do("commit") >>
      /\ Script("B") = << Recv("t2"), Free(Set5(Eq("p", 0))), Send("t3") >>
      /\ Script("C") = << Recv("t4"), Free(Insert(1, 1, 5)), Send("t5") >>
  BY DEF PhantomNow, Script, PhantomRead, Program
<1>2. Len(Script("A")) = 10 /\ Len(Script("B")) = 3 /\ Len(Script("C")) = 3
  BY <1>1
<1>3. \A s \in {"A", "B", "C"} : at[s].stage # "idle" => pc[s] <= Len(Script(s)) /\ Op(s).op = "sql"
  BY SessionNames DEF PhantomNow, TypeInv, StageOK, InSql
<1>4. ASSUME pc["A"] \in {1, 2, 4, 5, 7, 8, 10, 11} PROVE at["A"].stage = "idle"
  <2>1. ASSUME pc["A"] = 11 PROVE ~(pc["A"] <= Len(Script("A")))
    <3> DEFINE m == pc["A"]
               n == Len(Script("A"))
    <3>1. m = 11 /\ n = 10
      BY <1>2, <2>1
    <3> HIDE DEF m, n
    <3>2. ~(m <= n)
      BY <3>1
    <3> QED BY <3>2 DEF m, n
  <2>2. pc["A"] = 11 \/ Op("A").op # "sql"
    BY <1>1, <1>4 DEF Op, Do, Send, Recv
  <2> QED BY <1>3, <2>1, <2>2
<1>5. ASSUME pc["B"] \in {1, 3, 4} PROVE at["B"].stage = "idle"
  <2>1. ASSUME pc["B"] = 4 PROVE ~(pc["B"] <= Len(Script("B")))
    <3> DEFINE m == pc["B"]
               n == Len(Script("B"))
    <3>1. m = 4 /\ n = 3
      BY <1>2, <2>1
    <3> HIDE DEF m, n
    <3>2. ~(m <= n)
      BY <3>1
    <3> QED BY <3>2 DEF m, n
  <2>2. pc["B"] = 4 \/ Op("B").op # "sql"
    BY <1>1, <1>5 DEF Op, Do, Send, Recv
  <2> QED BY <1>3, <2>1, <2>2
<1>6. ASSUME pc["C"] \in {1, 3, 4} PROVE at["C"].stage = "idle"
  <2>1. ASSUME pc["C"] = 4 PROVE ~(pc["C"] <= Len(Script("C")))
    <3> DEFINE m == pc["C"]
               n == Len(Script("C"))
    <3>1. m = 4 /\ n = 3
      BY <1>2, <2>1
    <3> HIDE DEF m, n
    <3>2. ~(m <= n)
      BY <3>1
    <3> QED BY <3>2 DEF m, n
  <2>2. pc["C"] = 4 \/ Op("C").op # "sql"
    BY <1>1, <1>6 DEF Op, Do, Send, Recv
  <2> QED BY <1>3, <2>1, <2>2
<1> QED BY <1>4, <1>5, <1>6

\* A's own steps leave the table and the two writers alone.
LEMMA PhantomKeeps ==
  ASSUME PhantomRows, rows' = rows, err' = err, undo'["A"] = << >>, inTx' = [s \in Sessions |-> inTx'[s]],
         \A s \in {"B", "C"} : /\ pc'[s] = pc[s] /\ at'[s] = at[s]
                               /\ undo'[s] = undo[s] /\ inTx'[s] = inTx[s]
  PROVE  PhantomRows'
BY DEF PhantomRows, BWrites, CWrites, Writing

\* The UPDATE of B.
LEMMA RowChanges ==
  ASSUME NEW r \in Row, NEW z
  PROVE  /\ [r EXCEPT !.d = z] = [c |-> r.c, d |-> z, del |-> r.del, sec |-> r.sec]
         /\ [r EXCEPT !.sec = z] = [c |-> r.c, d |-> r.d, del |-> r.del, sec |-> z]
BY DEF Row

\* B's UPDATE, lock by lock.
LEMMA PhantomSets ==
  ASSUME TypeInv, BWrites,
         Start("B", Set5(Eq("p", 0))) \/ Wait("B", Set5(Eq("p", 0))) \/ Proceed("B", Set5(Eq("p", 0)))
  PROVE  BWrites' /\ undo' = [undo EXCEPT !["B"] = undo'["B"]]
<1> DEFINE st == Set5(Eq("p", 0))
<1>1. st.w = Eq("p", 0) /\ st.do = "set5" /\ st.mode = "X"
  BY DEF Set5, Scan
<1>2. Eq("p", 0).idx = "p" /\ Eq("p", 0).hi = 0 /\ Eq("p", 0).hiIn
  BY DEF Eq, Between
<1>3. "B" \in Sessions /\ at = [t \in Sessions |-> at[t]] /\ undo = [t \in Sessions |-> undo[t]]
  BY SessionNames DEF TypeInv, DataOK
<1> HIDE DEF st
<1>4. CASE Start("B", st)
  <2>1. rows' = rows /\ undo' = undo /\ at["B"].stage = "idle"
    BY <1>4 DEF Start, Idle
  <2>2. rows = Six /\ undo["B"] = << >>
    BY <2>1 DEF BWrites
  <2>3. FirstOf(Eq("p", 0)) = <<0, 0>>
    <3>1. Ids \subseteq 0 .. 999 /\ 0 \in Ids
      BY <2>2, PhantomTables, ZenonT(60) DEF TypeInv, DataOK, Table, Ids
    <3> QED BY <3>1, PhantomFirst
  <2>4. at'["B"] = [stage |-> "index", rec |-> <<0, 0>>, hits |-> {}]
    BY <1>1, <1>3, <1>4, <2>3 DEF Start
  <2> QED BY <1>3, <2>1, <2>2, <2>4 DEF BWrites
<1>5. CASE Wait("B", st)
  <2>1. rows' = rows /\ undo' = undo /\ at' = at
    BY <1>5 DEF Wait
  <2> QED BY <1>3, <2>1 DEF BWrites
<1>6. CASE Proceed("B", st)
  <2> DEFINE req == Request("B", st)
             r0  == [c |-> 0, d |-> 5, del |-> FALSE, sec |-> TRUE]
  <2>1. at["B"].stage \in {"index", "row", "insP", "insC"}
    BY <1>6 DEF Proceed
  <2>2. at["B"] = [stage |-> "index", rec |-> <<0, 0>>, hits |-> {}] /\ rows = Six /\ undo["B"] = << >>
    BY <2>1 DEF BWrites
  <2>3. ScanIndex("B", st, req)
    BY <1>6, <2>2 DEF Proceed, ScanRow, InsertPrimary, InsertSecondary
  <2>4. ~NeedsRow(st) /\ InRange(st.w, at["B"].rec)
    BY <1>1, <1>2, <2>2 DEF NeedsRow, InRange
  <2> HIDE DEF req
  <2>5. Reach("B", st, req)
    BY <2>3, <2>4 DEF ScanIndex
  <2>6. Matches(st, 0)
    BY <1>1, <2>2 DEF Matches, Six
  <2>7. rows' = [rows EXCEPT ![0] = [rows[0] EXCEPT !.d = 5]]
    BY <1>1, <2>2, <2>5, <2>6 DEF Reach
  <2>8. [rows[0] EXCEPT !.d = 5] = r0
    <3>1. rows[0] = [c |-> 0, d |-> 0, del |-> FALSE, sec |-> TRUE]
      BY <2>2 DEF Six
    <3>2. rows[0] \in Row
      BY <3>1 DEF Row
    <3>3. [rows[0] EXCEPT !.d = 5] = [c |-> rows[0].c, d |-> 5, del |-> rows[0].del, sec |-> rows[0].sec]
      BY <3>2, RowChanges
    <3>4. rows[0].c = 0 /\ rows[0].del = FALSE /\ rows[0].sec = TRUE
      BY <3>1
    <3> QED BY <3>3, <3>4, Zenon
  <2>9. rows' = Five0
    BY <2>2, <2>7, <2>8 DEF Five0
  <2>10. at'["B"].stage = "end"
    <3>1. at["B"].rec[1] = 0 /\ at["B"].rec = <<0, 0>>
      BY <2>2
    <3> DEFINE hits == at["B"].hits \cup (IF Matches(st, at["B"].rec[2]) THEN {at["B"].rec[2]} ELSE {})
    <3>2. at' = [at EXCEPT !["B"] = [stage |-> "end", rec |-> at["B"].rec, hits |-> hits]]
      BY <1>1, <1>2, <2>5, <3>1 DEF Reach
    <3> HIDE DEF hits
    <3> QED BY <1>3, <3>2
  <2>11. undo' = [undo EXCEPT !["B"] = undo'["B"]]
    <3>1. undo' = undo \/ \E u : undo' = [undo EXCEPT !["B"] = u]
      BY <2>5, ZenonT(60) DEF Reach
    <3> QED BY <1>3, <3>1
  <2> QED BY <2>9, <2>10, <2>11 DEF BWrites
<1> QED BY <1>4, <1>5, <1>6 DEF st

\* The INSERT of C.
LEMMA PhantomInserts ==
  ASSUME TypeInv, CWrites,
         Start("C", Insert(1, 1, 5)) \/ Wait("C", Insert(1, 1, 5)) \/ Proceed("C", Insert(1, 1, 5))
  PROVE  CWrites' /\ undo' = [undo EXCEPT !["C"] = undo'["C"]]
<1> DEFINE st == Insert(1, 1, 5)
<1>1. st.do = "insert" /\ st.id = 1 /\ st.c = 1 /\ st.d = 5
  BY DEF Insert
<1>2. "C" \in Sessions /\ at = [t \in Sessions |-> at[t]] /\ undo = [t \in Sessions |-> undo[t]]
  BY SessionNames DEF TypeInv, DataOK
<1> HIDE DEF st
<1>3. CASE Start("C", st)
  <2>1. rows' = rows /\ undo' = undo /\ at["C"].stage = "idle"
    BY <1>3 DEF Start, Idle
  <2>2. at' = [at EXCEPT !["C"] = [Idle EXCEPT !.stage = "insP"]]
    BY <1>1, <1>3 DEF Start
  <2>3. at'["C"].stage = "insP"
    BY <1>2, <2>2 DEF Idle
  <2> QED BY <1>2, <2>1, <2>3 DEF CWrites
<1>4. CASE Wait("C", st)
  <2>1. rows' = rows /\ undo' = undo /\ at' = at
    BY <1>4 DEF Wait
  <2> QED BY <1>2, <2>1 DEF CWrites
<1>5. CASE Proceed("C", st)
  <2> DEFINE req == Request("C", st)
  <2>1. at["C"].stage \in {"index", "row", "insP", "insC"}
    BY <1>5 DEF Proceed
  <2>2. at["C"].stage \in {"insP", "insC"}
    BY <2>1 DEF CWrites
  <2>3. InsertPrimary("C", st, req) \/ InsertSecondary("C", st, req)
    BY <1>5, <2>2 DEF Proceed, ScanRow, ScanIndex
  <2> HIDE DEF req
  <2>4. CASE InsertPrimary("C", st, req)
    <3>1. rows = Five0
      BY <2>4 DEF InsertPrimary, CWrites
    <3>2. rows' = Five1(FALSE)
      BY <1>1, <2>4, <3>1 DEF InsertPrimary, Five1
    <3>3. at'["C"].stage = "insC"
      <4>1. at' = [at EXCEPT !["C"] = [stage |-> "insC", rec |-> at["C"].rec, hits |-> at["C"].hits]]
        BY <1>2, <2>4, StageEnds DEF InsertPrimary
      <4> QED BY <1>2, <4>1
    <3>4. undo' = [undo EXCEPT !["C"] = undo'["C"]]
      BY <1>2, <2>4 DEF InsertPrimary
    <3> QED BY <3>2, <3>3, <3>4 DEF CWrites
  <2>5. CASE InsertSecondary("C", st, req)
    <3>1. rows = Five1(FALSE)
      BY <2>5 DEF InsertSecondary, CWrites
    <3>2. rows' = Five1(TRUE)
      <4>1. rows' = [rows EXCEPT ![1] = [rows[1] EXCEPT !.sec = TRUE]]
        BY <1>1, <2>5 DEF InsertSecondary
      <4>2. rows[1] = [c |-> 1, d |-> 5, del |-> FALSE, sec |-> FALSE]
        BY <3>1 DEF Five1, Put
      <4>3. [rows[1] EXCEPT !.sec = TRUE] = [c |-> 1, d |-> 5, del |-> FALSE, sec |-> TRUE]
        <5>1. rows[1] \in Row
          BY <4>2 DEF Row
        <5>2. [rows[1] EXCEPT !.sec = TRUE] = [c |-> rows[1].c, d |-> rows[1].d, del |-> rows[1].del, sec |-> TRUE]
          BY <5>1, RowChanges
        <5>3. rows[1].c = 1 /\ rows[1].d = 5 /\ rows[1].del = FALSE
          BY <4>2
        <5> QED BY <5>2, <5>3, Zenon
      <4>4. DOMAIN rows = DOMAIN Five0 \cup {1}
        BY <3>1 DEF Five1, Put
      <4> QED BY <3>1, <4>1, <4>3, <4>4 DEF Five1, Put
    <3>3. at'["C"].stage = "end"
      <4>1. at' = [at EXCEPT !["C"] = [stage |-> "end", rec |-> at["C"].rec, hits |-> at["C"].hits]]
        BY <1>2, <2>5, StageEnds DEF InsertSecondary
      <4> QED BY <1>2, <4>1
    <3>4. undo' = [undo EXCEPT !["C"] = undo'["C"]]
      BY <1>2, <2>5 DEF InsertSecondary
    <3> QED BY <3>2, <3>3, <3>4 DEF CWrites
  <2> QED BY <2>3, <2>4, <2>5
<1> QED BY <1>3, <1>4, <1>5 DEF st
\* The two ends of a channel.
LEMMA PhantomMeets ==
  ASSUME PhantomNow, NEW s \in Sessions, NEW r \in Sessions, Rendezvous(s, r)
  PROVE  \/ s = "A" /\ r = "B" /\ pc["A"] = 4 /\ pc["B"] = 1
         \/ s = "B" /\ r = "A" /\ pc["A"] = 5 /\ pc["B"] = 3
         \/ s = "A" /\ r = "C" /\ pc["A"] = 7 /\ pc["C"] = 1
         \/ s = "C" /\ r = "A" /\ pc["A"] = 8 /\ pc["C"] = 3
<1>1. /\ Running(s) /\ Running(r) /\ Op(s).op = "send" /\ Op(r).op = "recv" /\ Op(s).ch = Op(r).ch
  BY DEF Rendezvous, At
<1>2. prog = PhantomRead /\ PhantomPlaces
  BY DEF PhantomNow
<1>3. \/ s = "A" /\ pc["A"] = 4 /\ Op(s).ch = "t2"
      \/ s = "A" /\ pc["A"] = 7 /\ Op(s).ch = "t4"
      \/ s = "B" /\ pc["B"] = 3 /\ Op(s).ch = "t3"
      \/ s = "C" /\ pc["C"] = 3 /\ Op(s).ch = "t5"
  BY <1>1, <1>2, PhantomOps DEF Send, Recv
<1>4. \/ r = "A" /\ pc["A"] = 5 /\ Op(r).ch = "t3"
      \/ r = "A" /\ pc["A"] = 8 /\ Op(r).ch = "t5"
      \/ r = "B" /\ pc["B"] = 1 /\ Op(r).ch = "t2"
      \/ r = "C" /\ pc["C"] = 1 /\ Op(r).ch = "t4"
  BY <1>1, <1>2, PhantomOps DEF Send, Recv
<1> QED BY <1>1, <1>3, <1>4

\* The channels order the three sessions.
LEMMA PhantomRendezvous ==
  ASSUME PhantomNow, NEW s \in Sessions, NEW r \in Sessions, Rendezvous(s, r)
  PROVE  PhantomInv'
<1>1. Sessions = {"A", "B", "C"} /\ pc \in [Sessions -> Nat]
  BY SessionNames DEF PhantomNow, TypeInv, ControlOK
<1>2. UNCHANGED <<rows, at, err, prog, ended, seen, inTx, undo>>
  BY DEF Rendezvous, dbVars
<1>3. PhantomPlaces /\ PhantomSeen /\ PhantomRows /\ PhantomScan
  BY DEF PhantomNow
<1>4. PhantomScan'
  BY <1>2, <1>3 DEF PhantomScan
<1>5. pc' = [q \in Sessions |-> IF q \in {s, r} THEN pc[q] + 1 ELSE pc[q]]
  BY DEF Rendezvous, Step
<1>6. CASE s = "A" /\ r = "B" /\ pc["A"] = 4 /\ pc["B"] = 1
  <2>1. pc'["A"] = 5 /\ pc'["B"] = 2 /\ pc'["C"] = pc["C"] /\ pc["C"] = 1
    BY <1>1, <1>3, <1>5, <1>6 DEF PhantomPlaces
  <2>2. PhantomPlaces' /\ PhantomSeen'
    <3>1. PhantomPlaces'
      BY <1>3, <2>1 DEF PhantomPlaces
    <3>2. PhantomSeen'
      BY <1>2, <1>3, <1>6, <2>1, PhantomShown DEF PhantomSeen
    <3> QED BY <3>1, <3>2
  <2>3. at["B"].stage = "idle"
    BY <1>6, PhantomIdle
  <2>4. rows = Six /\ undo["B"] = << >>
    <3>1. pc["B"] = 1 /\ pc["B"] # 2
      BY <1>6
    <3> QED BY <1>3, <3>1 DEF PhantomRows
  <2>5. BWrites'
    BY <1>2, <2>3, <2>4 DEF BWrites
  <2>6. PhantomRows'
    BY <1>2, <1>3, <1>6, <2>1, <2>5 DEF PhantomRows
  <2> QED BY <1>4, <2>2, <2>6 DEF PhantomInv
<1>7. CASE s = "B" /\ r = "A" /\ pc["A"] = 5 /\ pc["B"] = 3
  <2>1. pc'["A"] = 6 /\ pc'["B"] = 4 /\ pc'["C"] = pc["C"] /\ pc["C"] = 1
    BY <1>1, <1>3, <1>5, <1>7 DEF PhantomPlaces
  <2>2. PhantomPlaces' /\ PhantomSeen'
    <3>1. PhantomPlaces'
      BY <1>3, <2>1 DEF PhantomPlaces
    <3>2. PhantomSeen'
      BY <1>2, <1>3, <1>7, <2>1, PhantomShown DEF PhantomSeen
    <3> QED BY <3>1, <3>2
  <2>3. PhantomRows'
    BY <1>2, <1>3, <1>7, <2>1 DEF PhantomRows
  <2> QED BY <1>4, <2>2, <2>3 DEF PhantomInv
<1>8. CASE s = "A" /\ r = "C" /\ pc["A"] = 7 /\ pc["C"] = 1
  <2>1. pc'["A"] = 8 /\ pc'["B"] = pc["B"] /\ pc'["C"] = 2 /\ pc["B"] = 4
    BY <1>1, <1>3, <1>5, <1>8 DEF PhantomPlaces
  <2>2. PhantomPlaces' /\ PhantomSeen'
    <3>1. PhantomPlaces'
      BY <1>3, <2>1 DEF PhantomPlaces
    <3>2. PhantomSeen'
      BY <1>2, <1>3, <1>8, <2>1, PhantomShown DEF PhantomSeen
    <3> QED BY <3>1, <3>2
  <2>3. at["C"].stage = "idle"
    BY <1>8, PhantomIdle
  <2>4. rows = Five0 /\ undo["C"] = << >>
    BY <1>3, <1>8, <2>1 DEF PhantomRows
  <2>5. CWrites'
    BY <1>2, <2>3, <2>4 DEF CWrites
  <2>6. PhantomRows'
    BY <1>2, <1>3, <1>8, <2>1, <2>5 DEF PhantomRows
  <2> QED BY <1>4, <2>2, <2>6 DEF PhantomInv
<1>9. CASE s = "C" /\ r = "A" /\ pc["A"] = 8 /\ pc["C"] = 3
  <2>1. pc'["A"] = 9 /\ pc'["B"] = pc["B"] /\ pc'["C"] = 4 /\ pc["B"] = 4
    BY <1>1, <1>3, <1>5, <1>9 DEF PhantomPlaces
  <2>2. PhantomPlaces' /\ PhantomSeen'
    <3>1. PhantomPlaces'
      BY <1>3, <2>1 DEF PhantomPlaces
    <3>2. PhantomSeen'
      BY <1>2, <1>3, <1>9, <2>1, PhantomShown DEF PhantomSeen
    <3> QED BY <3>1, <3>2
  <2>3. PhantomRows'
    BY <1>2, <1>3, <1>9, <2>1 DEF PhantomRows
  <2> QED BY <1>4, <2>2, <2>3 DEF PhantomInv
<1> QED BY <1>6, <1>7, <1>8, <1>9, PhantomMeets

\* A's BEGIN, SET TRANSACTION and COMMIT; no session does any other.
LEMMA PhantomQuiet ==
  ASSUME PhantomNow, NEW s \in Sessions, Quiet(s)
  PROVE  PhantomInv'
<1>1. Sessions = {"A", "B", "C"} /\ pc \in [Sessions -> Nat] /\ undo = [q \in Sessions |-> undo[q]]
  BY SessionNames DEF PhantomNow, TypeInv, ControlOK, DataOK
<1>2. CASE \E r \in Sessions : Rendezvous(s, r)
  BY <1>2, PhantomRendezvous
<1>3. CASE ~ \E r \in Sessions : Rendezvous(s, r)
  <2>1. PhantomPlaces /\ PhantomSeen /\ PhantomRows /\ PhantomScan /\ prog = PhantomRead
    BY DEF PhantomNow
  <2>2. /\ UNCHANGED <<rows, at, err, prog, ended, seen>> /\ Step({s}) /\ Running(s)
        /\ \/ BeginTx(s) /\ inTx' = [inTx EXCEPT ![s] = TRUE] /\ undo' = undo
           \/ SetIsolation(s) /\ inTx' = inTx /\ undo' = undo
           \/ CommitTx(s) /\ inTx' = [inTx EXCEPT ![s] = FALSE] /\ undo' = [undo EXCEPT ![s] = << >>]
    BY <2>1, <1>3, PhantomOps
      DEF Quiet, BeginTx, SetIsolation, CommitTx, LockTables, UnlockTables, CondWait, Broadcast, Woken,
          Select, At, Begin, SetReadCommitted, Commit, Send, Recv
  <2>3. s = "A" /\ pc["A"] \in {1, 2, 10}
    BY <2>1, <2>2, PhantomOps DEF BeginTx, SetIsolation, CommitTx, At, Send, Recv
  <2>4. pc'["A"] = pc["A"] + 1 /\ pc'["B"] = pc["B"] /\ pc'["C"] = pc["C"]
    BY <1>1, <2>2, <2>3 DEF Step
  <2>5. PhantomPlaces' /\ PhantomSeen'
    <3>1. PhantomPlaces'
      BY <2>1, <2>3, <2>4 DEF PhantomPlaces
    <3>2. Shows(pc'["A"]) = Shows(pc["A"])
      <4>1. CASE pc["A"] = 1
        BY <2>4, <4>1, PhantomShown
      <4>2. CASE pc["A"] = 2
        BY <2>4, <4>2, PhantomShown
      <4>3. CASE pc["A"] = 10
        BY <2>4, <4>3, PhantomShown
      <4> QED BY <2>3, <4>1, <4>2, <4>3
    <3>3. PhantomSeen'
      BY <2>1, <2>2, <3>2 DEF PhantomSeen
    <3> QED BY <3>1, <3>3
  <2>6. PhantomScan'
    BY <2>1, <2>2 DEF PhantomScan
  <2>7. /\ undo'["A"] = << >> /\ undo'["B"] = undo["B"] /\ undo'["C"] = undo["C"]
        /\ inTx'["B"] = inTx["B"] /\ inTx'["C"] = inTx["C"] /\ inTx' = [q \in Sessions |-> inTx'[q]]
    <3>1. undo["A"] = << >> /\ inTx = [q \in Sessions |-> inTx[q]]
      BY <2>1 DEF PhantomRows
    <3> QED BY <1>1, <2>2, <2>3, <3>1
  <2>8. PhantomRows'
    BY <2>1, <2>2, <2>4, <2>7, PhantomKeeps
  <2> QED BY <2>5, <2>6, <2>8 DEF PhantomInv
<1> QED BY <1>2, <1>3
\* A step of one session's statement leaves the other sessions' alone.
LEMMA OthersStay ==
  ASSUME TypeInv, NEW s \in Sessions, NEW st, Start(s, st) \/ Wait(s, st) \/ Proceed(s, st)
  PROVE  inTx' = inTx /\ \A t \in Sessions : t # s => at'[t] = at[t]
<1>1. at = [t \in Sessions |-> at[t]]
  BY DEF TypeInv
<1>2. at' = at \/ \E a : at' = [at EXCEPT ![s] = a]
  <2>1. CASE Start(s, st) \/ Wait(s, st)
    BY <2>1 DEF Start, Wait
  <2>2. CASE Proceed(s, st)
    <3>1. (\E g : at' = [at EXCEPT ![s].stage = g]) \/ (\E req : Reach(s, st, req))
      BY <2>2 DEF Proceed, ScanIndex, ScanRow, InsertPrimary, InsertSecondary
    <3>2. ASSUME NEW g, at' = [at EXCEPT ![s].stage = g] PROVE \E a : at' = [at EXCEPT ![s] = a]
      BY <3>2, StageEnds
    <3>3. ASSUME NEW req, Reach(s, st, req) PROVE \E a : at' = [at EXCEPT ![s] = a]
      BY <3>3, ZenonT(60) DEF Reach
    <3> QED BY <3>1, <3>2, <3>3
  <2> QED BY <2>1, <2>2
<1>3. inTx' = inTx
  BY DEF Start, Wait, Proceed
<1> QED BY <1>1, <1>2, <1>3

\* The provers want these inequalities spelled out.
LEMMA Distinct == 1 # 2 /\ 1 # 3 /\ 1 # 4 /\ 2 # 3 /\ 2 # 4 /\ 3 # 4
OBVIOUS

\* While B or C writes, A waits at a channel.
LEMMA PhantomWriters ==
  ASSUME PhantomPlaces
  PROVE  /\ pc["B"] = 2 => pc["A"] = 5 /\ pc["C"] = 1
         /\ pc["C"] = 2 => pc["A"] = 8 /\ pc["B"] = 4
<1>1. ASSUME pc["B"] = 2 PROVE pc["A"] = 5 /\ pc["C"] = 1
  BY <1>1 DEF PhantomPlaces
<1>2. ASSUME pc["C"] = 2 PROVE pc["A"] = 8 /\ pc["B"] = 4
  BY <1>2 DEF PhantomPlaces
<1> QED BY <1>1, <1>2

\* A step of a statement of the phantom program.
LEMMA PhantomStatement ==
  ASSUME PhantomNow, NEW s \in Sessions, Statement(s)
  PROVE  PhantomInv'
<1>1. /\ PhantomPlaces /\ PhantomSeen /\ PhantomRows /\ PhantomScan /\ prog = PhantomRead
      /\ TypeInv /\ undo = [q \in Sessions |-> undo[q]]
  BY DEF PhantomNow, TypeInv, DataOK
<1>2. /\ InSql(s) /\ Op(s).op = "sql" /\ UNCHANGED <<prog, pc, seen, err, ended>>
      /\ (Start(s, Op(s).st) /\ Running(s)) \/ Wait(s, Op(s).st) \/ Proceed(s, Op(s).st)
  BY <1>1, StatementStands DEF InSql
<1>3. (Start(s, Op(s).st) \/ Wait(s, Op(s).st) \/ Proceed(s, Op(s).st)) /\ Writing(s)
  BY <1>2 DEF Running, Wait, Proceed, Writing
<1>4. inTx' = inTx /\ \A t \in Sessions : t # s => at'[t] = at[t]
  BY <1>1, <1>3, OthersStay
<1>5. PhantomPlaces' /\ PhantomSeen'
  BY <1>1, <1>2 DEF PhantomPlaces, PhantomSeen
<1>6. Sessions = {"A", "B", "C"}
  BY SessionNames
<1>7. SUFFICES PhantomRows' /\ PhantomScan'
  BY <1>5 DEF PhantomInv
<1>8. CASE s = "A"
  <2>1. pc["A"] \in {3, 6, 9} /\ Op(s).st = Phantoms
    BY <1>1, <1>2, <1>8, PhantomOps DEF Send, Recv
  <2>2. Ids \subseteq 0 .. 99 /\ 0 \in Ids
    BY <1>1, <2>1, PhantomScanned, PhantomTables
  <2>3. undo["A"] = << >>
    BY <1>1 DEF PhantomRows
  <2>4. PhantomScan' /\ rows' = rows /\ undo' = undo
    BY <1>1, <1>3, <1>8, <2>1, <2>2, <2>3, PhantomSelects
  <2>5. \A t \in {"B", "C"} : at'[t] = at[t] /\ pc'[t] = pc[t] /\ undo'[t] = undo[t] /\ inTx'[t] = inTx[t]
    BY <1>2, <1>4, <1>6, <1>8, <2>4
  <2>6. inTx' = [q \in Sessions |-> inTx'[q]]
    BY <1>1, <1>4 DEF PhantomRows
  <2>7. PhantomRows'
    BY <1>1, <1>2, <2>3, <2>4, <2>5, <2>6, PhantomKeeps
  <2> QED BY <2>4, <2>7
<1>9. CASE s = "B"
  <2>1. pc["B"] = 2 /\ Op(s).st = Set5(Eq("p", 0))
    BY <1>1, <1>2, <1>9, PhantomOps DEF Send, Recv
  <2>2. pc["A"] = 5 /\ pc["C"] = 1 /\ Writing("B")
    BY <1>1, <1>3, <1>9, <2>1, PhantomWriters
  <2>3. BWrites
    BY <1>1, <2>1, <2>2 DEF PhantomRows
  <2>4. BWrites' /\ undo' = [undo EXCEPT !["B"] = undo'["B"]]
    BY <1>1, <1>3, <1>9, <2>1, <2>3, PhantomSets
  <2>5. undo'["A"] = undo["A"] /\ undo'["C"] = undo["C"]
    BY <1>1, <1>6, <2>4
  <2>6. /\ inTx' = [q \in Sessions |-> inTx'[q]] /\ ~inTx'["B"] /\ ~inTx'["C"]
        /\ undo'["A"] = << >> /\ undo'["C"] = << >>
    <3>1. pc["C"] # 2
      BY <2>2, Distinct, Zenon
    <3> QED BY <1>1, <1>4, <2>5, <3>1 DEF PhantomRows
  <2>7. pc'["B"] = pc["B"] /\ pc'["C"] = pc["C"] /\ err' = err
    BY <1>2
  <2>8. pc'["B"] = 2 /\ pc'["C"] = 1
    BY <2>1, <2>2, <2>7
  <2>9. pc'["B"] \notin {1, 3, 4} /\ pc'["C"] \notin {2, 3, 4}
    BY <2>8, Distinct, Zenon
  <2>10. PhantomRows'
    BY <2>4, <2>6, <2>8, <2>9, Zenon DEF PhantomRows
  <2>11. at'["A"].stage = "idle"
    BY <1>4, <1>6, <1>9, <2>2, PhantomIdle
  <2> QED BY <2>10, <2>11 DEF PhantomScan, Selects
<1>10. CASE s = "C"
  <2>1. pc["C"] = 2 /\ Op(s).st = Insert(1, 1, 5)
    BY <1>1, <1>2, <1>10, PhantomOps DEF Send, Recv
  <2>2. pc["A"] = 8 /\ pc["B"] = 4 /\ Writing("C")
    BY <1>1, <1>3, <1>10, <2>1, PhantomWriters
  <2>3. CWrites
    BY <1>1, <2>1, <2>2 DEF PhantomRows
  <2>4. CWrites' /\ undo' = [undo EXCEPT !["C"] = undo'["C"]]
    BY <1>1, <1>3, <1>10, <2>1, <2>3, PhantomInserts
  <2>5. undo'["A"] = undo["A"] /\ undo'["B"] = undo["B"]
    BY <1>1, <1>6, <2>4
  <2>6. /\ inTx' = [q \in Sessions |-> inTx'[q]] /\ ~inTx'["B"] /\ ~inTx'["C"]
        /\ undo'["A"] = << >> /\ undo'["B"] = << >>
    <3>1. pc["B"] # 2
      BY <2>2, Distinct, Zenon
    <3> QED BY <1>1, <1>4, <2>5, <3>1 DEF PhantomRows
  <2>7. pc'["B"] = pc["B"] /\ pc'["C"] = pc["C"] /\ err' = err
    BY <1>2
  <2>8. pc'["C"] = 2 /\ pc'["B"] = 4
    BY <2>1, <2>2, <2>7
  <2>9. pc'["B"] \notin {1, 2} /\ pc'["C"] \notin {1, 3, 4}
    BY <2>8, Distinct, Zenon
  <2>10. PhantomRows'
    BY <2>4, <2>6, <2>8, <2>9, Zenon DEF PhantomRows
  <2>11. at'["A"].stage = "idle"
    BY <1>4, <1>6, <1>10, <2>2, PhantomIdle
  <2> QED BY <2>10, <2>11 DEF PhantomScan, Selects
<1> QED BY <1>6, <1>8, <1>9, <1>10

\* A statement of the phantom program returns.
LEMMA PhantomReturn ==
  ASSUME PhantomNow, NEW s \in Sessions, Return(s)
  PROVE  PhantomInv'
<1>1. /\ PhantomPlaces /\ PhantomSeen /\ PhantomRows /\ PhantomScan /\ prog = PhantomRead
      /\ undo = [q \in Sessions |-> undo[q]] /\ at = [q \in Sessions |-> at[q]]
      /\ pc \in [Sessions -> Nat]
  BY DEF PhantomNow, TypeInv, DataOK, ControlOK
<1>2. /\ Running(s) /\ Op(s).op = "sql" /\ UNCHANGED <<prog, err, ended, rows, inTx>>
      /\ at[s].stage = "end" /\ at' = [at EXCEPT ![s] = Idle]
      /\ undo' = IF inTx[s] THEN undo ELSE [undo EXCEPT ![s] = << >>]
  BY DEF Return, At, Finish
<1>3. pc' = [q \in Sessions |-> IF q = s THEN pc[q] + 1 ELSE pc[q]]
  BY DEF Return, Step
<1>4. seen' = IF Op(s).st.do = "select5" THEN [seen EXCEPT ![s] = Append(seen[s], at[s].hits)] ELSE seen
  BY DEF Return
<1>5. Sessions = {"A", "B", "C"}
  BY SessionNames
<1>6. \A t \in Sessions : t # s => at'[t] = at[t] /\ undo'[t] = undo[t] /\ pc'[t] = pc[t]
  BY <1>1, <1>2, <1>3
<1>7. CASE s = "A"
  <2>1. pc["A"] \in {3, 6, 9} /\ Op(s).st = Phantoms
    BY <1>1, <1>2, <1>7, PhantomOps, SMTT(40) DEF Send, Recv
  <2>2. pc'["A"] = pc["A"] + 1 /\ pc'["B"] = pc["B"] /\ pc'["C"] = pc["C"]
    BY <1>1, <1>3, <1>5, <1>7
  <2>3. FivesBelow(rows, at["A"].hits, 1000)
    BY <1>1, <1>2, <1>7, ZenonT(60) DEF PhantomScan, Selects
  <2>4. /\ pc["A"] = 3 => at["A"].hits = {5}
        /\ pc["A"] = 6 => at["A"].hits = {0, 5}
        /\ pc["A"] = 9 => at["A"].hits = {0, 1, 5}
    BY <1>1, <2>1, <2>3, PhantomScanned, PhantomFives, Zenon
  <2>5. seen'["A"] = Append(seen["A"], at["A"].hits)
    <3>1. Op(s).st.do = "select5"
      BY <2>1 DEF Phantoms, Scan
    <3>2. seen = [q \in Sessions |-> seen[q]]
      BY <1>1 DEF PhantomSeen
    <3> QED BY <1>4, <1>5, <1>7, <3>1, <3>2
  <2>6. PhantomPlaces'
    BY <1>1, <2>1, <2>2 DEF PhantomPlaces
  <2>7. seen' = [q \in Sessions |-> seen'[q]]
    BY <1>1, <1>4 DEF PhantomSeen
  <2>8. PhantomSeen'
    <3>1. CASE pc["A"] = 3
      <4>1. at["A"].hits = {5} /\ pc'["A"] = 4 /\ seen["A"] = Shows(3)
        BY <1>1, <2>2, <2>4, <3>1 DEF PhantomSeen
      <4> QED BY <2>5, <2>7, <4>1, PhantomShown DEF PhantomSeen
    <3>2. CASE pc["A"] = 6
      <4>1. at["A"].hits = {0, 5} /\ pc'["A"] = 7 /\ seen["A"] = Shows(6)
        BY <1>1, <2>2, <2>4, <3>2 DEF PhantomSeen
      <4> QED BY <2>5, <2>7, <4>1, PhantomShown DEF PhantomSeen
    <3>3. CASE pc["A"] = 9
      <4>1. at["A"].hits = {0, 1, 5} /\ pc'["A"] = 10 /\ seen["A"] = Shows(9)
        BY <1>1, <2>2, <2>4, <3>3 DEF PhantomSeen
      <4> QED BY <2>5, <2>7, <4>1, PhantomShown DEF PhantomSeen
    <3> QED BY <2>1, <3>1, <3>2, <3>3
  <2>9. PhantomScan'
    <3>1. at'["A"] = Idle
      BY <1>1, <1>2, <1>5, <1>7
    <3> QED BY <3>1 DEF PhantomScan, Selects, Idle
  <2>10. PhantomRows'
    <3>1. undo'["A"] = << >> /\ inTx' = [q \in Sessions |-> inTx'[q]]
      BY <1>1, <1>2, <1>5, <1>7 DEF PhantomRows
    <3>2. \A t \in {"B", "C"} : at'[t] = at[t] /\ pc'[t] = pc[t] /\ undo'[t] = undo[t] /\ inTx'[t] = inTx[t]
      BY <1>2, <1>5, <1>6, <1>7
    <3> QED BY <1>1, <1>2, <3>1, <3>2, PhantomKeeps
  <2> QED BY <2>6, <2>8, <2>9, <2>10 DEF PhantomInv
<1>8. CASE s = "B"
  <2>1. pc["B"] = 2 /\ Op(s).st = Set5(Eq("p", 0))
    BY <1>1, <1>2, <1>8, PhantomOps DEF Send, Recv
  <2>2. pc["A"] = 5 /\ pc["C"] = 1 /\ Writing("B")
    BY <1>1, <1>2, <1>8, <2>1, PhantomWriters DEF Running, Writing
  <2>3. rows = Five0 /\ undo'["B"] = << >>
    <3>1. BWrites
      BY <1>1, <2>1, <2>2 DEF PhantomRows
    <3>2. rows = Five0
      BY <1>2, <1>8, <3>1 DEF BWrites
    <3>3. undo'["B"] = << >>
      BY <1>1, <1>2, <1>5, <1>8 DEF PhantomRows
    <3> QED BY <3>2, <3>3
  <2>4. pc'["A"] = 5 /\ pc'["B"] = 3 /\ pc'["C"] = 1
    <3>1. pc'["B"] = pc["B"] + 1 /\ pc'["A"] = pc["A"] /\ pc'["C"] = pc["C"]
      BY <1>1, <1>3, <1>5, <1>8
    <3>2. pc'["B"] = 2 + 1
      BY <2>1, <3>1
    <3>3. 2 + 1 = 3
      OBVIOUS
    <3> QED BY <2>2, <3>1, <3>2, <3>3, Zenon
  <2>5. seen' = seen
    <3>1. Op(s).st.do # "select5"
      BY <2>1 DEF Set5, Scan
    <3> QED BY <1>4, <3>1
  <2>6. PhantomPlaces' /\ PhantomSeen'
    BY <1>1, <2>2, <2>4, <2>5 DEF PhantomPlaces, PhantomSeen
  <2>7. undo'["A"] = << >> /\ undo'["C"] = << >>
    <3>1. pc["C"] # 2
      BY <2>2, Distinct, Zenon
    <3> QED BY <1>1, <1>5, <1>6, <1>8, <3>1 DEF PhantomRows
  <2>8. pc'["B"] \notin {1, 2} /\ pc'["C"] \notin {2, 3, 4}
    BY <2>4, Distinct, Zenon
  <2>9. inTx' = [q \in Sessions |-> inTx'[q]] /\ ~inTx'["B"] /\ ~inTx'["C"]
    BY <1>1, <1>2 DEF PhantomRows
  <2>10. PhantomRows'
    BY <1>2, <2>3, <2>7, <2>8, <2>9, Zenon DEF PhantomRows
  <2>11. at'["A"].stage = "idle"
    BY <1>5, <1>6, <1>8, <2>2, PhantomIdle
  <2> QED BY <2>6, <2>10, <2>11 DEF PhantomInv, PhantomScan, Selects
<1>9. CASE s = "C"
  <2>1. pc["C"] = 2 /\ Op(s).st = Insert(1, 1, 5)
    BY <1>1, <1>2, <1>9, PhantomOps DEF Send, Recv
  <2>2. pc["A"] = 8 /\ pc["B"] = 4 /\ Writing("C")
    BY <1>1, <1>2, <1>9, <2>1, PhantomWriters DEF Running, Writing
  <2>3. rows = Five1(TRUE) /\ undo'["C"] = << >>
    <3>1. CWrites
      BY <1>1, <2>1, <2>2 DEF PhantomRows
    <3>2. rows = Five1(TRUE)
      BY <1>2, <1>9, <3>1 DEF CWrites
    <3>3. undo'["C"] = << >>
      BY <1>1, <1>2, <1>5, <1>9 DEF PhantomRows
    <3> QED BY <3>2, <3>3
  <2>4. pc'["A"] = 8 /\ pc'["B"] = 4 /\ pc'["C"] = 3
    <3>1. pc'["C"] = pc["C"] + 1 /\ pc'["A"] = pc["A"] /\ pc'["B"] = pc["B"]
      BY <1>1, <1>3, <1>5, <1>9
    <3>2. pc'["C"] = 2 + 1
      BY <2>1, <3>1
    <3>3. 2 + 1 = 3
      OBVIOUS
    <3> QED BY <2>2, <3>1, <3>2, <3>3, Zenon
  <2>5. seen' = seen
    <3>1. Op(s).st.do # "select5"
      BY <2>1 DEF Insert
    <3> QED BY <1>4, <3>1
  <2>6. PhantomPlaces' /\ PhantomSeen'
    BY <1>1, <2>2, <2>4, <2>5 DEF PhantomPlaces, PhantomSeen
  <2>7. undo'["A"] = << >> /\ undo'["B"] = << >>
    <3>1. pc["B"] # 2
      BY <2>2, Distinct, Zenon
    <3> QED BY <1>1, <1>5, <1>6, <1>9, <3>1 DEF PhantomRows
  <2>8. pc'["B"] \notin {1, 2} /\ pc'["C"] \notin {1, 2}
    BY <2>4, Distinct, Zenon
  <2>9. inTx' = [q \in Sessions |-> inTx'[q]] /\ ~inTx'["B"] /\ ~inTx'["C"]
    BY <1>1, <1>2 DEF PhantomRows
  <2>10. PhantomRows'
    BY <1>2, <2>3, <2>7, <2>8, <2>9, Zenon DEF PhantomRows
  <2>11. at'["A"].stage = "idle"
    BY <1>5, <1>6, <1>9, <2>2, PhantomIdle
  <2> QED BY <2>6, <2>10, <2>11 DEF PhantomInv, PhantomScan, Selects
<1> QED BY <1>5, <1>7, <1>8, <1>9

\* Rolling back nothing changes nothing.
LEMMA UndoneNothing ==
  ASSUME Table(rows, Row)
  PROVE  Undone(<< >>) = rows
BY DEF Table, Undone

\* A rollback of a session that has written nothing changes nothing; one in the
\* middle of its statement also ends the session.
LEMMA PhantomRollBack ==
  ASSUME PhantomNow, NEW s \in Sessions, RollBack(s), UNCHANGED <<prog, pc, seen, ended>>,
         \/ at[s].stage = "idle" /\ err' = err
         \/ err[s] # "" /\ err' = err
         \/ \E e \in Errors : err' = [err EXCEPT ![s] = e]
  PROVE  PhantomInv'
<1>1. /\ PhantomPlaces /\ PhantomSeen /\ PhantomRows /\ PhantomScan /\ prog = PhantomRead
      /\ undo = [q \in Sessions |-> undo[q]] /\ at = [q \in Sessions |-> at[q]]
      /\ Table(rows, Row) /\ err = [q \in Sessions |-> err[q]]
  BY DEF PhantomNow, TypeInv, DataOK, ControlOK
<1>2. Sessions = {"A", "B", "C"}
  BY SessionNames
<1>3. PhantomPlaces' /\ PhantomSeen'
  BY <1>1 DEF PhantomPlaces, PhantomSeen
<1>4. inTx' = [q \in Sessions |-> inTx'[q]] /\ ~inTx'["B"] /\ ~inTx'["C"]
  BY <1>1, <1>2 DEF PhantomRows, RollBack
<1>5. /\ at'[s].stage = "idle" /\ undo'[s] = << >>
      /\ \A t \in Sessions : t # s => at'[t] = at[t] /\ undo'[t] = undo[t] /\ err'[t] = err[t]
  BY <1>1 DEF RollBack, Idle
<1>6. err'[s] # "" \/ (at[s].stage = "idle" /\ err' = err)
  BY <1>1 DEF Errors
<1>7. SUFFICES PhantomRows' /\ PhantomScan'
  BY <1>3 DEF PhantomInv
<1>8. CASE undo[s] = << >>
  <2>1. rows' = rows
    BY <1>1, <1>8, UndoneNothing DEF RollBack
  <2>2. PhantomScan'
    <3>1. CASE s = "A"
      BY <1>5, <3>1, ZenonT(60) DEF PhantomScan, Selects
    <3>2. CASE s # "A"
      BY <1>1, <1>2, <1>5, <2>1, <3>2 DEF PhantomScan
    <3> QED BY <3>1, <3>2, Zenon
  <2>3. undo' = undo
    BY <1>1, <1>8 DEF RollBack
  <2>4. pc["B"] = 2 /\ Writing("B")' => BWrites'
    <3>1. CASE s = "B"
      BY <1>1, <1>2, <1>5, <1>6, <2>1, <2>3, <3>1 DEF PhantomRows, BWrites, Writing
    <3>2. CASE s # "B"
      BY <1>1, <1>2, <1>5, <2>1, <2>3, <3>2 DEF PhantomRows, BWrites, Writing
    <3> QED BY <3>1, <3>2
  <2>5. pc["C"] = 2 /\ Writing("C")' => CWrites'
    <3>1. CASE s = "C"
      BY <1>1, <1>2, <1>5, <1>6, <2>1, <2>3, <3>1 DEF PhantomRows, CWrites, Writing
    <3>2. CASE s # "C"
      BY <1>1, <1>2, <1>5, <2>1, <2>3, <3>2 DEF PhantomRows, CWrites, Writing
    <3> QED BY <3>1, <3>2
  <2>6. pc' = pc
    OBVIOUS
  <2>7. PhantomRows'
    BY <1>1, <1>4, <2>1, <2>3, <2>4, <2>5, <2>6 DEF PhantomRows
  <2> QED BY <2>2, <2>7
<1>9. CASE undo[s] # << >>
  <2>1. (s = "B" /\ pc["B"] = 2) \/ (s = "C" /\ pc["C"] = 2)
    BY <1>1, <1>2, <1>9 DEF PhantomRows
  <2>2. ~Writing(s)'
    <3>1. ASSUME at[s].stage = "idle", err[s] = "" PROVE FALSE
      BY <1>1, <1>2, <1>9, <2>1, <3>1 DEF PhantomRows, BWrites, CWrites, Writing
    <3> QED BY <1>5, <1>6, <3>1 DEF Writing
  <2>3. CASE s = "B"
    <3>1. pc["B"] = 2 /\ pc["A"] = 5 /\ pc["C"] = 1
      BY <1>1, <2>1, <2>3, PhantomWriters
    <3>2. pc'["B"] \notin {1, 3, 4} /\ pc'["C"] \notin {2, 3, 4} /\ pc["C"] # 2
      BY <3>1, Distinct, Zenon
    <3>3. undo'["A"] = << >> /\ undo'["C"] = << >> /\ undo'["B"] = << >>
      BY <1>1, <1>2, <1>5, <2>3, <3>2 DEF PhantomRows
    <3>4. PhantomRows'
      BY <1>4, <2>2, <2>3, <3>2, <3>3, Zenon DEF PhantomRows
    <3>5. at'["A"].stage = "idle"
      BY <1>2, <1>5, <2>3, <3>1, PhantomIdle
    <3> QED BY <3>4, <3>5 DEF PhantomScan, Selects
  <2>4. CASE s = "C"
    <3>1. pc["C"] = 2 /\ pc["A"] = 8 /\ pc["B"] = 4
      BY <1>1, <2>1, <2>4, PhantomWriters
    <3>2. pc'["C"] \notin {1, 3, 4} /\ pc'["B"] \notin {1, 2} /\ pc["B"] # 2
      BY <3>1, Distinct, Zenon
    <3>3. undo'["A"] = << >> /\ undo'["C"] = << >> /\ undo'["B"] = << >>
      BY <1>1, <1>2, <1>5, <2>4, <3>2 DEF PhantomRows
    <3>4. PhantomRows'
      BY <1>4, <2>2, <2>4, <3>2, <3>3, Zenon DEF PhantomRows
    <3>5. at'["A"].stage = "idle"
      BY <1>2, <1>5, <2>4, <3>1, PhantomIdle
    <3> QED BY <3>4, <3>5 DEF PhantomScan, Selects
  <2> QED BY <2>1, <2>3, <2>4
<1> QED BY <1>8, <1>9

\* The end of a goroutine or of the process leaves the table alone.
LEMMA PhantomDies ==
  ASSUME PhantomNow, NEW s \in Sessions, Dies(s)
  PROVE  PhantomInv'
<1>1. PhantomPlaces /\ PhantomSeen /\ PhantomRows /\ PhantomScan
  BY DEF PhantomNow
<1>2. UNCHANGED <<dbVars, prog, pc, seen>>
  BY DiesMoves
<1>3. \A t \in Sessions : Writing(t)' => Writing(t)
  <2>1. err = [t \in Sessions |-> err[t]] /\ at' = at
    BY <1>2 DEF PhantomNow, TypeInv, ControlOK, dbVars
  <2>2. \A t \in Sessions : err'[t] = "" => err[t] = ""
    BY <2>1, DiesMoves
  <2> QED BY <2>1, <2>2 DEF Writing
<1>4. PhantomPlaces' /\ PhantomSeen' /\ PhantomScan'
  BY <1>1, <1>2 DEF PhantomPlaces, PhantomSeen, PhantomScan, dbVars
<1>5. PhantomRows'
  <2>1. "B" \in Sessions /\ "C" \in Sessions
    BY SessionNames
  <2>2. (Writing("B")' => Writing("B")) /\ (Writing("C")' => Writing("C"))
    BY <1>3, <2>1
  <2> HIDE DEF Writing
  <2> QED BY <1>1, <1>2, <2>2 DEF PhantomRows, BWrites, CWrites, dbVars
<1> QED BY <1>4, <1>5 DEF PhantomInv

\* A statement ends with nobody to answer.
LEMMA PhantomAnswers ==
  ASSUME PhantomNow, NEW s \in Sessions, NobodyToAnswer(s)
  PROVE  PhantomInv'
<1>1. /\ PhantomPlaces /\ PhantomSeen /\ PhantomRows /\ PhantomScan
      /\ undo = [q \in Sessions |-> undo[q]] /\ at = [q \in Sessions |-> at[q]]
  BY DEF PhantomNow, TypeInv, DataOK
<1>2. /\ UNCHANGED <<prog, pc, seen, ended, err, rows, inTx>> /\ err[s] # ""
      /\ at' = [at EXCEPT ![s] = Idle] /\ (undo' = undo \/ undo' = [undo EXCEPT ![s] = << >>])
  BY DEF NobodyToAnswer, Finish
<1>3. Sessions = {"A", "B", "C"}
  BY SessionNames
<1>4. PhantomPlaces' /\ PhantomSeen'
  BY <1>1, <1>2 DEF PhantomPlaces, PhantomSeen
<1>5. /\ at'[s].stage = "idle" /\ ~Writing(s)'
      /\ \A t \in Sessions : /\ t # s => at'[t] = at[t] /\ undo'[t] = undo[t] /\ Writing(t)' = Writing(t)
                             /\ undo[t] = << >> => undo'[t] = << >>
  BY <1>1, <1>2 DEF Idle, Writing
<1>6. PhantomScan'
  <2>1. CASE s = "A"
    BY <1>5, <2>1, ZenonT(60) DEF PhantomScan, Selects
  <2>2. CASE s # "A"
    BY <1>1, <1>2, <1>3, <1>5, <2>2 DEF PhantomScan
  <2> QED BY <2>1, <2>2, SMTT(40)
<1>7. PhantomRows'
  <2>1. pc["B"] = 2 /\ Writing("B")' => BWrites'
    BY <1>1, <1>2, <1>3, <1>5 DEF PhantomRows, BWrites
  <2>2. pc["C"] = 2 /\ Writing("C")' => CWrites'
    BY <1>1, <1>2, <1>3, <1>5 DEF PhantomRows, CWrites
  <2> HIDE DEF Writing
  <2> QED BY <1>1, <1>2, <1>3, <1>5, <2>1, <2>2 DEF PhantomRows
<1> QED BY <1>4, <1>6, <1>7 DEF PhantomInv

\* Once the program has ended, no session goes on in its script.
LEMMA EndedStays ==
  ASSUME ended # "no", Next
  PROVE  UNCHANGED <<prog, pc, waiting, seen, ended, dropped>>
<1>1. \A s \in Sessions : ~Running(s)
  BY DEF Running
<1>2. PICK s \in Sessions : SessionStep(s) \/ ConnectionLost(s)
  BY DEF Next, MainReturns
<1> QED BY <1>1, <1>2 DEF SessionStep, Rendezvous, BeginTx, SetIsolation, CommitTx, Statement, Return,
      LockTables, UnlockTables, CondWait, Broadcast, Woken, Select, DeadlockFound, LockWaitTimeout,
      ProcessDies, NobodyToAnswer, HangUp, AllClosed, ConnectionLost, At

\* No step breaks the phantom program's invariant.
LEMMA PhantomStep == TypeInv /\ PhantomInv /\ [Next]_vars => PhantomInv'
<1> SUFFICES ASSUME TypeInv, PhantomInv, [Next]_vars, prog = PhantomRead, prog' = prog
             PROVE  PhantomInv'
  BY ProgramStays DEF PhantomInv
<1>1. PhantomPlaces /\ PhantomSeen
  BY DEF PhantomInv
<1>2. CASE UNCHANGED vars
  <2> USE <1>2 DEF vars, dbVars
  <2>1. PhantomPlaces' /\ PhantomSeen'
    BY <1>1 DEF PhantomPlaces, PhantomSeen
  <2>2. ended = "no" => PhantomRows' /\ PhantomScan'
    BY DEF PhantomInv, PhantomRows, BWrites, CWrites, PhantomScan, Writing
  <2> QED BY <2>1, <2>2 DEF PhantomInv
<1>3. CASE Next /\ ended # "no"
  <2>1. UNCHANGED <<pc, seen, ended>>
    BY <1>3, EndedStays
  <2> QED BY <1>1, <1>3, <2>1 DEF PhantomInv, PhantomPlaces, PhantomSeen
<1>4. CASE Next /\ ended = "no"
  <2>1. PhantomNow
    BY <1>4 DEF PhantomInv, PhantomNow
  <2>2. CASE MainReturns
    <3>1. /\ UNCHANGED <<pc, seen>> /\ ended' # "no"
      BY <2>2 DEF MainReturns
    <3> QED BY <1>1, <3>1 DEF PhantomInv, PhantomPlaces, PhantomSeen
  <2>3. ASSUME NEW s \in Sessions, Undoes(s)
        PROVE  PhantomInv'
    <3>1. /\ RollBack(s) /\ UNCHANGED <<prog, pc, seen, ended>>
          /\ \/ at[s].stage = "idle" /\ err' = err
             \/ err[s] # "" /\ err' = err
             \/ \E e \in Errors : err' = [err EXCEPT ![s] = e]
      <4>1. CASE DeadlockFound(s) \/ LockWaitTimeout(s)
        BY <4>1 DEF DeadlockFound, LockWaitTimeout, Fails, Errors
      <4>2. CASE HangUp(s)
        BY <4>2 DEF HangUp, Close
      <4>3. CASE LostBetween(s)
        <5>1. Idle.stage = "idle"
          BY DEF Idle
        <5> QED BY <4>3, <5>1 DEF LostBetween, Close
      <4> QED BY <2>3, <4>1, <4>2, <4>3 DEF Undoes
    <3> QED BY <2>1, <3>1, PhantomRollBack
  <2>4. CASE \E s \in Sessions : SessionStep(s) \/ ConnectionLost(s)
    BY <2>1, <2>3, <2>4, StepKinds, PhantomQuiet, PhantomStatement, PhantomReturn, PhantomDies, PhantomAnswers
  <2> QED BY <1>4, <2>2, <2>4 DEF Next
<1> QED BY <1>2, <1>3, <1>4

\* wg.Wait returns only when all three goroutines are done.
PhantomDone == prog = PhantomRead /\ ended = "returned" => pc["A"] = 11

\* Nor does one let main return early.
LEMMA PhantomReturns == TypeInv /\ PhantomInv /\ PhantomDone /\ [Next]_vars => PhantomDone'
<1> SUFFICES ASSUME TypeInv, PhantomInv, PhantomDone, [Next]_vars, prog = PhantomRead, prog' = prog,
                    ended' = "returned"
             PROVE  pc'["A"] = 11
  BY ProgramStays DEF PhantomDone
<1>1. CASE ended = "returned"
  <2>1. pc' = pc
    BY <1>1, EndedStays DEF vars
  <2> QED BY <1>1, <2>1 DEF PhantomDone
<1>2. CASE ended # "returned"
  <2>1. MainReturns
    <3>1. CASE \E s \in Sessions : SessionStep(s) \/ ConnectionLost(s)
      <4>1. ended' = ended \/ ended' \in Errors
        BY <3>1, StepKinds, UndoesMoves, DiesMoves
          DEF Quiet, Rendezvous, BeginTx, SetIsolation, CommitTx, Statement, Return, LockTables,
              UnlockTables, CondWait, Broadcast, Woken, Select, NobodyToAnswer
      <4> QED BY <1>2, <4>1 DEF Errors
    <3> QED BY <1>2, <3>1 DEF Next, vars
  <2>2. Cardinality({s \in Sessions : Done(s)}) = 3 /\ pc' = pc
    BY <2>1 DEF MainReturns, PhantomRead, Program
  <2>3. Done("A")
    <3>1. SUFFICES ASSUME ~Done("A")
                   PROVE  Cardinality({s \in Sessions : Done(s)}) \in 0 .. 2
      BY <2>2
    <3> DEFINE S == {s \in Sessions : Done(s)}
    <3>2. S \subseteq {"B", "C"}
      BY <3>1, SessionNames
    <3> HIDE DEF S
    <3>3. IsFiniteSet({"B", "C"}) /\ Cardinality({"B", "C"}) = 2
      <4>1. IsFiniteSet({"B"}) /\ Cardinality({"B"}) = 1
        BY FS_Singleton
      <4>2. "C" \notin {"B"} /\ {"B"} \cup {"C"} = {"B", "C"}
        OBVIOUS
      <4>3. IsFiniteSet({"B"} \cup {"C"}) /\ Cardinality({"B"} \cup {"C"}) = 1 + 1
        BY <4>1, <4>2, FS_AddElement
      <4> QED BY <4>2, <4>3
    <3>4. Cardinality(S) \in Nat /\ Cardinality(S) <= 2
      BY <3>2, <3>3, FS_Subset, FS_CardinalityType
    <3>5. Cardinality(S) \in 0 .. 2
      BY <3>4
    <3> QED BY <3>5 DEF S
  <2>4. pc["A"] > 10
    <3>1. Len(Script("A")) = 10
      BY DEF Script, PhantomRead, Program
    <3> QED BY <2>3, <3>1 DEF Done
  <2>5. pc["A"] \in 1 .. 11
    BY DEF PhantomInv, PhantomPlaces
  <2> QED BY <2>2, <2>4, <2>5
<1> QED BY <1>1, <1>2

(* The phantom program (shared/phantom-read.go): when main returns, A's three *)
(* SELECT ... FOR UPDATE have shown one, two and three rows, whatever the     *)
(* timing and however many connections were lost on the way.                  *)
THEOREM PhantomsShow == Spec => []ShowsPhantoms
<1>1. Init => PhantomInv /\ PhantomDone
  <2> SUFFICES ASSUME Init, prog = PhantomRead
               PROVE  PhantomInv
    BY DEF Init, PhantomInv, PhantomDone
  <2>1. /\ pc["A"] = 1 /\ pc["B"] = 1 /\ pc["C"] = 1
        /\ undo["A"] = << >> /\ undo["B"] = << >> /\ undo["C"] = << >>
        /\ seen = [s \in Sessions |-> << >>] /\ seen["A"] = << >> /\ at["A"] = Idle
        /\ inTx = [s \in Sessions |-> FALSE] /\ ~inTx["B"] /\ ~inTx["C"]
    BY SessionNames DEF Init, InitDB
  <2>2. rows = Six
    BY DEF Init, InitDB, PhantomRead, Program
  <2>3. PhantomPlaces
    BY <2>1 DEF PhantomPlaces
  <2>4. PhantomSeen
    BY <2>1, PhantomShown DEF PhantomSeen
  <2>5. pc["B"] \notin {2, 3, 4} /\ pc["C"] \notin {2, 3, 4}
    BY <2>1, Distinct, Zenon
  <2>6. inTx = [s \in Sessions |-> inTx[s]]
    BY <2>1
  <2>7. PhantomRows
    BY <2>1, <2>2, <2>5, <2>6, Zenon DEF PhantomRows
  <2>8. PhantomScan
    BY <2>1 DEF PhantomScan, Selects, Idle
  <2> QED BY <2>3, <2>4, <2>7, <2>8 DEF PhantomInv
<1>2. TypeInv /\ PhantomInv /\ [Next]_vars => PhantomInv'
  BY PhantomStep
<1>3. TypeInv /\ PhantomInv /\ PhantomDone /\ [Next]_vars => PhantomDone'
  BY PhantomReturns
<1>4. PhantomInv /\ PhantomDone /\ prog \in Programs => ShowsPhantoms
  <2> SUFFICES ASSUME PhantomInv, PhantomDone, prog = PhantomRead, ended = "returned"
               PROVE  seen["A"] = <<{5}, {0, 5}, {0, 1, 5}>>
    BY ProgramNames DEF ShowsPhantoms
  <2>1. pc["A"] = 11
    BY DEF PhantomDone
  <2> QED BY <2>1, PhantomShown, SMTT(40) DEF PhantomInv, PhantomSeen
<1> QED BY <1>1, <1>2, <1>3, <1>4, TypesHold, ProgramHolds, PTL DEF Spec

-----------------------------------------------------------------------------
(* Who writes what.  A plan of a program says which ids each session may       *)
(* write (no two the same), which column c every id has, and where in its      *)
(* script a session inserts an id.                                             *)

Place(pl, idx, i) == <<IF idx = "p" THEN i ELSE pl.col[i], i>>
From(w, r) == w.lo < r[1] \/ (w.loIn /\ w.lo = r[1])

\* The k-th operation of s keeps to the plan.
Keeps(pl, data, s, k, o) ==
  /\ o.op = "begin" => s = "A"
  /\ o.op = "commit" => pl.own[s] = {}
  /\ o.op = "sql" /\ o.st.do = "insert" =>
        /\ o.st.id \in pl.own[s] \cap DOMAIN pl.col \cap 0 .. 30 /\ o.st.id \notin DOMAIN data
        /\ pl.col[o.st.id] = o.st.c /\ pl.pos[o.st.id] = k
  /\ o.op = "sql" /\ o.st.do \in {"add1", "set5", "delete"} =>
        \A i \in DOMAIN pl.col : From(o.st.w, Place(pl, o.st.w.idx, i)) /\ InRange(o.st.w, Place(pl, o.st.w.idx, i))
                                    => i \in pl.own[s] /\ i \in DOMAIN data
  /\ o.op = "sql" /\ o.st.do = "delete" => s = "A"

ScriptKeeps(pl, data, s, q) == \A k \in 1 .. Len(q) : Keeps(pl, data, s, k, q[k])

Tidy(r) == ~r.del /\ r.sec

Planned(pl, p) ==
  /\ DOMAIN pl.col \subseteq 0 .. 999 /\ \A i \in DOMAIN pl.col : pl.col[i] \in 0 .. 999
  /\ \A i \in DOMAIN p.data : i \in DOMAIN pl.col /\ p.data[i].c = pl.col[i] /\ Tidy(p.data[i])
  /\ \A s, t \in Sessions : s # t => pl.own[s] \cap pl.own[t] = {}
  /\ \A s \in Sessions : ScriptKeeps(pl, p.data, s, p.script[s])
  /\ pl.own["A"] # {} => p.script["A"][1].op = "begin"

\* A script keeps to the plan when each of its operations does.
LEMMA KeepScripts ==
  ASSUME NEW pl, NEW data, NEW s
  PROVE  /\ ScriptKeeps(pl, data, s, <<>>)
         /\ \A a, b : Keeps(pl, data, s, 1, a) /\ Keeps(pl, data, s, 2, b) => ScriptKeeps(pl, data, s, <<a, b>>)
         /\ \A a, b, c : /\ Keeps(pl, data, s, 1, a) /\ Keeps(pl, data, s, 2, b) /\ Keeps(pl, data, s, 3, c)
                         => ScriptKeeps(pl, data, s, <<a, b, c>>)
         /\ \A a, b, c, d : /\ Keeps(pl, data, s, 1, a) /\ Keeps(pl, data, s, 2, b)
                            /\ Keeps(pl, data, s, 3, c) /\ Keeps(pl, data, s, 4, d)
                            => ScriptKeeps(pl, data, s, <<a, b, c, d>>)
         /\ \A a, b, c, d, e : /\ Keeps(pl, data, s, 1, a) /\ Keeps(pl, data, s, 2, b) /\ Keeps(pl, data, s, 3, c)
                               /\ Keeps(pl, data, s, 4, d) /\ Keeps(pl, data, s, 5, e)
                               => ScriptKeeps(pl, data, s, <<a, b, c, d, e>>)
         /\ \A a, b, c, d, e, f, g, h, i, j :
               /\ Keeps(pl, data, s, 1, a) /\ Keeps(pl, data, s, 2, b) /\ Keeps(pl, data, s, 3, c)
               /\ Keeps(pl, data, s, 4, d) /\ Keeps(pl, data, s, 5, e) /\ Keeps(pl, data, s, 6, f)
               /\ Keeps(pl, data, s, 7, g) /\ Keeps(pl, data, s, 8, h) /\ Keeps(pl, data, s, 9, i)
               /\ Keeps(pl, data, s, 10, j)
               => ScriptKeeps(pl, data, s, <<a, b, c, d, e, f, g, h, i, j>>)
BY DEF ScriptKeeps

\* Operations that write nothing.
LEMMA KeepOthers ==
  ASSUME NEW pl, NEW data, NEW s, NEW k
  PROVE  /\ \A ch : Keeps(pl, data, s, k, Send(ch)) /\ Keeps(pl, data, s, k, Recv(ch))
         /\ \A op \in OtherOps : /\ op = "begin" => s = "A"
                                 /\ op = "commit" => pl.own[s] = {}
                                 => Keeps(pl, data, s, k, Do(op))
         /\ \A st : st.do \in {"select", "select5"} => Keeps(pl, data, s, k, Free(st))
BY DEF Keeps, Send, Recv, Do, Free, OtherOps

\* An insert keeps to a plan that has its id.
LEMMA KeepInserts ==
  ASSUME NEW pl, NEW data, NEW s, NEW k, NEW id, NEW c, NEW d,
         id \in pl.own[s], id \in DOMAIN pl.col, id \in 0 .. 30, id \notin DOMAIN data,
         pl.col[id] = c, pl.pos[id] = k
  PROVE  Keeps(pl, data, s, k, Free(Insert(id, c, d))) /\ Keeps(pl, data, s, k, Blocked(Insert(id, c, d)))
BY DEF Keeps, Insert, Free, Blocked

\* Every scan that writes looks for one value of one index.
LEMMA KeepScans ==
  ASSUME NEW pl, NEW data, NEW s, NEW k, NEW idx, NEW v \in Int, NEW st,
         st.do \in {"add1", "set5", "delete"}, st.w = Eq(idx, v), st.do = "delete" => s = "A",
         \A i \in DOMAIN pl.col : i \in Int /\ pl.col[i] \in Int,
         \A i \in DOMAIN pl.col : Place(pl, idx, i)[1] = v => i \in pl.own[s] /\ i \in DOMAIN data
  PROVE  Keeps(pl, data, s, k, Free(st)) /\ Keeps(pl, data, s, k, Blocked(st))
<1>1. st.w.idx = idx /\ st.w.lo = v /\ st.w.hi = v
  BY DEF Eq, Between
<1>2. ASSUME NEW i \in DOMAIN pl.col, From(st.w, Place(pl, idx, i)), InRange(st.w, Place(pl, idx, i))
      PROVE  i \in pl.own[s] /\ i \in DOMAIN data
  <2>1. Place(pl, idx, i)[1] \in Int
    BY DEF Place
  <2>2. Place(pl, idx, i)[1] = v
    BY <1>1, <1>2, <2>1 DEF From, InRange
  <2> QED BY <2>2
<1> QED BY <1>1, <1>2 DEF Keeps, Free, Blocked

\* In cases 01 to 05 and 08 and in the phantom program, c is the id.
Straight(ids) == [i \in ids |-> i]
Owners(a, b, c) == [A |-> a, B |-> b, C |-> c]
SixIds == {0, 5, 10, 15, 20, 25}

\* The prepared rows are complete and not deleted.
LEMMA SixTidy == DOMAIN Six = SixIds /\ \A i \in SixIds : Six[i].c = i /\ Tidy(Six[i])
BY DEF Six, SixIds, Tidy

\* What makes a plan of a program.
LEMMA PlanIs ==
  ASSUME NEW pl, DOMAIN pl.col \subseteq 0 .. 30, \A i \in DOMAIN pl.col : pl.col[i] \in 0 .. 999,
         pl.own["A"] \cap pl.own["B"] = {}, pl.own["B"] \cap pl.own["C"] = {}, pl.own["A"] \cap pl.own["C"] = {},
         NEW prg, NEW data, prg.data = data,
         \A i \in DOMAIN data : i \in DOMAIN pl.col /\ data[i].c = pl.col[i] /\ Tidy(data[i]),
         ScriptKeeps(pl, data, "A", prg.script["A"]),
         ScriptKeeps(pl, data, "B", prg.script["B"]),
         ScriptKeeps(pl, data, "C", prg.script["C"]),
         pl.own["A"] = {} \/ prg.script["A"][1].op = "begin"
  PROVE  Planned(pl, prg)
<1>1. DOMAIN pl.col \subseteq 0 .. 999
  <2> SUFFICES ASSUME NEW i \in DOMAIN pl.col
               PROVE  i \in 0 .. 999
    OBVIOUS
  <2>1. i \in 0 .. 30
    OBVIOUS
  <2> QED BY <2>1
<1>2. \A i \in DOMAIN pl.col : pl.col[i] \in 0 .. 999
  OBVIOUS
<1>3. \A s, t \in Sessions : s # t => pl.own[s] \cap pl.own[t] = {}
  BY SessionNames
<1>4. \A s \in Sessions : ScriptKeeps(pl, data, s, prg.script[s])
  BY SessionNames
<1>5. \A i \in DOMAIN data : i \in DOMAIN pl.col /\ data[i].c = pl.col[i] /\ Tidy(data[i])
  OBVIOUS
<1>6. pl.own["A"] # {} => prg.script["A"][1].op = "begin"
  OBVIOUS
<1>7. /\ DOMAIN pl.col \subseteq 0 .. 999 /\ \A i \in DOMAIN pl.col : pl.col[i] \in 0 .. 999
  BY <1>1, <1>2, ZenonT(60)
<1> QED BY <1>3, <1>4, <1>5, <1>6, <1>7, SMTT(40), ZenonT(60) DEF Planned

\* A plan in which every id is its own column, as in all cases but 06 and 07.
LEMMA StraightPlan ==
  ASSUME NEW ids, SixIds \subseteq ids, ids \subseteq 0 .. 30, NEW pl, pl.col = Straight(ids),
         pl.own["A"] \cap pl.own["B"] = {}, pl.own["B"] \cap pl.own["C"] = {}, pl.own["A"] \cap pl.own["C"] = {},
         NEW prg, prg.data = Six, ScriptKeeps(pl, Six, "A", prg.script["A"]),
         ScriptKeeps(pl, Six, "B", prg.script["B"]), ScriptKeeps(pl, Six, "C", prg.script["C"]),
         pl.own["A"] = {} \/ prg.script["A"][1].op = "begin"
  PROVE  Planned(pl, prg)
<1>1. DOMAIN pl.col = ids /\ \A i \in ids : pl.col[i] = i
  BY DEF Straight
<1>2. \A i \in ids : pl.col[i] \in 0 .. 999
  <2> SUFFICES ASSUME NEW i \in ids
               PROVE  pl.col[i] \in 0 .. 999
    OBVIOUS
  <2>1. i \in 0 .. 30 /\ pl.col[i] = i
    BY <1>1
  <2> QED BY <2>1
<1>3. \A i \in DOMAIN Six : i \in DOMAIN pl.col /\ Six[i].c = pl.col[i] /\ Tidy(Six[i])
  BY <1>1, SixTidy
<1> QED BY <1>1, <1>2, <1>3, PlanIs, ZenonT(60)

\* In it, an update by key or column writes one id.
LEMMA StraightScans ==
  ASSUME NEW ids, ids \subseteq 0 .. 30, NEW pl, pl.col = Straight(ids), NEW s, NEW k,
         NEW idx, NEW v, v \in Int, v \in ids => v \in pl.own[s] /\ v \in SixIds
  PROVE  /\ Keeps(pl, Six, s, k, Free(Add1(Eq(idx, v)))) /\ Keeps(pl, Six, s, k, Blocked(Add1(Eq(idx, v))))
         /\ Keeps(pl, Six, s, k, Free(Set5(Eq(idx, v))))
<1>1. DOMAIN pl.col = ids /\ \A i \in ids : i \in Int /\ pl.col[i] = i
  BY DEF Straight
<1>2. \A i \in ids : Place(pl, idx, i)[1] = v => i \in pl.own[s] /\ i \in DOMAIN Six
  BY <1>1, SixTidy DEF Place
<1>3. /\ Add1(Eq(idx, v)).do = "add1" /\ Add1(Eq(idx, v)).w = Eq(idx, v)
      /\ Set5(Eq(idx, v)).do = "set5" /\ Set5(Eq(idx, v)).w = Eq(idx, v)
  BY DEF Add1, Set5, Scan
<1>4. \A i \in DOMAIN pl.col : i \in Int /\ pl.col[i] \in Int
  BY <1>1
<1>5. \A i \in DOMAIN pl.col : Place(pl, idx, i)[1] = v => i \in pl.own[s] /\ i \in DOMAIN Six
  BY <1>1, <1>2
<1> DEFINE a == Add1(Eq(idx, v))
           b == Set5(Eq(idx, v))
<1>6. /\ a.do \in {"add1", "set5", "delete"} /\ a.w = Eq(idx, v) /\ (a.do = "delete" => s = "A")
      /\ b.do \in {"add1", "set5", "delete"} /\ b.w = Eq(idx, v) /\ (b.do = "delete" => s = "A")
  BY <1>3
<1> HIDE DEF a, b
<1>7. /\ Keeps(pl, Six, s, k, Free(a)) /\ Keeps(pl, Six, s, k, Blocked(a))
  BY <1>4, <1>5, <1>6, KeepScans
<1>8. Keeps(pl, Six, s, k, Free(b))
  BY <1>4, <1>5, <1>6, KeepScans
<1> QED BY <1>7, <1>8 DEF a, b

\* The plans, program by program.
Plan01 == [own |-> Owners({}, {8}, {5, 10}), col |-> Straight(SixIds \cup {8}),
           pos |-> [i \in {8} |-> 3]]

\* Case 01 keeps to it.
LEMMA PlanCase01 == Planned(Plan01, Case01)
<1> DEFINE ids == SixIds \cup {8}
           pl  == Plan01
<1>1. /\ pl.own["A"] = {} /\ pl.own["B"] = {8} /\ pl.own["C"] = {5, 10}
      /\ DOMAIN pl.col = ids /\ pl.col = Straight(ids) /\ SixIds \subseteq ids /\ ids \subseteq 0 .. 30
      /\ 8 \in ids /\ 8 \in 0 .. 30 /\ 8 \in {8} /\ 8 \notin DOMAIN Six /\ pl.col[8] = 8 /\ pl.pos[8] = 3
  BY SixTidy DEF Plan01, Owners, Straight, SixIds
<1>2. /\ 5 \in Int /\ 7 \in Int /\ 10 \in Int
      /\ 5 \in SixIds /\ 7 \notin ids /\ 10 \in SixIds
      /\ 5 \in {5, 10} /\ 10 \in {5, 10}
  BY DEF SixIds
<1> HIDE DEF pl, ids
<1>3. Keeps(pl, Six, "A", 2, Free(Add1(Eq("p", 7))))
  BY <1>1, <1>2, StraightScans, Zenon
<1>4. Keeps(pl, Six, "C", 2, Free(Add1(Eq("p", 5))))
  BY <1>1, <1>2, StraightScans, Zenon
<1>5. Keeps(pl, Six, "C", 3, Free(Add1(Eq("p", 10))))
  BY <1>1, <1>2, StraightScans, Zenon
<1>6. Keeps(pl, Six, "B", 3, Blocked(Insert(8, 8, 8)))
  BY <1>1, KeepInserts, Zenon
<1>7. Case01.data = Six /\ ScriptKeeps(pl, Six, "A", Case01.script["A"])
  BY <1>1, <1>3, KeepOthers, KeepScripts DEF OtherOps, Case01, Program
<1>8. Case01.data = Six /\ ScriptKeeps(pl, Six, "B", Case01.script["B"])
  BY <1>1, <1>6, KeepOthers, KeepScripts DEF OtherOps, Case01, Program
<1>9. Case01.data = Six /\ ScriptKeeps(pl, Six, "C", Case01.script["C"])
  BY <1>1, <1>4, <1>5, KeepOthers, KeepScripts DEF OtherOps, Case01, Program
<1>10. /\ pl.own["A"] \cap pl.own["B"] = {} /\ pl.own["B"] \cap pl.own["C"] = {}
       /\ pl.own["A"] \cap pl.own["C"] = {}
  BY <1>1
<1>11. pl.own["A"] = {} \/ Case01.script["A"][1].op = "begin"
  BY <1>1 DEF Case01, Program, Do
<1>12. Planned(pl, Case01)
  BY <1>1, <1>7, <1>8, <1>9, <1>10, <1>11, StraightPlan
<1> QED BY <1>12 DEF pl

Plan03 == [own |-> Owners({}, {8, 13}, {15}), col |-> Straight(SixIds \cup {8, 13}),
           pos |-> [i \in {8, 13} |-> IF i = 8 THEN 3 ELSE 4]]

\* Case 03 keeps to its own.
LEMMA PlanCase03 == Planned(Plan03, Case03)
<1> DEFINE ids == SixIds \cup {8, 13}
           pl  == Plan03
<1>1. /\ pl.own["A"] = {} /\ pl.own["B"] = {8, 13} /\ pl.own["C"] = {15}
      /\ DOMAIN pl.col = ids /\ pl.col = Straight(ids) /\ SixIds \subseteq ids /\ ids \subseteq 0 .. 30
      /\ 8 \in ids /\ 8 \in 0 .. 30 /\ 8 \in {8, 13} /\ 8 \notin DOMAIN Six /\ pl.col[8] = 8 /\ pl.pos[8] = 3
      /\ 13 \in ids /\ 13 \in 0 .. 30 /\ 13 \in {8, 13} /\ 13 \notin DOMAIN Six /\ pl.col[13] = 13 /\ pl.pos[13] = 4
  BY SixTidy DEF Plan03, Owners, Straight, SixIds
<1>2. /\ 15 \in Int
      /\ 15 \in SixIds
      /\ 15 \in {15}
  BY DEF SixIds
<1> HIDE DEF pl, ids
<1>3. Keeps(pl, Six, "C", 2, Free(Add1(Eq("p", 15))))
  BY <1>1, <1>2, StraightScans, Zenon
<1>4. Keeps(pl, Six, "B", 3, Free(Insert(8, 8, 8)))
  BY <1>1, KeepInserts, Zenon
<1>5. Keeps(pl, Six, "B", 4, Blocked(Insert(13, 13, 13)))
  BY <1>1, KeepInserts, Zenon
<1>6. Keeps(pl, Six, "A", 2, Free(ForUpdate(Between("p", 10, TRUE, 11, FALSE))))
  BY <1>1, KeepOthers DEF ForUpdate, Scan
<1>7. Case03.data = Six /\ ScriptKeeps(pl, Six, "A", Case03.script["A"])
  BY <1>1, <1>6, KeepOthers, KeepScripts DEF OtherOps, Case03, Program
<1>8. Case03.data = Six /\ ScriptKeeps(pl, Six, "B", Case03.script["B"])
  BY <1>1, <1>4, <1>5, KeepOthers, KeepScripts DEF OtherOps, Case03, Program
<1>9. Case03.data = Six /\ ScriptKeeps(pl, Six, "C", Case03.script["C"])
  BY <1>1, <1>3, KeepOthers, KeepScripts DEF OtherOps, Case03, Program
<1>10. /\ pl.own["A"] \cap pl.own["B"] = {} /\ pl.own["B"] \cap pl.own["C"] = {}
       /\ pl.own["A"] \cap pl.own["C"] = {}
  BY <1>1
<1>11. pl.own["A"] = {} \/ Case03.script["A"][1].op = "begin"
  BY <1>1 DEF Case03, Program, Do
<1>12. Planned(pl, Case03)
  BY <1>1, <1>7, <1>8, <1>9, <1>10, <1>11, StraightPlan
<1> QED BY <1>12 DEF pl

Plan04 == [own |-> Owners({}, {8, 16}, {5, 15}), col |-> Straight(SixIds \cup {8, 16}),
           pos |-> [i \in {8, 16} |-> IF i = 8 THEN 4 ELSE 3]]

\* Case 04.
LEMMA PlanCase04 == Planned(Plan04, Case04)
<1> DEFINE ids == SixIds \cup {8, 16}
           pl  == Plan04
<1>1. /\ pl.own["A"] = {} /\ pl.own["B"] = {8, 16} /\ pl.own["C"] = {5, 15}
      /\ DOMAIN pl.col = ids /\ pl.col = Straight(ids) /\ SixIds \subseteq ids /\ ids \subseteq 0 .. 30
      /\ 8 \in ids /\ 8 \in 0 .. 30 /\ 8 \in {8, 16} /\ 8 \notin DOMAIN Six /\ pl.col[8] = 8 /\ pl.pos[8] = 4
      /\ 16 \in ids /\ 16 \in 0 .. 30 /\ 16 \in {8, 16} /\ 16 \notin DOMAIN Six /\ pl.col[16] = 16 /\ pl.pos[16] = 3
  BY SixTidy DEF Plan04, Owners, Straight, SixIds
<1>2. /\ 5 \in Int /\ 15 \in Int
      /\ 5 \in SixIds /\ 15 \in SixIds
      /\ 5 \in {5, 15} /\ 15 \in {5, 15}
  BY DEF SixIds
<1> HIDE DEF pl, ids
<1>3. Keeps(pl, Six, "C", 2, Free(Add1(Eq("c", 5))))
  BY <1>1, <1>2, StraightScans, Zenon
<1>4. Keeps(pl, Six, "C", 3, Blocked(Add1(Eq("c", 15))))
  BY <1>1, <1>2, StraightScans, Zenon
<1>5. Keeps(pl, Six, "B", 3, Free(Insert(16, 16, 16)))
  BY <1>1, KeepInserts, Zenon
<1>6. Keeps(pl, Six, "B", 4, Blocked(Insert(8, 8, 8)))
  BY <1>1, KeepInserts, Zenon
<1>7. Keeps(pl, Six, "A", 2, Free(ForUpdate(Between("c", 10, TRUE, 11, FALSE))))
  BY <1>1, KeepOthers, SMTT(40) DEF ForUpdate, Scan
<1>8. Case04.data = Six /\ ScriptKeeps(pl, Six, "A", Case04.script["A"])
  BY <1>1, <1>7, KeepOthers, KeepScripts DEF OtherOps, Case04, Program
<1>9. Case04.data = Six /\ ScriptKeeps(pl, Six, "B", Case04.script["B"])
  BY <1>1, <1>5, <1>6, KeepOthers, KeepScripts DEF OtherOps, Case04, Program
<1>10. Case04.data = Six /\ ScriptKeeps(pl, Six, "C", Case04.script["C"])
  BY <1>1, <1>3, <1>4, KeepOthers, KeepScripts DEF OtherOps, Case04, Program
<1>11. /\ pl.own["A"] \cap pl.own["B"] = {} /\ pl.own["B"] \cap pl.own["C"] = {}
       /\ pl.own["A"] \cap pl.own["C"] = {}
  BY <1>1
<1>12. pl.own["A"] = {} \/ Case04.script["A"][1].op = "begin"
  BY <1>1 DEF Case04, Program, Do
<1>13. Planned(pl, Case04)
  BY <1>1, <1>8, <1>9, <1>10, <1>11, <1>12, StraightPlan
<1> QED BY <1>13 DEF pl

Plan05 == [own |-> Owners({}, {20}, {16}), col |-> Straight(SixIds \cup {16}),
           pos |-> [i \in {16} |-> 2]]

\* Case 05.
LEMMA PlanCase05 == Planned(Plan05, Case05)
<1> DEFINE ids == SixIds \cup {16}
           pl  == Plan05
<1>1. /\ pl.own["A"] = {} /\ pl.own["B"] = {20} /\ pl.own["C"] = {16}
      /\ DOMAIN pl.col = ids /\ pl.col = Straight(ids) /\ SixIds \subseteq ids /\ ids \subseteq 0 .. 30
      /\ 16 \in ids /\ 16 \in 0 .. 30 /\ 16 \in {16} /\ 16 \notin DOMAIN Six /\ pl.col[16] = 16 /\ pl.pos[16] = 2
  BY SixTidy DEF Plan05, Owners, Straight, SixIds
<1>2. /\ 20 \in Int
      /\ 20 \in SixIds
      /\ 20 \in {20}
  BY DEF SixIds
<1> HIDE DEF pl, ids
<1>3. Keeps(pl, Six, "B", 3, Free(Add1(Eq("p", 20))))
  BY <1>1, <1>2, StraightScans, Zenon
<1>4. Keeps(pl, Six, "C", 2, Free(Insert(16, 16, 16)))
  BY <1>1, KeepInserts, Zenon
<1>5. Keeps(pl, Six, "A", 2, Free(ForUpdate(Between("p", 10, FALSE, 15, TRUE))))
  BY <1>1, KeepOthers DEF ForUpdate, Scan
<1>6. Case05.data = Six /\ ScriptKeeps(pl, Six, "A", Case05.script["A"])
  BY <1>1, <1>5, KeepOthers, KeepScripts DEF OtherOps, Case05, Program
<1>7. Case05.data = Six /\ ScriptKeeps(pl, Six, "B", Case05.script["B"])
  BY <1>1, <1>3, KeepOthers, KeepScripts DEF OtherOps, Case05, Program
<1>8. Case05.data = Six /\ ScriptKeeps(pl, Six, "C", Case05.script["C"])
  BY <1>1, <1>4, KeepOthers, KeepScripts DEF OtherOps, Case05, Program
<1>9. /\ pl.own["A"] \cap pl.own["B"] = {} /\ pl.own["B"] \cap pl.own["C"] = {}
       /\ pl.own["A"] \cap pl.own["C"] = {}
  BY <1>1
<1>10. pl.own["A"] = {} \/ Case05.script["A"][1].op = "begin"
  BY <1>1 DEF Case05, Program, Do
<1>11. Planned(pl, Case05)
  BY <1>1, <1>6, <1>7, <1>8, <1>9, <1>10, StraightPlan
<1> QED BY <1>11 DEF pl

Plan08 == [own |-> Owners({8}, {10}, {}), col |-> Straight(SixIds \cup {8}),
           pos |-> [i \in {8} |-> 4]]

\* Case 08, where A inserts.
LEMMA PlanCase08 == Planned(Plan08, Case08)
<1> DEFINE ids == SixIds \cup {8}
           pl  == Plan08
<1>1. /\ pl.own["A"] = {8} /\ pl.own["B"] = {10} /\ pl.own["C"] = {}
      /\ DOMAIN pl.col = ids /\ pl.col = Straight(ids) /\ SixIds \subseteq ids /\ ids \subseteq 0 .. 30
      /\ 8 \in ids /\ 8 \in 0 .. 30 /\ 8 \in {8} /\ 8 \notin DOMAIN Six /\ pl.col[8] = 8 /\ pl.pos[8] = 4
  BY SixTidy DEF Plan08, Owners, Straight, SixIds
<1>2. /\ 10 \in Int
      /\ 10 \in SixIds
      /\ 10 \in {10}
  BY DEF SixIds
<1> HIDE DEF pl, ids
<1>3. Keeps(pl, Six, "B", 2, Blocked(Add1(Eq("c", 10))))
  BY <1>1, <1>2, StraightScans, Zenon
<1>4. Keeps(pl, Six, "A", 4, Free(Insert(8, 8, 8)))
  BY <1>1, KeepInserts, Zenon
<1>5. Keeps(pl, Six, "A", 2, Free(ShareMode(Eq("c", 10), TRUE)))
  BY <1>1, KeepOthers DEF ShareMode, Scan
<1>6. Case08.data = Six /\ ScriptKeeps(pl, Six, "A", Case08.script["A"])
  BY <1>1, <1>4, <1>5, KeepOthers, KeepScripts DEF OtherOps, Case08, Program
<1>7. Case08.data = Six /\ ScriptKeeps(pl, Six, "B", Case08.script["B"])
  BY <1>1, <1>3, KeepOthers, KeepScripts DEF OtherOps, Case08, Program
<1>8. Case08.data = Six /\ ScriptKeeps(pl, Six, "C", Case08.script["C"])
  BY <1>1, KeepOthers, KeepScripts DEF OtherOps, Case08, Program
<1>9. /\ pl.own["A"] \cap pl.own["B"] = {} /\ pl.own["B"] \cap pl.own["C"] = {}
       /\ pl.own["A"] \cap pl.own["C"] = {}
  BY <1>1
<1>10. pl.own["A"] = {} \/ Case08.script["A"][1].op = "begin"
  BY <1>1 DEF Case08, Program, Do
<1>11. Planned(pl, Case08)
  BY <1>1, <1>6, <1>7, <1>8, <1>9, <1>10, StraightPlan
<1> QED BY <1>11 DEF pl

\* The phantom read program has a plan too.
LEMMA PlanPhantomRead == \E pl : Planned(pl, PhantomRead)
<1> DEFINE ids == SixIds \cup {1}
           pl  == [own |-> Owners({}, {0}, {1}), col |-> Straight(ids),
                   pos |-> [i \in {1} |-> 2]]
<1>1. /\ pl.own["A"] = {} /\ pl.own["B"] = {0} /\ pl.own["C"] = {1}
      /\ DOMAIN pl.col = ids /\ pl.col = Straight(ids) /\ SixIds \subseteq ids /\ ids \subseteq 0 .. 30
      /\ 1 \in ids /\ 1 \in 0 .. 30 /\ 1 \in {1} /\ 1 \notin DOMAIN Six /\ pl.col[1] = 1 /\ pl.pos[1] = 2
  BY SixTidy DEF Owners, Straight, SixIds
<1>2. /\ 0 \in Int
      /\ 0 \in SixIds
      /\ 0 \in {0}
  BY DEF SixIds
<1> HIDE DEF pl, ids
<1>3. Keeps(pl, Six, "B", 2, Free(Set5(Eq("p", 0))))
  BY <1>1, <1>2, StraightScans, Zenon
<1>4. Keeps(pl, Six, "C", 2, Free(Insert(1, 1, 5)))
  BY <1>1, KeepInserts, Zenon
<1>5. Phantoms.do \in {"select", "select5"}
  BY DEF Phantoms, Scan
<1>6. ASSUME NEW k
      PROVE  Keeps(pl, Six, "A", k, Free(Phantoms))
  BY <1>5, KeepOthers
<1>7. /\ Keeps(pl, Six, "A", 3, Free(Phantoms))
      /\ Keeps(pl, Six, "A", 6, Free(Phantoms))
      /\ Keeps(pl, Six, "A", 9, Free(Phantoms))
  BY <1>6
<1>8. PhantomRead.data = Six /\ ScriptKeeps(pl, Six, "A", PhantomRead.script["A"])
  BY <1>1, <1>7, KeepOthers, KeepScripts DEF OtherOps, PhantomRead, Program
<1>9. PhantomRead.data = Six /\ ScriptKeeps(pl, Six, "B", PhantomRead.script["B"])
  BY <1>1, <1>3, KeepOthers, KeepScripts DEF OtherOps, PhantomRead, Program
<1>10. PhantomRead.data = Six /\ ScriptKeeps(pl, Six, "C", PhantomRead.script["C"])
  BY <1>1, <1>4, KeepOthers, KeepScripts DEF OtherOps, PhantomRead, Program
<1>11. /\ pl.own["A"] \cap pl.own["B"] = {} /\ pl.own["B"] \cap pl.own["C"] = {}
       /\ pl.own["A"] \cap pl.own["C"] = {}
  BY <1>1
<1>12. pl.own["A"] = {} \/ PhantomRead.script["A"][1].op = "begin"
  BY <1>1 DEF PhantomRead, Program, Do
<1> QED BY <1>1, <1>8, <1>9, <1>10, <1>11, <1>12, StraightPlan

Plan02 == [own |-> Owners({}, {5}, {2, 7}), col |-> Straight(SixIds \cup {2, 7}),
           pos |-> [i \in {2, 7} |-> 2]]

\* Case 02 with any of its statements.
LEMMA PlanCase02 ==
  ASSUME NEW select, select.do = "select", NEW update, NEW insert,
         update \in {Free(Add1(Eq("p", 5))), Blocked(Add1(Eq("p", 5)))},
         insert \in {Blocked(Insert(7, 7, 7)), Blocked(Insert(2, 2, 2))}
  PROVE  Planned(Plan02, Case02With(select, update, insert))
<1> DEFINE ids == SixIds \cup {2, 7}
           pl  == Plan02
           prg == Case02With(select, update, insert)
<1>1. /\ pl.own["A"] = {} /\ pl.own["B"] = {5} /\ pl.own["C"] = {2, 7}
      /\ DOMAIN pl.col = ids /\ pl.col = Straight(ids) /\ SixIds \subseteq ids /\ ids \subseteq 0 .. 30
      /\ 2 \in ids /\ 2 \in 0 .. 30 /\ 2 \in {2, 7} /\ 2 \notin DOMAIN Six /\ pl.col[2] = 2 /\ pl.pos[2] = 2
      /\ 7 \in ids /\ 7 \in 0 .. 30 /\ 7 \in {2, 7} /\ 7 \notin DOMAIN Six /\ pl.col[7] = 7 /\ pl.pos[7] = 2
  BY SixTidy DEF Plan02, Owners, Straight, SixIds
<1>2. 5 \in Int /\ 5 \in SixIds /\ 5 \in {5}
  BY DEF SixIds
<1> HIDE DEF pl, ids
<1>3. Keeps(pl, Six, "B", 3, update)
  <2>1. Keeps(pl, Six, "B", 3, Free(Add1(Eq("p", 5)))) /\ Keeps(pl, Six, "B", 3, Blocked(Add1(Eq("p", 5))))
    BY <1>1, <1>2, StraightScans, Zenon
  <2> QED BY <2>1
<1>4. Keeps(pl, Six, "C", 2, insert)
  <2>1. Keeps(pl, Six, "C", 2, Blocked(Insert(7, 7, 7)))
    BY <1>1, KeepInserts, Zenon
  <2>2. Keeps(pl, Six, "C", 2, Blocked(Insert(2, 2, 2)))
    BY <1>1, KeepInserts, Zenon
  <2> QED BY <2>1, <2>2
<1>5. Keeps(pl, Six, "A", 2, Free(select))
  BY <1>1 DEF Keeps, Free
<1>6. prg.data = Six /\ ScriptKeeps(pl, Six, "A", prg.script["A"])
  BY <1>1, <1>5, KeepOthers, KeepScripts DEF OtherOps, Case02With, Program
<1>7. prg.data = Six /\ ScriptKeeps(pl, Six, "B", prg.script["B"])
  BY <1>1, <1>3, KeepOthers, KeepScripts DEF OtherOps, Case02With, Program
<1>8. prg.data = Six /\ ScriptKeeps(pl, Six, "C", prg.script["C"])
  BY <1>1, <1>4, KeepOthers, KeepScripts DEF OtherOps, Case02With, Program
<1>9. /\ pl.own["A"] \cap pl.own["B"] = {} /\ pl.own["B"] \cap pl.own["C"] = {}
      /\ pl.own["A"] \cap pl.own["C"] = {}
  BY <1>1
<1> HIDE DEF prg
<1>10. Planned(pl, prg)
  BY <1>1, <1>6, <1>7, <1>8, <1>9, StraightPlan
<1> QED BY <1>10 DEF prg, pl

\* The table of cases 06 and 07.
LEMMA SevenTidy ==
  /\ DOMAIN Seven = SixIds \cup {30}
  /\ \A i \in SixIds : Seven[i].c = i /\ Tidy(Seven[i])
  /\ Seven[30].c = 10 /\ Tidy(Seven[30])
<1>1. /\ DOMAIN Seven = SixIds \cup {30}
      /\ \A i \in SixIds : Seven[i] = Six[i]
      /\ Seven[30] = [c |-> 10, d |-> 30, del |-> FALSE, sec |-> TRUE]
  BY SixTidy DEF Seven, Put, SixIds
<1> QED BY <1>1, SixTidy DEF Tidy

\* Cases 06 and 07 have two rows with c = 10.
Plan06 == [own |-> Owners({10, 30}, {12, 13, 16}, {15}),
           col |-> [i \in SixIds \cup {12, 13, 16, 30} |-> IF i = 30 THEN 10 ELSE IF i = 13 THEN 50 ELSE i],
           pos |-> [i \in {12, 13, 16} |-> IF i = 16 THEN 3 ELSE IF i = 13 THEN 4 ELSE 5]]

\* Case 06 keeps to its plan.
LEMMA PlanCase06 == Planned(Plan06, Case06)
<1> DEFINE ids == SixIds \cup {12, 13, 16, 30}
           pl  == Plan06
<1>1. /\ pl.own["A"] = {10, 30} /\ pl.own["B"] = {12, 13, 16} /\ pl.own["C"] = {15}
      /\ DOMAIN pl.col = ids
      /\ 12 \in ids /\ 12 \in 0 .. 30 /\ 12 \in {12, 13, 16} /\ 12 \notin DOMAIN Seven /\ pl.col[12] = 12 /\ pl.pos[12] = 5
      /\ 13 \in ids /\ 13 \in 0 .. 30 /\ 13 \in {12, 13, 16} /\ 13 \notin DOMAIN Seven /\ pl.col[13] = 50 /\ pl.pos[13] = 4
      /\ 16 \in ids /\ 16 \in 0 .. 30 /\ 16 \in {12, 13, 16} /\ 16 \notin DOMAIN Seven /\ pl.col[16] = 16 /\ pl.pos[16] = 3
  BY SevenTidy DEF Plan06, Owners, SixIds
<1>2. ids \subseteq 0 .. 30 /\ SixIds \subseteq ids
  BY DEF SixIds
<1>3. pl.col[30] = 10 /\ \A i \in SixIds : pl.col[i] = i
  BY DEF Plan06, SixIds
<1>4. \A i \in ids : i \in Int /\ pl.col[i] \in Int /\ pl.col[i] \in 0 .. 999
  BY DEF Plan06, SixIds
<1>5. \A i \in ids : pl.col[i] = 10 => i \in {10, 30} /\ i \in DOMAIN Seven
  BY SevenTidy DEF Plan06, SixIds
<1>6. \A i \in ids : pl.col[i] = 15 => i \in {15} /\ i \in DOMAIN Seven
  BY SevenTidy DEF Plan06, SixIds
<1>7. 10 \in Int /\ 15 \in Int
  OBVIOUS
<1> HIDE DEF pl, ids
<1>8. Delete(Eq("c", 10), NoLimit).do = "delete" /\ Delete(Eq("c", 10), NoLimit).w = Eq("c", 10)
  BY DEF Delete, Scan
<1>9. Add1(Eq("c", 15)).do = "add1" /\ Add1(Eq("c", 15)).w = Eq("c", 15)
  BY DEF Add1, Scan
<1>10. \A i \in ids : Place(pl, "c", i)[1] = pl.col[i]
  BY DEF Place
<1>11. Keeps(pl, Seven, "A", 2, Free(Delete(Eq("c", 10), NoLimit)))
  <2> DEFINE st == Delete(Eq("c", 10), NoLimit)
  <2>1. \A i \in DOMAIN pl.col : Place(pl, "c", i)[1] = 10 => i \in pl.own["A"] /\ i \in DOMAIN Seven
    BY <1>1, <1>5, <1>10, Zenon
  <2>2. ASSUME NEW i \in DOMAIN pl.col
        PROVE  i \in Int /\ pl.col[i] \in Int
    <3>1. i \in ids
      BY <1>1
    <3> QED BY <3>1, <1>4, ZenonT(60)
  <2>3. st.do \in {"add1", "set5", "delete"} /\ st.w = Eq("c", 10)
    BY <1>8, Zenon
  <2> HIDE DEF st
  <2>4. Keeps(pl, Seven, "A", 2, Free(st))
    BY <1>7, <2>1, <2>2, <2>3, KeepScans
  <2> QED BY <2>4 DEF st
<1>12. Keeps(pl, Seven, "C", 2, Free(Add1(Eq("c", 15))))
  <2> DEFINE st == Add1(Eq("c", 15))
  <2>1. \A i \in DOMAIN pl.col : Place(pl, "c", i)[1] = 15 => i \in pl.own["C"] /\ i \in DOMAIN Seven
    BY <1>1, <1>6, <1>10, ZenonT(60)
  <2>2. ASSUME NEW i \in DOMAIN pl.col
        PROVE  i \in Int /\ pl.col[i] \in Int
    <3>1. i \in ids
      BY <1>1
    <3> QED BY <3>1, <1>4, ZenonT(60)
  <2>3. st.do \in {"add1", "set5", "delete"} /\ st.w = Eq("c", 15) /\ st.do # "delete"
    BY <1>9
  <2> HIDE DEF st
  <2>4. Keeps(pl, Seven, "C", 2, Free(st))
    BY <1>7, <2>1, <2>2, <2>3, KeepScans
  <2> QED BY <2>4 DEF st
<1>13. Keeps(pl, Seven, "B", 3, Free(Insert(16, 16, 16)))
  BY <1>1, KeepInserts, Zenon
<1>14. Keeps(pl, Seven, "B", 4, Free(Insert(13, 50, 13)))
  BY <1>1, KeepInserts, Zenon
<1>15. Keeps(pl, Seven, "B", 5, Blocked(Insert(12, 12, 12)))
  BY <1>1, KeepInserts, Zenon
<1>16. Case06.data = Seven /\ ScriptKeeps(pl, Seven, "A", Case06.script["A"])
  BY <1>1, <1>11, KeepOthers, KeepScripts DEF OtherOps, Case06, Program
<1>17. Case06.data = Seven /\ ScriptKeeps(pl, Seven, "B", Case06.script["B"])
  BY <1>1, <1>13, <1>14, <1>15, KeepOthers, KeepScripts DEF OtherOps, Case06, Program
<1>18. Case06.data = Seven /\ ScriptKeeps(pl, Seven, "C", Case06.script["C"])
  BY <1>1, <1>12, KeepOthers, KeepScripts DEF OtherOps, Case06, Program
<1>19. /\ pl.own["A"] \cap pl.own["B"] = {} /\ pl.own["B"] \cap pl.own["C"] = {}
       /\ pl.own["A"] \cap pl.own["C"] = {}
  BY <1>1
<1>20. Case06.script["A"][1].op = "begin"
  BY DEF Case06, Program, Do
<1>21. ASSUME NEW i \in DOMAIN Seven
      PROVE  i \in DOMAIN pl.col /\ Seven[i].c = pl.col[i] /\ Tidy(Seven[i])
  <2>1. 30 \in ids
    BY DEF ids
  <2>2. CASE i = 30
    BY <1>1, <1>3, <2>1, <2>2, SevenTidy, Zenon
  <2>3. CASE i \in SixIds
    <3>1. i \in ids /\ pl.col[i] = i /\ Seven[i].c = i /\ Tidy(Seven[i])
      BY <1>2, <1>3, <2>3, SevenTidy
    <3> QED BY <1>1, <3>1
  <2> QED BY <2>2, <2>3, SevenTidy
<1>22. DOMAIN pl.col \subseteq 0 .. 30 /\ \A i \in DOMAIN pl.col : pl.col[i] \in 0 .. 999
  <2>1. DOMAIN pl.col \subseteq 0 .. 30
    BY <1>1, <1>2
  <2>2. ASSUME NEW i \in DOMAIN pl.col
        PROVE  pl.col[i] \in 0 .. 999
    <3>1. i \in ids
      BY <1>1
    <3> QED BY <3>1, <1>4, ZenonT(60)
  <2> QED BY <2>1, <2>2
<1>23. Planned(pl, Case06)
  BY <1>16, <1>17, <1>18, <1>19, <1>20, <1>21, <1>22, PlanIs, Zenon
<1> QED BY <1>23 DEF pl

Plan07 == [own |-> Owners({10, 30}, {12, 16}, {}),
           col |-> [i \in SixIds \cup {12, 16, 30} |-> IF i = 30 THEN 10 ELSE i],
           pos |-> [i \in {12, 16} |-> IF i = 16 THEN 2 ELSE 3]]

\* And case 07 to its own.
LEMMA PlanCase07 == Planned(Plan07, Case07)
<1> DEFINE ids == SixIds \cup {12, 16, 30}
           pl  == Plan07
<1>1. /\ pl.own["A"] = {10, 30} /\ pl.own["B"] = {12, 16} /\ pl.own["C"] = {}
      /\ DOMAIN pl.col = ids
      /\ 12 \in ids /\ 12 \in 0 .. 30 /\ 12 \in {12, 16} /\ 12 \notin DOMAIN Seven /\ pl.col[12] = 12 /\ pl.pos[12] = 3
      /\ 16 \in ids /\ 16 \in 0 .. 30 /\ 16 \in {12, 16} /\ 16 \notin DOMAIN Seven /\ pl.col[16] = 16 /\ pl.pos[16] = 2
  BY SevenTidy DEF Plan07, Owners, SixIds
<1>2. ids \subseteq 0 .. 30 /\ SixIds \subseteq ids
  BY DEF SixIds
<1>3. pl.col[30] = 10 /\ \A i \in SixIds : pl.col[i] = i
  BY DEF Plan07, SixIds
<1>4. \A i \in ids : i \in Int /\ pl.col[i] \in Int /\ pl.col[i] \in 0 .. 999
  BY DEF Plan07, SixIds
<1>5. \A i \in ids : pl.col[i] = 10 => i \in {10, 30} /\ i \in DOMAIN Seven
  BY SevenTidy DEF Plan07, SixIds
<1>6. 10 \in Int
  OBVIOUS
<1> HIDE DEF pl, ids
<1>7. \A i \in ids : Place(pl, "c", i)[1] = pl.col[i]
  BY DEF Place
<1>8. Keeps(pl, Seven, "A", 2, Free(Delete(Eq("c", 10), 2)))
  <2> DEFINE st == Delete(Eq("c", 10), 2)
  <2>1. \A i \in DOMAIN pl.col : Place(pl, "c", i)[1] = 10 => i \in pl.own["A"] /\ i \in DOMAIN Seven
    BY <1>1, <1>5, <1>7, Zenon
  <2>2. ASSUME NEW i \in DOMAIN pl.col
        PROVE  i \in Int /\ pl.col[i] \in Int
    <3>1. i \in ids
      BY <1>1
    <3> QED BY <3>1, <1>4, Zenon
  <2>3. st.do \in {"add1", "set5", "delete"} /\ st.w = Eq("c", 10)
    BY DEF Delete, Scan
  <2> HIDE DEF st
  <2>4. Keeps(pl, Seven, "A", 2, Free(st))
    BY <1>6, <2>1, <2>2, <2>3, KeepScans
  <2> QED BY <2>4 DEF st
<1>9. Keeps(pl, Seven, "B", 2, Free(Insert(16, 16, 16)))
  BY <1>1, KeepInserts, Zenon
<1>10. Keeps(pl, Seven, "B", 3, Free(Insert(12, 12, 12)))
  BY <1>1, KeepInserts, Zenon
<1>11. Case07.data = Seven /\ ScriptKeeps(pl, Seven, "A", Case07.script["A"])
  BY <1>1, <1>8, KeepOthers, KeepScripts DEF OtherOps, Case07, Program
<1>12. Case07.data = Seven /\ ScriptKeeps(pl, Seven, "B", Case07.script["B"])
  BY <1>1, <1>9, <1>10, KeepOthers, KeepScripts DEF OtherOps, Case07, Program
<1>13. Case07.data = Seven /\ ScriptKeeps(pl, Seven, "C", Case07.script["C"])
  BY <1>1, KeepOthers, KeepScripts DEF OtherOps, Case07, Program
<1>14. /\ pl.own["A"] \cap pl.own["B"] = {} /\ pl.own["B"] \cap pl.own["C"] = {}
       /\ pl.own["A"] \cap pl.own["C"] = {}
  BY <1>1
<1>15. Case07.script["A"][1].op = "begin"
  BY DEF Case07, Program, Do
<1>16. ASSUME NEW i \in DOMAIN Seven
      PROVE  i \in DOMAIN pl.col /\ Seven[i].c = pl.col[i] /\ Tidy(Seven[i])
  <2>1. 30 \in ids
    BY DEF ids
  <2>2. CASE i = 30
    BY <1>1, <1>3, <2>1, <2>2, SevenTidy, Zenon
  <2>3. CASE i \in SixIds
    <3>1. i \in ids /\ pl.col[i] = i /\ Seven[i].c = i /\ Tidy(Seven[i])
      BY <1>2, <1>3, <2>3, SevenTidy
    <3> QED BY <1>1, <3>1
  <2> QED BY <2>2, <2>3, SevenTidy
<1>17. DOMAIN pl.col \subseteq 0 .. 30 /\ \A i \in DOMAIN pl.col : pl.col[i] \in 0 .. 999
  <2>1. DOMAIN pl.col \subseteq 0 .. 30
    BY <1>1, <1>2
  <2>2. ASSUME NEW i \in DOMAIN pl.col
        PROVE  pl.col[i] \in 0 .. 999
    <3>1. i \in ids
      BY <1>1
    <3> QED BY <3>1, <1>4, Zenon
  <2> QED BY <2>1, <2>2
<1>18. Planned(pl, Case07)
  BY <1>11, <1>12, <1>13, <1>14, <1>15, <1>16, <1>17, PlanIs, Zenon
<1> QED BY <1>18 DEF pl

\* The demo's table stays empty.
LEMMA PlanMetadataDemo == \E pl : Planned(pl, MetadataDemo)
<1> DEFINE pl == [own |-> Owners({}, {}, {}), col |-> <<>>, pos |-> <<>>]
<1>1. /\ pl.own["A"] = {} /\ pl.own["B"] = {} /\ pl.own["C"] = {}
      /\ DOMAIN pl.col = {}
  BY DEF Owners
<1> HIDE DEF pl
<1>2. Add1(Eq("p", 123)).do = "add1"
  BY DEF Add1, Scan
<1>3. Keeps(pl, <<>>, "A", 2, Free(Add1(Eq("p", 123))))
  BY <1>1, <1>2 DEF Keeps, Free
<1>4. MetadataDemo.data = <<>> /\ ScriptKeeps(pl, <<>>, "A", MetadataDemo.script["A"])
  BY <1>1, <1>3, KeepOthers, KeepScripts DEF OtherOps, MetadataDemo, Program
<1>5. ScriptKeeps(pl, <<>>, "B", MetadataDemo.script["B"])
  BY <1>1, KeepOthers, KeepScripts DEF OtherOps, MetadataDemo, Program
<1>6. ScriptKeeps(pl, <<>>, "C", MetadataDemo.script["C"])
  BY <1>1, KeepScripts DEF MetadataDemo, Program
<1>7. DOMAIN pl.col \subseteq 0 .. 30 /\ \A i \in DOMAIN pl.col : pl.col[i] \in 0 .. 999
  BY <1>1
<1>8. \A i \in DOMAIN <<>> : i \in DOMAIN pl.col /\ <<>>[i].c = pl.col[i] /\ Tidy(<<>>[i])
  OBVIOUS
<1>9. /\ pl.own["A"] \cap pl.own["B"] = {} /\ pl.own["B"] \cap pl.own["C"] = {}
      /\ pl.own["A"] \cap pl.own["C"] = {} /\ pl.own["A"] = {}
  BY <1>1
<1>10. Planned(pl, MetadataDemo)
  BY <1>4, <1>5, <1>6, <1>7, <1>8, <1>9, PlanIs, ZenonT(60)
<1> QED BY <1>10

\* Every program of the directory has a plan.
LEMMA ProgramsPlanned == \A p \in Programs : \E pl : Planned(pl, p)
<1>1. ASSUME NEW p \in Case02
      PROVE  \E pl : Planned(pl, p)
  <2>1. /\ \A x : ShareMode(Eq("c", 5), x).do = "select"
        /\ ForUpdate(Eq("c", 5)).do = "select"
    BY DEF ShareMode, ForUpdate, Scan
  <2>2. PICK select, update, insert :
             /\ p = Case02With(select, update, insert) /\ select.do = "select"
             /\ update \in {Free(Add1(Eq("p", 5))), Blocked(Add1(Eq("p", 5)))}
             /\ insert \in {Blocked(Insert(7, 7, 7)), Blocked(Insert(2, 2, 2))}
    BY <2>1, Zenon DEF Case02
  <2>3. \E pl : Planned(pl, Case02With(select, update, insert))
    BY <2>2, PlanCase02
  <2> QED BY <2>2, <2>3
<1> SUFFICES ASSUME NEW p \in Programs
             PROVE  \E pl : Planned(pl, p)
  OBVIOUS
<1>2. \/ p \in {Case01, Case03, Case04, Case05, Case06, Case07, Case08, PhantomRead, MetadataDemo}
      \/ p \in Case02
  BY DEF Programs
<1>3. CASE p \in Case02
  BY <1>1, <1>3, Zenon
<1>4. CASE p \in {Case01, Case03, Case04, Case05, Case06, Case07, Case08, PhantomRead, MetadataDemo}
  BY <1>4, PlanCase01, PlanCase03, PlanCase04, PlanCase05, PlanCase06, PlanCase07, PlanCase08,
     PlanPhantomRead, PlanMetadataDemo, Zenon
<1> QED BY <1>2, <1>3, <1>4

-----------------------------------------------------------------------------
(* What is in the table: what was prepared and inserted, and what somebody is  *)
(* still writing and would take back.                                          *)

InsertOf(s, i) == Op(s).op = "sql" /\ Op(s).st.do = "insert" /\ Op(s).st.id = i

\* An id has the column that the plan gives it.
Columns(pl) == Ids \subseteq DOMAIN pl.col /\ \A i \in Ids : rows[i].c = pl.col[i]

\* A session writes its own ids and can take back what it wrote.
Writes(pl, s) ==
  /\ DOMAIN undo[s] \subseteq pl.own[s]
  /\ \A i \in DOMAIN undo[s] :
        /\ i \in Ids
        /\ i \in DOMAIN prog.data => undo[s][i] # NoRow /\ undo[s][i].c = pl.col[i] /\ Tidy(undo[s][i])
        /\ i \notin DOMAIN prog.data => undo[s][i] = NoRow /\ i \notin Inserted

\* B and C work outside a transaction: each statement commits what it wrote.
EndsEach(s) ==
  /\ inTx[s] = FALSE
  /\ at[s].stage = "idle" => undo[s] = << >>
  /\ \A i \in DOMAIN undo[s] :
        /\ i \in DOMAIN prog.data => Tidy(rows[i])
        /\ i \notin DOMAIN prog.data =>
              /\ InsertOf(s, i) /\ at[s].stage \in {"insC", "end"} /\ ~rows[i].del
              /\ at[s].stage = "end" => rows[i].sec
  /\ at[s].stage \in {"insC", "end"} => \A i \in 0 .. 30 : InsertOf(s, i) => i \in DOMAIN undo[s]
  /\ err[s] \in {"deadlock", "timeout"} => at[s].stage = "idle"

\* A row that nobody is writing is prepared or inserted, and in order.
Settled(i) ==
  (\A s \in Sessions : i \notin DOMAIN undo[s]) =>
     /\ i \in DOMAIN prog.data \/ i \in Inserted => i \in Ids
     /\ i \in Ids => Tidy(rows[i]) /\ (i \in DOMAIN prog.data \/ i \in Inserted \/ i \in Unanswered)

\* A scan stands behind the last record or where a row is or was.
Stands(pl, s) ==
  /\ at[s].stage \in {"index", "row"} =>
        \/ at[s].rec = Supremum
        \/ \E i \in DOMAIN pl.col : /\ at[s].rec = Place(pl, Op(s).st.w.idx, i)
                                    /\ From(Op(s).st.w, at[s].rec)
  /\ at[s].stage = "row" => InRange(Op(s).st.w, at[s].rec)

\* A, if it writes, does so in its transaction.
KeepsTx(pl) ==
  pl.own["A"] # {} => inTx["A"] \/ (at["A"].stage = "idle" /\ undo["A"] = << >> /\ (pc["A"] = 1 \/ err["A"] # ""))

Stored(pl) ==
  /\ Columns(pl) /\ KeepsTx(pl) /\ EndsEach("B") /\ EndsEach("C")
  /\ \A s \in Sessions : Writes(pl, s) /\ Stands(pl, s)
  /\ \A i \in DOMAIN pl.col : Settled(i)

StoreInv ==
  /\ inTx = [s \in Sessions |-> inTx[s]]
  /\ "A" \notin dropped /\ ended = "no" => \E pl : Planned(pl, prog) /\ Stored(pl)
  /\ ended # "no" => \A s \in Sessions : ~Open(s)

\* A session that runs, or whose statement does, is inside its script.
LEMMA Running1 ==
  ASSUME TypeInv, NEW s \in Sessions, Running(s) \/ InSql(s)
  PROVE  pc[s] \in 1 .. Len(Script(s)) /\ pc[s] \in Nat
<1> DEFINE n == Len(Script(s))
<1>1. n \in 0 .. 10 /\ pc[s] \in 1 .. n + 1 /\ pc[s] <= n
  BY DEF TypeInv, ControlOK, WellTyped, IsScript, Script, Running, InSql
<1> HIDE DEF n
<1>2. pc[s] \in 1 .. n /\ pc[s] \in Nat
  BY <1>1
<1> QED BY <1>2 DEF n

\* The operation it stands at keeps to the plan.
LEMMA OpKeeps ==
  ASSUME TypeInv, NEW pl, Planned(pl, prog), NEW s \in Sessions, Running(s) \/ InSql(s)
  PROVE  Keeps(pl, prog.data, s, pc[s], Op(s))
BY Running1 DEF Planned, ScriptKeeps, Script, Op

\* Only planned ids are ever inserted.
LEMMA InsertedOwned ==
  ASSUME TypeInv, NEW pl, Planned(pl, prog), NEW i, i \in Inserted
  PROVE  \E s \in {"B", "C"} : /\ i \in pl.own[s] /\ i \in DOMAIN pl.col /\ i \notin DOMAIN prog.data
                               /\ pl.pos[i] < pc[s]
<1>1. PICK s \in {"B", "C"} : \E k \in 1 .. pc[s] - 1 :
           Script(s)[k].op = "sql" /\ Script(s)[k].st.do = "insert" /\ Script(s)[k].st.id = i
  BY DEF Inserted, Inserts
<1>2. PICK k \in 1 .. pc[s] - 1 :
           Script(s)[k].op = "sql" /\ Script(s)[k].st.do = "insert" /\ Script(s)[k].st.id = i
  BY <1>1
<1>3. s \in Sessions
  BY SessionNames
<1>4. k \in 1 .. Len(Script(s)) /\ k < pc[s]
  <2> DEFINE n == Len(Script(s))
  <2>1. n \in 0 .. 10 /\ pc[s] \in 1 .. n + 1
    BY <1>3 DEF TypeInv, ControlOK, WellTyped, IsScript, Script
  <2> HIDE DEF n
  <2>2. k \in 1 .. n /\ k < pc[s]
    BY <2>1
  <2> QED BY <2>2 DEF n
<1>5. Keeps(pl, prog.data, s, k, Script(s)[k])
  BY <1>3, <1>4 DEF Planned, ScriptKeeps, Script
<1>6. i \in pl.own[s] /\ i \in DOMAIN pl.col /\ i \notin DOMAIN prog.data /\ pl.pos[i] = k
  BY <1>2, <1>5 DEF Keeps
<1> QED BY <1>4, <1>6

\* What an insert at this position means for the plan.
LEMMA InsertKeeps ==
  ASSUME TypeInv, NEW pl, Planned(pl, prog), NEW s \in Sessions, Running(s) \/ InSql(s), NEW i, InsertOf(s, i)
  PROVE  /\ i \in pl.own[s] /\ i \in DOMAIN pl.col /\ i \in 0 .. 30 /\ i \notin DOMAIN prog.data
         /\ pl.col[i] = Op(s).st.c /\ i \notin Inserted
<1>1. /\ i \in pl.own[s] /\ i \in DOMAIN pl.col /\ i \in 0 .. 30 /\ i \notin DOMAIN prog.data
      /\ pl.col[i] = Op(s).st.c /\ pl.pos[i] = pc[s]
  BY OpKeeps DEF Keeps, InsertOf
<1>2. ASSUME i \in Inserted
      PROVE  FALSE
  <2>1. PICK t \in {"B", "C"} : i \in pl.own[t] /\ pl.pos[i] < pc[t]
    BY <1>2, InsertedOwned
  <2>2. t = s
    BY <1>1, <2>1, SessionNames DEF Planned
  <2>3. pc[s] \in Nat
    BY Running1
  <2> QED BY <1>1, <2>1, <2>2, <2>3
<1> QED BY <1>1, <1>2

\* Inserted grows by what returns.
LEMMA InsertedGrows ==
  ASSUME TypeInv, NEW pl, Planned(pl, prog), NEW S \in SUBSET Sessions, Step(S), prog' = prog,
         \A t \in S : Running(t)
  PROVE  \A i : i \in Inserted' <=> i \in Inserted \/ \E t \in S \cap {"B", "C"} : InsertOf(t, i)
<1> SUFFICES ASSUME NEW i
             PROVE  i \in Inserted' <=> i \in Inserted \/ \E t \in S \cap {"B", "C"} : InsertOf(t, i)
  OBVIOUS
<1> DEFINE Ins(s, k) == /\ k <= Len(Script(s)) /\ Script(s)[k].op = "sql"
                        /\ Script(s)[k].st.do = "insert" /\ Script(s)[k].st.id = i
<1>1. i \in Inserted <=> i \in 0 .. 30 /\ \E s \in {"B", "C"} : \E k \in 1 .. pc[s] - 1 : Ins(s, k)
  BY DEF Inserted, Inserts
<1>2. i \in Inserted' <=> i \in 0 .. 30 /\ \E s \in {"B", "C"} : \E k \in 1 .. pc'[s] - 1 : Ins(s, k)
  BY DEF Inserted, Inserts, Script
<1>3. ASSUME NEW t \in S, InsertOf(t, i)
      PROVE  i \in 0 .. 30
  BY <1>3, InsertKeeps
<1>4. \A t \in S : Ins(t, pc[t]) <=> InsertOf(t, i)
  BY Running1 DEF InsertOf, Op, Running
<1> HIDE DEF Ins
<1>5. ASSUME NEW t \in {"B", "C"}
      PROVE  (\E k \in 1 .. pc'[t] - 1 : Ins(t, k)) <=>
             (\E k \in 1 .. pc[t] - 1 : Ins(t, k)) \/ (t \in S /\ Ins(t, pc[t]))
  <2>1. t \in Sessions /\ pc[t] \in Nat /\ pc'[t] = IF t \in S THEN pc[t] + 1 ELSE pc[t]
    BY SessionNames DEF TypeInv, ControlOK, Step
  <2>2. pc[t] >= 1
    <3> DEFINE n == Len(Script(t))
    <3>1. n \in 0 .. 10 /\ pc[t] \in 1 .. n + 1
      BY <2>1 DEF TypeInv, ControlOK, WellTyped, IsScript, Script
    <3> HIDE DEF n
    <3> QED BY <3>1
  <2>3. \A k : k \in 1 .. pc[t] <=> k \in 1 .. pc[t] - 1 \/ k = pc[t]
    BY <2>1, <2>2
  <2> QED BY <2>1, <2>3
<1> QED BY <1>1, <1>2, <1>3, <1>4, <1>5

StoreNow(pl) == TypeInv /\ Planned(pl, prog) /\ Stored(pl) /\ inTx = [s \in Sessions |-> inTx[s]]

\* A step of s that touches s and the rows of s only keeps what holds of the others.
StaysFor(t) == /\ at'[t] = at[t] /\ undo'[t] = undo[t] /\ inTx'[t] = inTx[t]
               /\ pc'[t] = pc[t] /\ err'[t] = err[t]
RowStays(i) == (i \in Ids' <=> i \in Ids) /\ (i \in Ids => rows'[i] = rows[i])

\* Only a return adds to what was inserted.
LEMMA InsertedStays ==
  ASSUME UNCHANGED <<prog, pc>>
  PROVE  Inserted' = Inserted /\ (err' = err => Unanswered' = Unanswered)
<1>1. \A s, I : Inserts(s, I)' = Inserts(s, I)
  BY DEF Inserts, Script
<1>2. Inserted' = Inserted
  BY <1>1, Zenon DEF Inserted
<1>3. err' = err => Unanswered' = Unanswered
  BY <1>1, Zenon DEF Unanswered
<1> QED BY <1>2, <1>3

\* What was under way when its goroutine ended stays unanswered.
LEMMA UnansweredStays ==
  ASSUME prog' = prog,
         \A t \in Sessions : err[t] \in {"network", "killed"} => err'[t] = err[t] /\ pc'[t] = pc[t]
  PROVE  \A i \in Unanswered : i \in Unanswered'
<1>1. SUFFICES ASSUME NEW i \in Unanswered
               PROVE  i \in Unanswered'
  OBVIOUS
<1>2. PICK t \in {"B", "C"} : err[t] \in {"network", "killed"} /\ i \in Inserts(t, {pc[t]})
  BY DEF Unanswered
<1>3. err'[t] \in {"network", "killed"} /\ pc'[t] = pc[t] /\ Inserts(t, {pc[t]})' = Inserts(t, {pc[t]})
  BY <1>2, SessionNames DEF Inserts, Script
<1> QED BY <1>2, <1>3 DEF Unanswered

\* What one session's step has to show for the invariant to hold of all.
LEMMA StoreMoves ==
  ASSUME NEW pl, StoreNow(pl), NEW s \in Sessions, prog' = prog,
         \A t \in Sessions \ {s} : StaysFor(t),
         \A i : i \notin pl.own[s] => RowStays(i),
         \A i : i \notin pl.own[s] => (i \in Inserted' <=> i \in Inserted),
         \A i \in Unanswered : i \in Unanswered',
         Columns(pl)', Writes(pl, s)', Stands(pl, s)',
         s \in {"B", "C"} => EndsEach(s)', s = "A" => KeepsTx(pl)',
         \A i \in pl.own[s] \cap DOMAIN pl.col : Settled(i)'
  PROVE  Stored(pl)'
<1>1. \A t \in Sessions \ {s} : Op(t)' = Op(t) /\ \A i : InsertOf(t, i)' <=> InsertOf(t, i)
  BY DEF StaysFor, Op, Script, InsertOf
<1>2. ASSUME NEW t \in Sessions, t # s
      PROVE  /\ undo'[t] = undo[t]
             /\ \A i \in DOMAIN undo[t] : i \notin pl.own[s] /\ RowStays(i) /\ i \in Ids
                                          /\ (i \in Inserted' <=> i \in Inserted)
  <2>1. Writes(pl, t) /\ pl.own[s] \cap pl.own[t] = {}
    BY <1>2 DEF StoreNow, Stored, Planned
  <2> QED BY <1>2, <2>1 DEF Writes, StaysFor
<1>3. ASSUME NEW t \in Sessions, t # s
      PROVE  Writes(pl, t)'
  <2>1. Writes(pl, t)
    BY DEF StoreNow, Stored
  <2> QED BY <1>2, <1>3, <2>1 DEF Writes, RowStays
<1>4. ASSUME NEW t \in Sessions, t # s
      PROVE  Stands(pl, t)'
  <2>1. Stands(pl, t) /\ at'[t] = at[t] /\ Op(t)' = Op(t)
    BY <1>1, <1>4 DEF StoreNow, Stored, StaysFor
  <2> QED BY <2>1 DEF Stands
<1>5. ASSUME NEW t \in {"B", "C"}, t # s
      PROVE  EndsEach(t)'
  <2>1. t \in Sessions /\ EndsEach(t)
    BY SessionNames DEF StoreNow, Stored
  <2>2. at'[t] = at[t] /\ undo'[t] = undo[t] /\ inTx'[t] = inTx[t] /\ err'[t] = err[t]
    BY <1>5, <2>1 DEF StaysFor
  <2>3. \A i : InsertOf(t, i)' <=> InsertOf(t, i)
    BY <1>1, <1>5, <2>1
  <2>4. \A i \in DOMAIN undo[t] : rows'[i] = rows[i]
    BY <1>2, <1>5, <2>1 DEF RowStays
  <2> QED BY <2>1, <2>2, <2>3, <2>4 DEF EndsEach
<1>6. s # "A" => KeepsTx(pl)'
  <2>1. "A" \in Sessions
    BY SessionNames
  <2> QED BY <2>1 DEF StoreNow, Stored, KeepsTx, StaysFor
<1>7. ASSUME NEW i \in DOMAIN pl.col, i \notin pl.own[s]
      PROVE  Settled(i)'
  <2>1. Settled(i) /\ RowStays(i) /\ (i \in Inserted' <=> i \in Inserted)
    BY <1>7 DEF StoreNow, Stored
  <2>2. i \notin DOMAIN undo[s] /\ \A t \in Sessions \ {s} : undo'[t] = undo[t]
    BY <1>7 DEF StoreNow, Stored, Writes, StaysFor
  <2> QED BY <2>1, <2>2 DEF Settled, RowStays
<1>8. EndsEach("B")' /\ EndsEach("C")'
  BY <1>5
<1>9. KeepsTx(pl)'
  BY <1>6
<1>10. \A t \in Sessions : Writes(pl, t)' /\ Stands(pl, t)'
  BY <1>3, <1>4
<1>11. \A i \in DOMAIN pl.col : Settled(i)'
  BY <1>7
<1> QED BY <1>8, <1>9, <1>10, <1>11 DEF Stored

\* A session that has written nothing has nothing to take back.
LEMMA NothingIn == DOMAIN << >> = {}
OBVIOUS

\* Nor has one whose table of undo records is empty.
LEMMA EmptyTable ==
  ASSUME NEW R, NEW f, Table(f, R), DOMAIN f = {}
  PROVE  f = << >>
BY DEF Table

\* Steps without a statement: BEGIN, COMMIT, channels, table lock, condition.
LEMMA StoreQuiet ==
  ASSUME NEW pl, StoreNow(pl), NEW s \in Sessions, Quiet(s)
  PROVE  Stored(pl)' /\ inTx' = [t \in Sessions |-> inTx'[t]]
<1>1. /\ at' = at /\ prog' = prog /\ err' = err /\ rows' = rows
      /\ undo' = undo \/ (CommitTx(s) /\ undo' = [undo EXCEPT ![s] = <<>>])
      /\ inTx' = inTx \/ (BeginTx(s) /\ inTx' = [inTx EXCEPT ![s] = TRUE])
                      \/ (CommitTx(s) /\ inTx' = [inTx EXCEPT ![s] = FALSE])
  BY DEF Quiet, Rendezvous, BeginTx, SetIsolation, CommitTx, LockTables, UnlockTables, CondWait, Broadcast,
         Woken, Select, Begin, SetReadCommitted, Commit, dbVars
<1>2. PICK S \in SUBSET Sessions : Step(S) /\ \A t \in S : Running(t) /\ Op(t).op # "sql"
  BY QuietMoves DEF StoreNow
<1>3. \A t \in S : at[t].stage = "idle"
  BY <1>2 DEF StoreNow, TypeInv, StageOK, InSql
<1>4. \A i : i \in Inserted' <=> i \in Inserted
  BY <1>1, <1>2, InsertedGrows DEF StoreNow, InsertOf
<1>4a. \A i \in Unanswered : i \in Unanswered'
  <2>1. \A t \in Sessions : err[t] \in {"network", "killed"} => t \notin S
    BY <1>2 DEF Running
  <2> QED BY <1>1, <1>2, <2>1, UnansweredStays DEF Step
<1>5. ASSUME CommitTx(s)
      PROVE  pl.own[s] = {} /\ undo[s] = << >>
  <2>1. Running(s) /\ Op(s).op = "commit"
    BY <1>5 DEF CommitTx, At
  <2>2. pl.own[s] = {}
    BY <2>1, OpKeeps DEF StoreNow, Keeps
  <2>3. DOMAIN undo[s] = {} /\ Table(undo[s], UndoRow)
    BY <2>2 DEF StoreNow, Stored, Writes, TypeInv, DataOK
  <2> QED BY <2>2, <2>3, EmptyTable
<1>6. undo' = undo
  <2>1. undo = [t \in Sessions |-> undo[t]]
    BY DEF StoreNow, TypeInv, DataOK
  <2> QED BY <1>1, <1>5, <2>1
<1>7. inTx' = [t \in Sessions |-> inTx'[t]] /\ \A t \in Sessions \ {s} : inTx'[t] = inTx[t]
  BY <1>1 DEF StoreNow
<1>8. Columns(pl)' /\ \A i \in DOMAIN pl.col : Settled(i)'
  BY <1>1, <1>4, <1>6, <1>4a DEF StoreNow, Stored, Columns, Settled, Ids
<1>9. ASSUME NEW t \in Sessions
      PROVE  Writes(pl, t)'
  BY <1>1, <1>4, <1>6 DEF StoreNow, Stored, Writes, Ids
<1>10. \A t \in Sessions \ S : Op(t)' = Op(t) /\ (\A i : InsertOf(t, i)' <=> InsertOf(t, i)) /\ pc'[t] = pc[t]
  BY <1>1, <1>2 DEF Op, Script, InsertOf, Step
<1>11. ASSUME NEW t \in Sessions
       PROVE  Stands(pl, t)'
  <2>1. CASE t \in S
    BY <1>1, <1>3, <2>1 DEF Stands
  <2>2. CASE t \notin S
    BY <1>1, <1>10, <2>2 DEF StoreNow, Stored, Stands
  <2> QED BY <2>1, <2>2
<1>12. ASSUME NEW t \in {"B", "C"}
       PROVE  EndsEach(t)'
  <2>1. t \in Sessions /\ EndsEach(t)
    BY SessionNames DEF StoreNow, Stored
  <2>2. inTx'[t] = FALSE
    <3>1. CASE BeginTx(s)
      <4>1. Running(s) /\ Op(s).op = "begin"
        BY <3>1 DEF BeginTx, At
      <4>2. s = "A"
        BY <4>1, OpKeeps DEF StoreNow, Keeps
      <4> QED BY <4>2, <1>7, <2>1 DEF EndsEach
    <3>2. CASE ~BeginTx(s)
      BY <1>1, <3>2, <2>1 DEF EndsEach, StoreNow
    <3> QED BY <3>1, <3>2
  <2>3. CASE t \in S
    <3>1. at'[t].stage = "idle" /\ undo'[t] = << >>
      BY <1>1, <1>3, <1>6, <2>1, <2>3 DEF EndsEach
    <3>2. DOMAIN undo'[t] = {}
      BY <3>1, NothingIn
    <3> QED BY <2>2, <3>1, <3>2 DEF EndsEach
  <2>4. CASE t \notin S
    BY <1>1, <1>6, <1>10, <2>1, <2>2, <2>4 DEF EndsEach
  <2> QED BY <2>3, <2>4
<1>13. KeepsTx(pl)'
  <2> SUFFICES ASSUME pl.own["A"] # {}
               PROVE  inTx'["A"] \/ (at'["A"].stage = "idle" /\ undo'["A"] = << >> /\ (pc'["A"] = 1 \/ err'["A"] # ""))
    BY DEF KeepsTx
  <2>1. "A" \in Sessions /\ pc["A"] \in Nat
    BY SessionNames DEF StoreNow, TypeInv, ControlOK
  <2>2. pc'["A"] = IF "A" \in S THEN pc["A"] + 1 ELSE pc["A"]
    BY <1>2, <2>1 DEF Step
  <2>3. ~(CommitTx(s) /\ s = "A")
    BY <1>5
  <2>4. CASE inTx["A"]
    BY <1>1, <2>1, <2>3, <2>4 DEF StoreNow
  <2>5. CASE ~inTx["A"]
    <3>1. at["A"].stage = "idle" /\ undo["A"] = << >> /\ (pc["A"] = 1 \/ err["A"] # "")
      BY <2>5 DEF StoreNow, Stored, KeepsTx
    <3>2. CASE "A" \notin S
      BY <1>1, <1>6, <2>2, <3>1, <3>2
    <3>3. CASE "A" \in S
      <4>1. Running("A") /\ pc["A"] = 1
        BY <1>2, <3>1, <3>3 DEF Running
      <4>2. Op("A").op = "begin"
        BY <4>1 DEF StoreNow, Planned, Op, Script
      <4>3. BeginTx("A")
        <5>1. pc'["A"] # pc["A"]
          BY <2>1, <2>2, <3>3
        <5> QED
          BY <4>2, <5>1, <2>1 DEF Quiet, Rendezvous, BeginTx, SetIsolation, CommitTx, LockTables, UnlockTables,
                 CondWait, Broadcast, Woken, Select, At, Step
      <4>4. inTx' = [inTx EXCEPT !["A"] = TRUE]
        BY <4>3 DEF BeginTx, Begin
      <4> QED BY <2>1, <4>4 DEF StoreNow
    <3> QED BY <3>2, <3>3
  <2> QED BY <2>4, <2>5
<1>14. EndsEach("B")' /\ EndsEach("C")'
  BY <1>12
<1>15. \A t \in Sessions : Writes(pl, t)' /\ Stands(pl, t)'
  BY <1>9, <1>11
<1> QED BY <1>7, <1>8, <1>13, <1>14, <1>15 DEF Stored

\* A statement ends: outside a transaction its writes are settled.
LEMMA StoreFinish ==
  ASSUME NEW pl, StoreNow(pl), NEW s \in Sessions, Finish(s), UNCHANGED <<prog, err>>,
         \A t \in Sessions \ {s} : pc'[t] = pc[t],
         s = "A" => pc'["A"] = pc["A"] \/ err["A"] = "",
         \A i : i \in Inserted => i \in Inserted',
         \A i : i \in Inserted' => i \in Inserted \/ (s \in {"B", "C"} /\ InsertOf(s, i)),
         \A i \in 0 .. 30 : s \in {"B", "C"} /\ InsertOf(s, i) => i \in Inserted' \/ i \in Unanswered',
         \A i \in Unanswered : i \in Unanswered'
  PROVE  Stored(pl)' /\ inTx' = inTx
<1>1. /\ rows' = rows /\ inTx' = inTx /\ at[s].stage = "end" /\ at' = [at EXCEPT ![s] = Idle]
      /\ undo' = IF inTx[s] THEN undo ELSE [undo EXCEPT ![s] = <<>>]
  BY DEF Finish
<1>2. InSql(s)
  BY <1>1 DEF StoreNow, TypeInv, StageOK
<1>3. /\ at'[s] = Idle /\ at'[s].stage = "idle"
      /\ undo = [t \in Sessions |-> undo[t]] /\ at = [t \in Sessions |-> at[t]]
  BY <1>1 DEF StoreNow, TypeInv, DataOK, Idle
<1>4. \A t \in Sessions \ {s} : StaysFor(t)
  BY <1>1, <1>3 DEF StaysFor
<1>5. \A i : InsertOf(s, i) => i \in pl.own[s] /\ i \in 0 .. 30 /\ i \notin DOMAIN prog.data
  BY <1>2, InsertKeeps DEF StoreNow
<1>6. Writes(pl, s) /\ Columns(pl)
  BY DEF StoreNow, Stored
<1>7. Columns(pl)' /\ Ids' = Ids
  BY <1>1, <1>6 DEF Columns, Ids
<1>8. Stands(pl, s)'
  BY <1>3 DEF Stands
<1>9. \A i : RowStays(i)
  BY <1>1, <1>7 DEF RowStays
<1>10. \A i : i \notin pl.own[s] => (i \in Inserted' <=> i \in Inserted)
  BY <1>5
<1>11. CASE s = "A"
  <2>1. pl.own["A"] # {} => inTx["A"]
    BY <1>1, <1>11 DEF StoreNow, Stored, KeepsTx
  <2>2. undo'["A"] = undo["A"]
    <3>1. CASE pl.own["A"] = {}
      <4>1. DOMAIN undo["A"] = {} /\ Table(undo["A"], UndoRow)
        BY <1>6, <1>11, <3>1 DEF Writes, StoreNow, TypeInv, DataOK
      <4>2. undo["A"] = << >>
        BY <4>1, EmptyTable
      <4> QED BY <1>1, <1>3, <1>11, <4>2
    <3>2. CASE pl.own["A"] # {}
      BY <1>1, <1>11, <2>1, <3>2
    <3> QED BY <3>1, <3>2
  <2>3. \A i : i \in Inserted' <=> i \in Inserted
    BY <1>11
  <2>4. Writes(pl, s)'
    BY <1>1, <1>6, <1>7, <1>11, <2>2, <2>3 DEF Writes
  <2>5. KeepsTx(pl)'
    BY <1>1, <2>1 DEF KeepsTx
  <2>6. \A t \in Sessions : undo'[t] = undo[t]
    BY <1>4, <1>11, <2>2 DEF StaysFor
  <2>7. \A i \in DOMAIN pl.col : Settled(i)'
    BY <1>1, <1>7, <2>3, <2>6 DEF StoreNow, Stored, Settled
  <2> QED BY <1>1, <1>4, <1>7, <1>8, <1>9, <1>10, <1>11, <2>4, <2>5, <2>7, StoreMoves
<1>12. CASE s \in {"B", "C"}
  <2>1. EndsEach(s)
    BY <1>12 DEF StoreNow, Stored
  <2>2. undo'[s] = << >> /\ inTx'[s] = FALSE /\ DOMAIN undo'[s] = {}
    BY <1>1, <1>3, <2>1, NothingIn DEF EndsEach
  <2>3. Writes(pl, s)' /\ EndsEach(s)'
    BY <1>3, <2>2 DEF Writes, EndsEach
  <2>4. ASSUME NEW i \in pl.own[s], i \in DOMAIN pl.col
        PROVE  Settled(i)'
    <3>1. \A t \in Sessions \ {s} : i \notin DOMAIN undo[t]
      BY DEF StoreNow, Stored, Writes, Planned
    <3>2. CASE i \in DOMAIN undo[s]
      <4>1. CASE i \in DOMAIN prog.data
        BY <1>1, <1>6, <1>7, <2>1, <3>2, <4>1 DEF Writes, EndsEach, Settled
      <4>2. CASE i \notin DOMAIN prog.data
        <5>1. InsertOf(s, i) /\ ~rows[i].del /\ rows[i].sec /\ i \in Ids
          BY <1>1, <1>6, <2>1, <3>2, <4>2 DEF Writes, EndsEach
        <5>2. i \in Inserted' \/ i \in Unanswered'
          BY <1>5, <1>12, <5>1
        <5> QED BY <1>1, <1>7, <5>1, <5>2 DEF Settled, Tidy
      <4> QED BY <4>1, <4>2
    <3>3. CASE i \notin DOMAIN undo[s]
      <4>1. ~InsertOf(s, i)
        BY <1>1, <1>5, <2>1, <3>3 DEF EndsEach
      <4>2. i \in Inserted' <=> i \in Inserted
        BY <4>1
      <4>3. Settled(i) /\ \A t \in Sessions : i \notin DOMAIN undo[t]
        BY <2>4, <3>1, <3>3 DEF StoreNow, Stored
      <4> QED BY <1>1, <1>7, <4>2, <4>3 DEF Settled
    <3> QED BY <3>2, <3>3
  <2>5. s # "A"
    BY <1>12
  <2> QED BY <1>1, <1>4, <1>7, <1>8, <1>9, <1>10, <2>3, <2>4, <2>5, StoreMoves
<1> QED BY <1>1, <1>11, <1>12, SessionNames

\* It returns to the goroutine that waits for it ...
LEMMA StoreReturn ==
  ASSUME NEW pl, StoreNow(pl), NEW s \in Sessions, Return(s)
  PROVE  Stored(pl)' /\ inTx' = inTx
<1>1. Finish(s) /\ UNCHANGED <<prog, err>> /\ Step({s}) /\ Running(s)
  BY DEF Return, At
<1>2. \A t \in Sessions \ {s} : pc'[t] = pc[t]
  BY <1>1 DEF Step
<1>3. err[s] = ""
  BY <1>1 DEF Running
<1>4. \A i : i \in Inserted' <=> i \in Inserted \/ (s \in {"B", "C"} /\ InsertOf(s, i))
  <2>1. \A i : i \in Inserted' <=> i \in Inserted \/ \E t \in {s} \cap {"B", "C"} : InsertOf(t, i)
    BY <1>1, InsertedGrows DEF StoreNow
  <2> QED BY <2>1
<1>5. \A i \in Unanswered : i \in Unanswered'
  BY <1>1, <1>2, <1>3, UnansweredStays
<1> QED BY <1>1, <1>2, <1>3, <1>4, <1>5, StoreFinish

\* ... or there is nobody to answer.
LEMMA StoreAnswers ==
  ASSUME NEW pl, StoreNow(pl), NEW s \in Sessions, NobodyToAnswer(s)
  PROVE  Stored(pl)' /\ inTx' = inTx
<1>1. Finish(s) /\ UNCHANGED <<prog, err, pc>> /\ err[s] # "" /\ at[s].stage = "end"
  BY DEF NobodyToAnswer, Finish
<1>2. \A i : i \in Inserted' <=> i \in Inserted
  BY <1>1, InsertedStays
<1>3. Unanswered' = Unanswered
  BY <1>1, InsertedStays
<1>4. ASSUME NEW i \in 0 .. 30, s \in {"B", "C"}, InsertOf(s, i)
      PROVE  i \in Unanswered
  <2>1. EndsEach(s)
    BY <1>4 DEF StoreNow, Stored
  <2>2. err[s] \in {"network", "killed"}
    BY <1>1, <2>1 DEF EndsEach, StoreNow, TypeInv, ControlOK, Errors
  <2>3. pc[s] <= Len(Script(s))
    BY <1>1 DEF StoreNow, TypeInv, StageOK, InSql
  <2>4. i \in Inserts(s, {pc[s]})
    BY <1>4, <2>3 DEF Inserts, InsertOf, Op
  <2> QED BY <1>4, <2>2, <2>4 DEF Unanswered
<1> QED BY <1>1, <1>2, <1>3, <1>4, StoreFinish

\* A goroutine or the process ends; its statement goes on.
LEMMA StoreDies ==
  ASSUME NEW pl, StoreNow(pl), NEW s \in Sessions, Dies(s)
  PROVE  Stored(pl)' /\ inTx' = inTx
<1>1. UNCHANGED <<dbVars, prog, pc>>
  BY DiesMoves
<1>2. /\ err = [t \in Sessions |-> err[t]]
      /\ \A t \in Sessions : err'[t] = err[t] \/ (err[t] = "" /\ err'[t] \in {"network", "killed"})
  <2>1. err = [t \in Sessions |-> err[t]]
    BY DEF StoreNow, TypeInv, ControlOK
  <2>2. ASSUME err' = [t \in Sessions |-> IF err[t] = "" THEN "killed" ELSE err[t]]
        PROVE  \A t \in Sessions : err'[t] = err[t] \/ (err[t] = "" /\ err'[t] = "killed")
    BY <2>2
  <2>3. ASSUME err' = [err EXCEPT ![s] = "network"], err[s] = ""
        PROVE  \A t \in Sessions : err'[t] = err[t] \/ (err[t] = "" /\ err'[t] = "network")
    BY <2>1, <2>3
  <2>4. \/ err' = err
        \/ err' = [t \in Sessions |-> IF err[t] = "" THEN "killed" ELSE err[t]]
        \/ err' = [err EXCEPT ![s] = "network"] /\ err[s] = ""
    BY DiesMoves DEF Running
  <2>5. CASE err' = err
    BY <2>1, <2>5
  <2>6. CASE err' = [t \in Sessions |-> IF err[t] = "" THEN "killed" ELSE err[t]]
    BY <2>1, <2>2, <2>6
  <2>7. CASE err' = [err EXCEPT ![s] = "network"] /\ err[s] = ""
    BY <2>1, <2>3, <2>7
  <2> QED BY <2>4, <2>5, <2>6, <2>7
<1>3. \A i : i \in Inserted' <=> i \in Inserted
  BY <1>1, InsertedStays
<1>4. \A i \in Unanswered : i \in Unanswered'
  BY <1>1, <1>2, UnansweredStays
<1>5. \A t : Op(t)' = Op(t) /\ \A i : InsertOf(t, i)' <=> InsertOf(t, i)
  BY <1>1 DEF Op, Script, InsertOf
<1> USE DEF dbVars
<1>6. Columns(pl)' /\ \A i \in DOMAIN pl.col : Settled(i)'
  BY <1>1, <1>3, <1>4 DEF StoreNow, Stored, Columns, Settled, Ids
<1>7. KeepsTx(pl)'
  <2>1. "A" \in Sessions
    BY SessionNames
  <2>2. err["A"] # "" => err'["A"] # ""
    BY <1>2, <2>1
  <2> QED BY <1>1, <2>2 DEF StoreNow, Stored, KeepsTx
<1>8. \A t \in Sessions : Writes(pl, t)' /\ Stands(pl, t)'
  BY <1>1, <1>3, <1>5 DEF StoreNow, Stored, Writes, Stands, Ids
<1>9. ASSUME NEW t \in {"B", "C"}
      PROVE  EndsEach(t)'
  <2>1. t \in Sessions /\ EndsEach(t)
    BY SessionNames DEF StoreNow, Stored
  <2>2. err'[t] \in {"deadlock", "timeout"} => err[t] \in {"deadlock", "timeout"}
    BY <1>2, <2>1
  <2> QED BY <1>1, <1>5, <2>1, <2>2 DEF EndsEach
<1>10. EndsEach("B")' /\ EndsEach("C")'
  BY <1>9
<1> QED BY <1>1, <1>6, <1>7, <1>8, <1>10 DEF Stored

\* A rollback takes back exactly what the session wrote.
LEMMA StoreRollBack ==
  ASSUME NEW pl, StoreNow(pl), NEW s \in Sessions, RollBack(s), UNCHANGED <<prog, pc>>,
         \A t \in Sessions \ {s} : err'[t] = err[t], s = "A" => err'["A"] # "",
         err[s] \in {"network", "killed"} => err'[s] = err[s]
  PROVE  Stored(pl)' /\ inTx' = [t \in Sessions |-> inTx'[t]]
<1>1. /\ rows' = Undone(undo[s]) /\ undo' = [undo EXCEPT ![s] = <<>>]
      /\ inTx' = [inTx EXCEPT ![s] = FALSE] /\ at' = [at EXCEPT ![s] = Idle]
  BY DEF RollBack
<1>2. /\ undo = [t \in Sessions |-> undo[t]] /\ at = [t \in Sessions |-> at[t]]
      /\ inTx = [t \in Sessions |-> inTx[t]]
  BY DEF StoreNow, TypeInv, DataOK
<1>3. at'[s] = Idle /\ undo'[s] = << >> /\ inTx'[s] = FALSE
  BY <1>1, <1>2
<1>4. \A t \in Sessions \ {s} : StaysFor(t)
  BY <1>1, <1>2 DEF StaysFor
<1>5. Writes(pl, s) /\ Columns(pl)
  BY DEF StoreNow, Stored
<1>6. \A i : i \in Inserted' <=> i \in Inserted
  BY InsertedStays
<1>6a. \A i \in Unanswered : i \in Unanswered'
  BY UnansweredStays
<1>7. \A i : /\ i \in Ids' <=> (i \in Ids \/ i \in DOMAIN undo[s]) /\ (i \in DOMAIN undo[s] => undo[s][i] # NoRow)
             /\ i \in Ids' => rows'[i] = IF i \in DOMAIN undo[s] THEN undo[s][i] ELSE rows[i]
  BY <1>1 DEF Ids, Undone
<1>8. ASSUME NEW i
      PROVE  i \notin pl.own[s] => RowStays(i)
  BY <1>5, <1>7 DEF Writes, RowStays
<1>9. Columns(pl)'
  <2> SUFFICES ASSUME NEW i \in Ids'
               PROVE  i \in DOMAIN pl.col /\ rows'[i].c = pl.col[i]
    BY DEF Columns
  <2>1. CASE i \in DOMAIN undo[s]
    BY <1>5, <1>7, <2>1 DEF Writes, Columns
  <2>2. CASE i \notin DOMAIN undo[s]
    BY <1>5, <1>7, <2>2 DEF Columns
  <2> QED BY <2>1, <2>2
<1>10. Writes(pl, s)' /\ Stands(pl, s)' /\ EndsEach(s)'
  <2>1. at'[s].stage = "idle" /\ DOMAIN undo'[s] = {}
    <3>1. Idle.stage = "idle"
      BY DEF Idle
    <3> QED BY <1>3, <3>1, NothingIn, Zenon
  <2>2. Writes(pl, s)'
    BY <2>1 DEF Writes
  <2>3. Stands(pl, s)'
    BY <2>1 DEF Stands
  <2>4. EndsEach(s)'
    BY <1>3, <2>1 DEF EndsEach
  <2> QED BY <2>2, <2>3, <2>4
<1>11. s = "A" => KeepsTx(pl)'
  <2>1. Idle.stage = "idle"
    BY DEF Idle
  <2>2. at'[s].stage = "idle" /\ undo'[s] = << >>
    BY <1>3, <2>1, Zenon
  <2> QED BY <2>2, Zenon DEF KeepsTx
<1>12. ASSUME NEW i \in pl.own[s], i \in DOMAIN pl.col
       PROVE  Settled(i)'
  <2>1. \A t \in Sessions \ {s} : i \notin DOMAIN undo[t]
    BY ZenonT(60) DEF StoreNow, Stored, Writes, Planned
  <2>2. CASE i \in DOMAIN undo[s]
    <3>1. CASE i \in DOMAIN prog.data
      <4>1. i \in Ids' /\ rows'[i] = undo[s][i] /\ Tidy(undo[s][i])
        BY <1>5, <1>7, <2>2, <3>1 DEF Writes
      <4> QED BY <3>1, <4>1 DEF Settled, Tidy
    <3>2. CASE i \notin DOMAIN prog.data
      <4>1. i \notin Ids' /\ i \notin Inserted'
        BY <1>5, <1>6, <1>7, <2>2, <3>2 DEF Writes
      <4> QED BY <3>2, <4>1 DEF Settled
    <3> QED BY <3>1, <3>2
  <2>3. CASE i \notin DOMAIN undo[s]
    <3>1. Settled(i) /\ \A t \in Sessions : i \notin DOMAIN undo[t]
      BY <1>12, <2>1, <2>3 DEF StoreNow, Stored
    <3> QED BY <1>6, <1>6a, <1>7, <2>3, <3>1 DEF Settled
  <2> QED BY <2>2, <2>3
<1>13. \A i : i \notin pl.own[s] => (i \in Inserted' <=> i \in Inserted)
  BY <1>6
<1>14. Stored(pl)'
  BY <1>4, <1>6a, <1>8, <1>9, <1>10, <1>11, <1>12, <1>13, StoreMoves
<1>15. inTx' = [t \in Sessions |-> inTx'[t]]
  BY <1>1, <1>2
<1> QED BY <1>14, <1>15

\* What NothingOfA asks for once the connections are closed.
LeftInOrder ==
  /\ DOMAIN prog.data \cup Inserted \subseteq DOMAIN rows
  /\ DOMAIN rows \subseteq DOMAIN prog.data \cup Inserted \cup Unanswered
  /\ \A id \in DOMAIN rows : ~rows[id].del /\ rows[id].sec

\* When main returns, what is left is what is settled.
LEMMA StoreEnds ==
  ASSUME NEW pl, StoreNow(pl), RollBackAll, UNCHANGED <<prog, pc, err>>
  PROVE  LeftInOrder'
<1> DEFINE touched == UNION {DOMAIN undo[s] : s \in Sessions}
           who(i)  == CHOOSE s \in Sessions : i \in DOMAIN undo[s]
           u       == [i \in touched |-> undo[who(i)][i]]
<1>1. rows' = Undone(u)
  BY DEF RollBackAll
<1>2. \A i : i \in Inserted' <=> i \in Inserted
  BY InsertedStays
<1>2a. \A i : i \in Unanswered' <=> i \in Unanswered
  BY InsertedStays
<1>3. DOMAIN u = touched /\ \A i : i \in touched <=> \E s \in Sessions : i \in DOMAIN undo[s]
  OBVIOUS
<1>4. ASSUME NEW i \in touched
      PROVE  \E s \in Sessions : i \in DOMAIN undo[s] /\ u[i] = undo[s][i]
  <2>1. \E s \in Sessions : i \in DOMAIN undo[s]
    BY <1>3
  <2>2. who(i) \in Sessions /\ i \in DOMAIN undo[who(i)]
    BY <2>1
  <2> QED BY <2>2
<1> HIDE DEF touched, who, u
<1>5. \A i : /\ i \in Ids' <=> (i \in Ids \/ i \in touched) /\ (i \in touched => u[i] # NoRow)
             /\ i \in Ids' => rows'[i] = IF i \in touched THEN u[i] ELSE rows[i]
  BY <1>1, <1>3 DEF Ids, Undone
<1>6. ASSUME NEW i \in touched
      PROVE  /\ i \in Ids
             /\ i \in DOMAIN prog.data => u[i] # NoRow /\ Tidy(u[i])
             /\ i \notin DOMAIN prog.data => u[i] = NoRow /\ i \notin Inserted
  <2>1. PICK s \in Sessions : i \in DOMAIN undo[s] /\ u[i] = undo[s][i]
    BY <1>4
  <2> QED BY <2>1 DEF StoreNow, Stored, Writes
<1>7. ASSUME NEW i \in DOMAIN pl.col
      PROVE  /\ i \in DOMAIN prog.data \/ i \in Inserted => i \in Ids'
             /\ i \in Ids' => i \in DOMAIN prog.data \/ i \in Inserted \/ i \in Unanswered
             /\ i \in Ids' => Tidy(rows'[i])
  <2>1. CASE i \in touched
    BY <1>5, <1>6, <2>1
  <2>2. CASE i \notin touched
    <3>1. Settled(i) /\ \A s \in Sessions : i \notin DOMAIN undo[s]
      BY <1>3, <2>2 DEF StoreNow, Stored
    <3> QED BY <1>5, <2>2, <3>1 DEF Settled
  <2> QED BY <2>1, <2>2
<1>8. \A i \in Ids' : i \in DOMAIN pl.col
  BY <1>5, <1>6 DEF StoreNow, Stored, Columns
<1>9. \A i \in DOMAIN prog.data : i \in DOMAIN pl.col
  BY DEF StoreNow, Planned
<1>10. \A i \in Inserted : i \in DOMAIN pl.col
  BY InsertedOwned DEF StoreNow
<1>11. \A i : /\ i \in DOMAIN prog'.data \/ i \in Inserted' => i \in Ids'
              /\ i \in Ids' => i \in DOMAIN prog'.data \/ i \in Inserted' \/ i \in Unanswered'
  BY <1>2, <1>2a, <1>7, <1>8, <1>9, <1>10
<1>12. \A i \in Ids' : Tidy(rows'[i])
  BY <1>7, <1>8
<1> QED BY <1>11, <1>12 DEF LeftInOrder, Ids, Tidy

\* When the last connection of a dead process has been closed, nothing is left to take back.
LEMMA StoreCloses ==
  ASSUME NEW pl, StoreNow(pl), \A s \in Sessions : ~Open(s)
  PROVE  LeftInOrder
<1>1. ASSUME NEW s \in Sessions
      PROVE  DOMAIN undo[s] = {}
  <2>1. at[s].stage = "idle" /\ ~inTx[s]
    BY DEF Open, Idle
  <2>2. CASE s \in {"B", "C"}
    <3>1. EndsEach(s)
      BY <2>2 DEF StoreNow, Stored
    <3> QED BY <2>1, <3>1, NothingIn DEF EndsEach
  <2>3. CASE s = "A"
    <3>1. CASE pl.own["A"] = {}
      BY <2>3, <3>1 DEF StoreNow, Stored, Writes
    <3>2. CASE pl.own["A"] # {}
      BY <2>1, <2>3, <3>2, NothingIn DEF StoreNow, Stored, KeepsTx
    <3> QED BY <3>1, <3>2
  <2> QED BY <2>2, <2>3, SessionNames
<1>2. ASSUME NEW i \in DOMAIN pl.col
      PROVE  /\ i \in DOMAIN prog.data \/ i \in Inserted => i \in Ids
             /\ i \in Ids => Tidy(rows[i]) /\ (i \in DOMAIN prog.data \/ i \in Inserted \/ i \in Unanswered)
  BY <1>1 DEF StoreNow, Stored, Settled
<1>3. \A i \in Ids : i \in DOMAIN pl.col
  BY DEF StoreNow, Stored, Columns
<1>4. \A i : i \in DOMAIN prog.data \/ i \in Inserted => i \in DOMAIN pl.col
  BY InsertedOwned DEF StoreNow, Planned
<1> QED BY <1>2, <1>3, <1>4 DEF LeftInOrder, Ids, Tidy

\* At the start nobody has written anything.
LEMMA StoreInit ==
  ASSUME Init
  PROVE  StoreInv
<1>1. PICK pl : Planned(pl, prog)
  BY ProgramsPlanned DEF Init
<1>2. /\ rows = prog.data /\ undo = [s \in Sessions |-> << >>] /\ inTx = [s \in Sessions |-> FALSE]
      /\ at = [s \in Sessions |-> Idle] /\ pc = [s \in Sessions |-> 1] /\ err = [s \in Sessions |-> ""]
  BY DEF Init, InitDB
<1>3. Inserted = {}
  <2>1. ASSUME NEW s \in {"B", "C"}, NEW k \in 1 .. pc[s] - 1
        PROVE  FALSE
    <3>1. pc[s] = 1
      BY <1>2, SessionNames
    <3> QED BY <3>1
  <2> QED BY <2>1 DEF Inserted, Inserts
<1>4. Columns(pl) /\ \A i \in DOMAIN pl.col : Settled(i)
  <2>1. Columns(pl)
    <3>1. ASSUME NEW i \in DOMAIN prog.data
          PROVE  i \in DOMAIN pl.col /\ prog.data[i].c = pl.col[i]
      BY <1>1 DEF Planned
    <3> QED BY <1>2, <3>1 DEF Columns, Ids
  <2>2. ASSUME NEW i \in DOMAIN pl.col
        PROVE  Settled(i)
    <3>1. i \in DOMAIN prog.data => Tidy(prog.data[i])
      BY <1>1 DEF Planned
    <3> QED BY <1>2, <1>3, <3>1 DEF Settled, Ids
  <2> QED BY <2>1, <2>2
<1>5. KeepsTx(pl) /\ \A s \in Sessions : Writes(pl, s) /\ Stands(pl, s) /\ EndsEach(s)
  <2>1. KeepsTx(pl)
    <3>1. pc["A"] = 1 /\ undo["A"] = << >> /\ at["A"] = Idle
      BY <1>2, SessionNames
    <3>2. Idle.stage = "idle"
      BY DEF Idle
    <3> QED BY <3>1, <3>2, Zenon DEF KeepsTx
  <2>2. ASSUME NEW s \in Sessions
        PROVE  Writes(pl, s) /\ Stands(pl, s) /\ EndsEach(s)
    <3>1. at[s].stage = "idle" /\ undo[s] = << >> /\ DOMAIN undo[s] = {} /\ inTx[s] = FALSE
      <4>1. Idle.stage = "idle"
        BY DEF Idle
      <4>2. at[s] = Idle /\ undo[s] = << >> /\ inTx[s] = FALSE
        BY <1>2, Zenon
      <4> QED BY <4>1, <4>2, NothingIn, Zenon
    <3>2. Writes(pl, s)
      BY <3>1 DEF Writes
    <3>3. Stands(pl, s)
      BY <3>1 DEF Stands
    <3>4. EndsEach(s)
      BY <3>1 DEF EndsEach
    <3> QED BY <3>2, <3>3, <3>4
  <2> QED BY <2>1, <2>2
<1>6. Stored(pl)
  BY <1>4, <1>5, SessionNames DEF Stored
<1>7. ended = "no"
  BY DEF Init
<1> QED BY <1>1, <1>2, <1>6, <1>7 DEF StoreInv

ColumnsNow(pl) == TypeInv /\ Planned(pl, prog) /\ Columns(pl)

\* Every record stands at the place the plan gives its row.
LEMMA ScanPlaces ==
  ASSUME NEW pl, ColumnsNow(pl), NEW idx \in {"p", "c"}
  PROVE  /\ Records(idx) \in SUBSET Places /\ Supremum \in Records(idx)
         /\ \A r \in Records(idx) : r = Supremum \/ \E i \in DOMAIN pl.col : r = Place(pl, idx, i)
         /\ \A i \in DOMAIN pl.col : /\ Place(pl, idx, i) \in Places
                                     /\ Place(pl, idx, i)[1] \in 0 .. 999 /\ Place(pl, idx, i)[2] = i
<1>1. \A i \in Ids : i \in DOMAIN pl.col /\ rows[i].c = pl.col[i]
  BY DEF ColumnsNow, Columns
<1>2. ASSUME NEW i \in DOMAIN pl.col
      PROVE  i \in 0 .. 999 /\ pl.col[i] \in 0 .. 999
  BY DEF ColumnsNow, Planned
<1>3. ASSUME NEW i \in DOMAIN pl.col
      PROVE  Place(pl, idx, i) \in Places /\ Place(pl, idx, i)[1] \in 0 .. 999 /\ Place(pl, idx, i)[2] = i
  <2>1. CASE idx = "p"
    BY <1>2, <2>1 DEF Place, Places
  <2>2. CASE idx = "c"
    <3> DEFINE c == pl.col[i]
    <3>1. Place(pl, idx, i) = <<c, i>> /\ c \in 0 .. 999 /\ i \in 0 .. 999
      BY <1>2, <2>2 DEF Place
    <3> HIDE DEF c
    <3> QED BY <3>1, SMTT(40) DEF Places
  <2> QED BY <2>1, <2>2
<1>4. \A i \in Ids : Key(idx, i) = Place(pl, idx, i)
  BY <1>1 DEF Key, Place
<1>5. Supremum \in Places /\ Supremum \in Records(idx)
  BY DEF Records, Supremum, Places
<1>6. ASSUME NEW r \in Records(idx), r # Supremum
      PROVE  \E i \in DOMAIN pl.col : r = Place(pl, idx, i)
  <2>1. PICK i \in Ids : r = Key(idx, i)
    BY <1>6 DEF Records, Ids
  <2> QED BY <1>1, <1>4, <2>1
<1>7. \A r \in Records(idx) : r \in Places
  BY <1>3, <1>5, <1>6
<1> QED BY <1>3, <1>5, <1>6, <1>7

\* A scan starts where a planned row is, or behind the last record.
LEMMA FirstStands ==
  ASSUME NEW pl, ColumnsNow(pl), NEW w \in Cond
  PROVE  FirstOf(w) = Supremum \/ \E i \in DOMAIN pl.col : FirstOf(w) = Place(pl, w.idx, i) /\ From(w, FirstOf(w))
<1> DEFINE S == {r \in Records(w.idx) : w.lo < r[1] \/ (w.loIn /\ w.lo = r[1])}
<1>1. w.idx \in {"p", "c"} /\ w.lo \in -1 .. 999
  BY DEF Cond
<1>2. S \in SUBSET Places /\ Supremum \in S
  BY <1>1, ScanPlaces DEF Supremum
<1>3. FirstOf(w) = Least(S)
  BY DEF FirstOf
<1>4. \A r \in S : r \in Records(w.idx) /\ From(w, r)
  BY DEF From
<1> HIDE DEF S
<1>5. Least(S) \in S
  BY <1>2, LeastExists
<1> QED BY <1>1, <1>3, <1>4, <1>5, ScanPlaces

\* It goes on to such a place.
LEMMA NextStands ==
  ASSUME NEW pl, ColumnsNow(pl), NEW w \in Cond, NEW r \in Places, r[1] \in 0 .. 999, From(w, r),
         NEW k, k = Successor(w.idx, r)
  PROVE  k = Supremum \/ \E i \in DOMAIN pl.col : k = Place(pl, w.idx, i) /\ From(w, k)
<1> DEFINE S == {x \in Records(w.idx) : Before(r, x)}
<1>1. w.idx \in {"p", "c"} /\ w.lo \in -1 .. 999
  BY DEF Cond
<1>2. S \in SUBSET Places /\ Supremum \in S
  <2>1. Records(w.idx) \in SUBSET Places /\ Supremum \in Records(w.idx)
    BY <1>1, ScanPlaces, SMTT(40)
  <2>2. r[1] < 1000
    OBVIOUS
  <2> QED BY <2>1, <2>2 DEF Supremum, Before
<1>3. k = Least(S)
  BY DEF Successor
<1>4. \A x \in S : x \in Records(w.idx) /\ x \in Places /\ Before(r, x)
  BY <1>2
<1> HIDE DEF S
<1>5. k \in Records(w.idx) /\ k \in Places /\ Before(r, k)
  BY <1>2, <1>3, <1>4, LeastExists
<1>6. From(w, k)
  <2>1. r[1] \in Int /\ k[1] \in Int /\ r[1] <= k[1]
    BY <1>5 DEF Places, Before
  <2> DEFINE a == r[1]
             b == k[1]
             l == w.lo
  <2>2. l < a \/ (w.loIn /\ l = a)
    BY DEF From
  <2>3. a \in Int /\ b \in Int /\ l \in Int /\ a <= b
    BY <1>1, <2>1, SMTT(40)
  <2> HIDE DEF a, b, l
  <2>4. l < b \/ (w.loIn /\ l = b)
    BY <2>2, <2>3
  <2> QED BY <2>4 DEF From, b, l
<1> QED BY <1>1, <1>5, <1>6, ScanPlaces

\* What a scan changes is its own session's row, and that row was prepared.
LEMMA ReachWrites ==
  ASSUME NEW pl, ColumnsNow(pl), NEW s \in Sessions, Stands(pl, s), InSql(s), at[s].stage \in {"index", "row"},
         InRange(Op(s).st.w, at[s].rec), NEW req, Reach(s, Op(s).st, req)
  PROVE  \/ rows' = rows /\ undo' = undo
         \/ \E id \in pl.own[s] \cap DOMAIN prog.data \cap Ids : \E new \in Row :
               /\ rows' = [rows EXCEPT ![id] = new]
               /\ undo' = [undo EXCEPT ![s] = PutNew(undo[s], id, rows[id])]
               /\ new.c = rows[id].c /\ new.sec = rows[id].sec
               /\ s # "A" => new.del = rows[id].del
<1> DEFINE st   == Op(s).st
           r    == at[s].rec
           id   == r[2]
           hit  == Matches(st, id)
           new  == CASE st.do = "delete" -> [rows[id] EXCEPT !.del = TRUE]
                     [] st.do = "add1"   -> [rows[id] EXCEPT !.d = @ + 1]
                     [] st.do = "set5"   -> [rows[id] EXCEPT !.d = 5]
                     [] OTHER            -> rows[id]
<1>1. /\ rows' = IF hit THEN [rows EXCEPT ![id] = new] ELSE rows
      /\ undo' = IF hit /\ new # rows[id] THEN [undo EXCEPT ![s] = PutNew(@, id, rows[id])] ELSE undo
  BY Zenon DEF Reach
<1>2. IsScan(st) /\ Op(s).op = "sql"
  BY DEF ColumnsNow, TypeInv, StageOK, InSql
<1>3. /\ rows \in [Ids -> Row] /\ Ids \subseteq 0 .. 999
      /\ undo = [t \in Sessions |-> undo[t]]
  BY DEF ColumnsNow, TypeInv, DataOK, Table, Ids
<1>4. hit => id \in Ids
  BY DEF Matches, Ids
<1>5. new # rows[id] => st.do \in {"add1", "set5", "delete"}
  OBVIOUS
<1>6. CASE ~hit \/ new = rows[id]
  <2>1. CASE ~hit
    BY <1>1, <2>1
  <2>2. CASE hit /\ new = rows[id]
    <3>1. rows' = [rows EXCEPT ![id] = rows[id]] /\ undo' = undo
      BY <1>1, <2>2, ZenonT(60)
    <3> QED BY <1>3, <3>1
  <2> QED BY <1>6, <2>1, <2>2
<1>7. CASE hit /\ new # rows[id]
  <2>1. rows' = [rows EXCEPT ![id] = new] /\ undo' = [undo EXCEPT ![s] = PutNew(undo[s], id, rows[id])]
    <3> HIDE DEF id, hit, new
    <3> QED BY <1>1, <1>3, <1>7
  <2>2. id \in Ids /\ id \in 0 .. 999 /\ rows[id] \in Row
    <3>1. id \in Ids
      BY <1>4, <1>7, ZenonT(60)
    <3> HIDE DEF id
    <3> QED BY <1>3, <3>1, ZenonT(60)
  <2>3. PICK i \in DOMAIN pl.col : r = Place(pl, st.w.idx, i) /\ From(st.w, r)
    <3>1. r # Supremum
      <4>1. Supremum[2] = 1000
        BY DEF Supremum
      <4>2. 1000 \notin 0 .. 999
        OBVIOUS
      <4> SUFFICES ASSUME r = Supremum
                   PROVE  FALSE
        OBVIOUS
      <4>3. r[2] = 1000
        BY <4>1
      <4> QED BY <2>2, <4>2, <4>3
    <3> QED BY <3>1 DEF Stands
  <2>4. id = i /\ InRange(st.w, Place(pl, st.w.idx, i)) /\ From(st.w, Place(pl, st.w.idx, i))
    BY <2>3 DEF Place
  <2>5. Keeps(pl, prog.data, s, pc[s], Op(s))
    BY <1>2, OpKeeps DEF ColumnsNow
  <2>6. i \in pl.own[s] /\ i \in DOMAIN prog.data /\ (st.do = "delete" => s = "A")
    BY <1>2, <1>5, <1>7, <2>4, <2>5 DEF Keeps
  <2>7. \A x \in Row : \A z :
          /\ [x EXCEPT !.d = z] = [c |-> x.c, d |-> z, del |-> x.del, sec |-> x.sec]
          /\ [x EXCEPT !.del = z] = [c |-> x.c, d |-> x.d, del |-> z, sec |-> x.sec]
    BY SMTT(40) DEF Row
  <2>8. \/ st.do = "delete" /\ new = [c |-> rows[id].c, d |-> rows[id].d, del |-> TRUE, sec |-> rows[id].sec]
        \/ \E z \in Nat : /\ st.do # "delete"
                          /\ new = [c |-> rows[id].c, d |-> z, del |-> rows[id].del, sec |-> rows[id].sec]
    <3>1. CASE st.do = "delete"
      <4>1. new = [rows[id] EXCEPT !.del = TRUE]
        BY <3>1
      <4> QED BY <2>2, <2>7, <3>1, <4>1, ZenonT(60)
    <3>2. CASE st.do = "add1"
      <4>1. new = [rows[id] EXCEPT !.d = rows[id].d + 1]
        BY <3>2
      <4>2. rows[id].d + 1 \in Nat
        <5> DEFINE d == rows[id].d
        <5>1. d \in Nat
          BY <2>2, ZenonT(60) DEF Row
        <5> HIDE DEF d
        <5>2. d + 1 \in Nat
          BY <5>1
        <5> QED BY <5>2, SMTT(40) DEF d
      <4> QED BY <2>2, <2>7, <3>2, <4>1, <4>2, ZenonT(60)
    <3>3. CASE st.do = "set5"
      <4>1. new = [rows[id] EXCEPT !.d = 5] /\ 5 \in Nat
        BY <3>3
      <4> QED BY <2>2, <2>7, <3>3, <4>1, ZenonT(60)
    <3> QED BY <1>5, <1>7, <3>1, <3>2, <3>3, ZenonT(60)
  <2> HIDE DEF new, st, id, hit
  <2>9. new \in Row /\ new.c = rows[id].c /\ new.sec = rows[id].sec /\ (st.do # "delete" => new.del = rows[id].del)
    <3>1. rows[id].c \in 0 .. 999 /\ rows[id].d \in Nat /\ rows[id].del \in BOOLEAN /\ rows[id].sec \in BOOLEAN
      BY <2>2 DEF Row
    <3>2. \A x \in 0 .. 999, y \in Nat, b, d \in BOOLEAN :
             LET z == [c |-> x, d |-> y, del |-> b, sec |-> d]
             IN  z \in Row /\ z.c = x /\ z.sec = d /\ z.del = b
      BY DEF Row
    <3>3. CASE st.do = "delete" /\ new = [c |-> rows[id].c, d |-> rows[id].d, del |-> TRUE, sec |-> rows[id].sec]
      BY <3>1, <3>2, <3>3, ZenonT(60)
    <3>4. CASE \E z \in Nat : new = [c |-> rows[id].c, d |-> z, del |-> rows[id].del, sec |-> rows[id].sec]
      <4>1. PICK z \in Nat : new = [c |-> rows[id].c, d |-> z, del |-> rows[id].del, sec |-> rows[id].sec]
        BY <3>4
      <4> DEFINE a == rows[id].c
                 b == rows[id].del
                 e == rows[id].sec
      <4>2. a \in 0 .. 999 /\ b \in BOOLEAN /\ e \in BOOLEAN /\ new = [c |-> a, d |-> z, del |-> b, sec |-> e]
        <5> HIDE DEF st, r, id, hit, new
        <5> QED BY <3>1, <4>1, ZenonT(60)
      <4> HIDE DEF a, b, e
      <4>3. new \in Row /\ new.c = a /\ new.sec = e /\ new.del = b
        BY <3>2, <4>2, ZenonT(60)
      <4> QED BY <4>3 DEF a, b, e
    <3> QED BY <2>8, <3>3, <3>4
  <2> QED BY <2>1, <2>2, <2>4, <2>6, <2>9, ZenonT(60)
<1> QED BY <1>6, <1>7

\* A lock of a scan is granted; its row may be changed.
LEMMA StoreScans ==
  ASSUME NEW pl, StoreNow(pl), NEW s \in Sessions, InSql(s), at[s].stage \in {"index", "row"},
         \/ rows' = rows /\ undo' = undo
         \/ \E id \in pl.own[s] \cap DOMAIN prog.data \cap Ids : \E new \in Row :
               /\ rows' = [rows EXCEPT ![id] = new]
               /\ undo' = [undo EXCEPT ![s] = PutNew(undo[s], id, rows[id])]
               /\ new.c = rows[id].c /\ new.sec = rows[id].sec
               /\ s # "A" => new.del = rows[id].del,
         UNCHANGED <<prog, pc, err, inTx>>, \A t \in Sessions : t # s => at'[t] = at[t],
         at'[s].stage \in {"index", "row", "end"}, Stands(pl, s)'
  PROVE  Stored(pl)'
<1>1. IsScan(Op(s).st) /\ \A i : ~InsertOf(s, i)
  BY DEF StoreNow, TypeInv, StageOK, IsScan, InsertOf
<1>2. /\ \A i : i \in Inserted' <=> i \in Inserted
      /\ \A i : i \in Unanswered' <=> i \in Unanswered
  BY InsertedStays
<1>3. \A i : InsertOf(s, i)' <=> InsertOf(s, i)
  BY DEF InsertOf, Op, Script
<1>4. /\ rows \in [Ids -> Row] /\ undo = [t \in Sessions |-> undo[t]]
  BY DEF StoreNow, TypeInv, DataOK, Table, Ids
<1>5. \A t \in Sessions \ {s} : undo'[t] = undo[t]
  BY <1>4
<1>6. \A t \in Sessions \ {s} : StaysFor(t)
  BY <1>5 DEF StaysFor
<1>7. Columns(pl) /\ Writes(pl, s) /\ (s \in {"B", "C"} => EndsEach(s))
  BY DEF StoreNow, Stored
<1>8. s = "A" => KeepsTx(pl)'
  BY DEF StoreNow, Stored, KeepsTx
<1>9. CASE rows' = rows /\ undo' = undo
  <2>1. \A i : RowStays(i)
    BY <1>9 DEF RowStays, Ids
  <2>2. Columns(pl)' /\ Writes(pl, s)'
    BY <1>2, <1>7, <1>9 DEF Columns, Writes, Ids
  <2>3. s \in {"B", "C"} => EndsEach(s)'
    BY <1>1, <1>3, <1>7, <1>9 DEF EndsEach
  <2>4. \A i \in DOMAIN pl.col : Settled(i)'
    BY <1>2, <1>9 DEF StoreNow, Stored, Settled, Ids
  <2> QED BY <1>2, <1>6, <1>8, <2>1, <2>2, <2>3, <2>4, StoreMoves
<1>10. ASSUME NEW id \in pl.own[s] \cap DOMAIN prog.data \cap Ids, NEW new \in Row,
              rows' = [rows EXCEPT ![id] = new],
              undo' = [undo EXCEPT ![s] = PutNew(undo[s], id, rows[id])],
              new.c = rows[id].c, new.sec = rows[id].sec, s # "A" => new.del = rows[id].del
       PROVE  Stored(pl)'
  <2>1. Ids' = Ids /\ rows'[id] = new /\ \A i \in Ids : i # id => rows'[i] = rows[i]
    BY <1>4, <1>10 DEF Ids
  <2>2. undo'[s] = PutNew(undo[s], id, rows[id])
    BY <1>4, <1>10
  <2>3. /\ DOMAIN undo'[s] = DOMAIN undo[s] \cup {id}
        /\ \A i \in DOMAIN undo[s] : undo'[s][i] = undo[s][i]
        /\ id \notin DOMAIN undo[s] => undo'[s][id] = rows[id]
    BY <2>2 DEF PutNew, Put
  <2>4. id \in pl.own[s] /\ id \in DOMAIN prog.data /\ id \in Ids /\ id \in DOMAIN pl.col
    BY <1>7, <1>10 DEF Columns
  <2>5. id \notin DOMAIN undo[s] => Tidy(rows[id])
    <3>1. \A t \in Sessions \ {s} : id \notin DOMAIN undo[t]
      BY <2>4 DEF StoreNow, Stored, Writes, Planned
    <3> QED BY <2>4, <3>1 DEF StoreNow, Stored, Settled
  <2>6. \A i : i \notin pl.own[s] => RowStays(i)
    BY <2>1, <2>4 DEF RowStays
  <2>7. Columns(pl)'
    BY <1>7, <1>10, <2>1 DEF Columns
  <2>8. Writes(pl, s)'
    <3>1. id \notin DOMAIN undo[s] => rows[id] # NoRow /\ rows[id].c = pl.col[id] /\ Tidy(rows[id])
      BY <1>7, <2>4, <2>5 DEF Columns, Tidy, NoRow
    <3>2. DOMAIN undo'[s] \subseteq pl.own[s]
      BY <1>7, <2>3, <2>4 DEF Writes
    <3>3. ASSUME NEW i \in DOMAIN undo'[s]
          PROVE  /\ i \in Ids'
                 /\ i \in DOMAIN prog.data => undo'[s][i] # NoRow /\ undo'[s][i].c = pl.col[i] /\ Tidy(undo'[s][i])
                 /\ i \notin DOMAIN prog.data => undo'[s][i] = NoRow /\ i \notin Inserted'
      <4>1. CASE i \in DOMAIN undo[s]
        BY <1>2, <1>7, <2>1, <2>3, <4>1 DEF Writes
      <4>2. CASE i \notin DOMAIN undo[s]
        BY <2>1, <2>3, <2>4, <3>1, <4>2
      <4> QED BY <4>1, <4>2
    <3> QED BY <3>2, <3>3 DEF Writes
  <2>9. ASSUME s \in {"B", "C"}
        PROVE  EndsEach(s)'
    <3>1. EndsEach(s) /\ s # "A"
      BY <1>7, <2>9
    <3>2. Tidy(rows[id])
      BY <2>4, <2>5, <3>1 DEF EndsEach
    <3>3. Tidy(rows'[id])
      BY <1>10, <2>1, <3>1, <3>2 DEF Tidy
    <3>4. \A i \in DOMAIN undo[s] : i \in DOMAIN prog.data /\ Tidy(rows[i]) /\ i \in Ids
      BY <1>1, <1>7, <3>1 DEF EndsEach, Writes
    <3>5. \A i \in DOMAIN undo'[s] : i \in DOMAIN prog.data /\ Tidy(rows'[i])
      BY <2>1, <2>3, <2>4, <3>3, <3>4
    <3> QED BY <1>1, <1>3, <3>1, <3>5 DEF EndsEach
  <2>10. ASSUME NEW i \in DOMAIN pl.col
         PROVE  Settled(i)'
    <3>1. CASE i = id
      BY <2>3, <3>1 DEF Settled
    <3>2. CASE i # id
      <4>1. \A t \in Sessions : i \in DOMAIN undo'[t] <=> i \in DOMAIN undo[t]
        BY <1>5, <2>3, <3>2
      <4> QED BY <1>2, <2>1, <3>2, <4>1 DEF StoreNow, Stored, Settled
    <3> QED BY <3>1, <3>2
  <2>11. \A i : i \notin pl.own[s] => (i \in Inserted' <=> i \in Inserted)
    BY <1>2
  <2>12. \A i \in pl.own[s] \cap DOMAIN pl.col : Settled(i)'
    BY <2>10
  <2>13. s \in {"B", "C"} => EndsEach(s)'
    BY <2>9
  <2> QED BY <1>2, <1>6, <1>8, <2>6, <2>7, <2>8, <2>11, <2>12, <2>13, StoreMoves
<1> QED BY <1>9, <1>10

\* Where a scan goes on, a planned row is, or nothing is.
LEMMA ReachStands ==
  ASSUME NEW pl, ColumnsNow(pl), NEW s \in Sessions, Stands(pl, s), InSql(s),
         at[s].stage \in {"index", "row"}, InRange(Op(s).st.w, at[s].rec), NEW req,
         Reach(s, Op(s).st, req), UNCHANGED <<prog, pc>>
  PROVE  Stands(pl, s)' /\ at'[s].stage \in {"index", "end"}
<1> DEFINE w == Op(s).st.w
           r == at[s].rec
<1>1. /\ w \in Cond /\ at = [t \in Sessions |-> at[t]]
  BY DEF ColumnsNow, TypeInv, StageOK, IsScan
<1>2. \/ at'[s].stage = "end"
      \/ at'[s].stage = "index" /\ at'[s].rec = Successor(w.idx, r)
  <2>1. \E hits : \/ at' = [at EXCEPT ![s] = [stage |-> "end", rec |-> r, hits |-> hits]]
                  \/ at' = [at EXCEPT ![s] = [stage |-> "index", rec |-> Successor(w.idx, r), hits |-> hits]]
    BY ZenonT(60) DEF Reach
  <2>2. PICK hits : \/ at' = [at EXCEPT ![s] = [stage |-> "end", rec |-> r, hits |-> hits]]
                    \/ at' = [at EXCEPT ![s] = [stage |-> "index", rec |-> Successor(w.idx, r), hits |-> hits]]
    BY <2>1
  <2> HIDE DEF r, w
  <2> QED BY <1>1, <2>2
<1>3. Op(s)' = Op(s)
  BY DEF Op, Script
<1>4. Stands(pl, s)'
  <2>1. CASE at'[s].stage = "end"
    BY <2>1 DEF Stands
  <2>2. CASE at'[s].stage = "index" /\ at'[s].rec = Successor(w.idx, r)
    <3>1. r # Supremum
      <4> SUFFICES ASSUME r = Supremum
                   PROVE  FALSE
        OBVIOUS
      <4>1. r[1] = 1000
        BY DEF Supremum
      <4> DEFINE a == r[1]
                 h == w.hi
      <4>2. h \in 0 .. 999
        <5> HIDE DEF w
        <5> QED BY <1>1, CondParts
      <4>3. a < h \/ a = h
        BY DEF InRange
      <4>4. a = 1000
        BY <4>1
      <4> HIDE DEF a, h
      <4> QED BY <4>2, <4>3, <4>4, SMTT(40)
    <3>2. PICK i \in DOMAIN pl.col : r = Place(pl, w.idx, i) /\ From(w, r)
      BY <3>1, SMTT(40) DEF Stands
    <3>3. w.idx \in {"p", "c"}
      BY <1>1, CondParts, SMTT(40)
    <3>4. r \in Places /\ r[1] \in 0 .. 999
      <4> DEFINE x == w.idx
      <4>1. x \in {"p", "c"} /\ r = Place(pl, x, i)
        BY <3>2, <3>3, SMTT(40)
      <4> HIDE DEF x, r
      <4> QED BY <4>1, ScanPlaces
    <3> DEFINE k == Successor(w.idx, r)
    <3>5. k = Supremum \/ \E j \in DOMAIN pl.col : k = Place(pl, w.idx, j) /\ From(w, k)
      BY <1>1, <3>2, <3>4, NextStands, ZenonT(60)
    <3> HIDE DEF k
    <3>6. at'[s].stage = "index" /\ at'[s].rec = k
      BY <2>2 DEF k
    <3> QED BY <1>3, <3>5, <3>6 DEF Stands
  <2> QED BY <1>2, <2>1, <2>2
<1>5. at'[s].stage \in {"index", "end"}
  BY <1>2
<1> QED BY <1>4, <1>5

\* A scan reaches a row.
LEMMA StoreReaches ==
  ASSUME NEW pl, StoreNow(pl), NEW s \in Sessions, InSql(s), at[s].stage \in {"index", "row"},
         InRange(Op(s).st.w, at[s].rec), NEW req, Reach(s, Op(s).st, req),
         UNCHANGED <<prog, pc, err, inTx>>, \A t \in Sessions : t # s => at'[t] = at[t]
  PROVE  Stored(pl)'
<1>1. ColumnsNow(pl) /\ Stands(pl, s)
  BY DEF StoreNow, Stored, ColumnsNow
<1>2. Stands(pl, s)' /\ at'[s].stage \in {"index", "row", "end"}
  BY <1>1, ReachStands
<1> QED BY <1>1, <1>2, ReachWrites, StoreScans

\* A statement starts or waits.
LEMMA StoreStays ==
  ASSUME NEW pl, StoreNow(pl), NEW s \in Sessions, rows' = rows, undo' = undo,
         UNCHANGED <<prog, pc, err, inTx>>, \A t \in Sessions : t # s => at'[t] = at[t],
         Stands(pl, s)', s \in {"B", "C"} => EndsEach(s)', s = "A" => KeepsTx(pl)'
  PROVE  Stored(pl)'
<1>1. /\ \A i : i \in Inserted' <=> i \in Inserted
      /\ \A i : i \in Unanswered' <=> i \in Unanswered
  BY InsertedStays
<1>2. \A t \in Sessions \ {s} : StaysFor(t)
  BY DEF StaysFor
<1>3. \A i : RowStays(i)
  BY DEF RowStays, Ids
<1>4. Columns(pl)' /\ Writes(pl, s)'
  BY <1>1 DEF StoreNow, Stored, Columns, Writes, Ids
<1>5. \A i \in DOMAIN pl.col : Settled(i)'
  BY <1>1 DEF StoreNow, Stored, Settled, Ids
<1> QED BY <1>1, <1>2, <1>3, <1>4, <1>5, StoreMoves

\* Where a statement starts.
LEMMA StartStands ==
  ASSUME NEW pl, ColumnsNow(pl), NEW s \in Sessions, InSql(s), Start(s, Op(s).st), UNCHANGED <<prog, pc>>
  PROVE  Stands(pl, s)' /\ at'[s].stage \in {"insP", "index"}
<1> DEFINE w == Op(s).st.w
<1>1. at = [t \in Sessions |-> at[t]]
  BY DEF ColumnsNow, TypeInv
<1>2. Op(s)' = Op(s)
  BY DEF Op, Script
<1>3. \/ at'[s].stage = "insP"
      \/ at'[s].stage = "index" /\ at'[s].rec = FirstOf(w) /\ w \in Cond
  <2>1. CASE Op(s).st.do = "insert"
    <3>1. [Idle EXCEPT !.stage = "insP"] = [stage |-> "insP", rec |-> Supremum, hits |-> {}]
      BY RecordChanges DEF Idle
    <3>2. at' = [at EXCEPT ![s] = [stage |-> "insP", rec |-> Supremum, hits |-> {}]]
      BY <2>1, <3>1 DEF Start
    <3> QED BY <1>1, <3>2
  <2>2. CASE Op(s).st.do # "insert"
    <3>1. IsScan(Op(s).st)
      BY <2>2, NoInsert DEF ColumnsNow
    <3>2. at' = [at EXCEPT ![s] = [stage |-> "index", rec |-> FirstOf(w), hits |-> {}]]
      BY <2>2 DEF Start
    <3> HIDE DEF w
    <3>3. at'[s].stage = "index" /\ at'[s].rec = FirstOf(w)
      BY <1>1, <3>2
    <3> QED BY <3>1, <3>3 DEF IsScan, w
  <2> QED BY <2>1, <2>2
<1>4. Stands(pl, s)'
  <2>1. CASE at'[s].stage = "insP"
    BY <2>1 DEF Stands
  <2>2. CASE at'[s].stage = "index" /\ at'[s].rec = FirstOf(w) /\ w \in Cond
    <3> DEFINE k == FirstOf(w)
    <3>1. k = Supremum \/ \E j \in DOMAIN pl.col : k = Place(pl, w.idx, j) /\ From(w, k)
      BY <2>2, FirstStands
    <3> HIDE DEF k
    <3>2. at'[s].stage = "index" /\ at'[s].rec = k
      BY <2>2 DEF k
    <3> QED BY <1>2, <3>1, <3>2 DEF Stands
  <2> QED BY <1>3, <2>1, <2>2
<1> QED BY <1>3, <1>4

\* A statement starts.
LEMMA StoreStarts ==
  ASSUME NEW pl, StoreNow(pl), NEW s \in Sessions, InSql(s), Running(s), Start(s, Op(s).st),
         UNCHANGED <<prog, pc, err>>
  PROVE  Stored(pl)'
<1>1. /\ rows' = rows /\ undo' = undo /\ inTx' = inTx /\ at[s] = Idle
      /\ \A t \in Sessions : t # s => at'[t] = at[t]
  BY OthersStay DEF Start, StoreNow
<1>2. ColumnsNow(pl)
  BY DEF StoreNow, Stored, ColumnsNow
<1>3. Stands(pl, s)' /\ at'[s].stage \in {"insP", "index"}
  BY <1>2, StartStands
<1>4. ASSUME s \in {"B", "C"}
      PROVE  EndsEach(s)'
  <2>1. undo[s] = << >> /\ inTx[s] = FALSE
    BY <1>1, <1>4 DEF StoreNow, Stored, EndsEach, Idle
  <2>2. DOMAIN undo'[s] = {} /\ inTx'[s] = FALSE /\ at'[s].stage \in {"insP", "index"}
    BY <1>1, <1>3, <2>1, NothingIn
  <2>3. err'[s] = ""
    BY DEF Running
  <2> QED BY <2>2, <2>3 DEF EndsEach
<1>5. ASSUME s = "A"
      PROVE  KeepsTx(pl)'
  <2>1. err["A"] = "" /\ Op("A").op = "sql"
    BY <1>5 DEF Running, InSql
  <2>2. pl.own["A"] # {} => pc["A"] # 1
    BY <2>1 DEF StoreNow, Planned, Op, Script
  <2> QED BY <1>1, <2>1, <2>2 DEF StoreNow, Stored, KeepsTx
<1> QED BY <1>1, <1>3, <1>4, <1>5, StoreStays

\* A statement waits.
LEMMA StoreWaits ==
  ASSUME NEW pl, StoreNow(pl), NEW s \in Sessions, Wait(s, Op(s).st), UNCHANGED <<prog, pc, err>>
  PROVE  Stored(pl)'
<1>1. rows' = rows /\ undo' = undo /\ inTx' = inTx /\ at' = at
  BY DEF Wait
<1>2. Op(s)' = Op(s) /\ \A i : InsertOf(s, i)' <=> InsertOf(s, i)
  BY DEF Op, Script, InsertOf
<1>3. Stands(pl, s)'
  BY <1>1, <1>2 DEF StoreNow, Stored, Stands
<1>4. s \in {"B", "C"} => EndsEach(s)'
  BY <1>1, <1>2 DEF StoreNow, Stored, EndsEach
<1>5. s = "A" => KeepsTx(pl)'
  BY <1>1 DEF StoreNow, Stored, KeepsTx
<1> QED BY <1>1, <1>3, <1>4, <1>5, StoreStays

\* The row appears in the primary index.
LEMMA StoreInserts ==
  ASSUME NEW pl, StoreNow(pl), NEW s \in Sessions, InSql(s), NEW req,
         InsertPrimary(s, Op(s).st, req), UNCHANGED <<prog, pc, err, inTx>>,
         \A t \in Sessions : t # s => at'[t] = at[t]
  PROVE  Stored(pl)'
<1> DEFINE st  == Op(s).st
           id  == st.id
           new == [c |-> st.c, d |-> st.d, del |-> FALSE, sec |-> FALSE]
<1>1. /\ rows' = Put(rows, id, new) /\ undo' = [undo EXCEPT ![s] = PutNew(undo[s], id, NoRow)]
      /\ at' = [at EXCEPT ![s].stage = "insC"] /\ at[s].stage = "insP"
  BY DEF InsertPrimary
<1>2. /\ IsInsert(st) /\ undo = [t \in Sessions |-> undo[t]] /\ at = [t \in Sessions |-> at[t]]
  BY <1>1 DEF StoreNow, TypeInv, StageOK, DataOK
<1>3. \A i : InsertOf(s, i) <=> i = id
  <2>1. st.do = "insert" /\ Op(s).op = "sql"
    BY <1>2, ZenonT(60) DEF IsInsert, InSql
  <2> QED BY <2>1, ZenonT(60) DEF InsertOf
<1>4. /\ id \in pl.own[s] /\ id \in DOMAIN pl.col /\ id \notin DOMAIN prog.data
      /\ pl.col[id] = st.c /\ id \notin Inserted
  BY <1>2, <1>3, InsertKeeps DEF StoreNow
<1>5. at'[s].stage = "insC"
  <2>1. at' = [at EXCEPT ![s] = [stage |-> "insC", rec |-> at[s].rec, hits |-> at[s].hits]]
    BY <1>1, StageEnds DEF StoreNow
  <2> QED BY <1>2, <2>1
<1>6. new.c = st.c /\ new.del = FALSE
  OBVIOUS
<1>7. \A i : InsertOf(s, i)' <=> InsertOf(s, i)
  BY DEF InsertOf, Op, Script
<1> HIDE DEF id, new, st
<1>8. Ids' = Ids \cup {id} /\ rows'[id] = new /\ \A i \in Ids : i # id => rows'[i] = rows[i]
  BY <1>1 DEF Ids, Put
<1>9. /\ DOMAIN undo'[s] = DOMAIN undo[s] \cup {id}
      /\ \A i \in DOMAIN undo[s] : undo'[s][i] = undo[s][i]
      /\ id \notin DOMAIN undo[s] => undo'[s][id] = NoRow
  <2>1. undo'[s] = PutNew(undo[s], id, NoRow)
    BY <1>1, <1>2
  <2> QED BY <2>1 DEF PutNew, Put
<1>10. \A t \in Sessions \ {s} : undo'[t] = undo[t] /\ StaysFor(t)
  BY <1>1, <1>2 DEF StaysFor
<1>11. /\ \A i : i \in Inserted' <=> i \in Inserted
       /\ \A i : i \in Unanswered' <=> i \in Unanswered
  BY InsertedStays
<1>12. Columns(pl) /\ Writes(pl, s) /\ (s \in {"B", "C"} => EndsEach(s))
  BY DEF StoreNow, Stored
<1>13. Columns(pl)'
  BY <1>4, <1>6, <1>8, <1>12 DEF Columns
<1>14. Writes(pl, s)'
  <2>1. DOMAIN undo'[s] \subseteq pl.own[s]
    BY <1>4, <1>9, <1>12 DEF Writes
  <2>2. ASSUME NEW i \in DOMAIN undo'[s]
        PROVE  /\ i \in Ids'
               /\ i \in DOMAIN prog.data => undo'[s][i] # NoRow /\ undo'[s][i].c = pl.col[i] /\ Tidy(undo'[s][i])
               /\ i \notin DOMAIN prog.data => undo'[s][i] = NoRow /\ i \notin Inserted'
    <3>1. CASE i \in DOMAIN undo[s]
      BY <1>8, <1>9, <1>11, <1>12, <3>1 DEF Writes
    <3>2. CASE i \notin DOMAIN undo[s]
      BY <1>4, <1>8, <1>9, <1>11, <3>2
    <3> QED BY <3>1, <3>2
  <2> QED BY <2>1, <2>2 DEF Writes
<1>15. Stands(pl, s)'
  BY <1>5 DEF Stands
<1>16. ASSUME s \in {"B", "C"}
       PROVE  EndsEach(s)'
  <2>1. EndsEach(s)
    BY <1>12, <1>16
  <2>2. inTx'[s] = FALSE
    BY <2>1 DEF EndsEach
  <2>3. ASSUME NEW i \in DOMAIN undo'[s], i \in DOMAIN prog.data
        PROVE  Tidy(rows'[i])
    <3>1. i # id /\ i \in DOMAIN undo[s]
      BY <1>4, <1>9, <2>3
    <3> QED BY <1>8, <1>12, <2>1, <2>3, <3>1 DEF EndsEach, Writes
  <2>4. ASSUME NEW i \in DOMAIN undo'[s], i \notin DOMAIN prog.data
        PROVE  i = id
    BY <1>1, <1>9, <2>1, <2>4 DEF EndsEach
  <2>5. err'[s] \notin {"deadlock", "timeout"}
    BY <1>1, <2>1 DEF EndsEach
  <2> QED BY <1>3, <1>5, <1>6, <1>7, <1>8, <1>9, <2>2, <2>3, <2>4, <2>5 DEF EndsEach
<1>17. s = "A" => KeepsTx(pl)'
  BY <1>1 DEF StoreNow, Stored, KeepsTx
<1>18. ASSUME NEW i \in pl.own[s], i \in DOMAIN pl.col
       PROVE  Settled(i)'
  <2>1. CASE i = id
    BY <1>9, <2>1 DEF Settled
  <2>2. CASE i # id
    <3>1. Settled(i) /\ \A t \in Sessions : i \in DOMAIN undo'[t] <=> i \in DOMAIN undo[t]
      BY <1>9, <1>10, <1>18, <2>2 DEF StoreNow, Stored
    <3> QED BY <1>8, <1>11, <2>2, <3>1 DEF Settled
  <2> QED BY <2>1, <2>2
<1>19. \A i : i \notin pl.own[s] => RowStays(i)
  BY <1>4, <1>8 DEF RowStays
<1>20. \A i : i \notin pl.own[s] => (i \in Inserted' <=> i \in Inserted)
  BY <1>11
<1> QED BY <1>10, <1>11, <1>13, <1>14, <1>15, <1>16, <1>17, <1>18, <1>19, <1>20, StoreMoves

\* And in the secondary index.
LEMMA StoreIndexes ==
  ASSUME NEW pl, StoreNow(pl), NEW s \in Sessions, InSql(s), NEW req,
         InsertSecondary(s, Op(s).st, req), UNCHANGED <<prog, pc, err, inTx>>,
         \A t \in Sessions : t # s => at'[t] = at[t]
  PROVE  Stored(pl)'
<1> DEFINE st == Op(s).st
           id == st.id
<1>1. /\ rows' = [rows EXCEPT ![id].sec = TRUE] /\ undo' = undo
      /\ at' = [at EXCEPT ![s].stage = "end"] /\ at[s].stage = "insC"
  BY DEF InsertSecondary
<1>2. /\ IsInsert(st) /\ at = [t \in Sessions |-> at[t]] /\ rows \in [Ids -> Row]
  BY <1>1 DEF StoreNow, TypeInv, StageOK, DataOK, Table, Ids
<1>3. \A i : InsertOf(s, i) <=> i = id
  <2>1. st.do = "insert" /\ Op(s).op = "sql"
    BY <1>2, ZenonT(60) DEF IsInsert, InSql
  <2> QED BY <2>1, ZenonT(60) DEF InsertOf
<1>4. id \in pl.own[s] /\ id \notin DOMAIN prog.data
  BY <1>2, <1>3, InsertKeeps DEF StoreNow
<1>5. at'[s].stage = "end"
  <2>1. at' = [at EXCEPT ![s] = [stage |-> "end", rec |-> at[s].rec, hits |-> at[s].hits]]
    BY <1>1, StageEnds DEF StoreNow
  <2> QED BY <1>2, <2>1
<1>6. \A i : InsertOf(s, i)' <=> InsertOf(s, i)
  BY DEF InsertOf, Op, Script
<1> HIDE DEF id, st
<1>7. /\ Ids' = Ids /\ \A i \in Ids : i # id => rows'[i] = rows[i]
      /\ id \in Ids => rows'[id].sec = TRUE /\ rows'[id].c = rows[id].c /\ rows'[id].del = rows[id].del
  <2>1. Ids' = Ids /\ \A i \in Ids : i # id => rows'[i] = rows[i]
    BY <1>1, <1>2 DEF Ids
  <2>2. ASSUME id \in Ids
        PROVE  rows'[id] = [c |-> rows[id].c, d |-> rows[id].d, del |-> rows[id].del, sec |-> TRUE]
    <3>1. rows'[id] = [rows[id] EXCEPT !.sec = TRUE] /\ rows[id] \in Row
      BY <1>1, <1>2, <2>2
    <3> QED BY <3>1, RowChanges
  <2>3. \A x, y, z : LET r == [c |-> x, d |-> y, del |-> z, sec |-> TRUE]
                     IN  r.c = x /\ r.del = z /\ r.sec = TRUE
    OBVIOUS
  <2> QED BY <2>1, <2>2, <2>3
<1>8. \A t \in Sessions \ {s} : StaysFor(t)
  BY <1>1 DEF StaysFor
<1>9. /\ \A i : i \in Inserted' <=> i \in Inserted
      /\ \A i : i \in Unanswered' <=> i \in Unanswered
  BY InsertedStays
<1>10. Columns(pl) /\ Writes(pl, s) /\ (s \in {"B", "C"} => EndsEach(s))
  BY DEF StoreNow, Stored
<1>11. Columns(pl)'
  BY <1>7, <1>10 DEF Columns
<1>12. Writes(pl, s)'
  BY <1>1, <1>7, <1>9, <1>10 DEF Writes
<1>13. Stands(pl, s)'
  BY <1>5 DEF Stands
<1>14. ASSUME s \in {"B", "C"}
       PROVE  EndsEach(s)'
  <2>1. EndsEach(s)
    BY <1>10, <1>14
  <2>2. inTx'[s] = FALSE
    BY <2>1 DEF EndsEach
  <2>3. ASSUME NEW i \in DOMAIN undo[s], i \in DOMAIN prog.data
        PROVE  Tidy(rows'[i])
    BY <1>4, <1>7, <1>10, <2>1, <2>3 DEF EndsEach, Writes
  <2>4. ASSUME NEW i \in DOMAIN undo[s], i \notin DOMAIN prog.data
        PROVE  InsertOf(s, i) /\ ~rows'[i].del /\ rows'[i].sec
    <3>1. i = id /\ i \in Ids /\ ~rows[i].del
      BY <1>3, <1>10, <2>1, <2>4 DEF EndsEach, Writes
    <3> QED BY <1>3, <1>7, <3>1
  <2>5. \A i \in 0 .. 30 : InsertOf(s, i) => i \in DOMAIN undo[s]
    BY <1>1, <2>1 DEF EndsEach
  <2>6. err'[s] \notin {"deadlock", "timeout"}
    BY <1>1, <2>1 DEF EndsEach
  <2> QED BY <1>1, <1>5, <1>6, <2>2, <2>3, <2>4, <2>5, <2>6 DEF EndsEach
<1>15. s = "A" => KeepsTx(pl)'
  BY <1>1 DEF StoreNow, Stored, KeepsTx
<1>16. ASSUME NEW i \in DOMAIN pl.col
       PROVE  Settled(i)'
  <2>1. i \in Ids /\ Tidy(rows[i]) => Tidy(rows'[i])
    BY <1>7 DEF Tidy
  <2> QED BY <1>1, <1>7, <1>9, <2>1 DEF StoreNow, Stored, Settled
<1>17. \A i : i \notin pl.own[s] => RowStays(i)
  BY <1>4, <1>7 DEF RowStays
<1>18. \A i : i \notin pl.own[s] => (i \in Inserted' <=> i \in Inserted)
  BY <1>9
<1>19. \A i \in pl.own[s] \cap DOMAIN pl.col : Settled(i)'
  BY <1>16
<1> QED BY <1>8, <1>9, <1>11, <1>12, <1>13, <1>14, <1>15, <1>17, <1>18, <1>19, StoreMoves

\* A step of a statement.
LEMMA StoreStatement ==
  ASSUME NEW pl, StoreNow(pl), NEW s \in Sessions, Statement(s)
  PROVE  Stored(pl)' /\ inTx' = inTx
<1> DEFINE st  == Op(s).st
           req == Request(s, st)
<1>1. /\ InSql(s) /\ UNCHANGED <<prog, pc, err>>
      /\ (Start(s, st) /\ Running(s)) \/ Wait(s, st) \/ Proceed(s, st)
  BY StatementStands DEF StoreNow
<1>2. inTx' = inTx /\ \A t \in Sessions : t # s => at'[t] = at[t]
  BY <1>1, OthersStay DEF StoreNow
<1>3. CASE Start(s, st) /\ Running(s)
  BY <1>1, <1>2, <1>3, StoreStarts
<1>4. CASE Wait(s, st)
  BY <1>1, <1>2, <1>4, StoreWaits
<1>5. CASE Proceed(s, st)
  <2>1. ScanIndex(s, st, req) \/ ScanRow(s, st, req) \/ InsertPrimary(s, st, req) \/ InsertSecondary(s, st, req)
    BY <1>5 DEF Proceed
  <2>2. CASE InsertPrimary(s, st, req)
    BY <1>1, <1>2, <2>2, StoreInserts
  <2>3. CASE InsertSecondary(s, st, req)
    BY <1>1, <1>2, <2>3, StoreIndexes
  <2>4. CASE ScanRow(s, st, req)
    <3>1. at[s].stage = "row" /\ Reach(s, st, req)
      BY <2>4 DEF ScanRow
    <3>2. InRange(st.w, at[s].rec)
      BY <3>1 DEF StoreNow, Stored, Stands
    <3> QED BY <1>1, <1>2, <3>1, <3>2, StoreReaches
  <2>5. CASE ScanIndex(s, st, req) /\ InRange(st.w, at[s].rec) /\ Reach(s, st, req)
    <3>1. at[s].stage = "index"
      BY <2>5 DEF ScanIndex
    <3> QED BY <1>1, <1>2, <2>5, <3>1, StoreReaches
  <2>6. CASE ScanIndex(s, st, req) /\ ~(InRange(st.w, at[s].rec) /\ Reach(s, st, req))
    <3>1. PICK h \in {"end", "row"} : /\ at' = [at EXCEPT ![s].stage = h] /\ rows' = rows /\ undo' = undo
                                      /\ h = "row" => InRange(st.w, at[s].rec)
      BY <2>6 DEF ScanIndex
    <3>2. at' = [at EXCEPT ![s] = [stage |-> h, rec |-> at[s].rec, hits |-> at[s].hits]]
      BY <3>1, StageEnds DEF StoreNow
    <3>3. at'[s].stage = h /\ at'[s].rec = at[s].rec
      <4>1. at = [t \in Sessions |-> at[t]]
        BY DEF StoreNow, TypeInv
      <4> QED BY <3>2, <4>1
    <3>4. at[s].stage = "index" /\ Op(s)' = Op(s)
      BY <1>1, <2>6 DEF ScanIndex, Op, Script
    <3>5. Stands(pl, s)'
      BY <3>1, <3>3, <3>4 DEF StoreNow, Stored, Stands
    <3> QED BY <1>1, <1>2, <3>1, <3>3, <3>4, <3>5, StoreScans
  <2> QED BY <2>1, <2>2, <2>3, <2>4, <2>5, <2>6
<1> QED BY <1>1, <1>2, <1>3, <1>4, <1>5

\* A deadlock, a timeout, a lost connection of B or C or a closed one.
LEMMA StoreFails ==
  ASSUME NEW pl, StoreNow(pl), NEW s \in Sessions, Undoes(s), "A" \notin dropped'
  PROVE  Stored(pl)' /\ inTx' = [t \in Sessions |-> inTx'[t]]
<1>1. RollBack(s) /\ UNCHANGED <<prog, pc>> /\ err = [t \in Sessions |-> err[t]]
  BY UndoesMoves DEF StoreNow, TypeInv, ControlOK
<1>2. err' = err \/ (err[s] = "" /\ \E e \in {"deadlock", "timeout"} : err' = [err EXCEPT ![s] = e])
  BY UndoesMoves DEF Running
<1>3. (\A t \in Sessions \ {s} : err'[t] = err[t]) /\ (err[s] # "" => err'[s] = err[s])
  BY <1>1, <1>2
<1>4. ASSUME s = "A"
      PROVE  err'["A"] # ""
  <2>1. CASE \E e \in {"deadlock", "timeout"} : err' = [err EXCEPT ![s] = e]
    BY <1>1, <1>4, <2>1
  <2>2. CASE err["A"] # ""
    BY <1>3, <1>4, <2>2
  <2>3. CASE err["A"] = "" /\ err' = err
    <3>1. dropped' = dropped \cup {"A"} \/ dropped' = dropped
      BY <1>4, UndoesMoves
    <3>2. LostBetween(s)
      BY <1>1, <1>4, <2>3 DEF Undoes, DeadlockFound, LockWaitTimeout, Fails, HangUp
    <3> QED BY <1>4, <3>2 DEF LostBetween
  <2> QED BY <1>2, <1>4, <2>1, <2>2, <2>3
<1>5. err[s] \in {"network", "killed"} => err'[s] = err[s]
  BY <1>3
<1> QED BY <1>1, <1>3, <1>4, <1>5, StoreRollBack

\* Nobody forgets whose connection was replaced, and nobody starts again.
LEMMA StoreOnward ==
  ASSUME TypeInv, [Next]_vars, "A" \notin dropped', ended' = "no"
  PROVE  "A" \notin dropped /\ ended = "no"
<1>1. ASSUME NEW s \in Sessions, Quiet(s) \/ Statement(s) \/ Return(s) \/ NobodyToAnswer(s)
      PROVE  dropped' = dropped /\ ended' = ended
  BY <1>1 DEF Quiet, Rendezvous, BeginTx, SetIsolation, CommitTx, LockTables, UnlockTables, CondWait, Broadcast,
         Woken, Select, Statement, Return, NobodyToAnswer
<1>2. ASSUME NEW s \in Sessions, Undoes(s) \/ Dies(s)
      PROVE  dropped \subseteq dropped' /\ (ended' = ended \/ ended' \in Errors)
  BY <1>2, UndoesMoves, DiesMoves
<1>3. CASE \E s \in Sessions : SessionStep(s) \/ ConnectionLost(s)
  BY <1>1, <1>2, <1>3, StepKinds DEF Errors
<1>4. CASE MainReturns \/ UNCHANGED vars
  BY <1>4 DEF MainReturns, vars
<1> QED BY <1>3, <1>4 DEF Next

\* Once the connections are closed nothing happens any more.
LEMMA ClosedStays ==
  ASSUME TypeInv, ended # "no", \A s \in Sessions : ~Open(s), [Next]_vars
  PROVE  UNCHANGED vars
<1>1. \A s \in Sessions : ~Running(s) /\ at[s] = Idle /\ at[s].stage = "idle"
  <2>1. Idle.stage = "idle"
    BY DEF Idle
  <2> QED BY <2>1, Zenon DEF Running, Open
<1>2. ~MainReturns
  BY DEF MainReturns
<1>3. ASSUME NEW s \in Sessions
      PROVE  ~(Quiet(s) \/ Statement(s) \/ Return(s) \/ NobodyToAnswer(s))
  <2>1. ~Quiet(s)
    BY <1>1 DEF Quiet, Rendezvous, BeginTx, SetIsolation, CommitTx, LockTables, UnlockTables, CondWait, Broadcast,
           Woken, Select, At
  <2>2. ~Statement(s)
    BY <1>1 DEF Statement, At
  <2>3. ~Return(s) /\ ~NobodyToAnswer(s)
    BY <1>1 DEF Return, NobodyToAnswer, Finish
  <2> QED BY <2>1, <2>2, <2>3
<1>4. ASSUME NEW s \in Sessions
      PROVE  ~Undoes(s) /\ ~Dies(s)
  BY <1>1 DEF Undoes, DeadlockFound, LockWaitTimeout, HangUp, Dies, ProcessDies, AllClosed
<1> QED BY <1>2, <1>3, <1>4, StepKinds DEF Next

\* The program ends when no connection holds anything any more.
LEMMA EndCloses ==
  ASSUME TypeInv, ended = "no", [Next]_vars, ended' # "no"
  PROVE  /\ \A s \in Sessions : ~Open(s)'
         /\ \/ MainReturns
            \/ (\A s \in Sessions : ~Open(s)) /\ UNCHANGED <<dbVars, prog, pc, tableLock, err, dropped>>
<1>1. CASE MainReturns
  <2>1. ASSUME NEW s \in Sessions
        PROVE  at'[s] = Idle /\ ~inTx'[s] /\ iso'[s] = "RR" /\ tableLock' # s
    BY <1>1, SessionNames DEF MainReturns, RollBackAll, NoSession
  <2>2. "RR" # "RC"
    OBVIOUS
  <2> QED BY <1>1, <2>1, <2>2, Zenon DEF Open
<1>2. CASE ~MainReturns
  <2>1. PICK s \in Sessions : SessionStep(s) \/ ConnectionLost(s)
    BY <1>2 DEF Next, vars
  <2>2. ~(Quiet(s) \/ Statement(s) \/ Return(s) \/ NobodyToAnswer(s))
    BY DEF Quiet, Rendezvous, BeginTx, SetIsolation, CommitTx, LockTables, UnlockTables, CondWait, Broadcast,
           Woken, Select, Statement, Return, NobodyToAnswer
  <2>3. ~Undoes(s)
    BY UndoesMoves
  <2>4. AllClosed(s)
    BY <2>1, <2>2, <2>3, StepKinds DEF Dies, ProcessDies, LostInCall, Fails
  <2>5. (\A t \in Sessions : ~Open(t)) /\ UNCHANGED <<dbVars, prog, pc, tableLock, err, dropped>>
    BY <2>4 DEF AllClosed
  <2> QED BY <2>5 DEF Open, dbVars
<1> QED BY <1>1, <1>2

\* No step breaks the invariant.
LEMMA StoreStep == TypeInv /\ StoreInv /\ [Next]_vars => StoreInv'
<1> SUFFICES ASSUME TypeInv, StoreInv, [Next]_vars
             PROVE  StoreInv'
  OBVIOUS
<1>1. inTx' = [t \in Sessions |-> inTx'[t]]
  <2>1. CASE UNCHANGED vars
    BY <2>1 DEF vars, dbVars, StoreInv
  <2>2. CASE MainReturns
    BY <2>2 DEF MainReturns, RollBackAll
  <2>3. ASSUME NEW s \in Sessions, Quiet(s) \/ Return(s) \/ NobodyToAnswer(s)
        PROVE  inTx' = inTx \/ \E b : inTx' = [inTx EXCEPT ![s] = b]
    BY <2>3 DEF Quiet, Rendezvous, BeginTx, SetIsolation, CommitTx, LockTables, UnlockTables, CondWait, Broadcast,
                Woken, Select, Begin, SetReadCommitted, Commit, dbVars, Return, NobodyToAnswer, Finish
  <2>4. ASSUME NEW s \in Sessions, Statement(s)
        PROVE  inTx' = inTx
    BY <2>4, StatementStands, OthersStay
  <2>5. ASSUME NEW s \in Sessions, Undoes(s)
        PROVE  inTx' = [inTx EXCEPT ![s] = FALSE]
    BY <2>5, UndoesMoves DEF RollBack
  <2>6. ASSUME NEW s \in Sessions, Dies(s)
        PROVE  inTx' = inTx
    BY <2>6, DiesMoves DEF dbVars
  <2>7. ASSUME NEW s \in Sessions, inTx' = inTx \/ \E b : inTx' = [inTx EXCEPT ![s] = b]
        PROVE  inTx' = [t \in Sessions |-> inTx'[t]]
    BY <2>7 DEF StoreInv
  <2> QED BY <2>1, <2>2, <2>3, <2>4, <2>5, <2>6, <2>7, StepKinds DEF Next
<1>2. ended' # "no" => \A s \in Sessions : ~Open(s)'
  <2>1. CASE ended # "no" /\ ended' # "no"
    <3>1. UNCHANGED vars /\ \A s \in Sessions : ~Open(s)
      BY <2>1, ClosedStays DEF StoreInv
    <3> QED BY <3>1 DEF vars, dbVars, Open
  <2>2. CASE ended = "no" /\ ended' # "no"
    BY <2>2, EndCloses
  <2> QED BY <2>1, <2>2
<1> SUFFICES ASSUME "A" \notin dropped', ended' = "no"
             PROVE  \E pl : Planned(pl, prog') /\ Stored(pl)'
  BY <1>1, <1>2 DEF StoreInv
<1>3. prog' = prog
  BY ProgramStays
<1>4. PICK pl : Planned(pl, prog) /\ Stored(pl)
  BY StoreOnward DEF StoreInv
<1>5. StoreNow(pl)
  BY <1>4 DEF StoreNow, StoreInv
<1>6. Stored(pl)'
  <2>1. CASE UNCHANGED vars
    <3> USE <2>1 DEF vars, dbVars
    <3>1. /\ Inserted' = Inserted /\ Unanswered' = Unanswered /\ Ids' = Ids
          /\ \A t : Op(t)' = Op(t) /\ \A i : InsertOf(t, i)' <=> InsertOf(t, i)
      BY InsertedStays DEF Ids, Op, Script, InsertOf
    <3>2. Columns(pl)' /\ KeepsTx(pl)' /\ \A i \in DOMAIN pl.col : Settled(i)'
      BY <1>4, <3>1 DEF Stored, Columns, KeepsTx, Settled
    <3>3. \A t \in Sessions : Writes(pl, t)' /\ Stands(pl, t)'
      BY <1>4, <3>1 DEF Stored, Writes, Stands
    <3>4. EndsEach("B")' /\ EndsEach("C")'
      BY <1>4, <3>1 DEF Stored, EndsEach
    <3> QED BY <3>2, <3>3, <3>4 DEF Stored
  <2>2. CASE \E s \in Sessions : SessionStep(s) \/ ConnectionLost(s)
    BY <1>5, <2>2, StepKinds, StoreQuiet, StoreStatement, StoreReturn, StoreAnswers, StoreFails, StoreDies
  <2>3. ~MainReturns
    BY DEF MainReturns
  <2> QED BY <2>1, <2>2, <2>3 DEF Next
<1> QED BY <1>3, <1>4, <1>6

\* Only the step that ends the program could break NothingOfA: main rolls everything
\* back, and a process whose connections are all closed has nothing left to take back.
LEMMA EndIsEnd ==
  ASSUME TypeInv, StoreInv, NothingOfA, [Next]_vars
  PROVE  NothingOfA'
<1> SUFFICES ASSUME "A" \notin dropped', ended' # "no"
             PROVE  LeftInOrder'
  BY DEF NothingOfA, LeftInOrder
<1>1. CASE ended # "no"
  <2>1. UNCHANGED vars
    BY <1>1, ClosedStays DEF StoreInv
  <2>2. Inserted' = Inserted /\ Unanswered' = Unanswered
    BY <2>1, InsertedStays DEF vars
  <2> QED BY <1>1, <2>1, <2>2 DEF vars, dbVars, NothingOfA, LeftInOrder
<1>2. CASE ended = "no"
  <2>1. dropped' = dropped
    BY <1>2, EndCloses DEF MainReturns
  <2>2. PICK pl : Planned(pl, prog) /\ Stored(pl)
    BY <1>2, <2>1 DEF StoreInv
  <2>3. StoreNow(pl)
    BY <2>2 DEF StoreNow, StoreInv
  <2>4. CASE MainReturns
    BY <2>3, <2>4, StoreEnds DEF MainReturns
  <2>5. CASE (\A s \in Sessions : ~Open(s)) /\ UNCHANGED <<dbVars, prog, pc, tableLock, err, dropped>>
    <3>1. LeftInOrder
      BY <2>3, <2>5, StoreCloses
    <3>2. Inserted' = Inserted /\ Unanswered' = Unanswered
      BY <2>5, InsertedStays
    <3> QED BY <2>5, <3>1, <3>2 DEF LeftInOrder, dbVars
  <2> QED BY <1>2, <2>4, <2>5, EndCloses
<1> QED BY <1>1, <1>2

(* When the connections of a program are closed (main returns, or a goroutine *)
(* panics and the server notices one connection after the other), and A's     *)
(* connection was not replaced on the way, the table holds the prepared rows, *)
(* the rows whose INSERT in B or C returned and at most those whose INSERT    *)
(* lost its connection or was under way when the process died: nothing of A's *)
(* open transaction survives, and nothing half-done of the others (cases 01   *)
(* to 08, the phantom read and the table lock demo).                          *)
THEOREM NothingOfASurvives == Spec => []NothingOfA
<1>1. Init => StoreInv /\ NothingOfA
  <2>1. Init => NothingOfA
    BY DEF Init, NothingOfA
  <2> QED BY <2>1, StoreInit
<1>2. TypeInv /\ (StoreInv /\ NothingOfA) /\ [Next]_vars => (StoreInv /\ NothingOfA)'
  BY StoreStep, EndIsEnd
<1>3. StoreInv /\ NothingOfA => NothingOfA
  OBVIOUS
<1> QED BY <1>1, <1>2, <1>3, TypesHold, PTL DEF Spec
=============================================================================
