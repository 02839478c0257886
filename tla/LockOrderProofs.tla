--------------------------- MODULE LockOrderProofs ---------------------------
(***************************************************************************)
(* Who waits for whom in the MySQL programs.  For each program it is first *)
(* shown, of its tables and statements, where A's scan stops, what it locks *)
(* there, and which statements of B and C those locks bar; every step of    *)
(* the rest holds for any program of which that is known.                   *)
(***************************************************************************)
EXTENDS LockCasesProofs

-----------------------------------------------------------------------------
(* What a statement can ask for.  The rows in the table are at least those in *)
(* D, and at most those that the plan pl knows.                               *)

AllPlaces(pl, idx, J) == {Supremum} \cup {Place(pl, idx, j) : j \in J}

\* In any such table, the next record after key k, or the first of a range, is one of these.
Nexts(pl, D, idx, k) ==
  {r \in AllPlaces(pl, idx, DOMAIN pl.col) :
      Before(k, r) /\ \A i \in D : ~(Before(k, Place(pl, idx, i)) /\ Before(Place(pl, idx, i), r))}
Begins(pl, D, w) ==
  {r \in AllPlaces(pl, w.idx, DOMAIN pl.col) :
      From(w, r) /\ \A i \in D : ~(From(w, Place(pl, w.idx, i)) /\ Before(Place(pl, w.idx, i), r))}

InsertKey(st, idx) == IF idx = "p" THEN <<st.id, st.id>> ELSE <<st.c, st.id>>

IndexLock(s, st, r) == Lock(s, st.w.idx, r, st.mode, ScanKind(st.w, r))
RowLock(s, st, i)   == Lock(s, "p", <<i, i>>, st.mode, "rec")

\* The rows in the range of the scan.
Scanned(pl, w) == {i \in DOMAIN pl.col : From(w, Place(pl, w.idx, i)) /\ InRange(w, Place(pl, w.idx, i))}

ScanAsks(pl, s, st) ==
  {IndexLock(s, st, r) : r \in {x \in AllPlaces(pl, st.w.idx, DOMAIN pl.col) : From(st.w, x)}} \cup
  {RowLock(s, st, i) : i \in Scanned(pl, st.w)}
InsertAsks(pl, D, s, st) ==
  UNION {{Lock(s, idx, r, "X", "insert") : r \in Nexts(pl, D, idx, InsertKey(st, idx))} : idx \in {"p", "c"}}
Asks(pl, D, s, st) == IF st.do = "insert" THEN InsertAsks(pl, D, s, st) ELSE ScanAsks(pl, s, st)

\* What it has been granted outside a transaction.
Takes(pl, s, st) ==
  IF st.do = "insert" THEN {Lock(s, idx, InsertKey(st, idx), "X", "rec") : idx \in {"p", "c"}}
  ELSE ScanAsks(pl, s, st)

-----------------------------------------------------------------------------
(* A's scan: the ids at which it stops, one after the other, and its locks.    *)

StopPlace(pl, st, i) == Place(pl, st.w.idx, i)
StopLocks(pl, st, i) ==
  {IndexLock("A", st, StopPlace(pl, st, i))} \cup
  (IF InRange(st.w, StopPlace(pl, st, i)) /\ NeedsRow(st) THEN {RowLock("A", st, i)} ELSE {})
WalkLocks(pl, st, stops) == UNION {StopLocks(pl, st, stops[k]) : k \in 1 .. Len(stops)}
StopsTo(stops, k) == {stops[j] : j \in 1 .. k}

\* The scan is over with the k-th row.
Over(pl, st, stops, k) ==
  k = st.limit \/ (st.w.idx = "p" /\ st.w.hiIn /\ StopPlace(pl, st, stops[k])[1] = st.w.hi)

Walks(pl, D, st, stops) ==
  /\ Len(stops) \in 1 .. 3 /\ \A k \in 1 .. Len(stops) : stops[k] \in D
  /\ \A k \in 1 .. Len(stops) : Cardinality(StopsTo(stops, k)) = k /\ stops[k] \notin StopsTo(stops, k - 1)
  /\ Begins(pl, D, st.w) \cap AllPlaces(pl, st.w.idx, D) \subseteq {StopPlace(pl, st, stops[1])}
  /\ \A k \in 1 .. Len(stops) - 1 :
        /\ InRange(st.w, StopPlace(pl, st, stops[k])) /\ ~Over(pl, st, stops, k)
        /\ Nexts(pl, D, st.w.idx, StopPlace(pl, st, stops[k])) \cap AllPlaces(pl, st.w.idx, D)
              \subseteq {StopPlace(pl, st, stops[k + 1])}
  /\ InRange(st.w, StopPlace(pl, st, stops[Len(stops)])) => Over(pl, st, stops, Len(stops))

-----------------------------------------------------------------------------
(* What the locks in L mean for a statement.                                   *)

\* An insert can find no gap in index idx that is not locked.
Bars(pl, D, L, st, idx) ==
  \A r \in Nexts(pl, D, idx, InsertKey(st, idx)) : \E l \in L : l.idx = idx /\ l.rec = r /\ CoversGap(l)

\* The statement cannot get past the locks.
Barred(pl, D, L, st) ==
  IF st.do = "insert" THEN Bars(pl, D, L, st, "p") \/ Bars(pl, D, L, st, "c")
  ELSE /\ st.mode = "X"
       /\ \A r \in Begins(pl, D, st.w) :
             /\ r # Supremum /\ InRange(st.w, r)
             /\ \E l \in L : l.idx = st.w.idx /\ l.rec = r /\ CoversRec(l)

\* None of them concerns it.
Unhindered(pl, D, L, s, st) == \A a \in Asks(pl, D, s, st) : \A l \in L : ~Conflicts(a, l)

-----------------------------------------------------------------------------
(* A case: A begins, scans, and lets B go on, which lets C go on; in case 08   *)
(* there is no C, and A inserts.                                               *)

\* An operation of B or C.
Works(pl, D, L, s, q, k) ==
  /\ q[k].op = "sql"
  /\ q[k].st.do = "insert" \/ (q[k].st.do = "add1" /\ OneValue(q[k].st.w))
  /\ IF q[k].blocked THEN k = Len(q) /\ Barred(pl, D, L, q[k].st) ELSE Unhindered(pl, D, L, s, q[k].st)

ScriptA(p) ==
  /\ Len(p.script["A"]) \in 3 .. 4
  /\ p.script["A"][1].op = "begin" /\ p.script["A"][3] = Send("t2")
  /\ p.script["A"][2].op = "sql" /\ ~p.script["A"][2].blocked
  /\ p.script["A"][2].st.do \notin {"insert", "select5"}
  /\ Len(p.script["A"]) = 4 => /\ p.name = "case08" /\ p.script["C"] = << >>
                               /\ p.script["A"][4].op = "sql" /\ p.script["A"][4].st.do = "insert"
                               /\ ~p.script["A"][4].blocked
                               /\ Len(p.script["B"]) = 2 /\ p.script["B"][2].blocked
                               /\ p.script["B"][2].st.do # "insert"

ScriptB(pl, L, p) ==
  /\ Len(p.script["B"]) \in 2 .. 5 /\ p.script["B"][1] = Recv("t2")
  /\ p.script["C"] # << >> => p.script["B"][2] = Send("t3")
  /\ \A k \in 2 .. Len(p.script["B"]) :
        k > 2 \/ p.script["C"] = << >> => Works(pl, DOMAIN p.data, L, "B", p.script["B"], k)

ScriptC(pl, L, p) ==
  /\ Len(p.script["C"]) \in 0 .. 3
  /\ p.script["C"] # << >> => Len(p.script["C"]) \in 2 .. 3 /\ p.script["C"][1] = Recv("t3")
  /\ \A k \in 2 .. Len(p.script["C"]) : Works(pl, DOMAIN p.data, L, "C", p.script["C"], k)

\* A statement that gets past A's locks does not meet one that does not.
Apart(pl, D, s, st, t, ut) ==
  st.do = "insert" /\ ut.do # "insert" =>
     \A a \in InsertAsks(pl, D, s, st) : \A r \in Begins(pl, D, ut.w) : ~Conflicts(a, IndexLock(t, ut, r))
AllApart(pl, p) ==
  \A s, t \in {"B", "C"} : s # t =>
     \A k \in 1 .. Len(p.script[s]) : \A j \in 1 .. Len(p.script[t]) :
        /\ p.script[s][k].op = "sql" /\ ~p.script[s][k].blocked
        /\ p.script[t][j].op = "sql" /\ p.script[t][j].blocked
        => Apart(pl, DOMAIN p.data, s, p.script[s][k].st, t, p.script[t][j].st)

AScan(p) == p.script["A"][2].st
Held(pl, stops, p) == WalkLocks(pl, AScan(p), stops)

CasePlan(pl, stops, p) ==
  /\ Planned(pl, p) /\ Walks(pl, DOMAIN p.data, AScan(p), stops)
  /\ ScriptA(p) /\ ScriptB(pl, Held(pl, stops, p), p) /\ ScriptC(pl, Held(pl, stops, p), p)
  /\ AllApart(pl, p)

-----------------------------------------------------------------------------
(* What holds while a case runs.                                               *)

MyLocks(s) == {l \in locks : l.s = s}

\* A row as the plan has it; the prepared ones are in both indexes.
GoodRow(pl, i, r) == i \in DOMAIN pl.col /\ r.c = pl.col[i] /\ (i \in DOMAIN prog.data => r.sec)
Keys(pl) ==
  /\ DOMAIN prog.data \subseteq Ids /\ \A i \in Ids : GoodRow(pl, i, rows[i])
  /\ \A s \in Sessions : \A i \in DOMAIN undo[s] :
        IF undo[s][i] = NoRow THEN i \notin DOMAIN prog.data ELSE GoodRow(pl, i, undo[s][i])

\* The channels.
Order ==
  /\ pc["A"] <= 3 <=> pc["B"] = 1
  /\ pc["B"] <= 2 \/ Script("C") = << >> <=> pc["C"] = 1

\* A request is one of the statement under way.
Queued(pl, s) ==
  waits[s] # NoRequest => /\ at[s].stage \in {"index", "row", "insP", "insC"}
                          /\ waits[s] \in Asks(pl, DOMAIN prog.data, s, Op(s).st)
                          /\ at[s].stage = "index" => waits[s] = IndexLock(s, Op(s).st, at[s].rec)

\* A session whose statement the server has rolled back has nothing more.
RolledBack == {"deadlock", "timeout"}
Failed(s) == err[s] \in RolledBack => at[s].stage = "idle" /\ MyLocks(s) = {} /\ InSql(s)

\* No call of s has returned an error.
Well(s) == err[s] = ""

\* All goroutines end together.
Together == \A s, t \in Sessions : err[s] = "killed" => err[t] # ""

Rests(s) == at[s].stage = "idle" => at[s] = Idle

\* B and C work outside a transaction.
Alone(pl, s) ==
  /\ inTx[s] = FALSE
  /\ at[s].stage = "idle" => MyLocks(s) = {} /\ undo[s] = << >>
  /\ \A l \in MyLocks(s) : l \in Takes(pl, s, Op(s).st)

\* And stay before what bars them, as long as A has its transaction.
AtGate(pl, s, L) ==
  inTx["A"] /\ at[s].stage # "idle" /\ Op(s).blocked =>
     IF Op(s).st.do = "insert"
     THEN at[s].stage = "insP" \/ (at[s].stage = "insC" /\ ~Bars(pl, DOMAIN prog.data, L, Op(s).st, "p"))
     ELSE /\ at[s].stage = "index" /\ at[s].rec \in Begins(pl, DOMAIN prog.data, Op(s).st.w)
          /\ MyLocks(s) = {} /\ undo[s] = << >>

\* Where A's scan stands.
AWalks(pl, stops) ==
  \/ at["A"].stage = "idle" /\ at["A"].hits = {} /\ MyLocks("A") = {} /\ undo["A"] = << >>
  \/ \E k \in 1 .. Len(stops) :
        /\ at["A"].rec = StopPlace(pl, AScan(prog), stops[k]) /\ at["A"].hits = StopsTo(stops, k - 1)
        /\ \A j \in 1 .. k - 1 : StopLocks(pl, AScan(prog), stops[j]) \subseteq MyLocks("A")
        /\ \/ at["A"].stage = "index"
           \/ /\ at["A"].stage = "row" /\ NeedsRow(AScan(prog)) /\ InRange(AScan(prog).w, at["A"].rec)
              /\ IndexLock("A", AScan(prog), at["A"].rec) \in MyLocks("A")
  \/ at["A"].stage = "end" /\ Held(pl, stops, prog) \subseteq MyLocks("A")

\* A scans, or is about to.
Scans == pc["A"] <= 2 /\ (Well("A") \/ at["A"].stage # "idle")

RunsA(pl, stops) ==
  /\ err["A"] \notin RolledBack
  /\ "A" \in dropped => inTx["A"] = FALSE
  /\ "A" \notin dropped /\ pc["A"] > 1 /\ Well("A") => inTx["A"] = TRUE
  /\ pc["A"] = 1 => /\ at["A"].stage = "idle" /\ MyLocks("A") = {} /\ undo["A"] = << >>
                    /\ inTx["A"] = FALSE /\ "A" \notin dropped
  /\ Scans =>
        /\ Ids = DOMAIN prog.data /\ \A i \in Ids \ at["A"].hits : ~rows[i].del
        /\ MyLocks("A") \subseteq Held(pl, stops, prog)
  /\ Scans /\ pc["A"] = 2 => AWalks(pl, stops)
  /\ pc["A"] >= 3 =>
        /\ inTx["A"] => Held(pl, stops, prog) \subseteq MyLocks("A")
        /\ \A l \in MyLocks("A") :
              \/ l \in Held(pl, stops, prog) /\ inTx["A"]
              \/ Len(Script("A")) = 4 /\ pc["A"] >= 4 /\ (CoversRec(l) => l.rec[2] \in pl.own["A"])

\* What holds of one session.
Local(pl, stops, s) ==
  /\ iso[s] = "RR" /\ Stands(pl, s) /\ Queued(pl, s) /\ Failed(s) /\ Rests(s)
  /\ s = "A" => RunsA(pl, stops)
  /\ s # "A" => Alone(pl, s) /\ AtGate(pl, s, Held(pl, stops, prog))

IsLock(l) == l = Lock(l.s, l.idx, l.rec, l.mode, l.kind)

CaseInv(pl, stops) ==
  /\ Keys(pl) /\ Order /\ Together /\ IsFiniteSet(locks) /\ tableLock = NoSession
  /\ \A l \in locks : IsLock(l)
  /\ \A s \in Sessions : Local(pl, stops, s)

Tables == /\ waits = [s \in Sessions |-> waits[s]] /\ iso = [s \in Sessions |-> iso[s]]
          /\ inTx = [s \in Sessions |-> inTx[s]] /\ before \in [Sessions -> SUBSET Sessions]

CaseNow(pl, stops) ==
  TypeInv /\ Tables /\ CasePlan(pl, stops, prog) /\ CaseInv(pl, stops) /\ ended = "no"
-----------------------------------------------------------------------------
(* Where the sessions of a case stand.                                         *)

\* The operations of a case, position by position.
LEMMA CaseOps ==
  ASSUME NEW pl, NEW stops, CaseNow(pl, stops), NEW s \in Sessions, Running(s) \/ InSql(s)
  PROVE  /\ s = "A" => \/ pc[s] = 1 /\ Op(s).op = "begin"
                       \/ pc[s] = 2 /\ Op(s) = prog.script["A"][2]
                       \/ pc[s] = 3 /\ Op(s) = Send("t2")
                       \/ pc[s] = 4 /\ Op(s) = prog.script["A"][4] /\ Len(Script("A")) = 4
         /\ s = "B" => \/ pc[s] = 1 /\ Op(s) = Recv("t2")
                       \/ pc[s] = 2 /\ Op(s) = Send("t3") /\ Script("C") # << >>
                       \/ pc[s] >= 2 /\ (pc[s] > 2 \/ Script("C") = << >>)
                          /\ Works(pl, DOMAIN prog.data, Held(pl, stops, prog), s, Script(s), pc[s])
         /\ s = "C" => \/ pc[s] = 1 /\ Op(s) = Recv("t3") /\ Script("C") # << >>
                       \/ pc[s] >= 2 /\ Works(pl, DOMAIN prog.data, Held(pl, stops, prog), s, Script(s), pc[s])
<1>1. pc[s] \in 1 .. Len(Script(s)) /\ pc[s] \in Nat /\ TypeInv
  BY Running1 DEF CaseNow
<1>2. /\ ScriptA(prog) /\ ScriptB(pl, Held(pl, stops, prog), prog) /\ ScriptC(pl, Held(pl, stops, prog), prog)
  BY DEF CaseNow, CasePlan
<1>3. CASE s = "A"
  <2> DEFINE n == Len(Script(s))
  <2>1. n \in 3 .. 4
    BY <1>2, <1>3 DEF ScriptA, Script
  <2>2. pc[s] \in 1 .. n
    BY <1>1
  <2> HIDE DEF n
  <2>3. pc[s] = 1 \/ pc[s] = 2 \/ pc[s] = 3 \/ (pc[s] = 4 /\ n = 4)
    BY <2>1, <2>2
  <2>4. (pc[s] = 1 => Op(s).op = "begin") /\ (pc[s] = 3 => Op(s) = Send("t2"))
    BY <1>2, <1>3 DEF ScriptA, Op, Script
  <2> QED BY <1>3, <2>3, <2>4 DEF n, Op, Script
<1>4. CASE s = "B"
  <2> DEFINE n == Len(Script(s))
  <2>1. n \in 2 .. 5
    BY <1>2, <1>4 DEF ScriptB, Script
  <2>2. pc[s] \in 1 .. n
    BY <1>1
  <2> HIDE DEF n
  <2>3. pc[s] = 1 \/ (pc[s] \in 2 .. n /\ pc[s] >= 2 /\ (pc[s] = 2 \/ pc[s] > 2))
    BY <2>1, <2>2
  <2>4. pc[s] = 1 => Op(s) = Recv("t2")
    BY <1>2, <1>4 DEF ScriptB, Op, Script
  <2>5. pc[s] = 2 /\ Script("C") # << >> => Op(s) = Send("t3")
    BY <1>2, <1>4 DEF ScriptB, Op, Script
  <2>6. pc[s] \in 2 .. n /\ (pc[s] > 2 \/ Script("C") = << >>) =>
           Works(pl, DOMAIN prog.data, Held(pl, stops, prog), s, Script(s), pc[s])
    BY <1>2, <1>4 DEF ScriptB, Script, n
  <2> QED BY <1>4, <2>3, <2>4, <2>5, <2>6
<1>5. CASE s = "C"
  <2> DEFINE n == Len(Script(s))
  <2>1. n \in 0 .. 3
    BY <1>2, <1>5 DEF ScriptC, Script
  <2>2. pc[s] \in 1 .. n
    BY <1>1
  <2>3. Script("C") # << >>
    BY <1>5, <2>2
  <2>4. pc[s] = 1 => Op(s) = Recv("t3")
    BY <1>2, <1>5, <2>3 DEF ScriptC, Op, Script
  <2>5. pc[s] \in 2 .. n => Works(pl, DOMAIN prog.data, Held(pl, stops, prog), s, Script(s), pc[s])
    BY <1>2, <1>5 DEF ScriptC, Script
  <2> HIDE DEF n
  <2>6. pc[s] = 1 \/ (pc[s] \in 2 .. n /\ pc[s] >= 2)
    BY <2>1, <2>2
  <2> QED BY <1>5, <2>3, <2>4, <2>5, <2>6
<1> QED BY <1>3, <1>4, <1>5

\* A goroutine in a statement.
LEMMA AtSql ==
  ASSUME NEW s \in Sessions, At(s, "sql")
  PROVE  InSql(s) /\ Well(s) /\ Running(s)
BY DEF At, Running, InSql, Well

\* One that runs has had no error.
LEMMA RunningWell ==
  ASSUME NEW s \in Sessions, Running(s)
  PROVE  Well(s) /\ err[s] \notin RolledBack
<1>1. err[s] = ""
  BY DEF Running
<1> QED BY <1>1, Zenon DEF Well, RolledBack

\* The operations that a case has.
LEMMA CaseKinds ==
  ASSUME NEW pl, NEW stops, CaseNow(pl, stops), NEW s \in Sessions, Running(s) \/ InSql(s)
  PROVE  /\ Op(s).op \in {"begin", "sql", "send", "recv"}
         /\ Op(s).op = "begin" => s = "A" /\ pc[s] = 1
         /\ Op(s).op = "send" => \/ s = "A" /\ pc[s] = 3 /\ Op(s).ch = "t2"
                                 \/ s = "B" /\ pc[s] = 2 /\ Op(s).ch = "t3" /\ Script("C") # << >>
         /\ Op(s).op = "recv" => \/ s = "B" /\ pc[s] = 1 /\ Op(s).ch = "t2"
                                 \/ s = "C" /\ pc[s] = 1 /\ Op(s).ch = "t3" /\ Script("C") # << >>
<1>1. s \in {"A", "B", "C"}
  BY SessionNames
<1>2. \A ch : Send(ch).op = "send" /\ Send(ch).ch = ch /\ Recv(ch).op = "recv" /\ Recv(ch).ch = ch
  BY DEF Send, Recv
<1>3. prog.script["A"][2].op = "sql" /\ (Len(Script("A")) = 4 => prog.script["A"][4].op = "sql")
  BY DEF CaseNow, CasePlan, ScriptA, Script
<1>4. \A q, k : Works(pl, DOMAIN prog.data, Held(pl, stops, prog), s, q, k) => q[k].op = "sql"
  BY DEF Works
<1>5. Op(s) = Script(s)[pc[s]]
  BY DEF Op
<1> QED BY <1>1, <1>2, <1>3, <1>4, <1>5, CaseOps

\* While a statement of B or C runs, A is past its channel.
LEMMA CaseWorks ==
  ASSUME NEW pl, NEW stops, CaseNow(pl, stops), NEW s \in Sessions, InSql(s)
  PROVE  /\ s = "A" => \/ pc[s] = 2 /\ Op(s) = prog.script["A"][2]
                       \/ pc[s] = 4 /\ Op(s) = prog.script["A"][4] /\ Len(Script("A")) = 4
         /\ s # "A" => /\ s \in {"B", "C"} /\ pc["A"] > 3
                       /\ Works(pl, DOMAIN prog.data, Held(pl, stops, prog), s, Script(s), pc[s])
<1>1. s \in {"A", "B", "C"} /\ Op(s).op = "sql" /\ InSql(s)
  BY SessionNames DEF InSql
<1>2. \A ch : Send(ch).op = "send" /\ Recv(ch).op = "recv"
  BY DEF Send, Recv
<1>3. "A" \in Sessions /\ "B" \in Sessions /\ "C" \in Sessions
  BY SessionNames
<1>4. pc["A"] \in Nat /\ pc["B"] \in Nat /\ pc["C"] \in Nat
  BY <1>3 DEF CaseNow, TypeInv, ControlOK
<1>5. Order
  BY DEF CaseNow, CaseInv
<1>6. CASE s = "A"
  BY <1>1, <1>2, <1>6, CaseOps
<1>7. CASE s = "B"
  <2>1. pc[s] >= 2 /\ Works(pl, DOMAIN prog.data, Held(pl, stops, prog), s, Script(s), pc[s])
    BY <1>1, <1>2, <1>7, CaseOps
  <2>2. pc["A"] > 3
    BY <1>4, <1>5, <1>7, <2>1 DEF Order
  <2> QED BY <1>7, <2>1, <2>2
<1>8. CASE s = "C"
  <2>1. pc[s] >= 2 /\ Works(pl, DOMAIN prog.data, Held(pl, stops, prog), s, Script(s), pc[s])
    BY <1>1, <1>2, <1>8, CaseOps
  <2>2. Script("C") # << >>
    <3> DEFINE n == Len(Script(s))
    <3>1. n \in 0 .. 10 /\ pc[s] <= n
      BY <1>1 DEF CaseNow, TypeInv, ControlOK, WellTyped, IsScript, Script, InSql
    <3>2. Script("C") = << >> => n = 0
      BY <1>8
    <3> HIDE DEF n
    <3> QED BY <1>4, <1>8, <2>1, <3>1, <3>2
  <2>3. pc["A"] > 3
    BY <1>4, <1>5, <1>8, <2>1, <2>2 DEF Order
  <2> QED BY <1>8, <2>1, <2>3
<1> QED BY <1>1, <1>6, <1>7, <1>8

-----------------------------------------------------------------------------
(* A step of one session leaves the others as they are.                        *)

Untouched(t) ==
  /\ at'[t] = at[t] /\ undo'[t] = undo[t] /\ inTx'[t] = inTx[t] /\ iso'[t] = iso[t] /\ waits'[t] = waits[t]
  /\ MyLocks(t)' = MyLocks(t)

\* A request is its session's.
LEMMA RequestOwned ==
  ASSUME NEW s, NEW st, at[s].stage \in {"index", "row", "insP", "insC"}
  PROVE  IsLock(Request(s, st)) /\ Request(s, st).s = s
<1>1. \A a, b, c, d, e : LET l == Lock(a, b, c, d, e) IN IsLock(l) /\ l.s = a
  BY DEF IsLock, Lock
<1>2. \E b, c, d, e : Request(s, st) = Lock(s, b, c, d, e)
  BY DEF Request
<1> QED BY <1>1, <1>2

\* A lock on part of a gap is its owner's.
LEMMA InheritedOwned ==
  ASSUME NEW m, IsLock(m), NEW k
  PROVE  [m EXCEPT !.rec = k, !.kind = "gap"] = Lock(m.s, m.idx, k, m.mode, "gap")
<1>1. PICK a, b, c, d, e : m = [s |-> a, idx |-> b, rec |-> c, mode |-> d, kind |-> e]
  BY DEF IsLock, Lock
<1>2. m.s = a /\ m.idx = b /\ m.mode = d
  BY <1>1
<1>3. [m EXCEPT !.rec = k] = [s |-> a, idx |-> b, rec |-> k, mode |-> d, kind |-> e]
  BY <1>1
<1> DEFINE n == [m EXCEPT !.rec = k]
<1>4. [m EXCEPT !.rec = k, !.kind = "gap"] = [n EXCEPT !.kind = "gap"]
  OBVIOUS
<1>5. n = [s |-> a, idx |-> b, rec |-> k, mode |-> d, kind |-> e]
  BY <1>3
<1> HIDE DEF n
<1>6. [n EXCEPT !.kind = "gap"] = [s |-> a, idx |-> b, rec |-> k, mode |-> d, kind |-> "gap"]
  BY <1>5
<1> QED BY <1>2, <1>4, <1>6 DEF Lock

\* Where nothing bars an insert, the gap has no locks but the inserter's.
LEMMA InheritsOwn ==
  ASSUME Tables, \A l \in locks : IsLock(l), NEW s, NEW idx, NEW r,
         Blockers(Lock(s, idx, r, "X", "insert")) = {}, NEW k
  PROVE  \A l \in Inherited(idx, r, k) :
            \E m \in MyLocks(s) : m.idx = idx /\ CoversGap(m) /\ l = Lock(s, idx, k, m.mode, "gap")
<1> DEFINE req == Lock(s, idx, r, "X", "insert")
<1>1. req.s = s /\ req.idx = idx /\ req.rec = r /\ req.kind = "insert"
  BY DEF Lock
<1> HIDE DEF req
<1>2. ~Holds(req)
  BY <1>1 DEF Holds
<1>3. ASSUME NEW m \in locks, m.idx = idx, m.rec = r, CoversGap(m)
      PROVE  m.s = s
  <2>1. m.s # s => Conflicts(req, m)
    BY <1>1, <1>3 DEF Conflicts
  <2>2. m.s # s => m.s \in Blockers(req)
    BY <1>2, <2>1 DEF Blockers
  <2> QED BY <2>2 DEF req
<1>4. ASSUME NEW l \in Inherited(idx, r, k)
      PROVE  \E m \in MyLocks(s) : m.idx = idx /\ CoversGap(m) /\ l = Lock(s, idx, k, m.mode, "gap")
  <2>1. PICK m \in locks : m.idx = idx /\ m.rec = r /\ CoversGap(m) /\ l = [m EXCEPT !.rec = k, !.kind = "gap"]
    BY DEF Inherited
  <2>2. m.s = s /\ l = Lock(m.s, m.idx, k, m.mode, "gap")
    BY <1>3, <2>1, InheritedOwned
  <2> QED BY <2>1, <2>2 DEF MyLocks
<1> QED BY <1>4

\* Locks of s are added, or all of them go.
LEMMA LocksFrame ==
  ASSUME NEW s, \/ \E L : locks' = locks \cup L /\ \A l \in L : l.s = s
                \/ locks' = LocksAfter(s)
  PROVE  \A t : t # s => MyLocks(t)' = MyLocks(t)
<1>1. CASE \E L : locks' = locks \cup L /\ \A l \in L : l.s = s
  BY <1>1 DEF MyLocks
<1>2. CASE locks' = LocksAfter(s)
  BY <1>2 DEF MyLocks, LocksAfter
<1> QED BY <1>1, <1>2

\* What a granted lock adds.
LEMMA ProceedLocks ==
  ASSUME TypeInv, Tables, \A l \in locks : IsLock(l), NEW s \in Sessions, NEW st, Proceed(s, st)
  PROVE  \E L : /\ locks' = locks \cup L /\ (IsFiniteSet(locks) => IsFiniteSet(L))
                /\ \A l \in L : l.s = s /\ IsLock(l)
<1> DEFINE req == Request(s, st)
<1>1. req.s = s /\ IsLock(req)
  BY RequestOwned DEF Proceed
<1>2. \/ ScanIndex(s, st, req) \/ ScanRow(s, st, req)
      \/ InsertPrimary(s, st, req) \/ InsertSecondary(s, st, req)
  BY DEF Proceed
<1>3. CASE ScanIndex(s, st, req) \/ ScanRow(s, st, req)
  <2>1. locks' = locks \/ locks' = locks \cup {req}
    BY <1>3, ZenonT(60) DEF ScanIndex, ScanRow, Reach
  <2>2. CASE locks' = locks
    <3> WITNESS {}
    <3> QED BY <2>2, FS_EmptySet
  <2>3. CASE locks' = locks \cup {req}
    <3> WITNESS {req}
    <3>1. IsFiniteSet({req})
      BY FS_Singleton
    <3> QED BY <1>1, <2>3, <3>1
  <2> QED BY <2>1, <2>2, <2>3
<1>4. ASSUME NEW idx, NEW k, Blockers(req) = {}, NEW r, req = Lock(s, idx, r, "X", "insert"),
             locks' = locks \cup {Lock(s, idx, k, "X", "rec")} \cup Inherited(idx, r, k)
      PROVE  \E L : /\ locks' = locks \cup L /\ (IsFiniteSet(locks) => IsFiniteSet(L))
                    /\ \A l \in L : l.s = s /\ IsLock(l)
  <2> DEFINE new == Lock(s, idx, k, "X", "rec")
             old == Inherited(idx, r, k)
  <2>1. \A b, c, d, e : Lock(s, b, c, d, e).s = s /\ IsLock(Lock(s, b, c, d, e))
    BY DEF Lock, IsLock
  <2>2. \A l \in old : l.s = s /\ IsLock(l)
    BY <1>4, <2>1, InheritsOwn
  <2>3. ASSUME IsFiniteSet(locks)
        PROVE  IsFiniteSet({new} \cup old)
    <3> DEFINE M == {m \in locks : m.idx = idx /\ m.rec = r /\ CoversGap(m)}
               F(m) == [m EXCEPT !.rec = k, !.kind = "gap"]
    <3>1. IsFiniteSet(M)
      BY <2>3, FS_Subset
    <3>2. old = {F(m) : m \in M}
      BY DEF Inherited
    <3> DEFINE f == [m \in M |-> F(m)]
    <3>3. f \in Surjection(M, old)
      <4> HIDE DEF M, F, old
      <4> QED BY <3>2 DEF Surjection
    <3> HIDE DEF M, f, old, new
    <3>4. IsFiniteSet(old)
      BY <3>1, <3>3, FS_Surjection
    <3> QED BY <3>4, FS_Singleton, FS_Union
  <2> WITNESS {new} \cup old
  <2>4. locks' = locks \cup ({new} \cup old)
    BY <1>4
  <2> QED BY <2>1, <2>2, <2>3, <2>4
<1>5. Blockers(req) = {}
  BY DEF Proceed
<1>6. CASE InsertPrimary(s, st, req)
  <2>1. req = Lock(s, "p", Successor("p", <<st.id, st.id>>), "X", "insert")
    BY <1>6 DEF InsertPrimary, Request
  <2>2. req.rec = Successor("p", <<st.id, st.id>>)
    BY <2>1 DEF Lock
  <2>3. locks' = locks \cup {Lock(s, "p", <<st.id, st.id>>, "X", "rec")}
                       \cup Inherited("p", Successor("p", <<st.id, st.id>>), <<st.id, st.id>>)
    BY <1>6, <2>2 DEF InsertPrimary
  <2> QED BY <1>4, <1>5, <2>1, <2>3
<1>7. CASE InsertSecondary(s, st, req)
  <2>1. req = Lock(s, "c", Successor("c", <<st.c, st.id>>), "X", "insert")
    BY <1>7 DEF InsertSecondary, Request
  <2>2. req.rec = Successor("c", <<st.c, st.id>>)
    BY <2>1 DEF Lock
  <2>3. locks' = locks \cup {Lock(s, "c", <<st.c, st.id>>, "X", "rec")}
                       \cup Inherited("c", Successor("c", <<st.c, st.id>>), <<st.c, st.id>>)
    BY <1>7, <2>2 DEF InsertSecondary
  <2> QED BY <1>4, <1>5, <2>1, <2>3
<1> QED BY <1>2, <1>3, <1>6, <1>7

\* Before a request are requests of sessions.
LEMMA QueueStays ==
  ASSUME before \in [Sessions -> SUBSET Sessions], NEW s,
         before' = before \/ Dequeue(s) \/ \E req : Enqueue(s, req)
  PROVE  before' \in [Sessions -> SUBSET Sessions]
BY DEF Dequeue, Enqueue

\* A step of a statement.
LEMMA StatementFrame ==
  ASSUME TypeInv, Tables, \A l \in locks : IsLock(l), NEW s \in Sessions, NEW st,
         Start(s, st) \/ Wait(s, st) \/ Proceed(s, st)
  PROVE  /\ Tables' /\ iso' = iso /\ inTx' = inTx /\ \A l \in locks' : IsLock(l)
         /\ IsFiniteSet(locks) => IsFiniteSet(locks')
         /\ \A t \in Sessions : t # s => Untouched(t)
<1>1. inTx' = inTx /\ iso' = iso /\ \A t \in Sessions : t # s => at'[t] = at[t]
  <2>1. iso' = iso
    BY DEF Start, Wait, Proceed
  <2> QED BY <2>1, OthersStay
<1>2. waits' = waits \/ \E q : waits' = [waits EXCEPT ![s] = q]
  BY DEF Start, Wait, Proceed, Dequeue, Enqueue
<1>3. waits' = [t \in Sessions |-> waits'[t]] /\ \A t \in Sessions : t # s => waits'[t] = waits[t]
  <2>1. waits = [t \in Sessions |-> waits[t]]
    BY DEF Tables
  <2> QED BY <1>2, <2>1
<1>4. undo' = undo \/ \E u : undo' = [undo EXCEPT ![s] = u]
  BY ZenonT(60) DEF Start, Wait, Proceed, ScanIndex, ScanRow, Reach, InsertPrimary, InsertSecondary
<1>5. \A t \in Sessions : t # s => undo'[t] = undo[t]
  <2>1. undo = [t \in Sessions |-> undo[t]]
    BY DEF TypeInv, DataOK
  <2> QED BY <1>4, <2>1
<1>6. \E L : /\ locks' = locks \cup L /\ (IsFiniteSet(locks) => IsFiniteSet(L))
             /\ \A l \in L : l.s = s /\ IsLock(l)
  <2>1. CASE Start(s, st) \/ Wait(s, st)
    <3>1. locks' = locks \cup {}
      BY <2>1 DEF Start, Wait
    <3> WITNESS {}
    <3> QED BY <3>1, FS_EmptySet
  <2>2. CASE Proceed(s, st)
    BY <2>2, ProceedLocks
  <2> QED BY <2>1, <2>2
<1>7. PICK L : /\ locks' = locks \cup L /\ (IsFiniteSet(locks) => IsFiniteSet(L))
               /\ \A l \in L : l.s = s /\ IsLock(l)
  BY <1>6
<1>8. \A t : t # s => MyLocks(t)' = MyLocks(t)
  <2>1. \E M : locks' = locks \cup M /\ \A l \in M : l.s = s
    BY <1>7
  <2> QED BY <2>1, LocksFrame
<1>9. /\ \A l \in locks' : IsLock(l)
      /\ IsFiniteSet(locks) => IsFiniteSet(locks')
  <2>1. \A l \in locks' : IsLock(l)
    BY <1>7
  <2>2. IsFiniteSet(locks) => IsFiniteSet(locks \cup L)
    BY <1>7, FS_Union
  <2> QED BY <1>7, <2>1, <2>2
<1>10. before' \in [Sessions -> SUBSET Sessions]
  <2>1. before' = before \/ Dequeue(s) \/ \E req : Enqueue(s, req)
    BY DEF Start, Wait, Proceed
  <2>2. before \in [Sessions -> SUBSET Sessions]
    BY DEF Tables
  <2> QED BY <2>1, <2>2, QueueStays
<1>11. Tables'
  BY <1>1, <1>3, <1>10 DEF Tables
<1> QED BY <1>1, <1>3, <1>5, <1>8, <1>9, <1>11 DEF Untouched

\* A statement returns.
LEMMA FinishFrame ==
  ASSUME TypeInv, Tables, \A l \in locks : IsLock(l), NEW s \in Sessions, Finish(s)
  PROVE  /\ Tables' /\ waits' = waits /\ iso' = iso /\ inTx' = inTx /\ \A l \in locks' : IsLock(l)
         /\ IsFiniteSet(locks) => IsFiniteSet(locks')
         /\ \A t \in Sessions : t # s => Untouched(t)
         /\ at'[s] = Idle /\ at[s].stage = "end"
         /\ IF inTx[s] THEN MyLocks(s)' = MyLocks(s) /\ undo'[s] = undo[s]
            ELSE MyLocks(s)' = {} /\ undo'[s] = << >>
<1>1. /\ waits' = waits /\ iso' = iso /\ inTx' = inTx /\ at' = [at EXCEPT ![s] = Idle] /\ at[s].stage = "end"
      /\ IF inTx[s] THEN locks' = locks /\ undo' = undo
         ELSE locks' = LocksAfter(s) /\ undo' = [undo EXCEPT ![s] = << >>]
  BY DEF Finish
<1>2. at = [t \in Sessions |-> at[t]] /\ undo = [t \in Sessions |-> undo[t]]
  BY DEF TypeInv, DataOK
<1>3. locks' \subseteq locks
  BY <1>1 DEF LocksAfter
<1>4. \A t : t # s => MyLocks(t)' = MyLocks(t)
  BY <1>1 DEF MyLocks, LocksAfter
<1>5. IF inTx[s] THEN MyLocks(s)' = MyLocks(s) ELSE MyLocks(s)' = {}
  BY <1>1 DEF MyLocks, LocksAfter
<1>6. /\ \A l \in locks' : IsLock(l)
      /\ IsFiniteSet(locks) => IsFiniteSet(locks')
  BY <1>3, FS_Subset
<1>7. Tables'
  <2>1. before' = before
    BY DEF Finish
  <2> QED BY <1>1, <2>1 DEF Tables
<1>8. at'[s] = Idle /\ \A t \in Sessions : t # s => at'[t] = at[t] /\ undo'[t] = undo[t]
  BY <1>1, <1>2
<1>9. undo'[s] = IF inTx[s] THEN undo[s] ELSE << >>
  BY <1>1, <1>2
<1> QED BY <1>1, <1>4, <1>5, <1>6, <1>7, <1>8, <1>9 DEF Untouched

\* A session is rolled back.
LEMMA RollBackFrame ==
  ASSUME TypeInv, Tables, \A l \in locks : IsLock(l), NEW s \in Sessions, RollBack(s)
  PROVE  /\ Tables' /\ \A l \in locks' : IsLock(l)
         /\ IsFiniteSet(locks) => IsFiniteSet(locks')
         /\ \A t \in Sessions : t # s => Untouched(t)
         /\ at'[s] = Idle /\ waits'[s] = NoRequest /\ iso'[s] = "RR" /\ inTx'[s] = FALSE
         /\ MyLocks(s)' = {} /\ undo'[s] = << >>
<1>1. /\ locks' = LocksAfter(s) /\ waits' = [waits EXCEPT ![s] = NoRequest] /\ undo' = [undo EXCEPT ![s] = << >>]
      /\ inTx' = [inTx EXCEPT ![s] = FALSE] /\ iso' = [iso EXCEPT ![s] = "RR"] /\ at' = [at EXCEPT ![s] = Idle]
  BY DEF RollBack, Dequeue
<1>2. at = [t \in Sessions |-> at[t]] /\ undo = [t \in Sessions |-> undo[t]]
  BY DEF TypeInv, DataOK
<1>3. /\ waits = [t \in Sessions |-> waits[t]] /\ iso = [t \in Sessions |-> iso[t]] /\ inTx = [t \in Sessions |-> inTx[t]]
  BY DEF Tables
<1>4. locks' \subseteq locks
  BY <1>1 DEF LocksAfter
<1>5. MyLocks(s)' = {} /\ \A t : t # s => MyLocks(t)' = MyLocks(t)
  BY <1>1 DEF MyLocks, LocksAfter
<1>6. /\ \A l \in locks' : IsLock(l)
      /\ IsFiniteSet(locks) => IsFiniteSet(locks')
  BY <1>4, FS_Subset
<1>7. /\ waits' = [t \in Sessions |-> waits'[t]] /\ waits'[s] = NoRequest
      /\ \A t \in Sessions : t # s => waits'[t] = waits[t]
  BY <1>1, <1>3
<1>8. /\ iso' = [t \in Sessions |-> iso'[t]] /\ iso'[s] = "RR"
      /\ \A t \in Sessions : t # s => iso'[t] = iso[t]
  BY <1>1, <1>3
<1>9. /\ inTx' = [t \in Sessions |-> inTx'[t]] /\ inTx'[s] = FALSE
      /\ \A t \in Sessions : t # s => inTx'[t] = inTx[t]
  BY <1>1, <1>3
<1>10. /\ at'[s] = Idle /\ undo'[s] = << >>
       /\ \A t \in Sessions : t # s => at'[t] = at[t] /\ undo'[t] = undo[t]
  BY <1>1, <1>2
<1>11. Tables'
  <2>1. Dequeue(s) /\ before \in [Sessions -> SUBSET Sessions]
    BY DEF RollBack, Tables
  <2>2. before' \in [Sessions -> SUBSET Sessions]
    BY <2>1, QueueStays
  <2> QED BY <1>7, <1>8, <1>9, <2>2 DEF Tables
<1> QED BY <1>5, <1>6, <1>7, <1>8, <1>9, <1>10, <1>11 DEF Untouched

\* No statement of the session gets an error from the server.
NoLockError(t) == err'[t] = err[t] \/ (err[t] = "" /\ err'[t] \in {"network", "killed"})

\* What holds of a session goes on holding as long as nothing happens to it.
LEMMA OthersHold ==
  ASSUME NEW pl, NEW stops, CaseNow(pl, stops), NEW t \in Sessions, Untouched(t), pc'[t] = pc[t], NoLockError(t),
         prog' = prog, t # "A" /\ at[t].stage # "idle" /\ inTx'["A"] => inTx["A"],
         t = "A" => ("A" \in dropped' <=> "A" \in dropped),
         t = "A" => pc["A"] > 3 \/ rows' = rows
  PROVE  Local(pl, stops, t)'
<1>1. Local(pl, stops, t)
  BY DEF CaseNow, CaseInv
<1>2. Op(t)' = Op(t) /\ Script(t)' = Script(t)
  BY DEF Op, Script
<1>3. Stands(pl, t)' /\ Queued(pl, t)' /\ Rests(t)' /\ iso'[t] = "RR"
  BY <1>1, <1>2 DEF Local, Stands, Queued, Rests, Untouched
<1>4. Failed(t)'
  <2>1. err'[t] \in RolledBack => err[t] \in RolledBack
    BY DEF NoLockError, RolledBack
  <2> QED BY <1>1, <1>2, <2>1 DEF Local, Failed, InSql, Untouched
<1>5. ASSUME t # "A"
      PROVE  Alone(pl, t)' /\ AtGate(pl, t, Held(pl, stops, prog))'
  <2>1. Alone(pl, t)'
    BY <1>1, <1>2, <1>5 DEF Local, Alone, Untouched
  <2>2. AtGate(pl, t, Held(pl, stops, prog))'
    BY <1>1, <1>2, <1>5 DEF Local, AtGate, Untouched
  <2> QED BY <2>1, <2>2
<1>6. ASSUME t = "A"
      PROVE  RunsA(pl, stops)'
  <2>1. RunsA(pl, stops) /\ pc["A"] \in Nat
    BY <1>1, <1>6 DEF Local, CaseNow, TypeInv, ControlOK
  <2>2. AWalks(pl, stops)' <=> AWalks(pl, stops)
    BY <1>6 DEF AWalks, Untouched
  <2>3. \/ pc["A"] > 3 /\ ~(pc["A"] <= 2) /\ pc["A"] # 2 /\ pc["A"] # 1
        \/ Ids' = Ids /\ rows' = rows
    BY <1>6, <2>1 DEF Ids
  <2>4. /\ Well("A")' => Well("A")
        /\ err["A"] \notin RolledBack => err'["A"] \notin RolledBack
    BY <1>6 DEF NoLockError, RolledBack, Well
  <2>5. Scans' => Scans
    BY <1>6, <2>4 DEF Scans, Untouched
  <2>6. /\ inTx'["A"] = inTx["A"] /\ pc'["A"] = pc["A"] /\ at'["A"] = at["A"] /\ undo'["A"] = undo["A"]
        /\ MyLocks("A")' = MyLocks("A") /\ ("A" \in dropped' <=> "A" \in dropped) /\ Script("A")' = Script("A")
        /\ prog' = prog
    BY <1>2, <1>6 DEF Untouched
  <2> HIDE DEF MyLocks, Scans
  <2>7. Scans' => /\ Ids' = DOMAIN prog'.data /\ \A i \in Ids' \ at'["A"].hits : ~rows'[i].del
                  /\ MyLocks("A")' \subseteq Held(pl, stops, prog')
    <3> SUFFICES ASSUME Scans'
                 PROVE  /\ Ids' = DOMAIN prog'.data /\ \A i \in Ids' \ at'["A"].hits : ~rows'[i].del
                        /\ MyLocks("A")' \subseteq Held(pl, stops, prog')
      OBVIOUS
    <3>1. Ids' = Ids /\ rows' = rows /\ Scans
      BY <2>1, <2>3, <2>5 DEF Scans
    <3>2. /\ Ids = DOMAIN prog.data /\ \A i \in Ids \ at["A"].hits : ~rows[i].del
          /\ MyLocks("A") \subseteq Held(pl, stops, prog)
      BY <2>1, <3>1 DEF RunsA
    <3>3. Held(pl, stops, prog') = Held(pl, stops, prog) /\ DOMAIN prog'.data = DOMAIN prog.data
      BY <2>6
    <3> HIDE DEF Held, Ids
    <3> QED BY <2>6, <3>1, <3>2, <3>3
  <2>8. Scans' /\ pc'["A"] = 2 => AWalks(pl, stops)'
    BY <2>1, <2>2, <2>5, <2>6 DEF RunsA
  <2>9. pc'["A"] >= 3 =>
          /\ inTx'["A"] => Held(pl, stops, prog') \subseteq MyLocks("A")'
          /\ \A l \in MyLocks("A")' :
                \/ l \in Held(pl, stops, prog') /\ inTx'["A"]
                \/ Len(Script("A")') = 4 /\ pc'["A"] >= 4 /\ (CoversRec(l) => l.rec[2] \in pl.own["A"])
    BY <2>1, <2>6 DEF RunsA
  <2> QED BY <2>1, <2>4, <2>6, <2>7, <2>8, <2>9 DEF RunsA
<1> QED BY <1>3, <1>4, <1>5, <1>6 DEF Local

-----------------------------------------------------------------------------
(* The rows stay where the plan has them, and every scan at one of them.       *)

\* What the invariant says of the table and the plan.
LEMMA CaseColumns ==
  ASSUME NEW pl, NEW stops, CaseNow(pl, stops)
  PROVE  /\ TypeInv /\ ColumnsNow(pl) /\ Keys(pl) /\ Planned(pl, prog) /\ \A s \in Sessions : Stands(pl, s)
         /\ DOMAIN prog.data \subseteq DOMAIN pl.col
<1>1. TypeInv /\ Keys(pl) /\ Planned(pl, prog) /\ \A s \in Sessions : Stands(pl, s)
  BY DEF CaseNow, CaseInv, CasePlan, Local
<1>2. Columns(pl)
  BY <1>1 DEF Keys, GoodRow, Columns
<1>3. DOMAIN prog.data \subseteq DOMAIN pl.col
  <2>1. \A i \in DOMAIN prog.data : i \in DOMAIN pl.col
    BY <1>1 DEF Planned
  <2> QED BY <2>1
<1>4. ColumnsNow(pl)
  BY <1>1, <1>2 DEF ColumnsNow
<1> QED BY <1>1, <1>3, <1>4

\* A row is changed, and its first value kept.
LEMMA KeysChange ==
  ASSUME TypeInv, NEW pl, Keys(pl), NEW s \in Sessions, NEW id \in Ids, NEW new,
         new.c = rows[id].c, new.sec = rows[id].sec, rows' = [rows EXCEPT ![id] = new],
         undo' = [undo EXCEPT ![s] = PutNew(undo[s], id, rows[id])], prog' = prog
  PROVE  Keys(pl)'
<1>1. rows \in [Ids -> Row] /\ undo = [t \in Sessions |-> undo[t]]
  BY DEF TypeInv, DataOK, Table, Ids
<1>2. Ids' = Ids /\ rows'[id] = new /\ \A i \in Ids : i # id => rows'[i] = rows[i]
  BY <1>1 DEF Ids
<1>3. \A i \in Ids : GoodRow(pl, i, rows[i])'
  <2> SUFFICES ASSUME NEW i \in Ids PROVE GoodRow(pl, i, rows[i])'
    OBVIOUS
  <2>1. GoodRow(pl, i, rows[i])
    BY DEF Keys
  <2>2. CASE i = id
    BY <1>2, <2>1, <2>2 DEF GoodRow
  <2>3. CASE i # id
    BY <1>2, <2>1, <2>3 DEF GoodRow
  <2> QED BY <2>2, <2>3
<1>4. ASSUME NEW t \in Sessions, NEW i \in DOMAIN undo'[t]
      PROVE  IF undo'[t][i] = NoRow THEN i \notin DOMAIN prog.data ELSE GoodRow(pl, i, undo[t][i])'
  <2>1. CASE i \in DOMAIN undo[t] /\ undo'[t][i] = undo[t][i]
    BY <2>1 DEF Keys, GoodRow
  <2>2. CASE ~(i \in DOMAIN undo[t] /\ undo'[t][i] = undo[t][i])
    <3>1. t = s
      BY <1>1, <1>4, <2>2
    <3>2. undo'[s] = PutNew(undo[s], id, rows[id])
      BY <1>1
    <3>3. i = id /\ undo'[t][i] = rows[id]
      BY <1>4, <2>2, <3>1, <3>2 DEF PutNew, Put
    <3>4. rows[id] # NoRow
      <4>1. rows[id].c \in 0 .. 999
        BY <1>1 DEF Row
      <4>2. NoRow.c = -1
        BY DEF NoRow
      <4>3. -1 \notin 0 .. 999
        OBVIOUS
      <4> QED BY <4>1, <4>2, <4>3
    <3> QED BY <3>3, <3>4 DEF Keys, GoodRow
  <2> QED BY <2>1, <2>2
<1> QED BY <1>2, <1>3, <1>4 DEF Keys

\* A row is inserted.
LEMMA KeysInsert ==
  ASSUME TypeInv, NEW pl, Keys(pl), NEW s \in Sessions, NEW id, id \in DOMAIN pl.col, id \notin DOMAIN prog.data,
         NEW new, new.c = pl.col[id], rows' = Put(rows, id, new),
         undo' = [undo EXCEPT ![s] = PutNew(undo[s], id, NoRow)], prog' = prog
  PROVE  Keys(pl)'
<1>1. undo = [t \in Sessions |-> undo[t]]
  BY DEF TypeInv, DataOK
<1>2. Ids' = Ids \cup {id} /\ rows'[id] = new /\ \A i \in Ids : i # id => rows'[i] = rows[i]
  BY DEF Ids, Put
<1>3. \A i \in Ids' : GoodRow(pl, i, rows[i])'
  BY <1>2 DEF Keys, GoodRow
<1>4. ASSUME NEW t \in Sessions, NEW i \in DOMAIN undo'[t]
      PROVE  IF undo'[t][i] = NoRow THEN i \notin DOMAIN prog.data ELSE GoodRow(pl, i, undo[t][i])'
  <2>1. CASE i \in DOMAIN undo[t] /\ undo'[t][i] = undo[t][i]
    BY <2>1 DEF Keys, GoodRow
  <2>2. CASE ~(i \in DOMAIN undo[t] /\ undo'[t][i] = undo[t][i])
    <3>1. t = s
      BY <1>1, <1>4, <2>2
    <3>2. undo'[s] = PutNew(undo[s], id, NoRow)
      BY <1>1
    <3>3. i = id /\ undo'[t][i] = NoRow
      BY <1>4, <2>2, <3>1, <3>2 DEF PutNew, Put
    <3> QED BY <3>3
  <2> QED BY <2>1, <2>2
<1> QED BY <1>2, <1>3, <1>4 DEF Keys

\* A session forgets what it wrote, or takes it back.
LEMMA KeysUndo ==
  ASSUME TypeInv, NEW pl, Keys(pl), NEW s \in Sessions, undo' = [undo EXCEPT ![s] = << >>],
         rows' = rows \/ rows' = Undone(undo[s]), prog' = prog
  PROVE  Keys(pl)'
<1>1. undo = [t \in Sessions |-> undo[t]]
  BY DEF TypeInv, DataOK
<1>2. DOMAIN undo'[s] = {} /\ \A t \in Sessions : t # s => undo'[t] = undo[t]
  BY <1>1, NothingIn
<1>3. CASE rows' = rows
  BY <1>2, <1>3 DEF Keys, GoodRow, Ids
<1>4. CASE rows' = Undone(undo[s])
  <2>1. \A i : i \in Ids' <=> i \in Ids \cup DOMAIN undo[s] /\ (i \in DOMAIN undo[s] => undo[s][i] # NoRow)
    BY <1>4 DEF Ids, Undone
  <2>2. \A i \in Ids' : rows'[i] = IF i \in DOMAIN undo[s] THEN undo[s][i] ELSE rows[i]
    BY <1>4 DEF Ids, Undone
  <2>3. DOMAIN prog.data \subseteq Ids'
    BY <2>1 DEF Keys
  <2>4. \A i \in Ids' : GoodRow(pl, i, rows[i])'
    BY <2>1, <2>2 DEF Keys, GoodRow
  <2> QED BY <1>2, <2>3, <2>4 DEF Keys, GoodRow
<1> QED BY <1>3, <1>4

\* A step of a statement.
LEMMA KeysStatement ==
  ASSUME NEW pl, NEW stops, CaseNow(pl, stops), NEW s \in Sessions, InSql(s),
         Start(s, Op(s).st) \/ Wait(s, Op(s).st) \/ Proceed(s, Op(s).st), UNCHANGED <<prog, pc>>
  PROVE  Keys(pl)' /\ Stands(pl, s)'
<1> DEFINE st  == Op(s).st
           req == Request(s, st)
<1>1. TypeInv /\ ColumnsNow(pl) /\ Keys(pl) /\ Planned(pl, prog) /\ Stands(pl, s)
  BY CaseColumns
<1>2. Op(s)' = Op(s)
  BY DEF Op, Script
<1>3. rows' = rows /\ undo' = undo => Keys(pl)'
  BY <1>1 DEF Keys, GoodRow, Ids
<1>4. CASE Start(s, st)
  BY <1>1, <1>3, <1>4, StartStands DEF Start
<1>5. CASE Wait(s, st)
  BY <1>1, <1>2, <1>3, <1>5 DEF Wait, Stands
<1>6. ASSUME at[s].stage \in {"index", "row"}, InRange(st.w, at[s].rec), Reach(s, st, req)
      PROVE  Keys(pl)' /\ Stands(pl, s)'
  <2>1. Stands(pl, s)'
    BY <1>1, <1>6, ReachStands
  <2>2. \/ rows' = rows /\ undo' = undo
        \/ \E id \in pl.own[s] \cap DOMAIN prog.data \cap Ids : \E new \in Row :
               /\ rows' = [rows EXCEPT ![id] = new]
               /\ undo' = [undo EXCEPT ![s] = PutNew(undo[s], id, rows[id])]
               /\ new.c = rows[id].c /\ new.sec = rows[id].sec
               /\ s # "A" => new.del = rows[id].del
    BY <1>1, <1>6, ReachWrites
  <2>3. Keys(pl)'
    BY <1>1, <1>3, <2>2, KeysChange
  <2> QED BY <2>1, <2>3
<1>7. ASSUME NEW h, at' = [at EXCEPT ![s].stage = h], h = "row" => at[s].stage = "index" /\ InRange(st.w, at[s].rec),
             h \in {"row", "end", "insC"}
      PROVE  Stands(pl, s)'
  <2>1. at' = [at EXCEPT ![s] = [stage |-> h, rec |-> at[s].rec, hits |-> at[s].hits]]
    BY <1>1, <1>7, StageEnds
  <2>2. at'[s].stage = h /\ at'[s].rec = at[s].rec
    BY <1>1, <2>1 DEF TypeInv
  <2> QED BY <1>1, <1>2, <1>7, <2>2 DEF Stands
<1>8. CASE Proceed(s, st)
  <2>1. ScanIndex(s, st, req) \/ ScanRow(s, st, req) \/ InsertPrimary(s, st, req) \/ InsertSecondary(s, st, req)
    BY <1>8 DEF Proceed
  <2>2. CASE InsertPrimary(s, st, req)
    <3> DEFINE new == [c |-> st.c, d |-> st.d, del |-> FALSE, sec |-> FALSE]
    <3>1. /\ rows' = Put(rows, st.id, new) /\ undo' = [undo EXCEPT ![s] = PutNew(undo[s], st.id, NoRow)]
          /\ at' = [at EXCEPT ![s].stage = "insC"] /\ at[s].stage = "insP"
      BY <2>2 DEF InsertPrimary
    <3>2. InsertOf(s, st.id)
      <4>1. IsInsert(st) /\ Op(s).op = "sql"
        BY <1>1, <3>1 DEF InSql, TypeInv, StageOK
      <4>2. st.do = "insert"
        <5> HIDE DEF st
        <5> QED BY <4>1, InsertDoes, ZenonT(60)
      <4> QED BY <4>1, <4>2, ZenonT(60) DEF InsertOf
    <3>3. st.id \in DOMAIN pl.col /\ st.id \notin DOMAIN prog.data /\ pl.col[st.id] = st.c
      BY <1>1, <3>2, InsertKeeps
    <3>4. new.c = st.c
      OBVIOUS
    <3> HIDE DEF new
    <3>5. Keys(pl)'
      BY <1>1, <3>1, <3>3, <3>4, KeysInsert
    <3> QED BY <1>7, <3>1, <3>5
  <2>3. CASE InsertSecondary(s, st, req)
    <3>1. /\ rows' = [rows EXCEPT ![st.id].sec = TRUE] /\ undo' = undo
          /\ at' = [at EXCEPT ![s].stage = "end"] /\ at[s].stage = "insC"
      BY <2>3 DEF InsertSecondary
    <3>2. rows \in [Ids -> Row]
      BY <1>1 DEF TypeInv, DataOK, Table, Ids
    <3>3. Ids' = Ids /\ \A i \in Ids : i # st.id => rows'[i] = rows[i]
      BY <3>1, <3>2 DEF Ids
    <3>4. ASSUME NEW i \in Ids
          PROVE  rows'[i].c = rows[i].c /\ (rows[i].sec => rows'[i].sec)
      <4>1. CASE i = st.id
        <5>1. rows'[i] = [rows[i] EXCEPT !.sec = TRUE] /\ rows[i] \in Row
          BY <3>1, <3>2, <4>1
        <5>2. rows'[i] = [c |-> rows[i].c, d |-> rows[i].d, del |-> rows[i].del, sec |-> TRUE]
          BY <5>1, RowChanges
        <5>3. \A x, y, z : LET r == [c |-> x, d |-> y, del |-> z, sec |-> TRUE]
                           IN  r.c = x /\ r.sec = TRUE
          OBVIOUS
        <5> QED BY <5>2, <5>3
      <4>2. CASE i # st.id
        BY <3>3, <4>2
      <4> QED BY <4>1, <4>2
    <3>5. Keys(pl)'
      BY <1>1, <3>1, <3>3, <3>4 DEF Keys, GoodRow
    <3> QED BY <1>7, <3>1, <3>5
  <2>4. CASE ScanRow(s, st, req)
    <3>1. at[s].stage = "row" /\ Reach(s, st, req)
      BY <2>4 DEF ScanRow
    <3>2. InRange(st.w, at[s].rec)
      BY <1>1, <3>1 DEF Stands
    <3> QED BY <1>6, <3>1, <3>2
  <2>5. CASE ScanIndex(s, st, req)
    <3>1. \/ InRange(st.w, at[s].rec) /\ Reach(s, st, req)
          \/ /\ rows' = rows /\ undo' = undo
             /\ \E h \in {"row", "end"} : /\ at' = [at EXCEPT ![s].stage = h]
                                          /\ h = "row" => InRange(st.w, at[s].rec)
      BY <2>5 DEF ScanIndex
    <3>2. at[s].stage = "index"
      BY <2>5 DEF ScanIndex
    <3> QED BY <1>3, <1>6, <1>7, <3>1, <3>2
  <2> QED BY <2>1, <2>2, <2>3, <2>4, <2>5
<1> QED BY <1>4, <1>5, <1>8

-----------------------------------------------------------------------------
(* What a statement under way asks for next.                                   *)

\* Two places are never both before each other.
LEMMA BeforeOnce ==
  ASSUME NEW x \in Places, NEW y \in Places, Before(x, y)
  PROVE  ~Before(y, x) /\ x # y
<1>1. x[1] \in Nat /\ x[2] \in Nat /\ y[1] \in Nat /\ y[2] \in Nat
  BY DEF Places
<1> QED BY <1>1 DEF Before

\* The end of an index is in no range, and behind the start of each.
LEMMA SupremumEnds ==
  ASSUME NEW w \in Cond
  PROVE  From(w, Supremum) /\ ~InRange(w, Supremum)
<1>1. w.lo \in -1 .. 999 /\ w.hi \in 0 .. 999
  BY CondParts
<1>2. Supremum[1] = 1000
  BY DEF Supremum
<1> DEFINE a == w.lo
           b == w.hi
<1>3. a \in -1 .. 999 /\ b \in 0 .. 999
  BY <1>1
<1> HIDE DEF a, b
<1>4. a < 1000 /\ ~(1000 < b) /\ 1000 # b
  BY <1>3
<1> QED BY <1>2, <1>4 DEF From, InRange, a, b

\* A pair of columns is a place.
LEMMA PairPlaces ==
  ASSUME NEW a \in 0 .. 999, NEW b \in 0 .. 999
  PROVE  <<a, b>> \in Places /\ <<a, b>>[1] \in 0 .. 999
<1>1. a \in Nat /\ b \in Nat
  OBVIOUS
<1> QED BY <1>1 DEF Places

\* The records of an index: the prepared rows are there, and nothing that the plan does not know.
LEMMA CaseRecords ==
  ASSUME NEW pl, NEW stops, CaseNow(pl, stops), NEW idx \in {"p", "c"}
  PROVE  /\ Records(idx) \in SUBSET Places /\ Supremum \in Records(idx)
         /\ Records(idx) \subseteq AllPlaces(pl, idx, DOMAIN pl.col)
         /\ \A i \in DOMAIN prog.data : Place(pl, idx, i) \in Records(idx)
         /\ Ids = DOMAIN prog.data => Records(idx) \subseteq AllPlaces(pl, idx, DOMAIN prog.data)
<1>1. ColumnsNow(pl) /\ Keys(pl)
  BY CaseColumns
<1>2. \A i \in Ids : Key(idx, i) = Place(pl, idx, i)
  BY <1>1 DEF ColumnsNow, Columns, Key, Place
<1>3. \A i \in DOMAIN prog.data : i \in Ids /\ rows[i].sec
  BY <1>1 DEF Keys, GoodRow
<1>4. Records(idx) = {Supremum} \cup {Key(idx, i) : i \in {j \in Ids : idx = "p" \/ rows[j].sec}}
  BY DEF Records, Ids
<1>5. \A i \in DOMAIN prog.data : Place(pl, idx, i) \in Records(idx)
  BY <1>2, <1>3, <1>4
<1>6. \A r \in Records(idx) : r = Supremum \/ \E i \in Ids : r = Place(pl, idx, i)
  BY <1>2, <1>4
<1>7. Ids = DOMAIN prog.data => Records(idx) \subseteq AllPlaces(pl, idx, DOMAIN prog.data)
  BY <1>6 DEF AllPlaces
<1>8. Records(idx) \subseteq AllPlaces(pl, idx, DOMAIN pl.col)
  BY <1>1, <1>6 DEF AllPlaces, ColumnsNow, Columns
<1> QED BY <1>1, <1>5, <1>7, <1>8, ScanPlaces

\* A scan starts at the first record of its range, whatever was inserted meanwhile.
LEMMA CaseFirst ==
  ASSUME NEW pl, NEW stops, CaseNow(pl, stops), NEW w \in Cond
  PROVE  FirstOf(w) \in Begins(pl, DOMAIN prog.data, w) /\ FirstOf(w) \in Records(w.idx)
<1> DEFINE S == {r \in Records(w.idx) : w.lo < r[1] \/ (w.loIn /\ w.lo = r[1])}
           D == DOMAIN prog.data
           P(i) == Place(pl, w.idx, i)
<1>1. w.idx \in {"p", "c"} /\ w.lo \in -1 .. 999
  BY CondParts
<1>2. Records(w.idx) \in SUBSET Places /\ Supremum \in Records(w.idx)
      /\ Records(w.idx) \subseteq AllPlaces(pl, w.idx, DOMAIN pl.col) /\ \A i \in D : P(i) \in Records(w.idx)
  BY <1>1, CaseRecords
<1>3. S \in SUBSET Places /\ Supremum \in S
  BY <1>1, <1>2 DEF Supremum
<1>4. FirstOf(w) = Least(S)
  BY DEF FirstOf
<1>5. \A r : r \in S <=> r \in Records(w.idx) /\ From(w, r)
  BY DEF From
<1> HIDE DEF S, D, P
<1>6. Least(S) \in S /\ \A y \in S : Least(S) = y \/ Before(Least(S), y)
  BY <1>3, LeastExists
<1>7. ASSUME NEW i \in D
      PROVE  ~(From(w, P(i)) /\ Before(P(i), Least(S)))
  <2>1. P(i) \in Places /\ Least(S) \in Places
    BY <1>2, <1>3, <1>6
  <2>2. CASE From(w, P(i))
    <3>1. Least(S) = P(i) \/ Before(Least(S), P(i))
      BY <1>2, <1>5, <1>6, <2>2
    <3> QED BY <2>1, <3>1, BeforeOnce
  <2> QED BY <2>2
<1>8. \A i \in DOMAIN prog.data : ~(From(w, Place(pl, w.idx, i)) /\ Before(Place(pl, w.idx, i), Least(S)))
  BY <1>7 DEF D, P
<1> QED BY <1>2, <1>4, <1>5, <1>6, <1>8 DEF Begins

\* And goes on to the next one.
LEMMA CaseNext ==
  ASSUME NEW pl, NEW stops, CaseNow(pl, stops), NEW idx \in {"p", "c"}, NEW k \in Places, k[1] \in 0 .. 999
  PROVE  Successor(idx, k) \in Nexts(pl, DOMAIN prog.data, idx, k) /\ Successor(idx, k) \in Records(idx)
<1> DEFINE S == {r \in Records(idx) : Before(k, r)}
           D == DOMAIN prog.data
           P(i) == Place(pl, idx, i)
<1>1. Records(idx) \in SUBSET Places /\ Supremum \in Records(idx)
      /\ Records(idx) \subseteq AllPlaces(pl, idx, DOMAIN pl.col) /\ \A i \in D : P(i) \in Records(idx)
  BY CaseRecords
<1>2. S \in SUBSET Places /\ Supremum \in S
  BY <1>1 DEF Supremum, Before
<1>3. Successor(idx, k) = Least(S)
  BY DEF Successor
<1>4. \A r : r \in S <=> r \in Records(idx) /\ Before(k, r)
  OBVIOUS
<1> HIDE DEF S, D, P
<1>5. Least(S) \in S /\ \A y \in S : Least(S) = y \/ Before(Least(S), y)
  BY <1>2, LeastExists
<1>6. ASSUME NEW i \in D
      PROVE  ~(Before(k, P(i)) /\ Before(P(i), Least(S)))
  <2>1. P(i) \in Places /\ Least(S) \in Places
    BY <1>1, <1>2, <1>5
  <2>2. CASE Before(k, P(i))
    <3>1. Least(S) = P(i) \/ Before(Least(S), P(i))
      BY <1>1, <1>4, <1>5, <2>2
    <3> QED BY <2>1, <3>1, BeforeOnce
  <2> QED BY <2>2
<1>7. \A i \in DOMAIN prog.data : ~(Before(k, Place(pl, idx, i)) /\ Before(Place(pl, idx, i), Least(S)))
  BY <1>6 DEF D, P
<1> QED BY <1>1, <1>3, <1>4, <1>5, <1>7 DEF Nexts

\* A session's statement: its kind, and what it is at its stage.
LEMMA CaseStage ==
  ASSUME NEW pl, NEW stops, CaseNow(pl, stops), NEW s \in Sessions, at[s].stage # "idle"
  PROVE  /\ pc[s] \in 1 .. Len(Script(s)) /\ Op(s).op = "sql"
         /\ at[s].stage \in {"index", "row"} => IsScan(Op(s).st) /\ Op(s).st.do # "insert"
         /\ at[s].stage \in {"insP", "insC"} => IsInsert(Op(s).st)
<1> DEFINE n == Len(Script(s))
<1>1. TypeInv /\ StageOK(s)
  BY DEF CaseNow, TypeInv
<1>2. n \in 0 .. 10 /\ pc[s] \in 1 .. n + 1
  BY <1>1 DEF TypeInv, ControlOK, WellTyped, IsScript, Script
<1>3. pc[s] <= n
  BY <1>1 DEF StageOK, InSql
<1> HIDE DEF n
<1>4. pc[s] \in 1 .. n
  BY <1>2, <1>3
<1>5. /\ Op(s).op = "sql"
      /\ at[s].stage \in {"index", "row"} => IsScan(Op(s).st)
      /\ at[s].stage \in {"insP", "insC"} => IsInsert(Op(s).st)
  BY <1>1 DEF StageOK, InSql
<1>6. IsScan(Op(s).st) => Op(s).st.do # "insert"
  BY DEF IsScan
<1> QED BY <1>4, <1>5, <1>6 DEF n

\* The request of a statement under way is one that it can make.
LEMMA CaseAsks ==
  ASSUME NEW pl, NEW stops, CaseNow(pl, stops), NEW s \in Sessions, at[s].stage \in {"index", "row", "insP", "insC"}
  PROVE  /\ Request(s, Op(s).st) \in Asks(pl, DOMAIN prog.data, s, Op(s).st)
         /\ at[s].stage = "index" => Request(s, Op(s).st) = IndexLock(s, Op(s).st, at[s].rec)
         /\ at[s].stage = "row" => Request(s, Op(s).st) = RowLock(s, Op(s).st, at[s].rec[2])
<1> DEFINE st  == Op(s).st
           req == Request(s, st)
           D   == DOMAIN prog.data
           J   == DOMAIN pl.col
<1>1. /\ at[s].stage \in {"index", "row"} => IsScan(st) /\ st.do # "insert"
      /\ at[s].stage \in {"insP", "insC"} => IsInsert(st)
  BY CaseStage
<1>2. Stands(pl, s) /\ iso[s] = "RR" /\ ColumnsNow(pl)
  BY CaseColumns DEF CaseNow, CaseInv, Local
<1>3. CASE at[s].stage = "index"
  <2>1. st.w \in Cond
    BY <1>1, <1>3 DEF IsScan
  <2>2. req = IndexLock(s, st, at[s].rec)
    BY <1>2, <1>3 DEF Request, IndexLock
  <2>3. From(st.w, Supremum)
    BY <2>1, SupremumEnds
  <2>4. at[s].rec \in AllPlaces(pl, st.w.idx, J) /\ From(st.w, at[s].rec)
    BY <1>2, <1>3, <2>3 DEF Stands, AllPlaces
  <2>5. req \in ScanAsks(pl, s, st)
    BY <2>2, <2>4 DEF ScanAsks
  <2> QED BY <1>1, <1>3, <2>2, <2>5 DEF Asks
<1>4. CASE at[s].stage = "row"
  <2>1. st.w \in Cond /\ st.w.idx \in {"p", "c"}
    BY <1>1, <1>4, CondParts DEF IsScan
  <2>2. req = RowLock(s, st, at[s].rec[2])
    BY <1>4 DEF Request, RowLock
  <2>3. ~InRange(st.w, Supremum)
    BY <2>1, SupremumEnds
  <2>4. PICK i \in J : at[s].rec = Place(pl, st.w.idx, i) /\ From(st.w, at[s].rec)
    BY <1>2, <1>4, <2>3 DEF Stands
  <2>5. InRange(st.w, at[s].rec)
    BY <1>2, <1>4 DEF Stands
  <2>6. at[s].rec[2] = i
    BY <1>2, <2>1, <2>4, ScanPlaces
  <2>7. i \in Scanned(pl, st.w)
    BY <2>4, <2>5 DEF Scanned
  <2>8. req \in ScanAsks(pl, s, st)
    BY <2>2, <2>6, <2>7 DEF ScanAsks
  <2> QED BY <1>1, <1>4, <2>2, <2>8 DEF Asks
<1>5. CASE at[s].stage \in {"insP", "insC"}
  <2>1. st.do = "insert" /\ st.id \in 0 .. 999 /\ st.c \in 0 .. 999
    BY <1>1, <1>5, InsertParts, ZenonT(60)
  <2>2. PICK idx \in {"p", "c"} : /\ req = Lock(s, idx, Successor(idx, InsertKey(st, idx)), "X", "insert")
                                  /\ InsertKey(st, idx) \in Places /\ InsertKey(st, idx)[1] \in 0 .. 999
    <3>1. CASE at[s].stage = "insP"
      <4>1. req = Lock(s, "p", Successor("p", <<st.id, st.id>>), "X", "insert")
        BY <3>1 DEF Request
      <4>2. InsertKey(st, "p") = <<st.id, st.id>>
        BY DEF InsertKey
      <4>3. <<st.id, st.id>> \in Places /\ <<st.id, st.id>>[1] \in 0 .. 999
        <5> HIDE DEF st
        <5> QED BY <2>1, PairPlaces, ZenonT(60)
      <4> HIDE DEF st, req
      <4> QED BY <4>1, <4>2, <4>3
    <3>2. CASE at[s].stage = "insC"
      <4>1. req = Lock(s, "c", Successor("c", <<st.c, st.id>>), "X", "insert")
        BY <3>2 DEF Request
      <4>2. InsertKey(st, "c") = <<st.c, st.id>>
        BY DEF InsertKey
      <4>3. <<st.c, st.id>> \in Places /\ <<st.c, st.id>>[1] \in 0 .. 999
        <5> HIDE DEF st
        <5> QED BY <2>1, PairPlaces, ZenonT(60)
      <4> HIDE DEF st, req
      <4> QED BY <4>1, <4>2, <4>3
    <3> QED BY <1>5, <3>1, <3>2, ZenonT(60)
  <2>3. Successor(idx, InsertKey(st, idx)) \in Nexts(pl, D, idx, InsertKey(st, idx))
    BY <2>2, CaseNext
  <2>4. req \in InsertAsks(pl, D, s, st)
    BY <2>2, <2>3 DEF InsertAsks
  <2> QED BY <1>5, <2>1, <2>4 DEF Asks
<1> QED BY <1>3, <1>4, <1>5

-----------------------------------------------------------------------------
(* The statements of B and C.                                                  *)

\* A step of a statement keeps its session's request one that the statement can make.
LEMMA StatementQueued ==
  ASSUME NEW pl, NEW stops, CaseNow(pl, stops), NEW s \in Sessions, InSql(s),
         (Start(s, Op(s).st) /\ Running(s)) \/ Wait(s, Op(s).st) \/ Proceed(s, Op(s).st), UNCHANGED <<prog, pc, err>>
  PROVE  Queued(pl, s)' /\ iso'[s] = "RR" /\ err'[s] \notin RolledBack /\ Failed(s)'
<1> DEFINE st == Op(s).st
<1>1. Op(s)' = Op(s) /\ err[s] \notin RolledBack /\ Queued(pl, s) /\ iso[s] = "RR"
  <2>1. Failed(s) /\ Queued(pl, s) /\ iso[s] = "RR"
    BY DEF CaseNow, CaseInv, Local
  <2>2. at[s].stage # "idle" \/ Running(s)
    BY DEF Wait, Proceed
  <2>3. Op(s)' = Op(s)
    BY DEF Op, Script
  <2> QED BY <2>1, <2>2, <2>3 DEF Failed, Running, RolledBack
<1>2. TypeInv /\ Tables /\ \A l \in locks : IsLock(l)
  BY DEF CaseNow, CaseInv
<1>3. iso' = iso
  BY <1>2, StatementFrame
<1>4. CASE Start(s, st)
  <2>1. at[s] = Idle /\ waits' = waits
    BY <1>4 DEF Start
  <2>2. at[s].stage = "idle"
    BY <2>1 DEF Idle
  <2>3. waits[s] = NoRequest
    BY <1>1, <2>2 DEF Queued
  <2> QED BY <1>1, <1>3, <2>1, <2>3 DEF Queued, Failed
<1>5. CASE Wait(s, st)
  <2>1. waits' = [waits EXCEPT ![s] = Request(s, st)] /\ at' = at /\ at[s].stage \in {"index", "row", "insP", "insC"}
    BY <1>5 DEF Wait, Enqueue
  <2>2. waits'[s] = Request(s, st)
    BY <1>2, <2>1 DEF Tables
  <2>3. /\ Request(s, st) \in Asks(pl, DOMAIN prog.data, s, st)
        /\ at[s].stage = "index" => Request(s, st) = IndexLock(s, st, at[s].rec)
    BY <2>1, CaseAsks
  <2>4. IndexLock(s, Op(s).st, at[s].rec)' = IndexLock(s, st, at[s].rec)
    BY <1>1, <2>1
  <2>5. Asks(pl, DOMAIN prog.data, s, Op(s).st)' = Asks(pl, DOMAIN prog.data, s, st)
    BY <1>1
  <2>6. Queued(pl, s)'
    BY <1>1, <2>1, <2>2, <2>3, <2>4, <2>5 DEF Queued
  <2> QED BY <1>1, <1>3, <2>1, <2>6 DEF Failed
<1>6. CASE Proceed(s, st)
  <2>1. waits'[s] = NoRequest
    BY <1>2, <1>6 DEF Proceed, Dequeue, Tables
  <2> QED BY <1>1, <1>3, <2>1 DEF Queued, Failed
<1> QED BY <1>4, <1>5, <1>6

\* Once B or C runs a statement, A has what it holds, unless its connection is closed.
LEMMA HeldHere ==
  ASSUME NEW pl, NEW stops, CaseNow(pl, stops), pc["A"] > 2, inTx["A"],
         NEW l \in Held(pl, stops, prog)
  PROVE  l \in locks /\ l.s = "A"
<1>1. Local(pl, stops, "A") /\ pc["A"] \in Nat
  BY SessionNames DEF CaseNow, CaseInv, TypeInv, ControlOK
<1>2. pc["A"] >= 3
  BY <1>1
<1> QED BY <1>1, <1>2 DEF Local, RunsA, MyLocks

\* What a scan asks for at a record of its range covers the record.
LEMMA ScanCovers ==
  ASSUME NEW s, NEW st, NEW r, r # Supremum, InRange(st.w, r)
  PROVE  CoversRec(IndexLock(s, st, r))
<1>1. ScanKind(st.w, r) \in {"rec", "nextkey"}
  BY DEF ScanKind
<1> QED BY <1>1 DEF IndexLock, Lock, CoversRec

\* A statement labelled "blocked" cannot get past A's locks.
LEMMA GateHolds ==
  ASSUME NEW pl, NEW stops, CaseNow(pl, stops), NEW s \in Sessions, s # "A", InSql(s), Op(s).blocked,
         inTx["A"], at[s].stage \in {"index", "row", "insP", "insC"}
  PROVE  \/ "A" \in Blockers(Request(s, Op(s).st))
         \/ Op(s).st.do = "insert" /\ at[s].stage = "insP" /\ ~Bars(pl, DOMAIN prog.data, Held(pl, stops, prog), Op(s).st, "p")
<1> DEFINE st  == Op(s).st
           req == Request(s, st)
           L   == Held(pl, stops, prog)
           D   == DOMAIN prog.data
<1>1. pc["A"] > 3 /\ pc["A"] > 2 /\ Works(pl, D, L, s, Script(s), pc[s])
  <2>1. pc["A"] \in Nat
    BY SessionNames DEF CaseNow, TypeInv, ControlOK
  <2> QED BY <2>1, CaseWorks
<1>2. Barred(pl, D, L, st)
  BY <1>1 DEF Works, Op
<1>3. AtGate(pl, s, L)
  BY DEF CaseNow, CaseInv, Local
<1>4. \A l \in L : l \in locks /\ l.s = "A"
  BY <1>1, HeldHere
<1>5. ASSUME NEW l \in L, Conflicts(req, l), ~Holds(req)
      PROVE  "A" \in Blockers(req)
  BY <1>4, <1>5 DEF Blockers
<1>6. req \in Asks(pl, D, s, st) /\ (at[s].stage = "index" => req = IndexLock(s, st, at[s].rec))
  BY CaseAsks
<1>7. CASE st.do = "insert"
  <2>1. PICK idx \in {"p", "c"} : \E r \in Nexts(pl, D, idx, InsertKey(st, idx)) : req = Lock(s, idx, r, "X", "insert")
    BY <1>6, <1>7 DEF Asks, InsertAsks
  <2>2. PICK r \in Nexts(pl, D, idx, InsertKey(st, idx)) : req = Lock(s, idx, r, "X", "insert")
    BY <2>1
  <2>3. req.s = s /\ req.idx = idx /\ req.rec = r /\ req.kind = "insert"
    BY <2>2 DEF Lock
  <2>4. ASSUME Bars(pl, D, L, st, idx)
        PROVE  "A" \in Blockers(req)
    <3>1. PICK l \in L : l.idx = idx /\ l.rec = r /\ CoversGap(l)
      BY <2>4 DEF Bars
    <3>2. Conflicts(req, l) /\ ~Holds(req)
      BY <1>4, <2>3, <3>1 DEF Conflicts, Holds
    <3> QED BY <1>5, <3>2
  <2>5. (at[s].stage = "insP" => idx = "p") /\ (at[s].stage = "insC" => idx = "c")
    BY <2>3 DEF Request, Lock
  <2>6. Bars(pl, D, L, st, "p") \/ Bars(pl, D, L, st, "c")
    BY <1>2, <1>7 DEF Barred
  <2>7. at[s].stage = "insP" \/ (at[s].stage = "insC" /\ ~Bars(pl, D, L, st, "p"))
    BY <1>3, <1>7 DEF AtGate
  <2> QED BY <1>7, <2>4, <2>5, <2>6, <2>7
<1>8. CASE st.do # "insert"
  <2>1. at[s].stage = "index" /\ at[s].rec \in Begins(pl, D, st.w) /\ MyLocks(s) = {}
    BY <1>3, <1>8 DEF AtGate
  <2>2. /\ st.mode = "X" /\ at[s].rec # Supremum /\ InRange(st.w, at[s].rec)
        /\ \E l \in L : l.idx = st.w.idx /\ l.rec = at[s].rec /\ CoversRec(l)
    BY <1>2, <1>8, <2>1 DEF Barred
  <2>3. PICK l \in L : l.idx = st.w.idx /\ l.rec = at[s].rec /\ CoversRec(l)
    BY <2>2
  <2>4. req = IndexLock(s, st, at[s].rec) /\ CoversRec(req)
    BY <1>6, <2>1, <2>2, ScanCovers
  <2>5. req.s = s /\ req.idx = st.w.idx /\ req.rec = at[s].rec /\ req.mode = "X"
    BY <2>2, <2>4 DEF IndexLock, Lock
  <2>6. Conflicts(req, l)
    BY <1>4, <2>3, <2>4, <2>5 DEF Conflicts
  <2>7. ~Holds(req)
    BY <2>1, <2>5 DEF Holds, MyLocks
  <2> QED BY <1>5, <2>6, <2>7
<1> QED BY <1>7, <1>8

\* Outside a transaction a statement has no more than what it was granted.
LEMMA WorkerTakes ==
  ASSUME NEW pl, NEW stops, CaseNow(pl, stops), NEW s \in Sessions, s # "A", InSql(s),
         Start(s, Op(s).st) \/ Wait(s, Op(s).st) \/ Proceed(s, Op(s).st)
  PROVE  MyLocks(s)' \subseteq Takes(pl, s, Op(s).st)
<1> DEFINE st  == Op(s).st
           req == Request(s, st)
           T   == Takes(pl, s, st)
<1>1. MyLocks(s) \subseteq T /\ Tables /\ \A l \in locks : IsLock(l)
  BY DEF CaseNow, CaseInv, Local, Alone
<1>2. CASE Start(s, st) \/ Wait(s, st)
  <2>1. locks' = locks
    BY <1>2 DEF Start, Wait
  <2> QED BY <1>1, <2>1 DEF MyLocks
<1>3. CASE Proceed(s, st)
  <2>1. /\ Blockers(req) = {} /\ at[s].stage \in {"index", "row", "insP", "insC"}
        /\ ScanIndex(s, st, req) \/ ScanRow(s, st, req) \/ InsertPrimary(s, st, req) \/ InsertSecondary(s, st, req)
    BY <1>3 DEF Proceed
  <2>2. /\ at[s].stage \in {"index", "row"} => st.do # "insert"
        /\ at[s].stage \in {"insP", "insC"} => st.do = "insert"
    <3>1. /\ at[s].stage \in {"index", "row"} => st.do # "insert"
          /\ at[s].stage \in {"insP", "insC"} => IsInsert(st)
      BY <2>1, CaseStage
    <3>2. IsInsert(st) => st.do = "insert"
      BY InsertDoes, ZenonT(60)
    <3> QED BY <3>1, <3>2, ZenonT(60)
  <2>3. req \in Asks(pl, DOMAIN prog.data, s, st)
    BY <2>1, CaseAsks
  <2>4. CASE ScanIndex(s, st, req) \/ ScanRow(s, st, req)
    <3>1. at[s].stage \in {"index", "row"} /\ locks' \subseteq locks \cup {req}
      BY <2>4, ZenonT(60) DEF ScanIndex, ScanRow, Reach
    <3>2. req \in T
      BY <2>2, <2>3, <3>1 DEF Takes, Asks
    <3> QED BY <1>1, <3>1, <3>2 DEF MyLocks
  <2>5. ASSUME NEW idx \in {"p", "c"}, st.do = "insert", req = Lock(s, idx, req.rec, "X", "insert"), NEW k, k = InsertKey(st, idx),
               locks' = locks \cup {Lock(s, idx, k, "X", "rec")} \cup Inherited(idx, req.rec, k)
        PROVE  MyLocks(s)' \subseteq T
    <3>1. Blockers(Lock(s, idx, req.rec, "X", "insert")) = {}
      BY <2>1, <2>5
    <3>2. \A l \in Inherited(idx, req.rec, k) :
             \E m \in MyLocks(s) : m.idx = idx /\ CoversGap(m) /\ l = Lock(s, idx, k, m.mode, "gap")
      BY <1>1, <3>1, InheritsOwn
    <3>3. \A m \in MyLocks(s) : ~CoversGap(m)
      BY <1>1, <2>5 DEF Takes, Lock, CoversGap
    <3>4. Lock(s, idx, k, "X", "rec") \in T
      BY <2>5 DEF Takes
    <3> QED BY <1>1, <2>5, <3>2, <3>3, <3>4 DEF MyLocks
  <2>6. CASE InsertPrimary(s, st, req)
    <3>1. /\ at[s].stage = "insP"
          /\ locks' = locks \cup {Lock(s, "p", <<st.id, st.id>>, "X", "rec")} \cup Inherited("p", req.rec, <<st.id, st.id>>)
      BY <2>6 DEF InsertPrimary
    <3>2. req = Lock(s, "p", req.rec, "X", "insert")
      BY <3>1 DEF Request, Lock
    <3>3. <<st.id, st.id>> = InsertKey(st, "p")
      BY DEF InsertKey
    <3> QED BY <2>2, <2>5, <3>1, <3>2, <3>3
  <2>7. CASE InsertSecondary(s, st, req)
    <3>1. /\ at[s].stage = "insC"
          /\ locks' = locks \cup {Lock(s, "c", <<st.c, st.id>>, "X", "rec")} \cup Inherited("c", req.rec, <<st.c, st.id>>)
      BY <2>7 DEF InsertSecondary
    <3>2. req = Lock(s, "c", req.rec, "X", "insert")
      BY <3>1 DEF Request, Lock
    <3>3. <<st.c, st.id>> = InsertKey(st, "c")
      BY DEF InsertKey
    <3> QED BY <2>2, <2>5, <3>1, <3>2, <3>3
  <2> QED BY <2>1, <2>4, <2>6, <2>7
<1> QED BY <1>2, <1>3

\* Where a step leaves the statement.
LEMMA StatementStage ==
  ASSUME NEW pl, NEW stops, CaseNow(pl, stops), NEW s \in Sessions, InSql(s),
         Start(s, Op(s).st) \/ Wait(s, Op(s).st) \/ Proceed(s, Op(s).st), UNCHANGED <<prog, pc>>
  PROVE  /\ at'[s].stage \in {"index", "row", "insP", "insC", "end"}
         /\ Wait(s, Op(s).st) => at'[s] = at[s]
         /\ Proceed(s, Op(s).st) => /\ at[s].stage = "insP" => at'[s].stage = "insC"
                                    /\ at[s].stage = "insC" => at'[s].stage = "end"
<1> DEFINE st  == Op(s).st
           req == Request(s, st)
<1>1. TypeInv /\ ColumnsNow(pl) /\ Stands(pl, s)
  BY CaseColumns
<1>2. CASE Start(s, st)
  <2>1. at'[s].stage \in {"insP", "index"}
    BY <1>1, <1>2, StartStands
  <2>2. at[s].stage = "idle"
    BY <1>2 DEF Start, Idle
  <2>3. ~Wait(s, st) /\ ~Proceed(s, st)
    BY <2>2 DEF Wait, Proceed
  <2> QED BY <2>1, <2>3
<1>3. CASE Wait(s, st)
  <2>1. at' = at /\ at[s].stage \in {"index", "row", "insP", "insC"}
    BY <1>3 DEF Wait
  <2>2. ~Proceed(s, st)
    BY <1>3 DEF Wait, Proceed
  <2> QED BY <2>1, <2>2
<1>4. CASE Proceed(s, st)
  <2>1. ~Wait(s, st)
    BY <1>4 DEF Wait, Proceed
  <2>2. ScanIndex(s, st, req) \/ ScanRow(s, st, req) \/ InsertPrimary(s, st, req) \/ InsertSecondary(s, st, req)
    BY <1>4 DEF Proceed
  <2>3. ASSUME NEW h, at' = [at EXCEPT ![s].stage = h]
        PROVE  at'[s].stage = h
    <3>1. at' = [at EXCEPT ![s] = [stage |-> h, rec |-> at[s].rec, hits |-> at[s].hits]]
      BY <1>1, <2>3, StageEnds
    <3> QED BY <1>1, <3>1 DEF TypeInv
  <2>4. CASE ScanIndex(s, st, req) \/ ScanRow(s, st, req)
    <3>1. at[s].stage \in {"index", "row"}
      BY <2>4 DEF ScanIndex, ScanRow
    <3>2. \/ InRange(st.w, at[s].rec) /\ Reach(s, st, req)
          \/ \E h \in {"row", "end"} : at' = [at EXCEPT ![s].stage = h]
      BY <1>1, <2>4 DEF ScanIndex, ScanRow, Stands
    <3>3. at'[s].stage \in {"index", "row", "end"}
      BY <1>1, <2>3, <3>1, <3>2, ReachStands
    <3> QED BY <2>1, <3>1, <3>3
  <2>5. CASE InsertPrimary(s, st, req)
    <3>1. at[s].stage = "insP" /\ at'[s].stage = "insC"
      BY <2>3, <2>5 DEF InsertPrimary
    <3> QED BY <2>1, <3>1
  <2>6. CASE InsertSecondary(s, st, req)
    <3>1. at[s].stage = "insC" /\ at'[s].stage = "end"
      BY <2>3, <2>6 DEF InsertSecondary
    <3> QED BY <2>1, <3>1
  <2> QED BY <2>2, <2>4, <2>5, <2>6
<1> QED BY <1>2, <1>3, <1>4

\* A statement of B or C goes on, and one labelled "blocked" stays where it is.
LEMMA WorkerStatement ==
  ASSUME NEW pl, NEW stops, CaseNow(pl, stops), NEW s \in Sessions, s # "A", InSql(s),
         (Start(s, Op(s).st) /\ Running(s)) \/ Wait(s, Op(s).st) \/ Proceed(s, Op(s).st),
         UNCHANGED <<prog, pc, err, dropped>>
  PROVE  Local(pl, stops, s)'
<1> DEFINE st  == Op(s).st
           req == Request(s, st)
           L   == Held(pl, stops, prog)
           D   == DOMAIN prog.data
<1>1. Alone(pl, s) /\ AtGate(pl, s, L) /\ TypeInv /\ Tables /\ \A l \in locks : IsLock(l)
  BY DEF CaseNow, CaseInv, Local
<1>2. Op(s)' = Op(s) /\ L' = L /\ D' = D
  BY DEF Op, Script
<1>3. Queued(pl, s)' /\ iso'[s] = "RR" /\ Failed(s)'
  BY StatementQueued
<1>4. Stands(pl, s)'
  BY KeysStatement
<1>5. /\ at'[s].stage \in {"index", "row", "insP", "insC", "end"}
      /\ Wait(s, st) => at'[s] = at[s]
      /\ Proceed(s, st) /\ at[s].stage = "insP" => at'[s].stage = "insC"
  BY StatementStage
<1>6. inTx' = inTx /\ inTx'[s] = FALSE
  BY <1>1, StatementFrame DEF Alone
<1>7. MyLocks(s)' \subseteq Takes(pl, s, st)
  BY WorkerTakes
<1>8. Alone(pl, s)'
  BY <1>2, <1>5, <1>6, <1>7 DEF Alone
<1>9. ASSUME inTx["A"], Op(s).blocked
      PROVE  IF st.do = "insert"
             THEN at'[s].stage = "insP" \/ (at'[s].stage = "insC" /\ ~Bars(pl, D, L, st, "p"))
             ELSE /\ at'[s].stage = "index" /\ at'[s].rec \in Begins(pl, D, st.w)
                  /\ MyLocks(s)' = {} /\ undo'[s] = << >>
  <2>1. CASE Start(s, st)
    <3>1. /\ at[s] = Idle /\ locks' = locks /\ undo' = undo
          /\ at' = [at EXCEPT ![s] = IF st.do = "insert" THEN [Idle EXCEPT !.stage = "insP"]
                                     ELSE [stage |-> "index", rec |-> FirstOf(st.w), hits |-> {}]]
      BY <2>1 DEF Start
    <3>2. CASE st.do = "insert"
      <4>1. at'[s] = [Idle EXCEPT !.stage = "insP"]
        BY <1>1, <3>1, <3>2 DEF TypeInv
      <4>2. [Idle EXCEPT !.stage = "insP"].stage = "insP"
        BY DEF Idle
      <4> QED BY <3>2, <4>1, <4>2
    <3>3. CASE st.do # "insert"
      <4>1. at'[s].stage = "index" /\ at'[s].rec = FirstOf(st.w)
        BY <1>1, <3>1, <3>3 DEF TypeInv
      <4>2. st.w \in Cond
        <5>1. IsScan(st)
          BY <1>1, <3>3, NoInsert, ZenonT(60)
        <5> QED BY <5>1 DEF IsScan
      <4>3. FirstOf(st.w) \in Begins(pl, D, st.w)
        BY <4>2, CaseFirst
      <4>4. at[s].stage = "idle"
        BY <3>1 DEF Idle
      <4>5. MyLocks(s)' = {} /\ undo'[s] = << >>
        BY <1>1, <3>1, <4>4 DEF Alone, MyLocks
      <4> QED BY <3>3, <4>1, <4>3, <4>5
    <3> QED BY <3>2, <3>3
  <2>2. CASE Wait(s, st)
    <3>1. at'[s] = at[s] /\ locks' = locks /\ undo' = undo /\ at[s].stage # "idle"
      BY <1>5, <2>2 DEF Wait
    <3> QED BY <1>1, <1>9, <3>1 DEF AtGate, MyLocks
  <2>3. CASE Proceed(s, st)
    <3>1. Blockers(req) = {} /\ at[s].stage \in {"index", "row", "insP", "insC"}
      BY <2>3 DEF Proceed
    <3>2. st.do = "insert" /\ at[s].stage = "insP" /\ ~Bars(pl, D, L, st, "p")
      BY <1>9, <3>1, GateHolds
    <3> QED BY <1>5, <2>3, <3>2
  <2> QED BY <2>1, <2>2, <2>3
<1>10. AtGate(pl, s, L)'
  BY <1>2, <1>6, <1>9 DEF AtGate
<1>11. Rests(s)'
  BY <1>5 DEF Rests
<1> QED BY <1>2, <1>3, <1>4, <1>8, <1>10, <1>11 DEF Local

-----------------------------------------------------------------------------
(* A's scan.                                                                   *)

\* The stops of the scan, one by one.
LEMMA StopsGrow ==
  ASSUME NEW stops, NEW k \in Nat, k >= 1
  PROVE  StopsTo(stops, k) = StopsTo(stops, k - 1) \cup {stops[k]} /\ StopsTo(stops, 0) = {}
<1>1. 1 .. k = (1 .. k - 1) \cup {k} /\ 1 .. 0 = {}
  OBVIOUS
<1> QED BY <1>1 DEF StopsTo

\* Where the scan stands, and what has become of the table.
LEMMA WalkHere ==
  ASSUME NEW pl, NEW stops, CaseNow(pl, stops), InSql("A"), pc["A"] = 2, Scans
  PROVE  /\ Op("A").st = AScan(prog) /\ IsScan(AScan(prog)) /\ AScan(prog).do \notin {"insert", "select5"}
         /\ Ids = DOMAIN prog.data /\ \A i \in Ids \ at["A"].hits : ~rows[i].del
         /\ MyLocks("A") \subseteq Held(pl, stops, prog) /\ AWalks(pl, stops)
         /\ Walks(pl, DOMAIN prog.data, AScan(prog), stops) /\ iso["A"] = "RR"
<1>1. Local(pl, stops, "A") /\ ScriptA(prog) /\ Walks(pl, DOMAIN prog.data, AScan(prog), stops) /\ TypeInv
  BY SessionNames DEF CaseNow, CaseInv, CasePlan
<1>2. Op("A") = prog.script["A"][2]
  BY <1>1 DEF Op, Script
<1>3. Op("A").st = AScan(prog) /\ AScan(prog).do \notin {"insert", "select5"}
  BY <1>1, <1>2 DEF ScriptA, AScan
<1>4. IsScan(AScan(prog))
  <2>1. IsScan(Op("A").st) \/ IsInsert(Op("A").st)
    BY <1>1, OpAt, SessionNames
  <2> QED BY <1>3, <2>1 DEF IsInsert
<1>5. RunsA(pl, stops) /\ pc["A"] <= 2 /\ iso["A"] = "RR"
  BY <1>1 DEF Local
<1> QED BY <1>1, <1>2, <1>3, <1>4, <1>5 DEF RunsA

\* A place of a row.
IsPlace(r) == r \in Places /\ r[1] \in 0 .. 999

\* A prepared row has a place.
LEMMA PreparedPlace ==
  ASSUME NEW pl, NEW stops, CaseNow(pl, stops), NEW idx \in {"p", "c"}, NEW i \in DOMAIN prog.data,
         NEW r, r = Place(pl, idx, i)
  PROVE  IsPlace(r)
<1>1. ColumnsNow(pl) /\ i \in DOMAIN pl.col
  BY CaseColumns
<1> QED BY <1>1, ScanPlaces DEF IsPlace

\* At a stop in its range the scan takes the row and goes on to the next stop, or is over.
LEMMA WalkReach ==
  ASSUME NEW pl, NEW stops, CaseNow(pl, stops), InSql("A"), pc["A"] = 2, Scans, NEW k \in 1 .. Len(stops),
         at["A"].rec = StopPlace(pl, AScan(prog), stops[k]), at["A"].hits = StopsTo(stops, k - 1),
         \A j \in 1 .. k - 1 : StopLocks(pl, AScan(prog), stops[j]) \subseteq MyLocks("A"),
         InRange(AScan(prog).w, at["A"].rec), NEW held, held.s = "A",
         held \in StopLocks(pl, AScan(prog), stops[k]),
         StopLocks(pl, AScan(prog), stops[k]) \subseteq MyLocks("A") \cup {held},
         Reach("A", AScan(prog), held)
  PROVE  /\ Ids' = Ids /\ (\A i \in Ids \ at'["A"].hits : ~rows'[i].del)
         /\ MyLocks("A")' = MyLocks("A") \cup {held}
         /\ \/ at'["A"].stage = "end" /\ Held(pl, stops, prog) \subseteq MyLocks("A")'
            \/ /\ k + 1 \in 1 .. Len(stops) /\ at'["A"].stage = "index"
               /\ at'["A"].rec = StopPlace(pl, AScan(prog), stops[k + 1]) /\ at'["A"].hits = StopsTo(stops, k)
               /\ \A j \in 1 .. k : StopLocks(pl, AScan(prog), stops[j]) \subseteq MyLocks("A")'
<1> DEFINE st  == AScan(prog)
           D   == DOMAIN prog.data
           r   == at["A"].rec
           id  == stops[k]
           n   == Len(stops)
           idx == st.w.idx
<1>1. /\ IsScan(st) /\ st.do # "select5" /\ Ids = D /\ \A i \in Ids \ at["A"].hits : ~rows[i].del
      /\ Walks(pl, D, st, stops) /\ iso["A"] = "RR"
  BY WalkHere
<1>2. n \in 1 .. 3 /\ k \in 1 .. n /\ k \in Nat /\ k >= 1
  <2>1. n \in 1 .. 3 /\ k \in 1 .. n
    BY <1>1 DEF Walks
  <2> HIDE DEF n
  <2> QED BY <2>1
<1>3. /\ id \in D /\ id \notin StopsTo(stops, k - 1) /\ Cardinality(StopsTo(stops, k)) = k
  BY <1>1, <1>2 DEF Walks
<1>4. r[2] = id /\ r = Place(pl, idx, id)
  BY DEF StopPlace, Place
<1>5. idx \in {"p", "c"} /\ st.w \in Cond
  BY <1>1, CondParts DEF IsScan
<1>6. Matches(st, r[2])
  BY <1>1, <1>3, <1>4 DEF Matches, Ids
<1>7. at["A"].hits \cup {r[2]} = StopsTo(stops, k)
  BY <1>2, <1>4, StopsGrow
<1> DEFINE over == Over(pl, st, stops, k)
<1>8. /\ \E new : rows' = [rows EXCEPT ![id] = new]
      /\ locks' = locks \cup {held}
      /\ at' = [at EXCEPT !["A"] = IF over THEN [stage |-> "end", rec |-> r, hits |-> StopsTo(stops, k)]
                                   ELSE [stage |-> "index", rec |-> Successor(idx, r), hits |-> StopsTo(stops, k)]]
  BY <1>1, <1>3, <1>4, <1>6, <1>7 DEF Reach, Over
<1>9. PICK new : rows' = [rows EXCEPT ![id] = new]
  BY <1>8
<1>10. Ids' = Ids /\ \A i \in Ids : i # id => rows'[i] = rows[i]
  BY <1>9 DEF Ids
<1>11. at = [s \in Sessions |-> at[s]] /\ "A" \in Sessions /\ TypeInv
  BY SessionNames DEF CaseNow, TypeInv
<1>12. /\ at'["A"].hits = StopsTo(stops, k)
       /\ over => at'["A"].stage = "end"
       /\ ~over => at'["A"].stage = "index" /\ at'["A"].rec = Successor(idx, r)
  BY <1>8, <1>11
<1>13. \A i \in Ids \ at'["A"].hits : ~rows'[i].del
  BY <1>1, <1>4, <1>7, <1>10, <1>12
<1>14. MyLocks("A")' = MyLocks("A") \cup {held}
  BY <1>8 DEF MyLocks
<1>15. \A j \in 1 .. k : StopLocks(pl, st, stops[j]) \subseteq MyLocks("A")'
  <2> SUFFICES ASSUME NEW j \in 1 .. k PROVE StopLocks(pl, st, stops[j]) \subseteq MyLocks("A")'
    OBVIOUS
  <2>1. j \in 1 .. k - 1 \/ j = k
    BY <1>2
  <2> QED BY <1>14, <2>1
<1>16. CASE over
  <2>1. k = n
    <3>1. k \in 1 .. n - 1 => ~over
      BY <1>1 DEF Walks
    <3> HIDE DEF n, over
    <3> QED BY <1>2, <1>16, <3>1
  <2>2. Held(pl, stops, prog) \subseteq MyLocks("A")'
    BY <1>15, <2>1 DEF Held, WalkLocks
  <2> QED BY <1>10, <1>12, <1>13, <1>14, <1>16, <2>2
<1>17. CASE ~over
  <2>1. k # n
    BY <1>1, <1>17 DEF Walks
  <2>2. k \in 1 .. n - 1 /\ k + 1 \in 1 .. n
    <3> HIDE DEF n
    <3> QED BY <1>2, <2>1
  <2>3. Nexts(pl, D, idx, StopPlace(pl, st, stops[k])) \cap AllPlaces(pl, idx, D) \subseteq {StopPlace(pl, st, stops[k + 1])}
    BY <1>1, <2>2 DEF Walks
  <2>4. IsPlace(r)
    <3>1. id \in DOMAIN prog.data
      BY <1>3
    <3> HIDE DEF r, id, idx
    <3> QED BY <1>4, <1>5, <3>1, PreparedPlace
  <2>5. Successor(idx, r) \in Nexts(pl, D, idx, r) /\ Successor(idx, r) \in Records(idx)
    BY <1>5, <2>4, CaseNext DEF IsPlace
  <2>6. Records(idx) \subseteq AllPlaces(pl, idx, D)
    BY <1>1, <1>5, CaseRecords
  <2>7. Successor(idx, r) = StopPlace(pl, st, stops[k + 1])
    BY <2>3, <2>5, <2>6
  <2> QED BY <1>10, <1>12, <1>13, <1>14, <1>15, <1>17, <2>2, <2>7
<1> QED BY <1>16, <1>17

\* A step of A's scan: it starts at the first stop, locks what it stands at, and goes on.
LEMMA WalkStatement ==
  ASSUME NEW pl, NEW stops, CaseNow(pl, stops), InSql("A"), pc["A"] = 2, Scans,
         Start("A", Op("A").st) \/ Wait("A", Op("A").st) \/ Proceed("A", Op("A").st), UNCHANGED <<prog, pc, err, dropped>>
  PROVE  /\ Ids' = Ids /\ (\A i \in Ids \ at'["A"].hits : ~rows'[i].del)
         /\ MyLocks("A")' \subseteq Held(pl, stops, prog) /\ AWalks(pl, stops)'
<1> DEFINE st  == AScan(prog)
           req == Request("A", st)
           D   == DOMAIN prog.data
           n   == Len(stops)
           idx == st.w.idx
           H   == Held(pl, stops, prog)
<1>1. /\ Op("A").st = st /\ IsScan(st) /\ st.do # "insert" /\ Ids = D /\ \A i \in Ids \ at["A"].hits : ~rows[i].del
      /\ Walks(pl, D, st, stops) /\ iso["A"] = "RR" /\ MyLocks("A") \subseteq H /\ AWalks(pl, stops)
  BY WalkHere
<1>2. /\ at = [s \in Sessions |-> at[s]] /\ TypeInv /\ "A" \in Sessions
      /\ at["A"] = [stage |-> at["A"].stage, rec |-> at["A"].rec, hits |-> at["A"].hits]
  BY SessionNames DEF CaseNow, TypeInv, StageOK
<1>3. n \in 1 .. 3
  BY <1>1 DEF Walks
<1>4. AScan(prog)' = st /\ H' = H
  OBVIOUS
<1>5. \A k \in 1 .. n : StopLocks(pl, st, stops[k]) \subseteq H
  BY DEF Held, WalkLocks
<1>6. Start("A", st) \/ Wait("A", st) \/ Proceed("A", st)
  BY <1>1
<1>7. CASE Start("A", st)
  <2>1. /\ at["A"] = Idle /\ rows' = rows /\ locks' = locks
        /\ at' = [at EXCEPT !["A"] = [stage |-> "index", rec |-> FirstOf(st.w), hits |-> {}]]
    BY <1>1, <1>7 DEF Start
  <2>2. at'["A"].stage = "index" /\ at'["A"].rec = FirstOf(st.w) /\ at'["A"].hits = {}
    BY <1>2, <2>1
  <2>3. at["A"].stage = "idle" /\ at["A"].hits = {}
    BY <2>1 DEF Idle
  <2>4. st.w \in Cond /\ idx \in {"p", "c"}
    BY <1>1, CondParts DEF IsScan
  <2>5. FirstOf(st.w) \in Begins(pl, D, st.w) /\ FirstOf(st.w) \in Records(idx)
    BY <2>4, CaseFirst
  <2>6. Records(idx) \subseteq AllPlaces(pl, idx, D)
    BY <1>1, <2>4, CaseRecords
  <2>7. FirstOf(st.w) = StopPlace(pl, st, stops[1])
    BY <1>1, <2>5, <2>6 DEF Walks
  <2>8. StopsTo(stops, 0) = {}
    BY StopsGrow
  <2>9. AWalks(pl, stops)'
    <3>1. 1 \in 1 .. n /\ 1 - 1 = 0 /\ 1 .. 1 - 1 = {}
      <4> HIDE DEF n
      <4> QED BY <1>3
    <3> QED BY <1>4, <2>2, <2>7, <2>8, <3>1 DEF AWalks
  <2>10. Ids' = Ids /\ MyLocks("A")' = MyLocks("A")
    BY <2>1 DEF Ids, MyLocks
  <2> QED BY <1>1, <2>1, <2>2, <2>3, <2>9, <2>10
<1>8. CASE Wait("A", st)
  <2>1. at' = at /\ rows' = rows /\ locks' = locks /\ undo' = undo
    BY <1>8 DEF Wait
  <2>2. Ids' = Ids /\ MyLocks("A")' = MyLocks("A")
    BY <2>1 DEF Ids, MyLocks
  <2>3. AWalks(pl, stops)'
    BY <1>1, <1>4, <2>1, <2>2 DEF AWalks
  <2> QED BY <1>1, <2>1, <2>2, <2>3
<1>9. CASE Proceed("A", st)
  <2>1. at["A"].stage \in {"index", "row", "insP", "insC"}
    BY <1>9 DEF Proceed
  <2>2. PICK k \in 1 .. n :
          /\ at["A"].rec = StopPlace(pl, st, stops[k]) /\ at["A"].hits = StopsTo(stops, k - 1)
          /\ \A j \in 1 .. k - 1 : StopLocks(pl, st, stops[j]) \subseteq MyLocks("A")
          /\ \/ at["A"].stage = "index"
             \/ /\ at["A"].stage = "row" /\ NeedsRow(st) /\ InRange(st.w, at["A"].rec)
                /\ IndexLock("A", st, at["A"].rec) \in MyLocks("A")
    BY <1>1, <2>1 DEF AWalks
  <2>3. /\ at["A"].stage = "index" => req = IndexLock("A", st, at["A"].rec)
        /\ at["A"].stage = "row" => req = RowLock("A", st, stops[k])
        /\ req.s = "A"
    <3>1. at["A"].rec[2] = stops[k]
      BY <2>2 DEF StopPlace, Place
    <3> QED BY <1>1, <1>2, <2>1, <3>1, CaseAsks, RequestOwned
  <2>4. /\ at["A"].stage = "index" => ScanIndex("A", st, req)
        /\ at["A"].stage = "row" => ScanRow("A", st, req)
    BY <1>9, <2>1 DEF Proceed, ScanIndex, ScanRow, InsertPrimary, InsertSecondary
  <2>5. k \in 1 .. 3 /\ k \in Nat /\ k - 1 \in Nat
    <3> HIDE DEF n
    <3> QED BY <1>3
  <2>6. ASSUME InRange(st.w, at["A"].rec), req \in StopLocks(pl, st, stops[k]),
               StopLocks(pl, st, stops[k]) \subseteq MyLocks("A") \cup {req}, Reach("A", st, req)
        PROVE  /\ Ids' = Ids /\ (\A i \in Ids \ at'["A"].hits : ~rows'[i].del)
               /\ MyLocks("A")' \subseteq H /\ AWalks(pl, stops)'
    <3>1. /\ Ids' = Ids /\ (\A i \in Ids \ at'["A"].hits : ~rows'[i].del)
          /\ MyLocks("A")' = MyLocks("A") \cup {req}
          /\ \/ at'["A"].stage = "end" /\ H \subseteq MyLocks("A")'
             \/ /\ k + 1 \in 1 .. n /\ at'["A"].stage = "index"
                /\ at'["A"].rec = StopPlace(pl, st, stops[k + 1]) /\ at'["A"].hits = StopsTo(stops, k)
                /\ \A j \in 1 .. k : StopLocks(pl, st, stops[j]) \subseteq MyLocks("A")'
      BY <2>2, <2>3, <2>6, WalkReach
    <3>2. MyLocks("A")' \subseteq H
      BY <1>1, <1>5, <2>6, <3>1
    <3>3. AWalks(pl, stops)'
      <4>1. CASE at'["A"].stage = "end" /\ H \subseteq MyLocks("A")'
        BY <1>4, <4>1 DEF AWalks
      <4>2. ASSUME NEW m \in 1 .. n, m = k + 1, at'["A"].stage = "index",
                   at'["A"].rec = StopPlace(pl, st, stops[m]), at'["A"].hits = StopsTo(stops, k),
                   \A j \in 1 .. k : StopLocks(pl, st, stops[j]) \subseteq MyLocks("A")'
            PROVE  AWalks(pl, stops)'
        <5>1. m - 1 = k
          BY <2>5, <4>2
        <5> QED BY <1>4, <4>2, <5>1 DEF AWalks
      <4> QED BY <3>1, <4>1, <4>2
    <3> QED BY <3>1, <3>2, <3>3
  <2>7. CASE at["A"].stage = "row"
    <3>1. IndexLock("A", st, at["A"].rec) \in MyLocks("A") /\ InRange(st.w, at["A"].rec) /\ NeedsRow(st)
      BY <2>2, <2>7
    <3>2. StopLocks(pl, st, stops[k]) = {IndexLock("A", st, at["A"].rec), req}
      BY <2>2, <2>3, <2>7, <3>1 DEF StopLocks
    <3>3. Reach("A", st, req)
      BY <2>4, <2>7 DEF ScanRow
    <3> QED BY <2>6, <3>1, <3>2, <3>3
  <2>8. CASE at["A"].stage = "index" /\ InRange(st.w, at["A"].rec) /\ ~NeedsRow(st)
    <3>1. StopLocks(pl, st, stops[k]) = {req}
      BY <2>2, <2>3, <2>8 DEF StopLocks
    <3>2. Reach("A", st, req)
      BY <2>4, <2>8 DEF ScanIndex
    <3> QED BY <2>6, <2>8, <3>1, <3>2
  <2>9. CASE at["A"].stage = "index" /\ ~(InRange(st.w, at["A"].rec) /\ ~NeedsRow(st))
    <3> DEFINE h == IF InRange(st.w, at["A"].rec) THEN "row" ELSE "end"
    <3>1. /\ at' = [at EXCEPT !["A"].stage = h] /\ locks' = locks \cup {req} /\ rows' = rows
      BY <1>1, <2>4, <2>9 DEF ScanIndex
    <3>2. at'["A"].stage = h /\ at'["A"].rec = at["A"].rec /\ at'["A"].hits = at["A"].hits
      <4>1. at' = [at EXCEPT !["A"] = [stage |-> h, rec |-> at["A"].rec, hits |-> at["A"].hits]]
        BY <1>2, <3>1, StageEnds
      <4> HIDE DEF h
      <4> QED BY <1>2, <4>1
    <3>3. MyLocks("A")' = MyLocks("A") \cup {req}
      BY <2>3, <3>1 DEF MyLocks
    <3>4. req \in StopLocks(pl, st, stops[k]) /\ req = IndexLock("A", st, at["A"].rec)
      BY <2>2, <2>3, <2>9 DEF StopLocks
    <3>5. Ids' = Ids
      BY <3>1 DEF Ids
    <3>6. AWalks(pl, stops)'
      <4>1. CASE InRange(st.w, at["A"].rec)
        <5>1. /\ at'["A"].rec = StopPlace(pl, st, stops[k]) /\ at'["A"].hits = StopsTo(stops, k - 1)
              /\ \A j \in 1 .. k - 1 : StopLocks(pl, st, stops[j]) \subseteq MyLocks("A")'
              /\ at'["A"].stage = "row" /\ NeedsRow(st) /\ InRange(st.w, at'["A"].rec)
              /\ IndexLock("A", st, at'["A"].rec) \in MyLocks("A")'
          BY <2>2, <2>9, <3>2, <3>3, <3>4, <4>1
        <5> QED BY <1>4, <5>1 DEF AWalks
      <4>2. CASE ~InRange(st.w, at["A"].rec)
        <5>1. k = n
          <6>1. k \in 1 .. n - 1 => InRange(st.w, at["A"].rec)
            BY <1>1, <2>2 DEF Walks
          <6> HIDE DEF n
          <6> QED BY <1>3, <4>2, <6>1
        <5>2. StopLocks(pl, st, stops[k]) = {req}
          BY <2>2, <3>4, <4>2 DEF StopLocks
        <5>3. \A j \in 1 .. n : StopLocks(pl, st, stops[j]) \subseteq MyLocks("A")'
          <6> SUFFICES ASSUME NEW j \in 1 .. n PROVE StopLocks(pl, st, stops[j]) \subseteq MyLocks("A")'
            OBVIOUS
          <6>1. j \in 1 .. k - 1 \/ j = k
            <7> HIDE DEF n
            <7> QED BY <1>3, <5>1
          <6> QED BY <2>2, <3>3, <5>2, <6>1
        <5>4. H \subseteq MyLocks("A")'
          BY <5>3 DEF Held, WalkLocks
        <5> QED BY <1>4, <3>2, <4>2, <5>4 DEF AWalks
      <4> QED BY <4>1, <4>2
    <3> QED BY <1>1, <1>5, <3>1, <3>2, <3>3, <3>4, <3>5, <3>6
  <2> QED BY <2>2, <2>7, <2>8, <2>9
<1> QED BY <1>6, <1>7, <1>8, <1>9

\* A's insert adds to what the scan holds only the new record and gaps.
LEMMA InsertOfA ==
  ASSUME NEW pl, NEW stops, CaseNow(pl, stops), InSql("A"), Op("A").st.do = "insert",
         Start("A", Op("A").st) \/ Wait("A", Op("A").st) \/ Proceed("A", Op("A").st)
  PROVE  /\ MyLocks("A") \subseteq MyLocks("A")'
         /\ \A l \in MyLocks("A")' \ MyLocks("A") : CoversRec(l) => l.rec[2] \in pl.own["A"]
<1> DEFINE st  == Op("A").st
           req == Request("A", st)
<1>1. Tables /\ TypeInv /\ (\A l \in locks : IsLock(l)) /\ "A" \in Sessions /\ Planned(pl, prog)
  BY SessionNames, CaseColumns DEF CaseNow, CaseInv
<1>2. CASE Start("A", st) \/ Wait("A", st)
  <2>1. locks' = locks
    BY <1>2 DEF Start, Wait
  <2> QED BY <2>1 DEF MyLocks
<1>3. CASE Proceed("A", st)
  <2>1. st.id \in pl.own["A"]
    <3>1. InsertOf("A", st.id) /\ InSql("A")
      BY DEF InsertOf, InSql
    <3> QED BY <1>1, <3>1, InsertKeeps
  <2>2. /\ at["A"].stage \in {"index", "row", "insP", "insC"}
        /\ ScanIndex("A", st, req) \/ ScanRow("A", st, req) \/ InsertPrimary("A", st, req) \/ InsertSecondary("A", st, req)
    BY <1>3 DEF Proceed
  <2>3. at["A"].stage \notin {"index", "row"}
    BY <1>1, <2>2, CaseStage
  <2>4. \E idx \in {"p", "c"} : \E k : k[2] = st.id /\
           locks' = locks \cup {Lock("A", idx, k, "X", "rec")} \cup Inherited(idx, req.rec, k)
    <3>1. CASE InsertPrimary("A", st, req)
      <4>1. locks' = locks \cup {Lock("A", "p", <<st.id, st.id>>, "X", "rec")} \cup Inherited("p", req.rec, <<st.id, st.id>>)
        BY <3>1 DEF InsertPrimary
      <4>2. <<st.id, st.id>>[2] = st.id
        OBVIOUS
      <4> QED BY <4>1, <4>2
    <3>2. CASE InsertSecondary("A", st, req)
      <4>1. locks' = locks \cup {Lock("A", "c", <<st.c, st.id>>, "X", "rec")} \cup Inherited("c", req.rec, <<st.c, st.id>>)
        BY <3>2 DEF InsertSecondary
      <4>2. <<st.c, st.id>>[2] = st.id
        OBVIOUS
      <4> QED BY <4>1, <4>2
    <3> QED BY <2>2, <2>3, <3>1, <3>2 DEF ScanIndex, ScanRow
  <2>5. PICK idx \in {"p", "c"} : \E k : k[2] = st.id /\
           locks' = locks \cup {Lock("A", idx, k, "X", "rec")} \cup Inherited(idx, req.rec, k)
    BY <2>4
  <2>6. PICK k : k[2] = st.id /\
           locks' = locks \cup {Lock("A", idx, k, "X", "rec")} \cup Inherited(idx, req.rec, k)
    BY <2>5
  <2>7. \A l \in Inherited(idx, req.rec, k) : ~CoversRec(l)
    <3> SUFFICES ASSUME NEW l \in Inherited(idx, req.rec, k) PROVE ~CoversRec(l)
      OBVIOUS
    <3>1. PICK m \in locks : l = [m EXCEPT !.rec = k, !.kind = "gap"]
      BY DEF Inherited
    <3>2. l = Lock(m.s, m.idx, k, m.mode, "gap")
      BY <1>1, <3>1, InheritedOwned
    <3> QED BY <3>2 DEF Lock, CoversRec
  <2>8. \A l \in MyLocks("A")' : \/ l \in MyLocks("A") \/ l \in Inherited(idx, req.rec, k)
                                 \/ l = Lock("A", idx, k, "X", "rec")
    BY <2>6 DEF MyLocks
  <2>9. Lock("A", idx, k, "X", "rec").rec[2] \in pl.own["A"]
    BY <2>1, <2>6 DEF Lock
  <2>10. MyLocks("A") \subseteq MyLocks("A")'
    BY <2>6 DEF MyLocks
  <2> QED BY <2>7, <2>8, <2>9, <2>10
<1> QED BY <1>2, <1>3

\* A step of one of A's statements.
LEMMA StatementOfA ==
  ASSUME NEW pl, NEW stops, CaseNow(pl, stops), InSql("A"),
         (Start("A", Op("A").st) /\ Running("A")) \/ Wait("A", Op("A").st) \/ Proceed("A", Op("A").st),
         UNCHANGED <<prog, pc, err, dropped>>
  PROVE  Local(pl, stops, "A")'
<1> DEFINE st == Op("A").st
           H  == Held(pl, stops, prog)
<1>1. /\ RunsA(pl, stops) /\ Tables /\ TypeInv /\ (\A l \in locks : IsLock(l)) /\ "A" \in Sessions
      /\ ScriptA(prog) /\ pc["A"] \in Nat
  BY SessionNames DEF CaseNow, CaseInv, CasePlan, Local, TypeInv, ControlOK
<1>2. Queued(pl, "A")' /\ iso'["A"] = "RR" /\ err'["A"] \notin RolledBack /\ Failed("A")'
  BY <1>1, StatementQueued
<1>3. Stands(pl, "A")' /\ Rests("A")'
  BY <1>1, KeysStatement, StatementStage DEF Rests
<1>4. inTx' = inTx
  BY <1>1, StatementFrame
<1>5. Script("A")' = Script("A") /\ H' = H /\ (Well("A")' <=> Well("A"))
  BY DEF Script, Well
<1>6. \/ pc["A"] = 2
      \/ pc["A"] = 4 /\ st.do = "insert" /\ Len(Script("A")) = 4
  <2>1. \/ pc["A"] = 2
        \/ pc["A"] = 4 /\ Op("A") = prog.script["A"][4] /\ Len(Script("A")) = 4
    BY <1>1, CaseWorks
  <2> QED BY <1>1, <2>1 DEF ScriptA, Script
<1>7. CASE pc["A"] = 2
  <2>3. pc'["A"] = 2 /\ ~(2 >= 3) /\ 2 # 1 /\ 2 > 1 /\ 2 <= 2
    BY <1>7
  <2>5. Scans
    BY <1>7, <2>3 DEF Scans, Wait, Proceed, Running, Well
  <2>1. /\ Ids' = Ids /\ (\A i \in Ids \ at'["A"].hits : ~rows'[i].del)
        /\ MyLocks("A")' \subseteq H /\ AWalks(pl, stops)'
    BY <1>7, <2>5, WalkStatement
  <2>2. Ids = DOMAIN prog.data
    BY <1>7, <2>5, WalkHere
  <2> HIDE DEF H
  <2>4. RunsA(pl, stops)'
    BY <1>1, <1>2, <1>4, <1>5, <1>7, <2>1, <2>2, <2>3 DEF RunsA, H
  <2> QED BY <1>2, <1>3, <2>4 DEF Local
<1>8. CASE pc["A"] = 4 /\ st.do = "insert" /\ Len(Script("A")) = 4
  <2>4. ~Scans'
    BY <1>8 DEF Scans
  <2>1. /\ MyLocks("A") \subseteq MyLocks("A")'
        /\ \A l \in MyLocks("A")' \ MyLocks("A") : CoversRec(l) => l.rec[2] \in pl.own["A"]
    BY <1>8, InsertOfA
  <2>2. pc'["A"] = 4 /\ 4 >= 3 /\ 4 # 1 /\ 4 # 2 /\ ~(4 <= 2) /\ 4 >= 4 /\ 4 > 1
    BY <1>8
  <2>3. RunsA(pl, stops)'
    BY <1>1, <1>2, <1>4, <1>5, <1>8, <2>1, <2>2, <2>4 DEF RunsA
  <2> QED BY <1>2, <1>3, <2>3 DEF Local
<1> QED BY <1>6, <1>7, <1>8

-----------------------------------------------------------------------------
(* Steps of a case.                                                            *)

\* What a step of one session leaves of the invariant.
LEMMA CaseKeeps ==
  ASSUME NEW pl, NEW stops, CaseNow(pl, stops), NEW s \in Sessions, prog' = prog, tableLock' = NoSession,
         \A t \in Sessions : t # s => Untouched(t) /\ pc'[t] = pc[t],
         err' = err \/ \E e \in RolledBack : err' = [err EXCEPT ![s] = e],
         s # "A" => dropped' = dropped \/ dropped' = dropped \cup {s},
         s = "A" /\ inTx'["A"] => inTx["A"] \/ \A t \in Sessions : t # "A" => at[t].stage = "idle",
         s # "A" => pc["A"] > 3 \/ rows' = rows,
         Keys(pl)', Order', IsFiniteSet(locks)', \A l \in locks' : IsLock(l), Local(pl, stops, s)'
  PROVE  CaseInv(pl, stops)'
<1>1. err = [t \in Sessions |-> err[t]] /\ "A" \in Sessions
  BY SessionNames DEF CaseNow, TypeInv, ControlOK
<1>2. ASSUME NEW t \in Sessions, t # s
      PROVE  Local(pl, stops, t)'
  <2>1. t = "A" => ("A" \in dropped' <=> "A" \in dropped) /\ (pc["A"] > 3 \/ rows' = rows)
    BY <1>2
  <2>2. NoLockError(t)
    BY <1>1, <1>2 DEF NoLockError
  <2>3. t # "A" /\ at[t].stage # "idle" /\ inTx'["A"] => inTx["A"]
    BY <1>1, <1>2 DEF Untouched
  <2> QED BY <1>2, <2>1, <2>2, <2>3, OthersHold
<1>3. \A t \in Sessions : Local(pl, stops, t)'
  BY <1>2
<1>4. Together'
  <2>1. \A t \in Sessions : err'[t] = err[t] \/ err'[t] \in RolledBack
    BY <1>1
  <2>2. Together
    BY DEF CaseNow, CaseInv
  <2> QED BY <2>1, <2>2 DEF Together, RolledBack
<1> QED BY <1>3, <1>4 DEF CaseInv

\* A step of a statement.
LEMMA CaseStatement ==
  ASSUME NEW pl, NEW stops, CaseNow(pl, stops), NEW s \in Sessions, Statement(s)
  PROVE  CaseInv(pl, stops)' /\ Tables'
<1>1. /\ InSql(s) /\ UNCHANGED <<prog, pc, tableLock, err, dropped>>
      /\ (Start(s, Op(s).st) /\ Running(s)) \/ Wait(s, Op(s).st) \/ Proceed(s, Op(s).st)
  BY StatementStands DEF CaseNow
<1>2. /\ TypeInv /\ Tables /\ (\A l \in locks : IsLock(l)) /\ Order /\ IsFiniteSet(locks) /\ tableLock = NoSession
  BY DEF CaseNow, CaseInv
<1>3. /\ Tables' /\ \A l \in locks' : IsLock(l)
      /\ IsFiniteSet(locks)' /\ \A t \in Sessions : t # s => Untouched(t)
      /\ inTx' = inTx
  BY <1>1, <1>2, StatementFrame
<1>4. Keys(pl)'
  BY <1>1, KeysStatement
<1>5. Order'
  BY <1>1, <1>2 DEF Order, Script
<1>6. Local(pl, stops, s)' /\ (s # "A" => pc["A"] > 3)
  <2>1. CASE s = "A"
    BY <1>1, <2>1, StatementOfA
  <2>2. CASE s # "A"
    BY <1>1, <2>2, WorkerStatement, CaseWorks
  <2> QED BY <2>1, <2>2
<1> QED BY <1>1, <1>2, <1>3, <1>4, <1>5, <1>6, CaseKeeps

-----------------------------------------------------------------------------
(* Who waits for whom.                                                         *)

\* What a statement asks for is its session's; only an insert asks for a place to insert.
LEMMA AsksKind ==
  ASSUME NEW pl, NEW D, NEW s, NEW st, NEW a \in Asks(pl, D, s, st)
  PROVE  a.s = s /\ (a.kind = "insert" <=> st.do = "insert")
<1>1. \A w, r : ScanKind(w, r) # "insert"
  BY DEF ScanKind
<1>2. \A x, y, z, m, k : LET l == Lock(x, y, z, m, k) IN l.s = x /\ l.kind = k
  BY DEF Lock
<1>3. CASE st.do = "insert"
  <2>1. PICK idx \in {"p", "c"} : \E r \in Nexts(pl, D, idx, InsertKey(st, idx)) : a = Lock(s, idx, r, "X", "insert")
    BY <1>3 DEF Asks, InsertAsks
  <2> QED BY <1>2, <1>3, <2>1
<1>4. CASE st.do # "insert"
  <2>1. (\E r : a = IndexLock(s, st, r)) \/ (\E i : a = RowLock(s, st, i))
    BY <1>4 DEF Asks, ScanAsks
  <2>2. CASE \E r : a = IndexLock(s, st, r)
    <3>1. PICK r : a = Lock(s, st.w.idx, r, st.mode, ScanKind(st.w, r))
      BY <2>2 DEF IndexLock
    <3> QED BY <1>1, <1>2, <1>4, <3>1
  <2>3. CASE \E i : a = RowLock(s, st, i)
    <3>1. PICK i : a = Lock(s, "p", <<i, i>>, st.mode, "rec")
      BY <2>3 DEF RowLock
    <3> QED BY <1>2, <1>4, <3>1
  <2> QED BY <2>1, <2>2, <2>3
<1> QED BY <1>3, <1>4

\* No request is in nobody's way and has nobody in its way.
LEMMA NoRequestMeets == \A l : ~Conflicts(NoRequest, l) /\ ~Conflicts(l, NoRequest)
<1>1. NoRequest.kind = "none"
  BY DEF NoRequest, Lock
<1> QED BY <1>1 DEF Conflicts, CoversGap, CoversRec

\* A session that has a statement under way stands at it, and runs unless its call has failed.
LEMMA BusyRuns ==
  ASSUME NEW pl, NEW stops, CaseNow(pl, stops), NEW s \in Sessions, at[s].stage # "idle"
  PROVE  InSql(s) /\ (Well(s) => Running(s) /\ At(s, "sql"))
<1>1. InSql(s) /\ ended = "no"
  BY DEF CaseNow, TypeInv, StageOK
<1> QED BY <1>1 DEF InSql, Running, At, Well

\* So does one that waits.
LEMMA WaitingRuns ==
  ASSUME NEW pl, NEW stops, CaseNow(pl, stops), NEW s \in Sessions, Waiting(s)
  PROVE  /\ InSql(s) /\ (Well(s) => Running(s) /\ At(s, "sql"))
         /\ at[s].stage \in {"index", "row", "insP", "insC"} /\ waits[s].s = s
         /\ waits[s] \in Asks(pl, DOMAIN prog.data, s, Op(s).st)
         /\ waits[s].kind = "insert" <=> Op(s).st.do = "insert"
         /\ at[s].stage = "index" => waits[s] = IndexLock(s, Op(s).st, at[s].rec)
<1>1. Queued(pl, s) /\ waits[s] # NoRequest
  BY DEF CaseNow, CaseInv, Local, Waiting
<1>2. /\ at[s].stage \in {"index", "row", "insP", "insC"}
      /\ waits[s] \in Asks(pl, DOMAIN prog.data, s, Op(s).st)
      /\ at[s].stage = "index" => waits[s] = IndexLock(s, Op(s).st, at[s].rec)
  BY <1>1 DEF Queued
<1>3. at[s].stage # "idle"
  BY <1>2
<1>4. InSql(s) /\ (Well(s) => Running(s) /\ At(s, "sql"))
  BY <1>3, BusyRuns
<1>5. waits[s].s = s /\ (waits[s].kind = "insert" <=> Op(s).st.do = "insert")
  BY <1>2, AsksKind
<1> QED BY <1>2, <1>4, <1>5

\* A session is waited for because of a lock it has or a request it made.
LEMMA WaitedFor ==
  ASSUME NEW pl, NEW stops, CaseNow(pl, stops), NEW s \in Sessions, NEW t \in Sessions, WaitsFor(s, t)
  PROVE  /\ t # s /\ Waiting(s)
         /\ \E m : /\ Conflicts(waits[s], m)
                   /\ m \in MyLocks(t) \/ (m = waits[t] /\ Waiting(t))
<1>1. Waiting(s) /\ t \in Blockers(waits[s])
  BY DEF WaitsFor
<1>2. waits[s].s = s
  BY <1>1, WaitingRuns
<1>3. PICK m \in locks \cup Ahead(waits[s].s) : Conflicts(waits[s], m) /\ t = m.s
  BY <1>1 DEF Blockers
<1>4. t # s
  BY <1>2, <1>3 DEF Conflicts
<1>5. m \in MyLocks(t) \/ (m = waits[t] /\ Waiting(t))
  <2>1. CASE m \in locks
    BY <1>3, <2>1 DEF MyLocks
  <2>2. CASE m \in Ahead(s)
    <3>1. PICK u \in before[s] : m = waits[u]
      BY <1>1, <2>2 DEF Ahead
    <3>2. m # NoRequest
      BY <1>3, NoRequestMeets
    <3>3. u \in Sessions
      BY <3>1 DEF CaseNow, Tables
    <3>4. Waiting(u)
      BY <3>1, <3>2 DEF Waiting
    <3>5. waits[u].s = u
      BY <3>3, <3>4, WaitingRuns
    <3> QED BY <1>3, <3>1, <3>4, <3>5
  <2> QED BY <1>2, <1>3, <2>1, <2>2
<1> QED BY <1>1, <1>3, <1>4, <1>5

\* A record that a statement of B or C locks or asks for is one of its own.
LEMMA WorkerOwns ==
  ASSUME NEW pl, NEW stops, CaseNow(pl, stops), NEW s \in Sessions, s # "A", InSql(s),
         NEW a, a \in Asks(pl, DOMAIN prog.data, s, Op(s).st) \/ a \in Takes(pl, s, Op(s).st), CoversRec(a)
  PROVE  a.rec[2] \in pl.own[s]
<1> DEFINE st == Op(s).st
           w  == st.w
<1>1. TypeInv /\ Planned(pl, prog) /\ InSql(s) /\ Op(s).op = "sql" /\ ColumnsNow(pl)
  BY CaseColumns DEF InSql
<1>2. Works(pl, DOMAIN prog.data, Held(pl, stops, prog), s, Script(s), pc[s])
  BY CaseWorks
<1>3. CASE st.do = "insert"
  <2>1. InsertOf(s, st.id)
    BY <1>1, <1>3 DEF InsertOf
  <2>2. st.id \in pl.own[s]
    BY <1>1, <2>1, InsertKeeps
  <2>3. a.kind # "insert"
    BY DEF CoversRec
  <2>4. a \in Takes(pl, s, st)
    BY <1>3, <2>3, AsksKind
  <2>5. PICK idx \in {"p", "c"} : a = Lock(s, idx, InsertKey(st, idx), "X", "rec")
    BY <1>3, <2>4 DEF Takes
  <2>6. a.rec = InsertKey(st, idx)
    BY <2>5 DEF Lock
  <2>7. InsertKey(st, idx)[2] = st.id
    BY DEF InsertKey
  <2> QED BY <2>2, <2>6, <2>7
<1>4. CASE st.do # "insert"
  <2>1. st.do = "add1" /\ OneValue(w)
    BY <1>2, <1>4 DEF Works, Op
  <2>2. IsScan(st)
    <3>1. st.do # "insert"
      BY <2>1
    <3> QED BY <1>1, <3>1, NoInsert, ZenonT(60)
  <2>3. w \in Cond /\ w.idx \in {"p", "c"}
    BY <2>2, CondParts DEF IsScan
  <2>4. \A i \in DOMAIN pl.col : From(w, Place(pl, w.idx, i)) /\ InRange(w, Place(pl, w.idx, i)) => i \in pl.own[s]
    BY <1>1, <2>1, OpKeeps DEF Keeps
  <2>5. a \in ScanAsks(pl, s, st)
    BY <1>4 DEF Takes, Asks
  <2>6. CASE a \in {RowLock(s, st, i) : i \in Scanned(pl, w)}
    <3>1. PICK i \in Scanned(pl, w) : a = RowLock(s, st, i)
      BY <2>6
    <3>2. i \in pl.own[s]
      BY <2>4, <3>1 DEF Scanned
    <3>3. a.rec = <<i, i>>
      BY <3>1 DEF RowLock, Lock
    <3> QED BY <3>2, <3>3
  <2>7. CASE a \in {IndexLock(s, st, r) : r \in {x \in AllPlaces(pl, w.idx, DOMAIN pl.col) : From(w, x)}}
    <3>1. PICK r \in AllPlaces(pl, w.idx, DOMAIN pl.col) : From(w, r) /\ a = IndexLock(s, st, r)
      BY <2>7
    <3>2. a.rec = r /\ a.kind = ScanKind(w, r)
      BY <3>1 DEF IndexLock, Lock
    <3>3. r # Supremum /\ InRange(w, r)
      BY <2>1, <3>2 DEF CoversRec, ScanKind
    <3>4. PICK i \in DOMAIN pl.col : r = Place(pl, w.idx, i)
      BY <3>1, <3>3 DEF AllPlaces
    <3>5. r[2] = i
      BY <3>4 DEF Place
    <3> QED BY <2>4, <3>1, <3>2, <3>3, <3>4, <3>5
  <2> QED BY <2>5, <2>6, <2>7 DEF ScanAsks
<1> QED BY <1>3, <1>4

\* B or C waits for a lock of A's only at a statement labelled "blocked", and while A has its transaction.
LEMMA LockOfA ==
  ASSUME NEW pl, NEW stops, CaseNow(pl, stops), NEW s \in Sessions, s # "A", Waiting(s),
         NEW m \in MyLocks("A"), Conflicts(waits[s], m)
  PROVE  inTx["A"] /\ Op(s).blocked
<1> DEFINE L == Held(pl, stops, prog)
           D == DOMAIN prog.data
<1>1. InSql(s) /\ waits[s] \in Asks(pl, D, s, Op(s).st) /\ (waits[s].kind = "insert" <=> Op(s).st.do = "insert")
  BY WaitingRuns
<1>2. pc["A"] > 3 /\ Works(pl, D, L, s, Script(s), pc[s]) /\ s \in {"B", "C"}
  BY <1>1, CaseWorks
<1>3. /\ RunsA(pl, stops) /\ pc["A"] \in Nat /\ "A" \in Sessions /\ ScriptA(prog) /\ Planned(pl, prog)
      /\ ScriptB(pl, L, prog)
  BY SessionNames DEF CaseNow, CaseInv, CasePlan, Local, TypeInv, ControlOK
<1>4. pc["A"] >= 3
  BY <1>2, <1>3
<1>5. CASE m \in L /\ inTx["A"]
  <2>1. ~Unhindered(pl, D, L, s, Op(s).st)
    BY <1>1, <1>5 DEF Unhindered
  <2>2. Op(s).blocked
    BY <1>2, <2>1 DEF Works, Op
  <2> QED BY <1>5, <2>2
<1>6. CASE Len(Script("A")) = 4 /\ (CoversRec(m) => m.rec[2] \in pl.own["A"])
  <2>1. prog.script["C"] = << >> /\ Len(prog.script["B"]) = 2 /\ prog.script["B"][2].st.do # "insert"
    BY <1>3, <1>6 DEF ScriptA, Script
  <2>2. pc[s] \in 1 .. Len(Script(s))
    BY <1>1, Running1 DEF CaseNow
  <2>3. s = "B"
    <3>1. CASE s = "C"
      <4>1. pc[s] \in 1 .. 0
        BY <2>1, <2>2, <3>1 DEF Script
      <4> QED BY <4>1
    <3> QED BY <1>2, <3>1
  <2>4. pc["B"] = 2
    <3>1. pc["B"] \in 1 .. 2
      BY <2>1, <2>2, <2>3 DEF Script
    <3>2. pc["B"] # 1
      BY <1>2, <1>3, SessionNames DEF CaseNow, CaseInv, Order
    <3> QED BY <3>1, <3>2
  <2>5. Op(s).st.do # "insert"
    BY <2>1, <2>3, <2>4 DEF Op, Script
  <2>6. CoversRec(waits[s]) /\ CoversRec(m) /\ waits[s].rec = m.rec
    BY <1>1, <2>5 DEF Conflicts
  <2>7. m.rec[2] \in pl.own[s] /\ m.rec[2] \in pl.own["A"]
    BY <1>1, <1>6, <2>6, WorkerOwns
  <2> QED BY <1>3, <2>7 DEF Planned
<1> QED BY <1>3, <1>4, <1>5, <1>6 DEF RunsA

\* B or C waits for A only there.
LEMMA WaitsForA ==
  ASSUME NEW pl, NEW stops, CaseNow(pl, stops), NEW s \in Sessions, WaitsFor(s, "A")
  PROVE  s # "A" /\ inTx["A"] /\ Op(s).blocked
<1>1. "A" \in Sessions
  BY SessionNames
<1>2. /\ s # "A" /\ Waiting(s)
      /\ \E m : Conflicts(waits[s], m) /\ (m \in MyLocks("A") \/ (m = waits["A"] /\ Waiting("A")))
  BY <1>1, WaitedFor
<1>3. PICK m : Conflicts(waits[s], m) /\ (m \in MyLocks("A") \/ (m = waits["A"] /\ Waiting("A")))
  BY <1>2
<1>4. CASE m = waits["A"] /\ Waiting("A")
  <2>1. InSql(s) /\ InSql("A") /\ (waits["A"].kind = "insert" <=> Op("A").st.do = "insert")
    BY <1>1, <1>2, <1>4, WaitingRuns
  <2>2. pc["A"] > 3 /\ pc["A"] \in Nat
    BY <1>1, <1>2, <2>1, CaseWorks DEF CaseNow, TypeInv, ControlOK
  <2>3. pc["A"] = 4 /\ Op("A") = prog.script["A"][4] /\ Len(Script("A")) = 4
    BY <1>1, <2>1, <2>2, CaseWorks
  <2>4. Op("A").st.do = "insert"
    BY <2>3 DEF CaseNow, CasePlan, ScriptA, Script
  <2>5. ~CoversGap(m) /\ ~CoversRec(m)
    BY <1>4, <2>1, <2>4 DEF CoversGap, CoversRec
  <2> QED BY <1>3, <2>5 DEF Conflicts
<1> QED BY <1>2, <1>3, <1>4, LockOfA

\* A waits only for B, and only at its insert.
LEMMA AWaits ==
  ASSUME NEW pl, NEW stops, CaseNow(pl, stops), NEW t \in Sessions, WaitsFor("A", t)
  PROVE  t = "B" /\ at[t].stage # "idle" /\ pc["A"] = 4 /\ Len(Script("A")) = 4
<1>1. "A" \in Sessions
  BY SessionNames
<1>2. t # "A" /\ Waiting("A") /\ (MyLocks(t) # {} \/ Waiting(t))
  BY <1>1, WaitedFor
<1>3. at[t].stage # "idle"
  <2>1. Alone(pl, t)
    BY <1>2 DEF CaseNow, CaseInv, Local
  <2>2. Waiting(t) => at[t].stage # "idle"
    BY WaitingRuns
  <2> QED BY <1>2, <2>1, <2>2 DEF Alone
<1>4. InSql(t) /\ InSql("A")
  BY <1>1, <1>2, <1>3, BusyRuns, WaitingRuns
<1>5. pc["A"] > 3 /\ pc["A"] \in Nat /\ t \in {"B", "C"}
  BY <1>1, <1>2, <1>4, CaseWorks DEF CaseNow, TypeInv, ControlOK
<1>6. pc["A"] = 4 /\ Len(Script("A")) = 4
  BY <1>1, <1>4, <1>5, CaseWorks
<1>7. Script("C") = << >>
  BY <1>6 DEF CaseNow, CasePlan, ScriptA, Script
<1>8. t # "C"
  <2>1. CASE t = "C"
    <3>1. pc[t] \in 1 .. 0
      BY <1>4, <1>7, <2>1, Running1 DEF CaseNow
    <3> QED BY <3>1
  <2> QED BY <2>1
<1> QED BY <1>3, <1>5, <1>6, <1>8

\* Of B and C, only one that inserts waits for one that scans.
LEMMA WorkersWait ==
  ASSUME NEW pl, NEW stops, CaseNow(pl, stops), NEW s \in Sessions, NEW t \in Sessions, s # "A", t # "A", WaitsFor(s, t)
  PROVE  /\ InSql(s) /\ Op(s).st.do = "insert" /\ waits[s] \in Asks(pl, DOMAIN prog.data, s, Op(s).st)
         /\ InSql(t) /\ Op(t).st.do # "insert" /\ at[t].stage # "idle" /\ s # t
         /\ MyLocks(t) # {} \/ (Waiting(t) /\ Conflicts(waits[s], waits[t]))
<1> DEFINE D == DOMAIN prog.data
<1>1. s # t /\ Waiting(s) /\ \E m : Conflicts(waits[s], m) /\ (m \in MyLocks(t) \/ (m = waits[t] /\ Waiting(t)))
  BY WaitedFor
<1>2. PICK m : Conflicts(waits[s], m) /\ (m \in MyLocks(t) \/ (m = waits[t] /\ Waiting(t)))
  BY <1>1
<1>3. InSql(s) /\ waits[s] \in Asks(pl, D, s, Op(s).st) /\ (waits[s].kind = "insert" <=> Op(s).st.do = "insert")
  BY <1>1, WaitingRuns
<1>4. at[t].stage # "idle" /\ InSql(t) /\ (m \in Takes(pl, t, Op(t).st) \/ m \in Asks(pl, D, t, Op(t).st))
  <2>1. CASE m \in MyLocks(t)
    <3>1. Alone(pl, t)
      BY DEF CaseNow, CaseInv, Local
    <3>2. at[t].stage # "idle" /\ m \in Takes(pl, t, Op(t).st)
      BY <2>1, <3>1 DEF Alone
    <3> QED BY <3>2, BusyRuns
  <2>2. CASE m = waits[t] /\ Waiting(t)
    BY <2>2, WaitingRuns
  <2> QED BY <1>2, <2>1, <2>2
<1>5. pl.own[s] \cap pl.own[t] = {}
  BY <1>1 DEF CaseNow, CasePlan, Planned
<1>6. ~(CoversRec(waits[s]) /\ CoversRec(m))
  <2>1. waits[s].rec = m.rec
    BY <1>2 DEF Conflicts
  <2>2. CoversRec(waits[s]) => waits[s].rec[2] \in pl.own[s]
    BY <1>3, WorkerOwns
  <2>3. CoversRec(m) => m.rec[2] \in pl.own[t]
    BY <1>4, WorkerOwns
  <2> QED BY <1>5, <2>1, <2>2, <2>3
<1>7. waits[s].kind = "insert" /\ CoversGap(m)
  BY <1>2, <1>6 DEF Conflicts
<1>8. Op(t).st.do # "insert"
  <2>1. ASSUME Op(t).st.do = "insert"
        PROVE  FALSE
    <3>1. m.kind \in {"rec", "insert"}
      <4>1. CASE m \in Asks(pl, D, t, Op(t).st)
        BY <2>1, <4>1, AsksKind
      <4>2. CASE m \in Takes(pl, t, Op(t).st)
        <5>1. PICK idx \in {"p", "c"} : m = Lock(t, idx, InsertKey(Op(t).st, idx), "X", "rec")
          BY <2>1, <4>2 DEF Takes
        <5> QED BY <5>1 DEF Lock
      <4> QED BY <1>4, <4>1, <4>2
    <3> QED BY <1>7, <3>1 DEF CoversGap
  <2> QED BY <2>1
<1>9. MyLocks(t) # {} \/ (Waiting(t) /\ Conflicts(waits[s], waits[t]))
  BY <1>2
<1> QED BY <1>1, <1>3, <1>4, <1>7, <1>8, <1>9

\* When A waits for B, the program is case 08, and B, unless A's connection is closed, has nothing.
LEMMA AWaitsForB ==
  ASSUME NEW pl, NEW stops, CaseNow(pl, stops), WaitsFor("A", "B")
  PROVE  /\ prog.name = "case08" /\ Script("C") = << >> /\ at["B"].stage # "idle" /\ Op("B").st.do # "insert"
         /\ inTx["A"] => MyLocks("B") = {} /\ undo["B"] = << >>
<1>1. /\ "B" \in Sessions /\ ScriptA(prog) /\ Order /\ AtGate(pl, "B", Held(pl, stops, prog))
  BY SessionNames DEF CaseNow, CaseInv, CasePlan, Local
<1>2. at["B"].stage # "idle" /\ pc["A"] = 4 /\ Len(Script("A")) = 4
  BY <1>1, AWaits
<1>3. /\ prog.name = "case08" /\ Script("C") = << >> /\ Len(Script("B")) = 2 /\ Script("B")[2].blocked
      /\ Script("B")[2].st.do # "insert"
  BY <1>1, <1>2 DEF ScriptA, Script
<1>4. pc["B"] \in 1 .. 2
  BY <1>1, <1>2, <1>3, CaseStage
<1>5. pc["B"] # 1
  BY <1>1, <1>2 DEF Order
<1>6. pc["B"] = 2
  BY <1>4, <1>5
<1>7. Op("B").blocked /\ Op("B").st.do # "insert"
  BY <1>3, <1>6 DEF Op
<1> QED BY <1>1, <1>2, <1>3, <1>7 DEF AtGate

\* Two sessions wait for each other only in case 08, and one of them is A.
LEMMA CycleWithA ==
  ASSUME NEW pl, NEW stops, CaseNow(pl, stops), NEW s \in Sessions, NEW t \in Sessions, WaitsFor(s, t), WaitsFor(t, s)
  PROVE  /\ {s, t} = {"A", "B"} /\ prog.name = "case08" /\ inTx["A"]
         /\ WaitsFor("A", "B") /\ WaitsFor("B", "A")
<1>1. s = "A" \/ t = "A"
  <2>1. CASE s # "A" /\ t # "A"
    <3>1. Op(s).st.do = "insert" /\ Op(s).st.do # "insert"
      BY <2>1, WorkersWait
    <3> QED BY <3>1
  <2> QED BY <2>1
<1>2. {s, t} = {"A", "B"} /\ WaitsFor("A", "B") /\ WaitsFor("B", "A")
  BY <1>1, AWaits, WaitsForA
<1>3. "B" \in Sessions
  BY SessionNames
<1> QED BY <1>2, <1>3, AWaitsForB, WaitsForA

\* The first stop is locked.
LEMMA HeldSome ==
  ASSUME NEW pl, NEW stops, Walks(pl, DOMAIN prog.data, AScan(prog), stops)
  PROVE  Held(pl, stops, prog) # {}
<1> DEFINE n == Len(stops)
<1>1. n \in 1 .. 3
  BY DEF Walks
<1>2. 1 \in 1 .. n
  <2> HIDE DEF n
  <2> QED BY <1>1
<1>3. IndexLock("A", AScan(prog), StopPlace(pl, AScan(prog), stops[1])) \in StopLocks(pl, AScan(prog), stops[1])
  BY DEF StopLocks
<1>4. StopLocks(pl, AScan(prog), stops[1]) \subseteq Held(pl, stops, prog)
  BY <1>2 DEF Held, WalkLocks
<1> QED BY <1>3, <1>4

\* The detector finds the deadlock of case 08 alone, and it is B that it rolls back.
LEMMA DeadlockShows ==
  ASSUME NEW pl, NEW stops, CaseNow(pl, stops), NEW s \in Sessions, DeadlockFound(s)
  PROVE  s = "B" /\ prog.name = "case08"
<1>1. InCycle(s) /\ \A t \in Sessions : InCycle(t) => Weight(s) <= Weight(t)
  BY DEF DeadlockFound, Victim
<1>2. PICK t \in Sessions : WaitsFor(s, t) /\ WaitsFor(t, s)
  BY <1>1 DEF InCycle
<1>3. /\ s \in {"A", "B"} /\ prog.name = "case08" /\ inTx["A"]
      /\ WaitsFor("A", "B") /\ WaitsFor("B", "A")
  BY <1>2, CycleWithA
<1>4. "A" \in Sessions /\ "B" \in Sessions
  BY SessionNames
<1>5. s # "A"
  <2>1. ASSUME s = "A"
        PROVE  FALSE
    <3>1. Weight("A") <= Weight("B")
      BY <1>1, <1>3, <1>4, <2>1 DEF InCycle
    <3>2. MyLocks("B") = {} /\ undo["B"] = << >>
      BY <1>3, AWaitsForB
    <3>3. Weight("B") = 0
      <4>1. Cardinality(DOMAIN undo["B"]) = 0 /\ Cardinality(MyLocks("B")) = 0
        BY <3>2, NothingIn, FS_EmptySet
      <4> QED BY <4>1 DEF Weight, MyLocks
    <3>4. Cardinality(DOMAIN undo["A"]) \in Nat
      <4>1. DOMAIN undo["A"] \subseteq 0 .. 999
        BY <1>4 DEF CaseNow, TypeInv, DataOK, Table
      <4>2. \A n \in Nat : IsFiniteSet(0 .. n)
        BY FS_Interval
      <4>3. 999 \in Nat
        OBVIOUS
      <4>4. IsFiniteSet(0 .. 999)
        BY <4>2, <4>3, ZenonT(60)
      <4> DEFINE S == 0 .. 999
                 T == DOMAIN undo["A"]
      <4>5. IsFiniteSet(S) /\ T \subseteq S
        BY <4>1, <4>4
      <4> HIDE DEF S, T
      <4>6. IsFiniteSet(T)
        BY <4>5, FS_Subset
      <4>7. Cardinality(T) \in Nat
        BY <4>6, FS_CardinalityType
      <4> QED BY <4>7 DEF T
    <3>5. IsFiniteSet(MyLocks("A")) /\ MyLocks("A") # {}
      <4>1. pc["A"] = 4
        BY <1>3, <1>4, AWaits
      <4>2. IsFiniteSet(locks) /\ Walks(pl, DOMAIN prog.data, AScan(prog), stops)
        BY DEF CaseNow, CaseInv, CasePlan
      <4>3. Held(pl, stops, prog) \subseteq MyLocks("A")
        BY <1>3, <4>1, HeldHere DEF MyLocks
      <4>4. MyLocks("A") \subseteq locks
        BY DEF MyLocks
      <4> QED BY <4>2, <4>3, <4>4, HeldSome, FS_Subset
    <3>6. Cardinality(MyLocks("A")) \in Nat /\ Cardinality(MyLocks("A")) # 0
      BY <3>5, FS_CardinalityType, FS_EmptySet
    <3>7. Weight("A") = Cardinality(DOMAIN undo["A"]) + Cardinality(MyLocks("A"))
      BY DEF Weight, MyLocks
    <3> QED BY <3>1, <3>3, <3>4, <3>6, <3>7
  <2> QED BY <2>1
<1> QED BY <1>3, <1>5

-----------------------------------------------------------------------------
(* A lock wait times out only when nobody else can do anything.                *)

\* The scripts are short.
LEMMA ScriptLengths ==
  ASSUME TypeInv, NEW t \in Sessions
  PROVE  Len(Script(t)) \in Nat /\ pc[t] \in Nat /\ pc[t] \in 1 .. Len(Script(t)) + 1
<1>1. Len(Script(t)) \in 0 .. 10
  BY DEF TypeInv, ControlOK, WellTyped, IsScript, Script
<1>2. Len(Script(t)) \in Nat
  <2> DEFINE n == Len(Script(t))
  <2>1. n \in 0 .. 10
    BY <1>1
  <2> HIDE DEF n
  <2>2. n \in Nat
    BY <2>1
  <2> QED BY <2>2 DEF n
<1> QED BY <1>2 DEF TypeInv, ControlOK

\* A session that cannot go on and waits for nobody's message is done, or waits for a lock.
LEMMA StuckWaits ==
  ASSUME NEW pl, NEW stops, CaseNow(pl, stops), \A t \in Sessions : Stuck(t) /\ Well(t), NEW s \in Sessions
  PROVE  Script(s) = << >> \/ Done(s) \/ (Waiting(s) /\ \E t \in Sessions : WaitsFor(s, t))
<1>1. /\ "A" \in Sessions /\ "B" \in Sessions /\ "C" \in Sessions /\ s \in {"A", "B", "C"}
      /\ ended = "no" /\ Order /\ ScriptA(prog) /\ TypeInv /\ (\A t \in Sessions : Stuck(t) /\ Well(t))
      /\ ScriptB(pl, Held(pl, stops, prog), prog) /\ ScriptC(pl, Held(pl, stops, prog), prog)
  BY SessionNames DEF CaseNow, CaseInv, CasePlan
<1> DEFINE Calm(t) == Script(t) = << >> \/ Done(t) \/ (Waiting(t) /\ \E u \in Sessions : WaitsFor(t, u))
<1>2. ASSUME NEW t \in Sessions
      PROVE  /\ \/ Calm(t)
                \/ At(t, "recv") /\ \A u \in Sessions : ~(At(u, "send") /\ Op(u).ch = Op(t).ch)
                \/ At(t, "send") /\ \A u \in Sessions : ~(At(u, "recv") /\ Op(u).ch = Op(t).ch)
             /\ Running(t) => Op(t).op # "woken"
  BY <1>1, CaseKinds DEF Stuck, At
<1>3. ASSUME NEW t \in Sessions, Calm(t), pc[t] <= Len(Script(t)), Script(t) # << >>
      PROVE  at[t].stage # "idle" /\ At(t, "sql")
  <2>1. ~Done(t)
    <3> DEFINE n == Len(Script(t))
    <3>1. n \in Nat /\ pc[t] \in Nat /\ pc[t] <= n
      BY <1>1, <1>3, ScriptLengths
    <3> HIDE DEF n
    <3>2. ~(pc[t] > n)
      BY <3>1
    <3> QED BY <3>2 DEF Done, n
  <2>2. Waiting(t)
    BY <1>3, <2>1
  <2>3. At(t, "sql") /\ at[t].stage \in {"index", "row", "insP", "insC"}
    BY <1>1, <2>2, WaitingRuns
  <2> QED BY <2>3
<1>4. pc["A"] > 3 /\ pc["A"] \in Nat
  <2>1. pc["A"] \in Nat
    BY <1>1 DEF TypeInv, ControlOK
  <2>2. ASSUME pc["A"] <= 3
        PROVE  FALSE
    <3>1. pc["B"] = 1
      BY <1>1, <2>2 DEF Order
    <3>2. Len(Script("B")) \in 2 .. 5 /\ Script("B") # << >> /\ Op("B") = Recv("t2") /\ Len(Script("A")) \in 3 .. 4
      <4>1. Len(Script("B")) \in 2 .. 5 /\ Op("B") = Recv("t2") /\ Len(Script("A")) \in 3 .. 4
        BY <1>1, <3>1 DEF ScriptA, ScriptB, Script, Op
      <4>2. Len(<< >>) = 0
        OBVIOUS
      <4> QED BY <4>1, <4>2
    <3>3. pc["B"] <= Len(Script("B")) /\ pc["A"] <= Len(Script("A"))
      BY <2>1, <2>2, <3>1, <3>2, SMTT(40)
    <3>4. Op("B").op # "sql"
      BY <3>2 DEF Recv
    <3>5. ~Calm("B")
      BY <1>1, <1>3, <3>2, <3>3, <3>4 DEF At
    <3>6. At("B", "recv") /\ \A u \in Sessions : ~(At(u, "send") /\ Op(u).ch = Op("B").ch)
      BY <1>1, <1>2, <3>2, <3>5 DEF At, Recv
    <3>7. Script("A") # << >>
      <4>1. Len(<< >>) = 0
        OBVIOUS
      <4> QED BY <3>2, <4>1
    <3>8. Running("A")
      <4>1. Calm("A") => Running("A")
        BY <1>1, <1>3, <3>3, <3>7 DEF At
      <4> QED BY <1>1, <1>2, <4>1 DEF At
    <3>9. \/ pc["A"] = 1 /\ Op("A").op = "begin"
          \/ pc["A"] = 2
          \/ pc["A"] = 3 /\ Op("A") = Send("t2")
      BY <1>1, <2>2, <3>8, CaseOps
    <3>10. pc["A"] # 3
      <4>1. Op("A") = Send("t2") => Op("A").op = "send" /\ Op("A").ch = Op("B").ch
        BY <3>2 DEF Send, Recv
      <4> QED BY <1>1, <3>6, <3>8, <3>9, <4>1 DEF At
    <3>11. Op("A").op \in {"begin", "sql"}
      BY <1>1, <3>9, <3>10 DEF ScriptA, Op, Script
    <3>12. Calm("A")
      BY <1>1, <1>2, <3>11 DEF At
    <3>13. Waiting("A") /\ \E u \in Sessions : WaitsFor("A", u)
      <4>1. ~Done("A")
        BY <2>1, <2>2, <3>2, <3>3 DEF Done
      <4> QED BY <3>7, <3>12, <4>1
    <3>14. pc["A"] = 4
      BY <3>13, AWaits
    <3> QED BY <2>2, <3>14
  <2> QED BY <2>1, <2>2
<1>5. pc["B"] # 1
  BY <1>1, <1>4 DEF Order
<1>6. Script("C") # << >> => pc["B"] # 2 /\ pc["C"] # 1
  <2>1. ASSUME Script("C") # << >>, pc["B"] = 2 \/ pc["C"] = 1
        PROVE  FALSE
    <3>1. pc["B"] \in Nat /\ pc["B"] >= 1
      BY <1>1, ScriptLengths
    <3>2. pc["B"] = 2 /\ pc["C"] = 1
      BY <1>1, <1>5, <2>1, <3>1 DEF Order
    <3>3. /\ Op("B") = Send("t3") /\ Op("C") = Recv("t3")
          /\ Len(Script("B")) \in 2 .. 5 /\ Len(Script("C")) \in 2 .. 3
      BY <1>1, <2>1, <3>2 DEF ScriptB, ScriptC, Op, Script
    <3>4. Script("B") # << >> /\ Script("C") # << >>
      <4>1. Len(<< >>) = 0
        OBVIOUS
      <4> QED BY <3>3, <4>1
    <3>5. pc["B"] <= Len(Script("B")) /\ pc["C"] <= Len(Script("C"))
      <4>1. (\A n \in 2 .. 5 : 2 <= n) /\ (\A n \in 2 .. 3 : 1 <= n)
        OBVIOUS
      <4>2. Len(Script("B")) \in 2 .. 5 /\ Len(Script("C")) \in 2 .. 3
        BY <3>3
      <4>3. 2 <= Len(Script("B")) /\ 1 <= Len(Script("C"))
        BY <4>1, <4>2
      <4> QED BY <3>2, <4>3
    <3>6. /\ Op("B").op = "send" /\ Op("C").op = "recv" /\ Op("B").ch = Op("C").ch
      BY <3>3 DEF Send, Recv
    <3>7. At("C", "recv")
      BY <1>1, <1>2, <1>3, <3>4, <3>5, <3>6 DEF At
    <3>8. At("B", "send")
      BY <1>1, <1>2, <1>3, <3>4, <3>5, <3>6 DEF At
    <3> QED BY <1>1, <1>2, <1>3, <3>4, <3>5, <3>6, <3>7, <3>8 DEF At
  <2> QED BY <2>1
<1>7. ASSUME NEW t \in Sessions, ~Calm(t)
      PROVE  FALSE
  <2>1. At(t, "recv") \/ At(t, "send")
    BY <1>2, <1>7
  <2>2. Running(t) /\ Op(t).op \in {"send", "recv"}
    BY <2>1 DEF At
  <2>3. pc["A"] # 3
    BY <1>4
  <2> QED BY <1>4, <1>5, <1>6, <2>2, <2>3, CaseKinds
<1> QED BY <1>7

\* A does not wait when all are stuck and nobody is in a deadlock.
LEMMA StuckWithoutA ==
  ASSUME NEW pl, NEW stops, CaseNow(pl, stops), \A t \in Sessions : Stuck(t) /\ Well(t) /\ ~InCycle(t), NEW u \in Sessions
  PROVE  ~WaitsFor("A", u)
<1>1. /\ "A" \in Sessions /\ "B" \in Sessions /\ TypeInv
      /\ \A t \in Sessions : Stuck(t) /\ Well(t) /\ ~InCycle(t)
  BY SessionNames DEF CaseNow
<1>2. ASSUME WaitsFor("A", u)
      PROVE  FALSE
  <2>1. u = "B"
    BY <1>2, AWaits
  <2>2. at["B"].stage # "idle" /\ Op("B").st.do # "insert"
    BY <1>2, <2>1, AWaitsForB
  <2>3. Running("B")
    <3>1. Well("B")
      BY <1>1
    <3> QED BY <1>1, <2>2, <3>1, BusyRuns
  <2>4. ~Done("B") /\ Script("B") # << >>
    <3>1. pc["B"] \in 1 .. Len(Script("B"))
      BY <1>1, <2>3, Running1
    <3>2. Len(Script("B")) \in Nat /\ pc["B"] \in Nat
      BY <1>1, ScriptLengths
    <3> DEFINE n == Len(Script("B"))
    <3>3. pc["B"] \in 1 .. n /\ n \in Nat
      BY <3>1, <3>2
    <3> HIDE DEF n
    <3>4. ~(pc["B"] > n) /\ n # 0
      BY <3>2, <3>3
    <3>5. Len(<< >>) = 0
      OBVIOUS
    <3> QED BY <3>4, <3>5 DEF Done, n
  <2>5. PICK v \in Sessions : WaitsFor("B", v)
    BY <1>1, <2>4, StuckWaits
  <2>6. v # "A"
    BY <1>1, <1>2, <2>1, <2>5 DEF InCycle
  <2>7. "B" # "A"
    OBVIOUS
  <2>8. Op("B").st.do = "insert"
    BY <1>1, <2>5, <2>6, <2>7, WorkersWait
  <2> QED BY <2>2, <2>8
<1> QED BY <1>2

\* When a lock wait times out, every session has shown what it has to show, and A is not the one that waits.
LEMMA TimeoutShows ==
  ASSUME NEW pl, NEW stops, CaseNow(pl, stops), NEW s \in Sessions, LockWaitTimeout(s)
  PROVE  s # "A" /\ \A t \in Sessions : Shown(t)
<1>1. /\ "A" \in Sessions /\ TypeInv /\ Waiting(s) /\ Running(s)
      /\ (\A t \in Sessions : Stuck(t) /\ Well(t) /\ ~InCycle(t))
      /\ (\A t \in Sessions : Stuck(t) /\ Well(t))
  BY SessionNames DEF CaseNow, LockWaitTimeout, Well
<1>2. ASSUME NEW t \in Sessions, At(t, "sql")
      PROVE  ~Done(t) /\ Script(t) # << >> /\ pc[t] \in 1 .. Len(Script(t))
  <2> DEFINE n == Len(Script(t))
  <2>1. pc[t] \in 1 .. n
    BY <1>1, <1>2, Running1 DEF At
  <2>2. n \in Nat /\ pc[t] \in Nat
    BY <1>1, ScriptLengths
  <2> HIDE DEF n
  <2>3. ~(pc[t] > n) /\ n # 0
    BY <2>1, <2>2
  <2>4. Len(<< >>) = 0
    OBVIOUS
  <2> QED BY <2>1, <2>3, <2>4 DEF Done, n
<1>3. ASSUME NEW t \in Sessions, At(t, "sql")
      PROVE  t # "A" /\ Waiting(t) /\ \E u \in Sessions : WaitsFor(t, u)
  <2>1. Waiting(t) /\ \E u \in Sessions : WaitsFor(t, u)
    BY <1>1, <1>2, <1>3, StuckWaits
  <2>2. PICK u \in Sessions : WaitsFor(t, u)
    BY <2>1
  <2> QED BY <1>1, <2>1, <2>2, StuckWithoutA
<1>4. At(s, "sql")
  BY <1>1, WaitingRuns
<1>5. s # "A"
  BY <1>3, <1>4
<1>6. ASSUME NEW t \in Sessions, ~(Script(t) = << >> \/ Done(t))
      PROVE  Op(t).op = "sql" /\ Op(t).blocked
  <2>1. Waiting(t)
    BY <1>1, <1>6, StuckWaits
  <2>2. At(t, "sql") /\ Op(t).op = "sql"
    BY <1>1, <2>1, WaitingRuns DEF At
  <2>3. t # "A" /\ \E u \in Sessions : WaitsFor(t, u)
    BY <1>3, <2>2
  <2>4. PICK u \in Sessions : WaitsFor(t, u)
    BY <2>3
  <2>5. CASE u = "A"
    BY <2>2, <2>4, <2>5, WaitsForA
  <2>6. CASE u # "A"
    <3>1. /\ Op(t).st.do = "insert" /\ waits[t] \in Asks(pl, DOMAIN prog.data, t, Op(t).st)
          /\ At(u, "sql") /\ Op(u).st.do # "insert" /\ at[u].stage # "idle" /\ t # u
          /\ MyLocks(u) # {} \/ (Waiting(u) /\ Conflicts(waits[t], waits[u]))
      <4>1. /\ Op(t).st.do = "insert" /\ waits[t] \in Asks(pl, DOMAIN prog.data, t, Op(t).st)
            /\ Op(u).st.do # "insert" /\ at[u].stage # "idle" /\ t # u
            /\ MyLocks(u) # {} \/ (Waiting(u) /\ Conflicts(waits[t], waits[u]))
        BY <2>3, <2>4, <2>6, WorkersWait
      <4>2. At(u, "sql")
        BY <1>1, <4>1, BusyRuns
      <4> QED BY <4>1, <4>2
    <3>2. PICK v \in Sessions : WaitsFor(u, v)
      BY <1>3, <3>1
    <3>3. v = "A"
      BY <2>6, <3>1, <3>2, WorkersWait
    <3>4. inTx["A"] /\ Op(u).blocked
      BY <3>2, <3>3, WaitsForA
    <3>5. /\ at[u].stage = "index" /\ at[u].rec \in Begins(pl, DOMAIN prog.data, Op(u).st.w) /\ MyLocks(u) = {}
      BY <2>6, <3>1, <3>4 DEF CaseNow, CaseInv, Local, AtGate
    <3>6. Waiting(u) /\ Conflicts(waits[t], waits[u])
      BY <3>1, <3>5
    <3>7. waits[u] = IndexLock(u, Op(u).st, at[u].rec)
      BY <3>5, <3>6, WaitingRuns
    <3>8. ASSUME ~Op(t).blocked
          PROVE  FALSE
      <4>1. t \in {"B", "C"} /\ u \in {"B", "C"} /\ t # u
        BY <2>3, <2>6, <3>1, SessionNames
      <4>2. pc[t] \in 1 .. Len(prog.script[t]) /\ pc[u] \in 1 .. Len(prog.script[u])
        BY <1>2, <2>2, <3>1 DEF Script
      <4>3. Op(u).op = "sql"
        BY <3>1 DEF At
      <4>4. AllApart(pl, prog)
        BY DEF CaseNow, CasePlan
      <4>5. Apart(pl, DOMAIN prog.data, t, Op(t).st, u, Op(u).st)
        BY <2>2, <3>4, <3>8, <4>1, <4>2, <4>3, <4>4 DEF AllApart, Op, Script
      <4>6. waits[t] \in InsertAsks(pl, DOMAIN prog.data, t, Op(t).st)
        BY <3>1 DEF Asks
      <4> QED BY <3>1, <3>5, <3>6, <3>7, <4>5, <4>6 DEF Apart
    <3> QED BY <2>2, <3>8
  <2> QED BY <2>5, <2>6
<1> QED BY <1>5, <1>6 DEF Shown

\* The fields of Idle.
LEMMA IdleIs == Idle.stage = "idle" /\ Idle.hits = {}
  BY DEF Idle

\* A session that ended its statement has nothing queued.
LEMMA EndedRests ==
  ASSUME NEW pl, NEW stops, CaseNow(pl, stops), NEW s \in Sessions, at'[s] = Idle, waits'[s] = NoRequest,
         iso'[s] = "RR", err'[s] \notin RolledBack
  PROVE  iso'[s] = "RR" /\ Stands(pl, s)' /\ Queued(pl, s)' /\ Failed(s)' /\ Rests(s)'
<1>1. at'[s].stage = "idle"
  BY IdleIs
<1> QED BY <1>1 DEF Stands, Queued, Failed, Rests

\* A's return.
LEMMA ReturnOfA ==
  ASSUME NEW pl, NEW stops, CaseNow(pl, stops), Return("A")
  PROVE  RunsA(pl, stops)' /\ pc["A"] \in {2, 4} /\ pc'["A"] = pc["A"] + 1
<1> DEFINE H == Held(pl, stops, prog)
<1>1. /\ At("A", "sql") /\ Finish("A") /\ Step({"A"}) /\ UNCHANGED <<prog, err, dropped>> /\ "A" \in Sessions
  BY SessionNames DEF Return
<1>2. /\ RunsA(pl, stops) /\ Tables /\ TypeInv /\ (\A l \in locks : IsLock(l)) /\ Well("A")
  <2>1. Well("A")
    BY <1>1, AtSql
  <2>2. RunsA(pl, stops)
    BY SessionNames DEF CaseNow, CaseInv, Local
  <2>3. Tables /\ TypeInv /\ (\A l \in locks : IsLock(l))
    BY DEF CaseNow, CaseInv
  <2> QED BY <2>1, <2>2, <2>3
<1>3. /\ inTx' = inTx /\ at["A"].stage = "end"
      /\ IF inTx["A"] THEN MyLocks("A")' = MyLocks("A") ELSE MyLocks("A")' = {}
  BY <1>1, <1>2, FinishFrame
<1>4. Script("A")' = Script("A") /\ H' = H /\ pc'["A"] = pc["A"] + 1
  BY <1>1 DEF Script, Step
<1>5. pc["A"] = 2 \/ (pc["A"] = 4 /\ Len(Script("A")) = 4)
  BY <1>1, AtSql, CaseWorks
<1>6. "A" \notin dropped => inTx["A"] = TRUE
  <2>1. pc["A"] > 1
    BY <1>5
  <2> QED BY <1>2, <2>1 DEF RunsA
<1>9. ~Scans' /\ err'["A"] \notin RolledBack /\ ("A" \in dropped' => inTx'["A"] = FALSE)
  <2>1. pc'["A"] = 3 \/ pc'["A"] = 5
    BY <1>4, <1>5
  <2>2. ~Scans'
    BY <2>1 DEF Scans
  <2> QED BY <1>1, <1>2, <1>3, <2>2 DEF RunsA
<1>7. CASE pc["A"] = 2
  <2> 2 <= 2
    OBVIOUS
  <2>0. Scans
    BY <1>2, <1>7 DEF Scans, Well
  <2>1. AWalks(pl, stops) /\ MyLocks("A") \subseteq H
    BY <1>2, <1>7, <2>0 DEF RunsA
  <2>2. H \subseteq MyLocks("A")
    BY <1>3, <2>1 DEF AWalks
  <2>3. pc'["A"] = 3 /\ 3 # 1 /\ 3 # 2 /\ ~(3 <= 2) /\ 3 > 1
    BY <1>4, <1>7
  <2>5. /\ inTx'["A"] => H' \subseteq MyLocks("A")'
        /\ \A l \in MyLocks("A")' : l \in H' /\ inTx'["A"]
    BY <1>3, <1>4, <2>1, <2>2
  <2>4. RunsA(pl, stops)'
    BY <1>1, <1>3, <1>6, <1>9, <2>3, <2>5 DEF RunsA
  <2> QED BY <1>4, <1>7, <2>4
<1>8. CASE pc["A"] = 4 /\ Len(Script("A")) = 4
  <2>1. pc'["A"] = 5 /\ 5 # 1 /\ 5 # 2 /\ ~(5 <= 2) /\ 5 > 1 /\ 5 >= 3 /\ 5 >= 4 /\ 4 >= 3 /\ 4 >= 4
    BY <1>4, <1>8
  <2>3. /\ inTx["A"] => H \subseteq MyLocks("A")
        /\ \A l \in MyLocks("A") :
              \/ l \in H /\ inTx["A"]
              \/ Len(Script("A")) = 4 /\ (CoversRec(l) => l.rec[2] \in pl.own["A"])
    BY <1>2, <1>8, <2>1 DEF RunsA
  <2>4. /\ inTx'["A"] => H' \subseteq MyLocks("A")'
        /\ \A l \in MyLocks("A")' :
              \/ l \in H' /\ inTx'["A"]
              \/ Len(Script("A")') = 4 /\ (CoversRec(l) => l.rec[2] \in pl.own["A"])
    BY <1>3, <1>4, <2>3
  <2>2. RunsA(pl, stops)'
    BY <1>1, <1>3, <1>6, <1>9, <2>1, <2>4 DEF RunsA
  <2> QED BY <1>4, <1>8, <2>2
<1> QED BY <1>5, <1>7, <1>8

\* A's statement ends after its goroutine is gone.
LEMMA AnswerOfA ==
  ASSUME NEW pl, NEW stops, CaseNow(pl, stops), NobodyToAnswer("A")
  PROVE  RunsA(pl, stops)'
<1> DEFINE H == Held(pl, stops, prog)
<1>1. /\ ~Well("A") /\ Finish("A") /\ UNCHANGED <<prog, pc, err, dropped>> /\ "A" \in Sessions
  BY SessionNames DEF NobodyToAnswer, Well
<1>2. /\ RunsA(pl, stops) /\ Tables /\ TypeInv /\ (\A l \in locks : IsLock(l))
  BY <1>1 DEF CaseNow, CaseInv, Local
<1>3. /\ inTx' = inTx /\ at["A"].stage = "end" /\ at'["A"] = Idle
      /\ IF inTx["A"] THEN MyLocks("A")' = MyLocks("A") ELSE MyLocks("A")' = {}
  BY <1>1, <1>2, FinishFrame
<1>4. Script("A")' = Script("A") /\ H' = H
  BY <1>1 DEF Script
<1>5. ~Scans' /\ pc["A"] # 1
  <2>1. at'["A"].stage = "idle"
    BY <1>3, IdleIs
  <2>2. ~Scans'
    BY <1>1, <2>1 DEF Scans, Well
  <2> QED BY <1>2, <1>3, <2>2 DEF RunsA
<1>6. pc["A"] >= 3 =>
        /\ inTx'["A"] => H' \subseteq MyLocks("A")'
        /\ \A l \in MyLocks("A")' :
              \/ l \in H' /\ inTx'["A"]
              \/ Len(Script("A")') = 4 /\ pc["A"] >= 4 /\ (CoversRec(l) => l.rec[2] \in pl.own["A"])
  BY <1>2, <1>3, <1>4 DEF RunsA
<1>7. err'["A"] \notin RolledBack /\ ("A" \in dropped' => inTx'["A"] = FALSE) /\ ~Well("A")'
  BY <1>1, <1>2, <1>3 DEF RunsA, Well
<1> QED BY <1>1, <1>5, <1>6, <1>7 DEF RunsA

\* The return of a statement.
LEMMA CaseReturn ==
  ASSUME NEW pl, NEW stops, CaseNow(pl, stops), NEW s \in Sessions, Return(s)
  PROVE  CaseInv(pl, stops)' /\ Tables'
<1>1. /\ At(s, "sql") /\ Finish(s) /\ Step({s}) /\ UNCHANGED <<prog, tableLock, waiting, err, dropped>>
  BY DEF Return
<1>2. /\ TypeInv /\ Tables /\ (\A l \in locks : IsLock(l)) /\ Order /\ IsFiniteSet(locks) /\ tableLock = NoSession
      /\ Local(pl, stops, s) /\ Keys(pl)
  BY DEF CaseNow, CaseInv
<1>3. /\ Tables' /\ waits' = waits /\ iso' = iso /\ inTx' = inTx /\ \A l \in locks' : IsLock(l)
      /\ IsFiniteSet(locks)' /\ \A t \in Sessions : t # s => Untouched(t)
      /\ at'[s] = Idle /\ at[s].stage = "end"
      /\ IF inTx[s] THEN MyLocks(s)' = MyLocks(s) /\ undo'[s] = undo[s]
         ELSE MyLocks(s)' = {} /\ undo'[s] = << >>
  BY <1>1, <1>2, FinishFrame
<1>4. /\ pc'[s] = pc[s] + 1 /\ \A t \in Sessions : t # s => pc'[t] = pc[t] /\ err'[t] = err[t]
  BY <1>1 DEF Step
<1>5. Keys(pl)' /\ rows' = rows
  <2>1. rows' = rows /\ (undo' = undo \/ undo' = [undo EXCEPT ![s] = << >>])
    BY <1>1 DEF Finish
  <2>2. CASE undo' = undo
    <3>1. Keys(pl) /\ prog' = prog /\ rows' = rows
      BY <1>1, <1>2, <2>1
    <3> QED BY <2>2, <3>1 DEF Keys, GoodRow, Ids
  <2>3. CASE undo' = [undo EXCEPT ![s] = << >>]
    BY <1>1, <1>2, <2>1, <2>3, KeysUndo
  <2> QED BY <2>1, <2>2, <2>3
<1>6. waits[s] = NoRequest
  BY <1>2, <1>3 DEF Local, Queued
<1>7. Stands(pl, s)' /\ Queued(pl, s)' /\ Failed(s)' /\ Rests(s)' /\ iso'[s] = "RR"
  <2>1. iso'[s] = "RR" /\ waits'[s] = NoRequest
    BY <1>2, <1>3, <1>6 DEF Local
  <2>2. err'[s] \notin RolledBack
    BY <1>1, AtSql, RunningWell
  <2> QED BY <1>3, <2>1, <2>2, EndedRests
<1>8. CASE s = "A"
  <2>1. RunsA(pl, stops)' /\ pc["A"] \in {2, 4} /\ pc'["A"] = pc["A"] + 1
    BY <1>8, ReturnOfA
  <2>2. Local(pl, stops, s)'
    BY <1>7, <1>8, <2>1 DEF Local
  <2>3. Order'
    <3>1. pc["A"] <= 3 <=> pc'["A"] <= 3
      BY <2>1
    <3>2. pc'["B"] = pc["B"] /\ pc'["C"] = pc["C"]
      BY <1>4, <1>8, SessionNames
    <3> QED BY <1>1, <1>2, <3>1, <3>2 DEF Order, Script
  <2> QED BY <1>1, <1>2, <1>3, <1>4, <1>5, <1>8, <2>2, <2>3, CaseKeeps
<1>9. CASE s # "A"
  <2>1. Local(pl, stops, s)'
    <3>1. inTx'[s] = FALSE
      BY <1>2, <1>3, <1>9 DEF Local, Alone
    <3>2. MyLocks(s)' = {} /\ undo'[s] = << >>
      BY <1>3, <3>1
    <3>3. at'[s].stage = "idle"
      BY <1>3, IdleIs
    <3>4. Alone(pl, s)' /\ AtGate(pl, s, Held(pl, stops, prog))'
      BY <3>1, <3>2, <3>3 DEF Alone, AtGate
    <3> QED BY <1>7, <1>9, <3>4 DEF Local
  <2>2. /\ pc["A"] > 3 /\ s \in {"B", "C"} /\ pc[s] \in Nat /\ pc["B"] \in Nat /\ pc["C"] \in Nat
        /\ "A" \in Sessions /\ "B" \in Sessions /\ "C" \in Sessions
    BY <1>1, <1>2, <1>9, AtSql, CaseWorks, SessionNames DEF TypeInv, ControlOK
  <2>3. /\ s = "B" => pc[s] >= 2 /\ (pc[s] > 2 \/ Script("C") = << >>)
        /\ s = "C" => pc[s] >= 2
    <3>1. Running(s) /\ Op(s).op = "sql"
      BY <1>1 DEF At
    <3>2. \A ch : Send(ch).op # "sql" /\ Recv(ch).op # "sql"
      BY DEF Send, Recv
    <3> QED BY <3>1, <3>2, CaseOps
  <2>4. Order'
    <3>1. pc'["A"] = pc["A"] /\ Script("C")' = Script("C")
      BY <1>1, <1>4, <1>9, <2>2 DEF Script
    <3>2. CASE s = "B"
      <4>1. pc'["C"] = pc["C"] /\ pc'["B"] # 1 /\ pc["B"] # 1 /\ (pc["B"] > 2 => ~(pc["B"] <= 2) /\ ~(pc'["B"] <= 2))
        BY <1>4, <2>2, <2>3, <3>2
      <4> QED BY <1>2, <2>3, <3>1, <3>2, <4>1 DEF Order
    <3>3. CASE s = "C"
      <4>1. pc'["B"] = pc["B"] /\ pc'["C"] # 1 /\ pc["C"] # 1
        BY <1>4, <2>2, <2>3, <3>3
      <4> QED BY <1>2, <3>1, <4>1 DEF Order
    <3> QED BY <2>2, <3>2, <3>3
  <2> QED BY <1>1, <1>2, <1>3, <1>4, <1>5, <2>1, <2>2, <2>4, CaseKeeps
<1> QED BY <1>3, <1>8, <1>9

\* A statement ends with nobody to answer.
LEMMA CaseAnswers ==
  ASSUME NEW pl, NEW stops, CaseNow(pl, stops), NEW s \in Sessions, NobodyToAnswer(s)
  PROVE  CaseInv(pl, stops)' /\ Tables'
<1>1. Finish(s) /\ UNCHANGED <<prog, pc, tableLock, err, dropped>>
  BY DEF NobodyToAnswer
<1>2. /\ TypeInv /\ Tables /\ (\A l \in locks : IsLock(l)) /\ Order /\ IsFiniteSet(locks) /\ tableLock = NoSession
      /\ Local(pl, stops, s) /\ Keys(pl)
  BY DEF CaseNow, CaseInv
<1>3. /\ Tables' /\ waits' = waits /\ iso' = iso /\ inTx' = inTx /\ \A l \in locks' : IsLock(l)
      /\ IsFiniteSet(locks)' /\ \A t \in Sessions : t # s => Untouched(t)
      /\ at'[s] = Idle /\ at[s].stage = "end"
      /\ IF inTx[s] THEN MyLocks(s)' = MyLocks(s) /\ undo'[s] = undo[s]
         ELSE MyLocks(s)' = {} /\ undo'[s] = << >>
  BY <1>1, <1>2, FinishFrame
<1>4. Keys(pl)' /\ rows' = rows
  <2>1. rows' = rows /\ (undo' = undo \/ undo' = [undo EXCEPT ![s] = << >>])
    BY <1>1 DEF Finish
  <2>2. CASE undo' = undo
    <3>1. Keys(pl) /\ prog' = prog /\ rows' = rows
      BY <1>1, <1>2, <2>1
    <3> QED BY <2>2, <3>1 DEF Keys, GoodRow, Ids
  <2>3. CASE undo' = [undo EXCEPT ![s] = << >>]
    BY <1>1, <1>2, <2>1, <2>3, KeysUndo
  <2> QED BY <2>1, <2>2, <2>3
<1>5. Order'
  BY <1>1, <1>2 DEF Order, Script
<1>6. Stands(pl, s)' /\ Queued(pl, s)' /\ Failed(s)' /\ Rests(s)' /\ iso'[s] = "RR"
  <2>1. iso'[s] = "RR" /\ waits'[s] = NoRequest
    BY <1>2, <1>3 DEF Local, Queued
  <2>2. err'[s] \notin RolledBack
    BY <1>1, <1>2, <1>3 DEF Local, Failed
  <2> QED BY <1>3, <2>1, <2>2, EndedRests
<1>7. Local(pl, stops, s)'
  <2>1. CASE s = "A"
    <3>1. RunsA(pl, stops)'
      BY <2>1, AnswerOfA
    <3> QED BY <1>6, <2>1, <3>1 DEF Local
  <2>2. CASE s # "A"
    <3>1. inTx'[s] = FALSE
      BY <1>2, <1>3, <2>2 DEF Local, Alone
    <3>2. MyLocks(s)' = {} /\ undo'[s] = << >>
      BY <1>3, <3>1
    <3>3. at'[s].stage = "idle"
      BY <1>3, IdleIs
    <3>4. Alone(pl, s)' /\ AtGate(pl, s, Held(pl, stops, prog))'
      BY <3>1, <3>2, <3>3 DEF Alone, AtGate
    <3> QED BY <1>6, <2>2, <3>4 DEF Local
  <2> QED BY <2>1, <2>2
<1>8. \A t \in Sessions : t # s => pc'[t] = pc[t]
  BY <1>1
<1> QED BY <1>1, <1>2, <1>3, <1>4, <1>5, <1>7, <1>8, CaseKeeps

\* A begins.
LEMMA CaseBegins ==
  ASSUME NEW pl, NEW stops, CaseNow(pl, stops), NEW s \in Sessions, BeginTx(s)
  PROVE  CaseInv(pl, stops)' /\ Tables'
<1>1. /\ At(s, "begin") /\ Begin(s) /\ Step({s}) /\ UNCHANGED <<prog, tableLock, waiting, seen, err, dropped, ended>>
  BY DEF BeginTx
<1>2. /\ TypeInv /\ Tables /\ (\A l \in locks : IsLock(l)) /\ Order /\ IsFiniteSet(locks) /\ tableLock = NoSession
      /\ Local(pl, stops, s) /\ Keys(pl) /\ Well(s) /\ err[s] \notin RolledBack
  <2>1. Well(s) /\ err[s] \notin RolledBack
    BY <1>1, RunningWell DEF At
  <2> QED BY <2>1 DEF CaseNow, CaseInv
<1>3. s = "A" /\ pc["A"] = 1
  BY <1>1, CaseKinds DEF At
<1>4. /\ UNCHANGED <<rows, locks, waits, before, undo, iso, at>> /\ inTx' = [inTx EXCEPT !["A"] = TRUE]
  BY <1>1, <1>3 DEF Begin
<1>5. /\ pc'["A"] = 2 /\ \A t \in Sessions : t # s => pc'[t] = pc[t] /\ err'[t] = err[t]
  BY <1>1, <1>3 DEF Step
<1>6. Tables' /\ inTx'["A"] = TRUE /\ \A t \in Sessions : t # s => Untouched(t)
  BY <1>2, <1>3, <1>4 DEF Tables, Untouched, MyLocks
<1>7. Keys(pl)' /\ MyLocks("A")' = MyLocks("A")
  BY <1>1, <1>2, <1>4 DEF Keys, GoodRow, Ids, MyLocks
<1>8. RunsA(pl, stops) /\ at["A"] = Idle /\ at["A"].stage = "idle" /\ at["A"].hits = {} /\ waits["A"] = NoRequest
  <2>1. RunsA(pl, stops) /\ at["A"].stage = "idle" /\ at["A"] = Idle
    BY <1>2, <1>3 DEF Local, RunsA, Rests
  <2>2. waits["A"] = NoRequest
    BY <1>2, <1>3, <2>1 DEF Local, Queued
  <2> QED BY <2>1, <2>2, IdleIs
<1>9. RunsA(pl, stops)'
  <2>1. MyLocks("A") = {} /\ undo["A"] = << >> /\ "A" \notin dropped
    BY <1>3, <1>8 DEF RunsA
  <2>2. /\ Ids = DOMAIN prog.data /\ \A i \in Ids \ at["A"].hits : ~rows[i].del
        /\ MyLocks("A") \subseteq Held(pl, stops, prog)
    <3>1. 1 <= 2
      OBVIOUS
    <3>2. Scans
      BY <1>2, <1>3, <3>1 DEF Scans
    <3> QED BY <1>8, <3>2 DEF RunsA
  <2>3. AWalks(pl, stops)'
    BY <1>4, <1>7, <1>8, <2>1 DEF AWalks
  <2>4. ~(2 >= 3) /\ 2 # 1
    OBVIOUS
  <2>5. Ids' = Ids /\ rows' = rows /\ at' = at /\ prog' = prog /\ err' = err /\ dropped' = dropped
    BY <1>1, <1>4 DEF Ids
  <2>6. err'["A"] \notin RolledBack
    BY <1>2, <1>3, <2>5
  <2>7. Ids' = DOMAIN prog'.data /\ \A i \in Ids' \ at'["A"].hits : ~rows'[i].del
    BY <2>2, <2>5
  <2>8. MyLocks("A")' \subseteq Held(pl, stops, prog')
    BY <1>7, <2>2, <2>5
  <2> QED BY <1>5, <1>6, <2>1, <2>3, <2>4, <2>5, <2>6, <2>7, <2>8 DEF RunsA
<1>10. Local(pl, stops, s)'
  <2>1. at'[s] = Idle /\ waits'[s] = NoRequest /\ iso'[s] = "RR" /\ err'[s] \notin RolledBack
    BY <1>1, <1>2, <1>3, <1>4, <1>8 DEF Local
  <2>2. iso'[s] = "RR" /\ Stands(pl, s)' /\ Queued(pl, s)' /\ Failed(s)' /\ Rests(s)'
    BY <2>1, EndedRests
  <2> QED BY <1>3, <1>9, <2>2 DEF Local
<1>11. Order'
  <2>1. pc["A"] <= 3 <=> pc'["A"] <= 3
    BY <1>3, <1>5
  <2>2. pc'["B"] = pc["B"] /\ pc'["C"] = pc["C"]
    BY <1>3, <1>5, SessionNames
  <2> QED BY <1>1, <1>2, <2>1, <2>2 DEF Order, Script
<1>12. IsFiniteSet(locks)' /\ \A l \in locks' : IsLock(l)
  BY <1>2, <1>4
<1>13. \A t \in Sessions : t # "A" => at[t].stage = "idle"
  <2> SUFFICES ASSUME NEW t \in Sessions, t # "A", at[t].stage # "idle"
               PROVE  FALSE
    OBVIOUS
  <2>1. pc["A"] > 3
    BY BusyRuns, CaseWorks
  <2> QED BY <1>3, <2>1
<1> QED BY <1>1, <1>2, <1>3, <1>4, <1>5, <1>6, <1>7, <1>10, <1>11, <1>12, <1>13, CaseKeeps

\* Who can meet whom.
LEMMA CaseMeets ==
  ASSUME NEW pl, NEW stops, CaseNow(pl, stops), NEW s \in Sessions, NEW r \in Sessions, Rendezvous(s, r)
  PROVE  \/ s = "A" /\ r = "B" /\ pc["A"] = 3 /\ pc["B"] = 1
         \/ s = "B" /\ r = "C" /\ pc["B"] = 2 /\ pc["C"] = 1 /\ Script("C") # << >>
<1>1. /\ Running(s) /\ Running(r) /\ Op(s).op = "send" /\ Op(r).op = "recv" /\ Op(s).ch = Op(r).ch
  BY DEF Rendezvous, At
<1>2. \/ s = "A" /\ pc[s] = 3 /\ Op(s).ch = "t2"
      \/ s = "B" /\ pc[s] = 2 /\ Op(s).ch = "t3" /\ Script("C") # << >>
  BY <1>1, CaseKinds
<1>3. \/ r = "B" /\ pc[r] = 1 /\ Op(r).ch = "t2"
      \/ r = "C" /\ pc[r] = 1 /\ Op(r).ch = "t3" /\ Script("C") # << >>
  BY <1>1, CaseKinds
<1>4. "t2" # "t3"
  OBVIOUS
<1> QED BY <1>1, <1>2, <1>3, <1>4

\* A message from A to B, or from B to C.
LEMMA CaseRendezvous ==
  ASSUME NEW pl, NEW stops, CaseNow(pl, stops), NEW s \in Sessions, NEW r \in Sessions, Rendezvous(s, r)
  PROVE  CaseInv(pl, stops)' /\ Tables'
<1>1. /\ At(s, "send") /\ At(r, "recv") /\ Step({s, r})
      /\ UNCHANGED <<dbVars, prog, tableLock, waiting, seen, err, dropped, ended>>
  BY DEF Rendezvous
<1>2. /\ rows' = rows /\ locks' = locks /\ waits' = waits /\ before' = before /\ undo' = undo
      /\ inTx' = inTx /\ iso' = iso /\ at' = at /\ prog' = prog /\ err' = err /\ dropped' = dropped
      /\ tableLock' = tableLock
  BY <1>1 DEF dbVars
<1>3. /\ Order /\ IsFiniteSet(locks) /\ tableLock = NoSession /\ (\A l \in locks : IsLock(l)) /\ Keys(pl) /\ Tables
      /\ \A t \in Sessions : Local(pl, stops, t)
  BY DEF CaseNow, CaseInv
<1>4. \/ s = "A" /\ r = "B" /\ pc["A"] = 3 /\ pc["B"] = 1
      \/ s = "B" /\ r = "C" /\ pc["B"] = 2 /\ pc["C"] = 1 /\ Script("C") # << >>
  BY CaseMeets
<1>5. /\ "A" \in Sessions /\ "B" \in Sessions /\ "C" \in Sessions
      /\ pc["A"] \in Nat /\ pc["B"] \in Nat /\ pc["C"] \in Nat
  BY SessionNames DEF CaseNow, TypeInv, ControlOK
<1>6. /\ \A t \in {s, r} : pc'[t] = pc[t] + 1
      /\ \A t \in Sessions \ {s, r} : pc'[t] = pc[t]
  BY <1>1 DEF Step
<1>7. ASSUME NEW t \in {s, r}
      PROVE  Local(pl, stops, t)'
  <2>1. at[t].stage = "idle" /\ Well(t) /\ err[t] \notin RolledBack
    <3>1. Running(t) /\ Op(t).op \in {"send", "recv"}
      BY <1>1, <1>7 DEF At
    <3>2. ~InSql(t)
      BY <3>1 DEF InSql
    <3> QED BY <3>1, <3>2, BusyRuns, RunningWell
  <2>2. at[t] = Idle /\ waits[t] = NoRequest /\ iso[t] = "RR"
    BY <1>3, <1>7, <2>1 DEF Local, Rests, Queued
  <2>3. iso'[t] = "RR" /\ Stands(pl, t)' /\ Queued(pl, t)' /\ Failed(t)' /\ Rests(t)'
    <3>1. at'[t] = Idle /\ waits'[t] = NoRequest /\ iso'[t] = "RR" /\ err'[t] \notin RolledBack
      BY <1>2, <2>1, <2>2
    <3> QED BY <3>1, EndedRests
  <2>4. CASE t = "A"
    <3>1. pc["A"] = 3 /\ pc'["A"] = 4
      BY <1>4, <1>6, <1>7, <2>4
    <3>2. 4 >= 3 /\ 4 > 1 /\ 4 # 1 /\ ~(4 <= 2) /\ 4 # 2 /\ 3 >= 3 /\ 3 > 1 /\ ~(3 >= 4)
      OBVIOUS
    <3>3. RunsA(pl, stops)
      BY <1>3, <1>7, <2>4 DEF Local
    <3>4. MyLocks("A")' = MyLocks("A") /\ Script("A")' = Script("A")
      BY <1>2 DEF MyLocks, Script
    <3>6. ~Scans' /\ (Well("A")' <=> Well("A"))
      BY <1>2, <3>1, <3>2 DEF Scans, Well
    <3>5. RunsA(pl, stops)'
      BY <1>2, <3>1, <3>2, <3>3, <3>4, <3>6 DEF RunsA
    <3> QED BY <2>3, <2>4, <3>5 DEF Local
  <2>5. CASE t # "A"
    <3>1. Alone(pl, t)
      BY <1>3, <1>7, <2>5 DEF Local
    <3>2. MyLocks(t) = {} /\ undo[t] = << >> /\ inTx[t] = FALSE
      BY <2>1, <3>1 DEF Alone
    <3>3. MyLocks(t)' = {} /\ undo'[t] = << >> /\ inTx'[t] = FALSE /\ at'[t].stage = "idle"
      BY <1>2, <2>1, <3>2 DEF MyLocks
    <3>4. Alone(pl, t)' /\ AtGate(pl, t, Held(pl, stops, prog))'
      BY <3>3 DEF Alone, AtGate
    <3> QED BY <2>3, <2>5, <3>4 DEF Local
  <2> QED BY <2>4, <2>5
<1>8. ASSUME NEW t \in Sessions \ {s, r}
      PROVE  Local(pl, stops, t)'
  <2>1. Untouched(t) /\ NoLockError(t)
    BY <1>2 DEF Untouched, MyLocks, NoLockError
  <2> QED BY <1>2, <1>6, <1>8, <2>1, OthersHold
<1>9. Order'
  <2>1. Script("C")' = Script("C")
    BY <1>2 DEF Script
  <2>2. CASE s = "A" /\ r = "B" /\ pc["A"] = 3 /\ pc["B"] = 1
    <3>1. pc'["A"] = 4 /\ pc'["B"] = 2 /\ pc'["C"] = pc["C"]
      BY <1>5, <1>6, <2>2
    <3>2. ~(4 <= 3) /\ 2 # 1 /\ 2 <= 2 /\ 1 <= 2
      OBVIOUS
    <3> QED BY <1>3, <2>1, <2>2, <3>1, <3>2 DEF Order
  <2>3. CASE s = "B" /\ r = "C" /\ pc["B"] = 2 /\ pc["C"] = 1 /\ Script("C") # << >>
    <3>1. pc'["A"] = pc["A"] /\ pc'["B"] = 3 /\ pc'["C"] = 2
      BY <1>5, <1>6, <2>3
    <3>2. ~(3 <= 2) /\ 2 # 1 /\ 3 # 1
      OBVIOUS
    <3> QED BY <1>3, <2>1, <2>3, <3>1, <3>2 DEF Order
  <2> QED BY <1>4, <2>2, <2>3
<1>10. Keys(pl)' /\ Tables'
  <2>1. Tables'
    BY <1>2, <1>3 DEF Tables
  <2>2. Keys(pl)'
    BY <1>2, <1>3 DEF Keys, GoodRow, Ids
  <2> QED BY <2>1, <2>2
<1>11. \A t \in Sessions : Local(pl, stops, t)'
  BY <1>7, <1>8
<1>12. IsFiniteSet(locks)' /\ tableLock' = NoSession /\ \A l \in locks' : IsLock(l)
  BY <1>2, <1>3
<1>13. Together'
  BY <1>2 DEF CaseNow, CaseInv, Together
<1> QED BY <1>9, <1>10, <1>11, <1>12, <1>13 DEF CaseInv

\* A's connection is closed or replaced.
LEMMA UndoesA ==
  ASSUME NEW pl, NEW stops, CaseNow(pl, stops), Undoes("A"), err' = err
  PROVE  RunsA(pl, stops)'
<1>1. /\ "A" \in Sessions /\ TypeInv /\ Tables /\ (\A l \in locks : IsLock(l)) /\ RunsA(pl, stops)
      /\ iso["A"] = "RR" /\ Rests("A") /\ tableLock = NoSession
  BY SessionNames DEF CaseNow, CaseInv, Local
<1>2. /\ RollBack("A") /\ UNCHANGED <<prog, pc>>
      /\ dropped' = dropped \/ (Running("A") /\ dropped' = dropped \cup {"A"})
  BY <1>1, UndoesMoves
<1>3. /\ at'["A"] = Idle /\ inTx'["A"] = FALSE /\ MyLocks("A")' = {} /\ undo'["A"] = << >>
  BY <1>1, <1>2, RollBackFrame
<1>4. Well("A")' <=> Well("A")
  BY DEF Well
<1>5. Well("A") => Running("A") /\ LostBetween("A") /\ "A" \in dropped'
  <2>1. ASSUME Well("A")
        PROVE  Running("A") /\ LostBetween("A")
    <3>1. ~HangUp("A")
      BY <2>1 DEF HangUp, Well
    <3>2. ~(err' = [err EXCEPT !["A"] = "deadlock"]) /\ ~(err' = [err EXCEPT !["A"] = "timeout"])
      <4>1. err["A"] \notin {"deadlock", "timeout"}
        BY <2>1, Zenon DEF Well
      <4>2. err \in [Sessions -> Errors \cup {"", "killed"}]
        BY <1>1 DEF TypeInv, ControlOK
      <4> DEFINE X == Errors \cup {"", "killed"}
      <4>3. err \in [Sessions -> X]
        BY <4>2
      <4> HIDE DEF X
      <4> QED BY <1>1, <4>1, <4>3
    <3> QED BY <3>1, <3>2 DEF Undoes, DeadlockFound, LockWaitTimeout, Fails
  <2> QED BY <2>1 DEF LostBetween
<1>6. pc["A"] # 1
  <2>1. ASSUME pc["A"] = 1
        PROVE  FALSE
    <3>1. at["A"] = Idle /\ inTx["A"] = FALSE
      BY <1>1, <2>1 DEF RunsA, Rests
    <3>2. ~Open("A")
      <4>1. tableLock # "A" /\ "RR" # "RC"
        BY <1>1 DEF NoSession
      <4> QED BY <1>1, <3>1, <4>1 DEF Open
    <3>3. ~HangUp("A") /\ ~LostBetween("A")
      BY <3>2 DEF HangUp, LostBetween
    <3>4. at["A"].stage = "idle"
      BY <1>1, <2>1 DEF RunsA
    <3>5. ~Waiting("A")
      <4>1. Waiting("A") => at["A"].stage \in {"index", "row", "insP", "insC"}
        BY <1>1, WaitingRuns
      <4> QED BY <3>4, <4>1
    <3>6. ~DeadlockFound("A")
      BY <3>5 DEF DeadlockFound, Victim, InCycle, WaitsFor
    <3>7. ~LockWaitTimeout("A")
      BY <3>5 DEF LockWaitTimeout
    <3> QED BY <3>3, <3>6, <3>7 DEF Undoes
  <2> QED BY <2>1
<1>7. Scans' => Scans
  <2>1. at'["A"].stage = "idle"
    BY <1>3, IdleIs
  <2> QED BY <1>2, <1>4, <2>1 DEF Scans
<1>8. pc["A"] \in Nat
  BY <1>1 DEF TypeInv, ControlOK
<1>9. Scans' => /\ Ids' = DOMAIN prog'.data /\ (\A i \in Ids' \ at'["A"].hits : ~rows'[i].del)
                /\ AWalks(pl, stops)'
  <2> SUFFICES ASSUME Scans'
               PROVE  /\ Ids' = DOMAIN prog'.data /\ (\A i \in Ids' \ at'["A"].hits : ~rows'[i].del)
                      /\ AWalks(pl, stops)'
    OBVIOUS
  <2>1. pc["A"] = 2 /\ Scans /\ Well("A")
    <3>1. pc["A"] <= 2 /\ pc["A"] >= 1
      <4>1. pc["A"] <= 2
        BY <1>2 DEF Scans
      <4>2. pc["A"] \in 1 .. Len(Script("A")) + 1 /\ Len(Script("A")) \in Nat
        BY <1>1, ScriptLengths
      <4> QED BY <1>8, <4>1, <4>2
    <3>2. at'["A"].stage = "idle"
      BY <1>3, IdleIs
    <3> QED BY <1>4, <1>6, <1>7, <1>8, <3>1, <3>2 DEF Scans
  <2>2. at["A"].stage = "idle" /\ at["A"].hits = {}
    BY <1>5, <2>1, IdleIs DEF LostBetween
  <2>3. /\ Ids = DOMAIN prog.data /\ (\A i \in Ids \ at["A"].hits : ~rows[i].del) /\ AWalks(pl, stops)
    BY <1>1, <2>1 DEF RunsA
  <2>4. undo["A"] = << >>
    BY <2>2, <2>3 DEF AWalks
  <2>5. rows' = Undone(undo["A"])
    BY <1>2 DEF RollBack
  <2>6. rows' = rows
    BY <1>1, <2>4, <2>5, UndoneNothing DEF TypeInv, DataOK
  <2>7. at'["A"].stage = "idle" /\ at'["A"].hits = {}
    BY <1>3, IdleIs
  <2>8. AWalks(pl, stops)'
    BY <1>3, <2>7 DEF AWalks
  <2>9. Ids' = DOMAIN prog'.data /\ (\A i \in Ids' \ at'["A"].hits : ~rows'[i].del)
    BY <1>2, <2>2, <2>3, <2>6, <2>7 DEF Ids
  <2> QED BY <2>8, <2>9
<1>10. err'["A"] \notin RolledBack
  BY <1>1 DEF RunsA
<1>11. "A" \notin dropped' => ~Well("A")'
  BY <1>4, <1>5
<1> QED BY <1>2, <1>3, <1>6, <1>9, <1>10, <1>11 DEF RunsA

\* A session is rolled back: its statement fails, or its connection is closed or replaced.
LEMMA CaseUndoes ==
  ASSUME NEW pl, NEW stops, CaseNow(pl, stops), NEW s \in Sessions, Undoes(s)
  PROVE  CaseInv(pl, stops)' /\ Tables'
<1>1. /\ TypeInv /\ Tables /\ (\A l \in locks : IsLock(l)) /\ Order /\ IsFiniteSet(locks) /\ Keys(pl)
      /\ tableLock = NoSession /\ Local(pl, stops, s) /\ err = [t \in Sessions |-> err[t]]
  BY DEF CaseNow, CaseInv, TypeInv, ControlOK
<1>2. /\ RollBack(s) /\ UNCHANGED <<prog, pc>> /\ tableLock' = NoSession
      /\ dropped' = dropped \/ dropped' = dropped \cup {s}
  BY <1>1, UndoesMoves
<1>3. /\ Tables' /\ (\A l \in locks' : IsLock(l)) /\ IsFiniteSet(locks)'
      /\ \A t \in Sessions : t # s => Untouched(t)
      /\ at'[s] = Idle /\ waits'[s] = NoRequest /\ iso'[s] = "RR" /\ inTx'[s] = FALSE
      /\ MyLocks(s)' = {} /\ undo'[s] = << >>
  BY <1>1, <1>2, RollBackFrame
<1>4. Keys(pl)'
  <2>1. rows' = Undone(undo[s]) /\ undo' = [undo EXCEPT ![s] = << >>]
    BY <1>2 DEF RollBack
  <2> QED BY <1>1, <1>2, <2>1, KeysUndo
<1>5. Order'
  BY <1>1, <1>2 DEF Order, Script
<1>6. CASE err' = err
  <2>1. Stands(pl, s)' /\ Queued(pl, s)' /\ Failed(s)' /\ Rests(s)'
    <3>1. at'[s].stage = "idle"
      BY <1>3, IdleIs
    <3>2. err'[s] \in RolledBack => InSql(s)'
      BY <1>1, <1>2, <1>6 DEF Local, Failed, InSql, Op, Script
    <3> QED BY <1>3, <3>1, <3>2 DEF Stands, Queued, Failed, Rests
  <2>2. CASE s = "A"
    <3>1. RunsA(pl, stops)'
      BY <1>6, <2>2, UndoesA
    <3>2. Local(pl, stops, s)'
      BY <1>3, <2>1, <2>2, <3>1 DEF Local
    <3> QED BY <1>2, <1>3, <1>4, <1>5, <1>6, <2>2, <3>2, CaseKeeps
  <2>3. CASE s # "A"
    <3>1. at[s].stage # "idle"
      <4>1. ASSUME at[s] = Idle
            PROVE  FALSE
        <5>1. inTx[s] = FALSE /\ iso[s] = "RR" /\ tableLock # s
          BY <1>1, <2>3, SessionNames DEF Local, Alone, NoSession
        <5>2. ~Open(s)
          <6>1. "RR" # "RC"
            OBVIOUS
          <6> QED BY <4>1, <5>1, <6>1 DEF Open
        <5>3. ~HangUp(s) /\ ~LostBetween(s)
          BY <5>2 DEF HangUp, LostBetween
        <5>4. ~Waiting(s)
          <6>1. Waiting(s) => at[s].stage \in {"index", "row", "insP", "insC"}
            BY WaitingRuns
          <6> QED BY <4>1, <6>1, IdleIs
        <5>5. ~DeadlockFound(s)
          BY <5>4 DEF DeadlockFound, Victim, InCycle, WaitsFor
        <5>6. ~LockWaitTimeout(s)
          BY <5>4 DEF LockWaitTimeout
        <5> QED BY <5>3, <5>5, <5>6 DEF Undoes
      <4> QED BY <1>1, <4>1 DEF Local, Rests
    <3>2. pc["A"] > 3
      BY <2>3, <3>1, BusyRuns, CaseWorks
    <3>3. at'[s].stage = "idle"
      BY <1>3, IdleIs
    <3>4. Alone(pl, s)' /\ AtGate(pl, s, Held(pl, stops, prog))'
      BY <1>3, <3>3 DEF Alone, AtGate
    <3>5. Local(pl, stops, s)'
      BY <1>3, <2>1, <2>3, <3>4 DEF Local
    <3> QED BY <1>2, <1>3, <1>4, <1>5, <1>6, <2>3, <3>2, <3>5, CaseKeeps
  <2> QED BY <2>2, <2>3
<1>7. CASE err' # err
  <2>1. s # "A" /\ Waiting(s) /\ \E e \in RolledBack : err' = [err EXCEPT ![s] = e]
    <3>1. CASE DeadlockFound(s)
      <4>1. s = "B"
        BY <3>1, DeadlockShows
      <4>2. Waiting(s) /\ err' = [err EXCEPT ![s] = "deadlock"]
        BY <3>1 DEF DeadlockFound, Fails, Victim, InCycle, WaitsFor
      <4> QED BY <4>1, <4>2 DEF RolledBack
    <3>2. CASE LockWaitTimeout(s)
      <4>1. s # "A"
        BY <3>2, TimeoutShows
      <4>2. Waiting(s) /\ err' = [err EXCEPT ![s] = "timeout"]
        BY <3>2 DEF LockWaitTimeout, Fails
      <4> QED BY <4>1, <4>2 DEF RolledBack
    <3>3. CASE HangUp(s) \/ LostBetween(s)
      BY <1>7, <3>3 DEF HangUp, LostBetween
    <3> QED BY <3>1, <3>2, <3>3 DEF Undoes
  <2>2. InSql(s) /\ pc["A"] > 3
    BY <2>1, WaitingRuns, CaseWorks
  <2>3. at'[s].stage = "idle"
    BY <1>3, IdleIs
  <2>4. InSql(s)'
    BY <1>2, <2>2 DEF InSql, Op, Script
  <2>5. Stands(pl, s)' /\ Queued(pl, s)' /\ Failed(s)' /\ Rests(s)'
    BY <1>3, <2>3, <2>4 DEF Stands, Queued, Failed, Rests
  <2>6. Alone(pl, s)' /\ AtGate(pl, s, Held(pl, stops, prog))'
    BY <1>3, <2>3 DEF Alone, AtGate
  <2>7. Local(pl, stops, s)'
    BY <1>3, <2>1, <2>5, <2>6 DEF Local
  <2> QED BY <1>2, <1>3, <1>4, <1>5, <2>1, <2>2, <2>7, CaseKeeps
<1> QED BY <1>3, <1>6, <1>7

\* A goroutine ends with its call, or all of them with the process.
LEMMA CaseDies ==
  ASSUME NEW pl, NEW stops, CaseNow(pl, stops), NEW s \in Sessions, Dies(s)
  PROVE  CaseInv(pl, stops)' /\ Tables' /\ prog' = prog
<1>1. /\ TypeInv /\ Tables /\ (\A l \in locks : IsLock(l)) /\ Order /\ IsFiniteSet(locks) /\ Keys(pl)
      /\ tableLock = NoSession /\ err = [t \in Sessions |-> err[t]] /\ Together
  BY DEF CaseNow, CaseInv, TypeInv, ControlOK
<1>2. UNCHANGED <<dbVars, prog, pc, tableLock, waiting, seen, dropped>>
  BY DiesMoves
<1>3. /\ rows' = rows /\ locks' = locks /\ waits' = waits /\ before' = before /\ undo' = undo
      /\ inTx' = inTx /\ iso' = iso /\ at' = at /\ prog' = prog /\ pc' = pc /\ dropped' = dropped
      /\ tableLock' = tableLock
  BY <1>2 DEF dbVars
<1>4. \A t \in Sessions : NoLockError(t) /\ (Well(t)' => Well(t))
  <2>1. CASE err' = err
    BY <2>1 DEF NoLockError, Well
  <2>2. CASE err' = [t \in Sessions |-> IF err[t] = "" THEN "killed" ELSE err[t]]
    BY <2>2, Zenon DEF NoLockError, Well
  <2>3. CASE err' = [err EXCEPT ![s] = "network"] /\ Running(s)
    <3>1. err[s] = "" /\ \A t \in Sessions : err'[t] = IF t = s THEN "network" ELSE err[t]
      BY <1>1, <2>3, Zenon DEF Running
    <3>2. \A t \in Sessions : t # s => err'[t] = err[t]
      BY <3>1, Zenon
    <3>3. err'[s] \in {"network", "killed"}
      BY <3>1, Zenon
    <3>4. NoLockError(s) /\ Well(s)
      BY <3>1, <3>3, Zenon DEF NoLockError, Well
    <3> QED BY <3>2, <3>4, Zenon DEF NoLockError, Well
  <2> QED BY <2>1, <2>2, <2>3, DiesMoves
<1>5. Together'
  <2>1. CASE err' = err
    BY <1>1, <2>1 DEF Together
  <2>2. CASE err' = [t \in Sessions |-> IF err[t] = "" THEN "killed" ELSE err[t]]
    <3>1. \A t \in Sessions : err'[t] # ""
      <4>1. "killed" # ""
        BY Zenon
      <4> QED BY <2>2, <4>1, Zenon
    <3> QED BY <3>1, Zenon DEF Together
  <2>3. CASE err' = [err EXCEPT ![s] = "network"] /\ Running(s)
    <3>1. err[s] = "" /\ \A t \in Sessions : err'[t] = IF t = s THEN "network" ELSE err[t]
      BY <1>1, <2>3, Zenon DEF Running
    <3>2. "network" # "killed"
      OBVIOUS
    <3>3. \A t \in Sessions : err'[t] # "killed"
      BY <1>1, <3>1, <3>2, Zenon DEF Together
    <3> QED BY <3>3, Zenon DEF Together
  <2> QED BY <2>1, <2>2, <2>3, DiesMoves
<1>6. Tables' /\ Order'
  BY <1>1, <1>3 DEF Tables, Order, Script
<1>7. Keys(pl)'
  BY <1>1, <1>3 DEF Keys, GoodRow, Ids
<1>8. \A t \in Sessions : Untouched(t)
  BY <1>3 DEF Untouched, MyLocks
<1>9. \A t \in Sessions : Local(pl, stops, t)'
  BY <1>3, <1>4, <1>8, OthersHold
<1>10. IsFiniteSet(locks)' /\ tableLock' = NoSession /\ \A l \in locks' : IsLock(l)
  BY <1>1, <1>3
<1> QED BY <1>3, <1>5, <1>6, <1>7, <1>9, <1>10 DEF CaseInv

\* Every step keeps what holds while a case runs.
LEMMA CaseStep ==
  ASSUME NEW pl, NEW stops, CaseNow(pl, stops), [Next]_vars, ended' = "no"
  PROVE  CaseNow(pl, stops)'
<1>1. TypeInv /\ TypeInv'
  BY TypesStep DEF CaseNow
<1>2. /\ Tables /\ tableLock = NoSession /\ Order /\ Keys(pl) /\ IsFiniteSet(locks)
      /\ (\A l \in locks : IsLock(l)) /\ \A t \in Sessions : Local(pl, stops, t)
  BY DEF CaseNow, CaseInv
<1>0. Together
  BY DEF CaseNow, CaseInv
<1>3. CASE UNCHANGED vars
  <2>1. /\ rows' = rows /\ locks' = locks /\ waits' = waits /\ before' = before /\ undo' = undo
        /\ inTx' = inTx /\ iso' = iso /\ at' = at /\ prog' = prog /\ pc' = pc /\ err' = err /\ dropped' = dropped
        /\ tableLock' = tableLock
    BY <1>3 DEF vars, dbVars
  <2>2. Tables' /\ Order'
    BY <1>2, <2>1 DEF Tables, Order, Script
  <2>3. Keys(pl)'
    BY <1>2, <2>1 DEF Keys, GoodRow, Ids
  <2>4. \A t \in Sessions : Untouched(t) /\ NoLockError(t)
    BY <2>1 DEF Untouched, MyLocks, NoLockError
  <2>7. Together'
    BY <1>0, <2>1 DEF Together
  <2>5. \A t \in Sessions : Local(pl, stops, t)'
    BY <2>1, <2>4, OthersHold
  <2>6. CaseInv(pl, stops)'
    BY <1>2, <2>1, <2>2, <2>3, <2>5, <2>7 DEF CaseInv
  <2> QED BY <1>1, <2>1, <2>2, <2>6 DEF CaseNow
<1>4. ASSUME NEW s \in Sessions, SessionStep(s) \/ ConnectionLost(s)
      PROVE  CaseInv(pl, stops)' /\ Tables' /\ prog' = prog
  <2>1. ASSUME NEW r \in Sessions, Rendezvous(s, r)
        PROVE  CaseInv(pl, stops)' /\ Tables' /\ prog' = prog
    BY <2>1, CaseRendezvous DEF Rendezvous
  <2>2. CASE BeginTx(s)
    BY <2>2, CaseBegins DEF BeginTx
  <2>3. CASE Statement(s)
    BY <2>3, CaseStatement DEF Statement
  <2>4. CASE Return(s)
    BY <2>4, CaseReturn DEF Return
  <2>5. CASE \/ SetIsolation(s) \/ CommitTx(s) \/ LockTables(s) \/ UnlockTables(s)
             \/ CondWait(s) \/ Broadcast(s) \/ Woken(s) \/ Select(s)
    <3>1. Running(s) /\ Op(s).op \notin {"begin", "sql", "send", "recv"}
      BY <2>5 DEF SetIsolation, CommitTx, LockTables, UnlockTables, CondWait, Broadcast, Woken, Select, At
    <3> QED BY <3>1, CaseKinds
  <2>6. CASE NobodyToAnswer(s)
    BY <2>6, CaseAnswers DEF NobodyToAnswer
  <2>7. CASE Undoes(s)
    BY <2>7, CaseUndoes, UndoesMoves
  <2>8. CASE Dies(s)
    BY <2>8, CaseDies
  <2> QED BY <1>4, <2>1, <2>2, <2>3, <2>4, <2>5, <2>6, <2>7, <2>8, StepKinds DEF Quiet
<1>5. ~MainReturns
  BY DEF MainReturns
<1>6. CASE Next
  <2>1. CaseInv(pl, stops)' /\ Tables' /\ prog' = prog
    BY <1>4, <1>5, <1>6 DEF Next
  <2> QED BY <1>1, <2>1 DEF CaseNow
<1> QED BY <1>3, <1>6

-----------------------------------------------------------------------------
(* The three properties, step by step.                                         *)

\* What a step of any program does to positions and errors.
LEMMA StepMoves ==
  ASSUME TypeInv, [Next]_vars
  PROVE  /\ prog' = prog /\ dropped \subseteq dropped'
         /\ \A t \in Sessions :
               /\ pc'[t] = pc[t] \/ (pc'[t] = pc[t] + 1 /\ Running(t) /\ (Op(t).op = "sql" => Return(t)))
               /\ \/ err'[t] = err[t] \/ (Well(t) /\ err'[t] \in {"network", "killed"})
                  \/ Well(t) /\ err'[t] = "deadlock" /\ DeadlockFound(t) /\ pc' = pc
                  \/ Well(t) /\ err'[t] = "timeout" /\ LockWaitTimeout(t) /\ pc' = pc
<1>1. err = [t \in Sessions |-> err[t]]
  BY DEF TypeInv, ControlOK
<1>2. prog' = prog
  BY ProgramStays
<1>3. CASE UNCHANGED vars
  BY <1>2, <1>3 DEF vars
<1>4. ASSUME NEW s \in Sessions, Quiet(s)
      PROVE  /\ dropped' = dropped /\ err' = err
             /\ \A t \in Sessions : pc'[t] = pc[t] \/ (pc'[t] = pc[t] + 1 /\ Running(t) /\ Op(t).op # "sql")
  <2>1. dropped' = dropped /\ err' = err
    BY <1>4, ZenonT(60) DEF Quiet, Rendezvous, BeginTx, SetIsolation, CommitTx, LockTables, UnlockTables, CondWait,
                Broadcast, Woken, Select
  <2>2. PICK S \in SUBSET Sessions : Step(S) /\ \A t \in S : Running(t) /\ Op(t).op # "sql"
    BY <1>4, QuietMoves
  <2>3. \A t \in Sessions : pc'[t] = IF t \in S THEN pc[t] + 1 ELSE pc[t]
    BY <2>2 DEF Step
  <2> QED BY <2>1, <2>2, <2>3
<1>5. ASSUME NEW s \in Sessions, Return(s)
      PROVE  /\ dropped' = dropped /\ err' = err
             /\ \A t \in Sessions : pc'[t] = pc[t] \/ (pc'[t] = pc[t] + 1 /\ Running(t) /\ Return(t))
  <2>1. /\ dropped' = dropped /\ err' = err /\ Running(s) /\ Step({s})
    BY <1>5 DEF Return, At
  <2>2. \A t \in Sessions : pc'[t] = IF t \in {s} THEN pc[t] + 1 ELSE pc[t]
    BY <2>1 DEF Step
  <2>3. pc'[s] = pc[s] + 1 /\ \A t \in Sessions : t # s => pc'[t] = pc[t]
    BY <2>2
  <2> QED BY <1>5, <2>1, <2>3
<1>6. ASSUME NEW s \in Sessions, Statement(s) \/ NobodyToAnswer(s) \/ MainReturns
      PROVE  pc' = pc /\ err' = err /\ dropped' = dropped
  BY <1>6 DEF Statement, NobodyToAnswer, MainReturns
<1>7. ASSUME NEW s \in Sessions, Undoes(s)
      PROVE  /\ pc' = pc /\ dropped \subseteq dropped'
             /\ \/ err' = err
                \/ Well(s) /\ err' = [err EXCEPT ![s] = "deadlock"] /\ DeadlockFound(s)
                \/ Well(s) /\ err' = [err EXCEPT ![s] = "timeout"] /\ LockWaitTimeout(s)
  <2>1. pc' = pc /\ dropped \subseteq dropped'
    BY <1>7, UndoesMoves
  <2>2. CASE DeadlockFound(s)
    BY <2>1, <2>2, RunningWell DEF DeadlockFound, Fails
  <2>3. CASE LockWaitTimeout(s)
    BY <2>1, <2>3, RunningWell DEF LockWaitTimeout, Fails
  <2>4. CASE HangUp(s) \/ LostBetween(s)
    BY <2>1, <2>4 DEF HangUp, LostBetween
  <2> QED BY <1>7, <2>2, <2>3, <2>4 DEF Undoes
<1>8. ASSUME NEW s \in Sessions, Dies(s), NEW t \in Sessions
      PROVE  /\ pc' = pc /\ dropped' = dropped
             /\ err'[t] = err[t] \/ (Well(t) /\ err'[t] \in {"network", "killed"})
  <2>1. pc' = pc /\ dropped' = dropped
    BY <1>8, DiesMoves
  <2>2. err'[t] = err[t] \/ (Well(t) /\ err'[t] \in {"network", "killed"})
    <3>1. CASE err' = err
      BY <3>1
    <3>2. CASE err' = [u \in Sessions |-> IF err[u] = "" THEN "killed" ELSE err[u]]
      BY <3>2, Zenon DEF Well
    <3>3. CASE err' = [err EXCEPT ![s] = "network"] /\ Running(s)
      <4>1. err'[t] = IF t = s THEN "network" ELSE err[t]
        BY <1>1, <3>3
      <4> QED BY <3>3, <4>1, RunningWell
    <3> QED BY <1>8, <3>1, <3>2, <3>3, DiesMoves
  <2> QED BY <2>1, <2>2
<1>10. CASE Next
  <2>1. CASE MainReturns
    <3>1. "A" \in Sessions
      BY SessionNames
    <3> QED BY <1>2, <1>6, <2>1, <3>1
  <2>2. ASSUME NEW s \in Sessions, SessionStep(s) \/ ConnectionLost(s)
        PROVE  /\ dropped \subseteq dropped'
               /\ \A t \in Sessions :
                     /\ pc'[t] = pc[t] \/ (pc'[t] = pc[t] + 1 /\ Running(t) /\ (Op(t).op = "sql" => Return(t)))
                     /\ \/ err'[t] = err[t] \/ (Well(t) /\ err'[t] \in {"network", "killed"})
                        \/ Well(t) /\ err'[t] = "deadlock" /\ DeadlockFound(t) /\ pc' = pc
                        \/ Well(t) /\ err'[t] = "timeout" /\ LockWaitTimeout(t) /\ pc' = pc
    <3>1. CASE Quiet(s)
      BY <1>4, <3>1
    <3>2. CASE Return(s)
      BY <1>5, <3>2
    <3>3. CASE Statement(s) \/ NobodyToAnswer(s)
      BY <1>6, <3>3
    <3>4. CASE Undoes(s)
      <4>1. pc' = pc /\ dropped \subseteq dropped'
        BY <1>7, <3>4
      <4>2. CASE err' = err
        BY <4>1, <4>2
      <4>3. CASE Well(s) /\ err' = [err EXCEPT ![s] = "deadlock"] /\ DeadlockFound(s)
        <5>1. \A t \in Sessions : err'[t] = IF t = s THEN "deadlock" ELSE err[t]
          BY <1>1, <4>3
        <5> QED BY <4>1, <4>3, <5>1
      <4>4. CASE Well(s) /\ err' = [err EXCEPT ![s] = "timeout"] /\ LockWaitTimeout(s)
        <5>1. \A t \in Sessions : err'[t] = IF t = s THEN "timeout" ELSE err[t]
          BY <1>1, <4>4
        <5> QED BY <4>1, <4>4, <5>1
      <4> QED BY <1>7, <3>4, <4>2, <4>3, <4>4
    <3>5. CASE Dies(s)
      BY <1>8, <3>5
    <3> QED BY <2>2, <3>1, <3>2, <3>3, <3>4, <3>5, StepKinds
  <2> QED BY <1>2, <1>10, <2>1, <2>2 DEF Next
<1> QED BY <1>3, <1>10

\* What A has lost it has lost for good.
LEMMA LostStays ==
  ASSUME TypeInv, [Next]_vars, LostA
  PROVE  LostA'
<1>1. dropped \subseteq dropped' /\ "A" \in Sessions
  BY StepMoves, SessionNames
<1>2. err["A"] = "network" => err'["A"] = "network"
  <2>1. err["A"] = "network" => ~Well("A")
    BY Zenon DEF Well
  <2> QED BY <1>1, <2>1, StepMoves
<1> QED BY <1>1, <1>2 DEF LostA

\* No goroutine outlives the others.
LEMMA TogetherStep ==
  ASSUME TypeInv, Together, [Next]_vars
  PROVE  Together'
<1>1. err = [t \in Sessions |-> err[t]]
  BY DEF TypeInv, ControlOK
<1>2. CASE err' = err
  BY <1>2 DEF Together
<1>3. ASSUME NEW s \in Sessions, Running(s), NEW e, e \in Errors, err' = [err EXCEPT ![s] = e]
      PROVE  Together'
  <2>1. err[s] = "" /\ \A t \in Sessions : err'[t] = IF t = s THEN e ELSE err[t]
    BY <1>1, <1>3, Zenon DEF Running
  <2>2. e # "killed"
    BY <1>3 DEF Errors
  <2>3. \A t \in Sessions : err'[t] # "killed"
    BY <2>1, <2>2, Zenon DEF Together
  <2> QED BY <2>3, Zenon DEF Together
<1>4. CASE err' = [t \in Sessions |-> IF err[t] = "" THEN "killed" ELSE err[t]]
  <2>1. \A t \in Sessions : err'[t] # ""
    <3>1. "killed" # ""
      BY Zenon
    <3> QED BY <1>4, <3>1, Zenon
  <2> QED BY <2>1, Zenon DEF Together
<1>5. ASSUME NEW s \in Sessions, SessionStep(s) \/ ConnectionLost(s)
      PROVE  Together'
  <2>1. CASE Quiet(s) \/ Statement(s) \/ Return(s) \/ NobodyToAnswer(s)
    <3>1. err' = err
      BY <2>1, ZenonT(60) DEF Quiet, Rendezvous, BeginTx, SetIsolation, CommitTx, LockTables, UnlockTables, CondWait,
                  Broadcast, Woken, Select, Statement, Return, NobodyToAnswer
    <3> QED BY <1>2, <3>1
  <2>2. CASE Undoes(s)
    <3>1. {"deadlock", "timeout"} \subseteq Errors
      BY DEF Errors
    <3> QED BY <1>2, <1>3, <2>2, <3>1, UndoesMoves
  <2>3. CASE Dies(s)
    <3>1. "network" \in Errors
      BY DEF Errors
    <3> QED BY <1>2, <1>3, <1>4, <2>3, <3>1, DiesMoves
  <2> QED BY <1>5, <2>1, <2>2, <2>3, StepKinds
<1>6. CASE MainReturns \/ UNCHANGED vars
  BY <1>2, <1>6 DEF MainReturns, vars
<1> QED BY <1>5, <1>6 DEF Next

\* No statement has failed on a lock.
NoLockErrors == \A t \in Sessions : err[t] \notin RolledBack

\* A session without an error in such a program: either it is well or A is lost.
LEMMA WellOrLost ==
  ASSUME TypeInv, Together, NoLockErrors, NEW s \in Sessions, Running(s), ~LostA
  PROVE  Well("A") /\ "A" \notin dropped
<1>1. err["A"] \in {"deadlock", "timeout", "network"} \cup {"", "killed"} /\ "A" \in Sessions
  BY SessionNames DEF TypeInv, ControlOK, Errors
<1>2. err["A"] # "killed"
  <2>1. err[s] = ""
    BY DEF Running
  <2> QED BY <1>1, <2>1, Zenon DEF Together
<1> QED BY <1>1, <1>2, Zenon DEF LostA, NoLockErrors, RolledBack, Well

\* No blocked statement returns, as long as none may return in this step.
LEMMA LabelStep ==
  ASSUME TypeInv, BlockedAsLabelled, [Next]_vars,
         \A s \in Sessions : Return(s) => ~Op(s).blocked \/ LostA
  PROVE  BlockedAsLabelled'
<1>1. prog' = prog /\ (LostA => LostA')
  BY StepMoves, LostStays
<1>2. ASSUME NEW s \in Sessions, NEW i \in 1 .. pc'[s] - 1, Script(s)'[i].op = "sql"
      PROVE  ~Script(s)'[i].blocked \/ LostA'
  <2>1. /\ pc'[s] = pc[s] \/ (pc'[s] = pc[s] + 1 /\ Running(s) /\ (Op(s).op = "sql" => Return(s)))
        /\ pc[s] \in Nat /\ Script(s)' = Script(s)
    BY <1>1, StepMoves DEF TypeInv, ControlOK, Script
  <2>2. CASE i \in 1 .. pc[s] - 1
    BY <1>1, <1>2, <2>1, <2>2 DEF BlockedAsLabelled
  <2>3. CASE i \notin 1 .. pc[s] - 1
    <3>1. pc'[s] # pc[s]
      BY <1>2, <2>3
    <3> DEFINE n == pc[s]
               m == pc'[s]
    <3>2. m = n + 1 /\ n \in Nat /\ i \in 1 .. m - 1 /\ i \notin 1 .. n - 1
      BY <1>2, <2>1, <2>3, <3>1
    <3> HIDE DEF n, m
    <3>3. i = n
      BY <3>2
    <3>4. Script(s)'[i] = Op(s)
      BY <2>1, <3>3 DEF Op, n
    <3>5. Return(s)
      BY <1>2, <2>1, <3>1, <3>4
    <3> QED BY <1>1, <3>4, <3>5
  <2> QED BY <2>2, <2>3
<1> QED BY <1>2 DEF BlockedAsLabelled

\* In a case, a blocked statement is at its end only when A has lost its connection.
LEMMA CaseBlocked ==
  ASSUME NEW pl, NEW stops, CaseNow(pl, stops), NEW s \in Sessions, Return(s)
  PROVE  ~Op(s).blocked \/ LostA
<1>1. At(s, "sql") /\ at[s].stage = "end" /\ InSql(s) /\ Well(s)
  BY AtSql DEF Return, Finish
<1>2. CASE s = "A"
  BY <1>1, <1>2, CaseWorks DEF CaseNow, CasePlan, ScriptA, Script
<1>3. CASE s # "A"
  <2> SUFFICES ASSUME Op(s).blocked, "A" \notin dropped
               PROVE  err["A"] = "network"
    BY DEF LostA
  <2>1. pc["A"] > 3 /\ pc["A"] \in Nat /\ "A" \in Sessions
    BY <1>1, <1>3, CaseWorks, SessionNames DEF CaseNow, TypeInv, ControlOK
  <2>2. ~inTx["A"]
    BY <1>1, <1>3 DEF CaseNow, CaseInv, Local, AtGate
  <2>3. RunsA(pl, stops) /\ Together
    BY <2>1 DEF CaseNow, CaseInv, Local
  <2>4. ~Well("A") /\ err["A"] \notin RolledBack
    <3>1. pc["A"] > 1
      BY <2>1
    <3> QED BY <2>2, <2>3, <3>1 DEF RunsA
  <2>5. err["A"] # "killed"
    BY <1>1, <2>1, <2>3, Zenon DEF Together, Well
  <2>6. err["A"] \in {"deadlock", "timeout", "network"} \cup {"", "killed"}
    BY <2>1 DEF CaseNow, TypeInv, ControlOK, Errors
  <2> QED BY <2>4, <2>5, <2>6, Zenon DEF Well, RolledBack
<1> QED BY <1>2, <1>3

\* In a case, only what is labelled waits for a lock of A's.
LEMMA CaseWaits ==
  ASSUME NEW pl, NEW stops, CaseNow(pl, stops)
  PROVE  OnlyLabelledWait
<1>1. ASSUME NEW s \in Sessions, NEW l \in locks, l.s = "A", Conflicts(waits[s], l)
      PROVE  Op(s).blocked
  <2>1. Waiting(s)
    BY <1>1, NoRequestMeets DEF Waiting
  <2>2. waits[s].s = s
    BY <2>1, WaitingRuns
  <2>3. s # "A"
    BY <1>1, <2>2 DEF Conflicts
  <2>4. l \in MyLocks("A")
    BY <1>1 DEF MyLocks
  <2> QED BY <1>1, <2>1, <2>3, <2>4, LockOfA
<1> QED BY <1>1 DEF OnlyLabelledWait

\* What a session has shown it has shown for good.
LEMMA StaysShown ==
  ASSUME NEW pl, NEW stops, CaseNow(pl, stops), [Next]_vars, NEW t \in Sessions, Shown(t)
  PROVE  Shown(t)'
<1>1. TypeInv /\ ScriptA(prog)
  BY DEF CaseNow, CasePlan
<1>2. /\ prog' = prog /\ Script(t)' = Script(t)
      /\ pc'[t] = pc[t] \/ (pc'[t] = pc[t] + 1 /\ Running(t))
  BY <1>1, StepMoves DEF Script
<1>3. CASE pc'[t] = pc[t]
  BY <1>2, <1>3 DEF Shown, Done, Op
<1>4. CASE pc'[t] = pc[t] + 1 /\ Running(t)
  <2>1. pc[t] \in 1 .. Len(Script(t)) /\ pc[t] \in Nat /\ Len(Script(t)) \in Nat
    BY <1>1, <1>4, Running1, ScriptLengths
  <2> DEFINE n == Len(Script(t))
             m == pc[t]
  <2>2. m \in 1 .. n /\ m \in Nat /\ n \in Nat
    BY <2>1
  <2> HIDE DEF m, n
  <2>3. ~(m > n) /\ n # 0 /\ (m = n => m + 1 > n)
    BY <2>2
  <2>4. Len(<< >>) = 0
    OBVIOUS
  <2>5. Script(t) # << >> /\ ~Done(t)
    BY <2>3, <2>4 DEF Done, m, n
  <2>6. Op(t).op = "sql" /\ Op(t).blocked
    BY <2>5 DEF Shown
  <2>7. InSql(t)
    BY <1>4, <2>6 DEF InSql, Running
  <2>8. t # "A"
    <3>1. ASSUME t = "A"
          PROVE  FALSE
      <4>1. InSql("A") /\ "A" \in Sessions /\ Op("A").blocked
        BY <2>6, <2>7, <3>1
      <4>2. \/ Op("A") = prog.script["A"][2]
            \/ Op("A") = prog.script["A"][4] /\ Len(prog.script["A"]) = 4
        BY <4>1, CaseWorks DEF Script
      <4> QED BY <1>1, <4>1, <4>2 DEF ScriptA
    <3> QED BY <3>1
  <2>9. m = n
    BY <2>6, <2>7, <2>8, CaseWorks DEF Works, Op, m, n
  <2>10. Done(t)'
    BY <1>2, <1>4, <2>3, <2>5, <2>9 DEF Done, m, n
  <2> QED BY <2>10 DEF Shown
<1> QED BY <1>2, <1>3, <1>4

\* In a case, the errors are those it is there to show.
LEMMA CaseErrors ==
  ASSUME NEW pl, NEW stops, CaseNow(pl, stops), ErrorsAsShown, [Next]_vars
  PROVE  ErrorsAsShown'
<1>1. TypeInv /\ prog' = prog
  BY StepMoves DEF CaseNow
<1>2. ASSUME NEW s \in Sessions, err'[s] = "deadlock"
      PROVE  s = "B" /\ prog'.name = "case08"
  <2>1. err[s] = "deadlock" \/ DeadlockFound(s)
    BY <1>1, <1>2, StepMoves
  <2> QED BY <1>1, <2>1, DeadlockShows DEF ErrorsAsShown
<1>3. ASSUME NEW s \in Sessions, err'[s] = "timeout"
      PROVE  (\A t \in Sessions : Shown(t)') \/ (prog'.name = "phantom" /\ "A" \in dropped')
  <2>1. err[s] = "timeout" \/ LockWaitTimeout(s)
    BY <1>1, <1>3, StepMoves
  <2>2. (\A t \in Sessions : Shown(t)) \/ (prog.name = "phantom" /\ "A" \in dropped)
    BY <2>1, TimeoutShows DEF ErrorsAsShown
  <2>3. dropped \subseteq dropped'
    BY <1>1, StepMoves
  <2> QED BY <1>1, <2>2, <2>3, StaysShown
<1> QED BY <1>2, <1>3 DEF ErrorsAsShown

-----------------------------------------------------------------------------
(* The cases one by one: what their tables and statements come to.  First, the *)
(* record after a key and the first of a range.                                *)

\* Row i is the next of those in J when no other of them comes between.
LEMMA NextIs ==
  ASSUME NEW pl, NEW D, NEW idx, NEW J, NEW k, NEW i \in D,
         Before(k, Place(pl, idx, i)), Before(Place(pl, idx, i), Supremum),
         \A j \in J : Before(k, Place(pl, idx, j)) => j = i \/ Before(Place(pl, idx, i), Place(pl, idx, j))
  PROVE  Nexts(pl, D, idx, k) \cap AllPlaces(pl, idx, J) \subseteq {Place(pl, idx, i)}
<1>1. ASSUME NEW r \in Nexts(pl, D, idx, k) \cap AllPlaces(pl, idx, J)
      PROVE  r = Place(pl, idx, i)
  <2>1. Before(k, r) /\ ~Before(Place(pl, idx, i), r)
    BY <1>1 DEF Nexts
  <2>2. r # Supremum
    BY <2>1
  <2>3. PICK j \in J : r = Place(pl, idx, j)
    BY <1>1, <2>2 DEF AllPlaces
  <2> QED BY <2>1, <2>3
<1> QED BY <1>1

\* Likewise, the first of a range.
LEMMA BeginIs ==
  ASSUME NEW pl, NEW D, NEW w, NEW J, NEW i \in D,
         From(w, Place(pl, w.idx, i)), Before(Place(pl, w.idx, i), Supremum),
         \A j \in J : From(w, Place(pl, w.idx, j)) => j = i \/ Before(Place(pl, w.idx, i), Place(pl, w.idx, j))
  PROVE  Begins(pl, D, w) \cap AllPlaces(pl, w.idx, J) \subseteq {Place(pl, w.idx, i)}
<1>1. ASSUME NEW r \in Begins(pl, D, w) \cap AllPlaces(pl, w.idx, J)
      PROVE  r = Place(pl, w.idx, i)
  <2>1. From(w, r) /\ ~Before(Place(pl, w.idx, i), r)
    BY <1>1 DEF Begins
  <2>2. r # Supremum
    BY <2>1
  <2>3. PICK j \in J : r = Place(pl, w.idx, j)
    BY <1>1, <2>2 DEF AllPlaces
  <2> QED BY <2>1, <2>3
<1> QED BY <1>1

\* All that the plan knows are in J.
LEMMA PlanPlaces ==
  ASSUME NEW pl, NEW D, NEW J, DOMAIN pl.col = J
  PROVE  /\ \A idx, k : Nexts(pl, D, idx, k) \subseteq AllPlaces(pl, idx, J)
         /\ \A w : Begins(pl, D, w) \subseteq AllPlaces(pl, w.idx, J)
  BY DEF Nexts, Begins

\* The order of the places of such ids.
LEMMA PlaceOrder ==
  /\ \A a \in 0 .. 99 : Before(<<a, a>>, Supremum) /\ <<a, a>> # Supremum
  /\ \A a, c \in 0 .. 99 : Before(<<a, a>>, <<c, c>>) <=> a < c
<1>1. \A x, y, u, v : Before(<<x, y>>, <<u, v>>) <=> (x < u \/ (x = u /\ y < v))
  BY DEF Before
<1>2. ASSUME NEW a \in 0 .. 99
      PROVE  Before(<<a, a>>, Supremum) /\ <<a, a>> # Supremum
  <2>1. a < 1000
    OBVIOUS
  <2>2. Before(<<a, a>>, Supremum)
    BY <2>1, <1>1 DEF Supremum
  <2>3. <<a, a>> # Supremum
    BY <2>1 DEF Supremum
  <2> QED BY <2>2, <2>3
<1>3. ASSUME NEW a \in 0 .. 99, NEW c \in 0 .. 99
      PROVE  Before(<<a, a>>, <<c, c>>) <=> a < c
  <2>1. Before(<<a, a>>, <<c, c>>) <=> (a < c \/ (a = c /\ a < c))
    BY <1>1
  <2> QED BY <2>1
<1> QED BY <1>2, <1>3, ZenonT(60)

\* Where a row stands at its id, in both indexes or in one.
Plain(pl, idx, ids) == ids \subseteq 0 .. 30 /\ \A i \in ids : Place(pl, idx, i) = <<i, i>>

\* The next id.
LEMMA PlainNext ==
  ASSUME NEW pl, NEW D, NEW idx, NEW J, NEW ids, Plain(pl, idx, ids), D \subseteq ids, J \subseteq ids,
         NEW k \in 0 .. 30, NEW i \in D, k < i, \A j \in J : k < j => i <= j
  PROVE  Nexts(pl, D, idx, <<k, k>>) \cap AllPlaces(pl, idx, J) \subseteq {<<i, i>>}
<1>1. /\ Place(pl, idx, i) = <<i, i>> /\ i \in 0 .. 99 /\ k \in 0 .. 99
      /\ \A j \in J : Place(pl, idx, j) = <<j, j>> /\ j \in 0 .. 99
  BY DEF Plain
<1>2. Before(<<k, k>>, Place(pl, idx, i)) /\ Before(Place(pl, idx, i), Supremum)
  BY <1>1, PlaceOrder, ZenonT(60)
<1>3. ASSUME NEW j \in J, Before(<<k, k>>, Place(pl, idx, j))
      PROVE  j = i \/ Before(Place(pl, idx, i), Place(pl, idx, j))
  <2>1. k < j
    BY <1>1, <1>3, PlaceOrder, ZenonT(60)
  <2>2. j = i \/ i < j
    BY <1>1, <2>1
  <2> QED BY <1>1, <2>2, PlaceOrder, ZenonT(60)
<1>4. Nexts(pl, D, idx, <<k, k>>) \cap AllPlaces(pl, idx, J) \subseteq {Place(pl, idx, i)}
  BY <1>2, <1>3, NextIs
<1> QED BY <1>1, <1>4

\* The first id.
LEMMA PlainBegin ==
  ASSUME NEW pl, NEW D, NEW J, NEW ids, NEW w, Plain(pl, w.idx, ids), D \subseteq ids, J \subseteq ids,
         NEW i \in D, w.lo \in Int, w.lo < i \/ (w.loIn /\ w.lo = i),
         \A j \in J : w.lo < j \/ (w.loIn /\ w.lo = j) => i <= j
  PROVE  Begins(pl, D, w) \cap AllPlaces(pl, w.idx, J) \subseteq {<<i, i>>}
<1>1. /\ Place(pl, w.idx, i) = <<i, i>> /\ i \in 0 .. 99
      /\ \A j \in J : Place(pl, w.idx, j) = <<j, j>> /\ j \in 0 .. 99
  BY DEF Plain
<1>2. From(w, Place(pl, w.idx, i)) /\ Before(Place(pl, w.idx, i), Supremum)
  <2>1. From(w, <<i, i>>)
    BY DEF From
  <2> QED BY <1>1, <2>1, PlaceOrder, ZenonT(60)
<1>3. ASSUME NEW j \in J, From(w, Place(pl, w.idx, j))
      PROVE  j = i \/ Before(Place(pl, w.idx, i), Place(pl, w.idx, j))
  <2>1. w.lo < j \/ (w.loIn /\ w.lo = j)
    BY <1>1, <1>3 DEF From
  <2>2. j = i \/ i < j
    BY <1>1, <2>1
  <2> QED BY <1>1, <2>2, PlaceOrder, ZenonT(60)
<1>4. Begins(pl, D, w) \cap AllPlaces(pl, w.idx, J) \subseteq {Place(pl, w.idx, i)}
  BY <1>2, <1>3, BeginIs
<1> QED BY <1>1, <1>4

\* A record is not the next one after k when a row of D comes between, or when it is not after k.
LEMMA NotNext ==
  ASSUME NEW pl, NEW D, NEW idx, NEW k, NEW r,
         ~Before(k, r) \/ \E i \in D : Before(k, Place(pl, idx, i)) /\ Before(Place(pl, idx, i), r)
  PROVE  r \notin Nexts(pl, D, idx, k)
  BY DEF Nexts

\* The same of ids.
LEMMA PlainNotNext ==
  ASSUME NEW pl, NEW D, NEW idx, NEW ids, Plain(pl, idx, ids), D \subseteq ids,
         NEW k \in 0 .. 30, NEW n \in 0 .. 30, n <= k \/ \E i \in D : k < i /\ i < n
  PROVE  <<n, n>> \notin Nexts(pl, D, idx, <<k, k>>)
<1>1. k \in 0 .. 99 /\ n \in 0 .. 99 /\ \A i \in D : Place(pl, idx, i) = <<i, i>> /\ i \in 0 .. 99
  BY DEF Plain
<1>2. CASE n <= k
  <2>1. ~(k < n \/ (k = n /\ k < n))
    BY <1>2
  <2>2. ~Before(<<k, k>>, <<n, n>>)
    BY <1>1, <2>1, PlaceOrder, ZenonT(60)
  <2> QED BY <2>2, NotNext
<1>3. CASE \E i \in D : k < i /\ i < n
  <2>1. PICK i \in D : k < i /\ i < n
    BY <1>3
  <2>2. Before(<<k, k>>, Place(pl, idx, i)) /\ Before(Place(pl, idx, i), <<n, n>>)
    BY <1>1, <2>1, PlaceOrder, ZenonT(60)
  <2> QED BY <2>2, NotNext
<1> QED BY <1>2, <1>3

-----------------------------------------------------------------------------
(* Next, what its locks let through and what they bar.                         *)

\* The fields of a statement and of an operation.
LEMMA Fields ==
  /\ \A st : /\ Free(st).op = "sql" /\ Free(st).st = st /\ Free(st).blocked = FALSE
             /\ Blocked(st).op = "sql" /\ Blocked(st).st = st /\ Blocked(st).blocked = TRUE
  /\ \A w : Add1(w).do = "add1" /\ Add1(w).w = w /\ Add1(w).mode = "X" /\ Add1(w).limit = NoLimit
  /\ \A id, c, d : Insert(id, c, d).do = "insert" /\ Insert(id, c, d).id = id /\ Insert(id, c, d).c = c
  /\ \A idx, v : /\ Eq(idx, v).idx = idx /\ Eq(idx, v).lo = v /\ Eq(idx, v).hi = v
                 /\ Eq(idx, v).loIn = TRUE /\ Eq(idx, v).hiIn = TRUE
  /\ \A s, idx, r, m, k : /\ Lock(s, idx, r, m, k).s = s /\ Lock(s, idx, r, m, k).idx = idx
                          /\ Lock(s, idx, r, m, k).rec = r /\ Lock(s, idx, r, m, k).mode = m
                          /\ Lock(s, idx, r, m, k).kind = k
  BY DEF Free, Blocked, Add1, Scan, Insert, Eq, Between, Lock

\* An insert that finds none of the gaps locked.
LEMMA FreeInsert ==
  ASSUME NEW pl, NEW D, NEW L, NEW s, NEW st, st.do = "insert",
         \A l \in L : CoversGap(l) => l.rec \notin Nexts(pl, D, l.idx, InsertKey(st, l.idx))
  PROVE  Unhindered(pl, D, L, s, st)
<1>1. ASSUME NEW a \in Asks(pl, D, s, st), NEW l \in L, Conflicts(a, l)
      PROVE  FALSE
  <2>1. PICK idx \in {"p", "c"} : a \in {Lock(s, idx, r, "X", "insert") : r \in Nexts(pl, D, idx, InsertKey(st, idx))}
    BY <1>1 DEF Asks, InsertAsks
  <2>2. PICK r \in Nexts(pl, D, idx, InsertKey(st, idx)) : a = Lock(s, idx, r, "X", "insert")
    BY <2>1
  <2>3. a.kind = "insert" /\ a.idx = idx /\ a.rec = r
    BY <2>2, Fields
  <2>4. l.idx = idx /\ l.rec = r /\ CoversGap(l)
    BY <1>1, <2>3 DEF Conflicts, CoversRec
  <2> QED BY <2>2, <2>4
<1> QED BY <1>1 DEF Unhindered

\* One that finds the only gap of an index locked.
LEMMA BlockedInsert ==
  ASSUME NEW pl, NEW D, NEW L, NEW st, st.do = "insert", NEW idx \in {"p", "c"}, NEW r,
         \E l \in L : l.idx = idx /\ l.rec = r /\ CoversGap(l), Nexts(pl, D, idx, InsertKey(st, idx)) \subseteq {r}
  PROVE  Barred(pl, D, L, st)
<1>1. Bars(pl, D, L, st, idx)
  BY DEF Bars
<1> QED BY <1>1 DEF Barred

\* An UPDATE of one value whose rows are not locked.
LEMMA FreeUpdate ==
  ASSUME NEW pl, NEW D, NEW L, NEW s, NEW idx, NEW v \in 0 .. 99,
         \A r \in AllPlaces(pl, idx, DOMAIN pl.col) : r[1] \in Int,
         \A l \in L : CoversRec(l) => /\ l.idx = idx => l.rec[1] # v
                                      /\ l.idx = "p" => \A i \in DOMAIN pl.col :
                                                           Place(pl, idx, i)[1] = v => l.rec # <<i, i>>
  PROVE  Unhindered(pl, D, L, s, Add1(Eq(idx, v)))
<1> DEFINE w  == Eq(idx, v)
           st == Add1(Eq(idx, v))
<1>1. /\ st.do = "add1" /\ st.w = w /\ w.idx = idx /\ w.lo = v /\ w.hi = v /\ w.loIn = TRUE /\ w.hiIn = TRUE
      /\ st.mode = "X"
  BY Fields
<1> HIDE DEF w, st
<1>2. ASSUME NEW a \in Asks(pl, D, s, st), NEW l \in L, Conflicts(a, l)
      PROVE  FALSE
  <2>1. a \in ScanAsks(pl, s, st)
    BY <1>1 DEF Asks
  <2>2. CASE a \in {IndexLock(s, st, r) : r \in {x \in AllPlaces(pl, st.w.idx, DOMAIN pl.col) : From(st.w, x)}}
    <3>1. PICK r \in AllPlaces(pl, idx, DOMAIN pl.col) : From(w, r) /\ a = IndexLock(s, st, r)
      BY <1>1, <2>2
    <3>2. a.kind = ScanKind(w, r) /\ a.rec = r /\ a.idx = idx
      BY <1>1, <3>1, Fields DEF IndexLock
    <3>3. r[1] # v => ~InRange(w, r)
      <4>1. v < r[1] \/ v = r[1]
        BY <1>1, <3>1 DEF From
      <4> QED BY <1>1, <4>1 DEF InRange
    <3>4. a.kind \in {"gap", "rec", "nextkey"} /\ (r[1] # v => a.kind = "gap")
      <4>1. OneValue(w)
        BY <1>1 DEF OneValue
      <4> QED BY <3>2, <3>3, <4>1 DEF ScanKind
    <3>5. CoversRec(a) /\ CoversRec(l) /\ l.rec = r /\ l.idx = idx
      BY <1>2, <3>2, <3>4 DEF Conflicts
    <3>6. a.kind # "gap"
      BY <3>5 DEF CoversRec
    <3> QED BY <3>4, <3>5, <3>6
  <2>3. CASE a \in {RowLock(s, st, i) : i \in Scanned(pl, st.w)}
    <3>1. PICK i \in Scanned(pl, w) : a = RowLock(s, st, i)
      BY <1>1, <2>3
    <3>2. a.idx = "p" /\ a.rec = <<i, i>> /\ a.kind = "rec"
      BY <3>1, Fields DEF RowLock
    <3>3. CoversRec(l) /\ l.rec = <<i, i>> /\ l.idx = "p"
      BY <1>2, <3>2 DEF Conflicts
    <3>4. i \in DOMAIN pl.col /\ From(w, Place(pl, idx, i)) /\ InRange(w, Place(pl, idx, i))
      BY <1>1 DEF Scanned
    <3>5. Place(pl, idx, i)[1] \in Int
      BY <3>4 DEF AllPlaces
    <3>6. Place(pl, idx, i)[1] = v
      BY <1>1, <3>4, <3>5 DEF From, InRange
    <3> QED BY <3>3, <3>4, <3>6
  <2> QED BY <2>1, <2>2, <2>3 DEF ScanAsks
<1>3. Unhindered(pl, D, L, s, st)
  BY <1>2 DEF Unhindered
<1> QED BY <1>3 DEF st

\* One whose first row is locked.
LEMMA BlockedUpdate ==
  ASSUME NEW pl, NEW D, NEW L, NEW idx, NEW v, NEW r, r # Supremum, r[1] = v,
         \E l \in L : l.idx = idx /\ l.rec = r /\ CoversRec(l), Begins(pl, D, Eq(idx, v)) \subseteq {r}
  PROVE  Barred(pl, D, L, Add1(Eq(idx, v)))
<1> DEFINE w  == Eq(idx, v)
           st == Add1(Eq(idx, v))
<1>1. /\ st.do = "add1" /\ st.w = w /\ w.idx = idx /\ w.hi = v /\ w.hiIn = TRUE /\ st.mode = "X"
  BY Fields
<1> HIDE DEF w, st
<1>2. InRange(w, r)
  BY <1>1 DEF InRange
<1>3. Begins(pl, D, w) \subseteq {r}
  BY DEF w
<1>4. Barred(pl, D, L, st)
  BY <1>1, <1>2, <1>3 DEF Barred
<1> QED BY <1>4 DEF st

\* What B or C has at position k when it is to return.
LEMMA FreeWorks ==
  ASSUME NEW pl, NEW D, NEW L, NEW s, NEW q, NEW k, NEW st, q[k] = Free(st), Unhindered(pl, D, L, s, st),
         st.do = "insert" \/ \E idx, v : st = Add1(Eq(idx, v))
  PROVE  Works(pl, D, L, s, q, k)
<1>1. q[k].op = "sql" /\ q[k].st = st /\ q[k].blocked = FALSE
  BY Fields
<1>2. st.do = "insert" \/ (st.do = "add1" /\ OneValue(st.w))
  BY Fields DEF OneValue
<1> QED BY <1>1, <1>2 DEF Works

\* And when it is to block.
LEMMA BlockedWorks ==
  ASSUME NEW pl, NEW D, NEW L, NEW s, NEW q, NEW k, NEW st, q[k] = Blocked(st), k = Len(q), Barred(pl, D, L, st),
         st.do = "insert" \/ \E idx, v : st = Add1(Eq(idx, v))
  PROVE  Works(pl, D, L, s, q, k)
<1>1. q[k].op = "sql" /\ q[k].st = st /\ q[k].blocked = TRUE
  BY Fields
<1>2. st.do = "insert" \/ (st.do = "add1" /\ OneValue(st.w))
  BY Fields DEF OneValue
<1> QED BY <1>1, <1>2 DEF Works

-----------------------------------------------------------------------------
(* Last, A's walk.                                                             *)

\* One row.
LEMMA WalkOne ==
  ASSUME NEW pl, NEW D, NEW st, NEW a \in D,
         Begins(pl, D, st.w) \cap AllPlaces(pl, st.w.idx, D) \subseteq {StopPlace(pl, st, a)},
         InRange(st.w, StopPlace(pl, st, a)) => Over(pl, st, <<a>>, 1)
  PROVE  Walks(pl, D, st, <<a>>) /\ WalkLocks(pl, st, <<a>>) = StopLocks(pl, st, a)
<1> DEFINE q == <<a>>
<1>1. Len(q) = 1 /\ q[1] = a
  OBVIOUS
<1>2. q = <<a>>
  OBVIOUS
<1> HIDE DEF q
<1>3. StopsTo(q, 1) = {a} /\ StopsTo(q, 0) = {}
  BY <1>1 DEF StopsTo
<1>4. Cardinality({a}) = 1
  BY FS_Singleton
<1>5. 1 .. Len(q) = {1} /\ 1 .. Len(q) - 1 = {} /\ Len(q) \in 1 .. 3 /\ 1 - 1 = 0
  BY <1>1
<1>6. Walks(pl, D, st, q)
  BY <1>1, <1>2, <1>3, <1>4, <1>5 DEF Walks
<1>7. WalkLocks(pl, st, q) = StopLocks(pl, st, a)
  BY <1>1, <1>5 DEF WalkLocks
<1> QED BY <1>2, <1>6, <1>7

\* Two.
LEMMA WalkTwo ==
  ASSUME NEW pl, NEW D, NEW st, NEW a \in D, NEW b \in D, a # b,
         Begins(pl, D, st.w) \cap AllPlaces(pl, st.w.idx, D) \subseteq {StopPlace(pl, st, a)},
         InRange(st.w, StopPlace(pl, st, a)), ~Over(pl, st, <<a, b>>, 1),
         Nexts(pl, D, st.w.idx, StopPlace(pl, st, a)) \cap AllPlaces(pl, st.w.idx, D) \subseteq {StopPlace(pl, st, b)},
         InRange(st.w, StopPlace(pl, st, b)) => Over(pl, st, <<a, b>>, 2)
  PROVE  Walks(pl, D, st, <<a, b>>) /\ WalkLocks(pl, st, <<a, b>>) = StopLocks(pl, st, a) \cup StopLocks(pl, st, b)
<1> DEFINE q == <<a, b>>
<1>1. Len(q) = 2 /\ q[1] = a /\ q[2] = b
  OBVIOUS
<1>2. q = <<a, b>>
  OBVIOUS
<1> HIDE DEF q
<1>3. StopsTo(q, 2) = {a, b} /\ StopsTo(q, 1) = {a} /\ StopsTo(q, 0) = {}
  <2>1. 1 .. 2 = {1, 2} /\ 1 .. 1 = {1} /\ 1 .. 0 = {}
    OBVIOUS
  <2> QED BY <1>1, <2>1 DEF StopsTo
<1>4. Cardinality({a}) = 1 /\ Cardinality({a, b}) = 2
  <2>1. IsFiniteSet({a}) /\ Cardinality({a}) = 1
    BY FS_Singleton
  <2>2. Cardinality({a} \cup {b}) = Cardinality({a}) + 1
    BY <2>1, FS_AddElement
  <2>3. {a} \cup {b} = {a, b}
    OBVIOUS
  <2> QED BY <2>1, <2>2, <2>3
<1>5. 1 .. Len(q) = {1, 2} /\ 1 .. Len(q) - 1 = {1} /\ Len(q) \in 1 .. 3 /\ 1 - 1 = 0 /\ 2 - 1 = 1 /\ 1 + 1 = 2
  BY <1>1
<1>6. Walks(pl, D, st, q)
  BY <1>1, <1>2, <1>3, <1>4, <1>5 DEF Walks
<1>7. WalkLocks(pl, st, q) = StopLocks(pl, st, a) \cup StopLocks(pl, st, b)
  BY <1>1, <1>5 DEF WalkLocks
<1> QED BY <1>2, <1>6, <1>7

\* Three.
LEMMA WalkThree ==
  ASSUME NEW pl, NEW D, NEW st, NEW a \in D, NEW b \in D, NEW c \in D, a # b, a # c, b # c,
         Begins(pl, D, st.w) \cap AllPlaces(pl, st.w.idx, D) \subseteq {StopPlace(pl, st, a)},
         InRange(st.w, StopPlace(pl, st, a)), ~Over(pl, st, <<a, b, c>>, 1),
         Nexts(pl, D, st.w.idx, StopPlace(pl, st, a)) \cap AllPlaces(pl, st.w.idx, D) \subseteq {StopPlace(pl, st, b)},
         InRange(st.w, StopPlace(pl, st, b)), ~Over(pl, st, <<a, b, c>>, 2),
         Nexts(pl, D, st.w.idx, StopPlace(pl, st, b)) \cap AllPlaces(pl, st.w.idx, D) \subseteq {StopPlace(pl, st, c)},
         InRange(st.w, StopPlace(pl, st, c)) => Over(pl, st, <<a, b, c>>, 3)
  PROVE  /\ Walks(pl, D, st, <<a, b, c>>)
         /\ WalkLocks(pl, st, <<a, b, c>>) = StopLocks(pl, st, a) \cup StopLocks(pl, st, b) \cup StopLocks(pl, st, c)
<1> DEFINE q == <<a, b, c>>
<1>1. Len(q) = 3 /\ q[1] = a /\ q[2] = b /\ q[3] = c
  OBVIOUS
<1>2. q = <<a, b, c>>
  OBVIOUS
<1> HIDE DEF q
<1>3. StopsTo(q, 3) = {a, b, c} /\ StopsTo(q, 2) = {a, b} /\ StopsTo(q, 1) = {a} /\ StopsTo(q, 0) = {}
  <2>1. 1 .. 3 = {1, 2, 3} /\ 1 .. 2 = {1, 2} /\ 1 .. 1 = {1} /\ 1 .. 0 = {}
    OBVIOUS
  <2> QED BY <1>1, <2>1 DEF StopsTo
<1>4. Cardinality({a}) = 1 /\ Cardinality({a, b}) = 2 /\ Cardinality({a, b, c}) = 3
  <2>1. IsFiniteSet({a}) /\ Cardinality({a}) = 1
    BY FS_Singleton
  <2>2. IsFiniteSet({a} \cup {b}) /\ Cardinality({a} \cup {b}) = Cardinality({a}) + 1
    BY <2>1, FS_AddElement
  <2>3. {a} \cup {b} = {a, b} /\ {a, b} \cup {c} = {a, b, c} /\ c \notin {a, b}
    OBVIOUS
  <2>4. Cardinality({a, b} \cup {c}) = Cardinality({a, b}) + 1
    BY <2>2, <2>3, FS_AddElement
  <2> QED BY <2>1, <2>2, <2>3, <2>4
<1>5. /\ 1 .. Len(q) = {1, 2, 3} /\ 1 .. Len(q) - 1 = {1, 2} /\ Len(q) \in 1 .. 3
      /\ 1 - 1 = 0 /\ 2 - 1 = 1 /\ 3 - 1 = 2 /\ 1 + 1 = 2 /\ 2 + 1 = 3
  BY <1>1
<1>6. Walks(pl, D, st, q)
  BY <1>1, <1>2, <1>3, <1>4, <1>5 DEF Walks
<1>7. WalkLocks(pl, st, q) = StopLocks(pl, st, a) \cup StopLocks(pl, st, b) \cup StopLocks(pl, st, c)
  BY <1>1, <1>5 DEF WalkLocks
<1> QED BY <1>2, <1>6, <1>7

-----------------------------------------------------------------------------
(* The same for the tables in which every row stands at its id.                *)

Straightly(pl, ids) == DOMAIN pl.col = ids /\ Plain(pl, "p", ids) /\ Plain(pl, "c", ids)

\* Where the locks in L lie: those that cover a gap, and those that cover a record and that a scan of idx meets.
GapsAt(L, G) == \A l \in L : CoversGap(l) => l.idx \in {"p", "c"} /\ \E m \in G : l.rec = <<m, m>>
RecsAt(L, idx, R) == \A l \in L : CoversRec(l) /\ l.idx \in {idx, "p"} => \E m \in R : l.rec = <<m, m>>

\* A plan whose column c is the id.
LEMMA StraightIs ==
  ASSUME NEW pl, NEW ids, ids \subseteq 0 .. 30, pl.col = Straight(ids)
  PROVE  Straightly(pl, ids)
<1>1. DOMAIN pl.col = ids /\ \A i \in ids : pl.col[i] = i
  BY DEF Straight
<1>2. "c" # "p"
  OBVIOUS
<1>3. Plain(pl, "p", ids)
  BY <1>1 DEF Plain, Place
<1>4. Plain(pl, "c", ids)
  BY <1>1, <1>2 DEF Plain, Place
<1> QED BY <1>1, <1>3, <1>4 DEF Straightly

\* An insert of id n that finds its gaps free.
LEMMA StraightFreeInsert ==
  ASSUME NEW pl, NEW ids, Straightly(pl, ids), NEW D \in SUBSET ids, NEW L, NEW s,
         NEW n \in 0 .. 30, NEW d, NEW G \in SUBSET (0 .. 30), GapsAt(L, G),
         \A m \in G : m <= n \/ \E i \in D : n < i /\ i < m
  PROVE  \A q, k : q[k] = Free(Insert(n, n, d)) => Works(pl, D, L, s, q, k)
<1> DEFINE st == Insert(n, n, d)
<1>1. st.do = "insert" /\ st.id = n /\ st.c = n
  BY Fields
<1> HIDE DEF st
<1>2. \A idx : InsertKey(st, idx) = <<n, n>>
  BY <1>1 DEF InsertKey
<1>3. ASSUME NEW l \in L, CoversGap(l)
      PROVE  l.rec \notin Nexts(pl, D, l.idx, InsertKey(st, l.idx))
  <2>1. PICK m \in G : l.idx \in {"p", "c"} /\ l.rec = <<m, m>>
    BY <1>3 DEF GapsAt
  <2>2. m \in 0 .. 30 /\ (m <= n \/ \E i \in D : n < i /\ i < m)
    BY <2>1
  <2>3. Plain(pl, l.idx, ids) /\ D \subseteq ids
    BY <2>1 DEF Straightly
  <2>4. <<m, m>> \notin Nexts(pl, D, l.idx, <<n, n>>)
    BY <2>2, <2>3, PlainNotNext, ZenonT(60)
  <2> QED BY <1>2, <2>1, <2>4
<1>4. Unhindered(pl, D, L, s, st)
  BY <1>1, <1>3, FreeInsert
<1>5. \A q, k : q[k] = Free(st) => Works(pl, D, L, s, q, k)
  BY <1>1, <1>4, FreeWorks
<1> QED BY <1>5 DEF st

\* One that finds the gap before row i locked.
LEMMA StraightBlockedInsert ==
  ASSUME NEW pl, NEW ids, Straightly(pl, ids), NEW D \in SUBSET ids, NEW L, NEW n \in 0 .. 30, NEW d,
         NEW idx \in {"p", "c"}, NEW i \in D, n < i, \A j \in ids : n < j => i <= j,
         \E l \in L : l.idx = idx /\ l.rec = <<i, i>> /\ CoversGap(l)
  PROVE  \A s, q, k : q[k] = Blocked(Insert(n, n, d)) /\ k = Len(q) => Works(pl, D, L, s, q, k)
<1> DEFINE st == Insert(n, n, d)
           r  == <<i, i>>
<1>1. st.do = "insert" /\ st.id = n /\ st.c = n
  BY Fields
<1>2. \E l \in L : l.idx = idx /\ l.rec = r /\ CoversGap(l)
  OBVIOUS
<1>3. Plain(pl, idx, ids) /\ DOMAIN pl.col = ids /\ D \subseteq ids
  BY DEF Straightly
<1>4. Nexts(pl, D, idx, <<n, n>>) \cap AllPlaces(pl, idx, ids) \subseteq {r}
  BY <1>3, PlainNext
<1> HIDE DEF st, r
<1>5. InsertKey(st, idx) = <<n, n>>
  BY <1>1 DEF InsertKey
<1>6. Nexts(pl, D, idx, InsertKey(st, idx)) \subseteq {r}
  BY <1>3, <1>4, <1>5, PlanPlaces
<1>7. Barred(pl, D, L, st)
  BY <1>1, <1>2, <1>6, BlockedInsert
<1>8. \A s, q, k : q[k] = Blocked(st) /\ k = Len(q) => Works(pl, D, L, s, q, k)
  BY <1>1, <1>7, BlockedWorks
<1> QED BY <1>8 DEF st

\* An UPDATE of value v that finds its row free.
LEMMA StraightFreeUpdate ==
  ASSUME NEW pl, NEW ids, Straightly(pl, ids), NEW D, NEW L, NEW s, NEW idx \in {"p", "c"}, NEW v \in 0 .. 30,
         NEW R \in SUBSET (0 .. 30), RecsAt(L, idx, R), v \notin R
  PROVE  \A q, k : q[k] = Free(Add1(Eq(idx, v))) => Works(pl, D, L, s, q, k)
<1>1. DOMAIN pl.col = ids /\ \A i \in ids : i \in 0 .. 30 /\ Place(pl, idx, i) = <<i, i>>
  BY DEF Straightly, Plain
<1>2. \A r \in AllPlaces(pl, idx, DOMAIN pl.col) : r[1] \in Int
  BY <1>1 DEF AllPlaces, Supremum
<1>3. ASSUME NEW l \in L, CoversRec(l)
      PROVE  /\ l.idx = idx => l.rec[1] # v
             /\ l.idx = "p" => \A i \in DOMAIN pl.col : Place(pl, idx, i)[1] = v => l.rec # <<i, i>>
  <2>1. l.idx \in {idx, "p"} => l.rec[1] # v
    BY <1>3 DEF RecsAt
  <2>2. \A i \in DOMAIN pl.col : Place(pl, idx, i)[1] = v => <<i, i>>[1] = v
    BY <1>1
  <2> QED BY <2>1, <2>2
<1>4. v \in 0 .. 99
  OBVIOUS
<1>5. Unhindered(pl, D, L, s, Add1(Eq(idx, v)))
  BY <1>2, <1>3, <1>4, FreeUpdate, ZenonT(60)
<1> QED BY <1>5, FreeWorks

\* One that finds it locked.
LEMMA StraightBlockedUpdate ==
  ASSUME NEW pl, NEW ids, Straightly(pl, ids), NEW D \in SUBSET ids, NEW L, NEW idx \in {"p", "c"}, NEW i \in D,
         \E l \in L : l.idx = idx /\ l.rec = <<i, i>> /\ CoversRec(l)
  PROVE  \A s, q, k : q[k] = Blocked(Add1(Eq(idx, i))) /\ k = Len(q) => Works(pl, D, L, s, q, k)
<1> DEFINE w == Eq(idx, i)
           r == <<i, i>>
<1>1. w.idx = idx /\ w.lo = i /\ w.loIn = TRUE
  BY Fields
<1>2. r # Supremum /\ r[1] = i /\ \E l \in L : l.idx = idx /\ l.rec = r /\ CoversRec(l)
  <2>1. ids \subseteq 0 .. 30
    BY DEF Straightly, Plain
  <2>2. i \in 0 .. 99
    BY <2>1
  <2>3. r # Supremum
    BY <2>2, PlaceOrder, ZenonT(60)
  <2>4. r[1] = i
    OBVIOUS
  <2> QED BY <2>3, <2>4
<1>3. Plain(pl, idx, ids) /\ DOMAIN pl.col = ids /\ D \subseteq ids /\ i \in Int
  BY DEF Straightly, Plain
<1> HIDE DEF w
<1>4. Begins(pl, D, w) \cap AllPlaces(pl, w.idx, ids) \subseteq {<<i, i>>}
  <2>1. Plain(pl, w.idx, ids) /\ w.lo \in Int /\ (w.lo < i \/ (w.loIn /\ w.lo = i))
    BY <1>1, <1>3
  <2>2. \A j \in ids : w.lo < j \/ (w.loIn /\ w.lo = j) => i <= j
    BY <1>1, <1>3 DEF Plain
  <2> QED BY <1>3, <2>1, <2>2, PlainBegin, ZenonT(60)
<1>5. Begins(pl, D, w) \subseteq {r}
  BY <1>3, <1>4, PlanPlaces
<1> HIDE DEF r
<1>6. Begins(pl, D, Eq(idx, i)) \subseteq {r}
  BY <1>5 DEF w
<1>7. Barred(pl, D, L, Add1(Eq(idx, i)))
  BY <1>2, <1>6, BlockedUpdate
<1> QED BY <1>7, BlockedWorks

\* The first of A's scan.
LEMMA StraightBegin ==
  ASSUME NEW pl, NEW ids, Straightly(pl, ids), NEW D \in SUBSET ids, NEW w, w.idx \in {"p", "c"},
         NEW lo \in Int, w.lo = lo, NEW i \in D, lo < i \/ (w.loIn /\ lo = i),
         \A j \in D : lo < j \/ lo = j => (i <= j \/ (lo = j /\ ~w.loIn))
  PROVE  Begins(pl, D, w) \cap AllPlaces(pl, w.idx, D) \subseteq {<<i, i>>}
<1>1. Plain(pl, w.idx, ids) /\ D \subseteq ids
  BY DEF Straightly
<1>2. \A j \in D : w.lo < j \/ (w.loIn /\ w.lo = j) => i <= j
  <2>1. \A j \in D : j \in Int
    BY <1>1 DEF Plain
  <2> QED BY <2>1
<1> QED BY <1>1, <1>2, PlainBegin

\* And the one after k.
LEMMA StraightNext ==
  ASSUME NEW pl, NEW ids, Straightly(pl, ids), NEW D \in SUBSET ids, NEW idx \in {"p", "c"},
         NEW k \in 0 .. 30, NEW i \in D, k < i, \A j \in D : k < j => i <= j
  PROVE  Nexts(pl, D, idx, <<k, k>>) \cap AllPlaces(pl, idx, D) \subseteq {<<i, i>>}
<1>1. Plain(pl, idx, ids) /\ D \subseteq ids
  BY DEF Straightly
<1> QED BY <1>1, PlainNext

\* What A locks where its scan stops at row i, in the range or behind it.
LEMMA StraightStop ==
  ASSUME NEW pl, NEW ids, Straightly(pl, ids), NEW st, st.w.idx \in {"p", "c"}, NEW i \in ids,
         NEW k, ScanKind(st.w, <<i, i>>) = k
  PROVE  /\ StopPlace(pl, st, i) = <<i, i>>
         /\ InRange(st.w, <<i, i>>) /\ NeedsRow(st) =>
               StopLocks(pl, st, i) = {Lock("A", st.w.idx, <<i, i>>, st.mode, k), Lock("A", "p", <<i, i>>, st.mode, "rec")}
         /\ ~(InRange(st.w, <<i, i>>) /\ NeedsRow(st)) =>
               StopLocks(pl, st, i) = {Lock("A", st.w.idx, <<i, i>>, st.mode, k)}
<1>1. StopPlace(pl, st, i) = <<i, i>>
  BY DEF StopPlace, Straightly, Plain
<1>2. IndexLock("A", st, <<i, i>>) = Lock("A", st.w.idx, <<i, i>>, st.mode, k)
  BY DEF IndexLock
<1> QED BY <1>1, <1>2 DEF StopLocks, RowLock

-----------------------------------------------------------------------------
(* What is left to say of a case.                                              *)

\* No statement that gets past A meets one that does not, when those are inserts or these are not.
LEMMA ApartCase ==
  ASSUME NEW pl, NEW p,
         \/ \A t \in {"B", "C"} : \A j \in 1 .. Len(p.script[t]) :
               p.script[t][j].op = "sql" /\ p.script[t][j].blocked => p.script[t][j].st.do = "insert"
         \/ \A s \in {"B", "C"} : \A k \in 1 .. Len(p.script[s]) :
               p.script[s][k].op = "sql" /\ ~p.script[s][k].blocked => p.script[s][k].st.do # "insert"
  PROVE  AllApart(pl, p)
  BY DEF AllApart, Apart

\* A case with three sessions.
LEMMA CaseIs ==
  ASSUME NEW pl, NEW stops, NEW p, NEW D, NEW st, NEW L, NEW qb, NEW qc,
         DOMAIN p.data = D, p.script["A"] = << Do("begin"), Free(st), Send("t2") >>,
         p.script["B"] = qb, p.script["C"] = qc, Planned(pl, p), st.do \notin {"insert", "select5"},
         Walks(pl, D, st, stops), WalkLocks(pl, st, stops) = L,
         Len(qb) \in 2 .. 5, qb[1] = Recv("t2"), qb[2] = Send("t3"),
         Len(qc) \in 2 .. 3, qc[1] = Recv("t3"),
         \A k \in 3 .. Len(qb) : Works(pl, D, L, "B", qb, k),
         \A k \in 2 .. Len(qc) : Works(pl, D, L, "C", qc, k),
         AllApart(pl, p)
  PROVE  CasePlan(pl, stops, p)
<1> DEFINE qa == p.script["A"]
<1>1. Len(qa) = 3 /\ qa[1] = Do("begin") /\ qa[2] = Free(st) /\ qa[3] = Send("t2")
  OBVIOUS
<1>2. qa = p.script["A"]
  OBVIOUS
<1> HIDE DEF qa
<1>3. qa[1].op = "begin" /\ qa[2].op = "sql" /\ qa[2].st = st /\ qa[2].blocked = FALSE
  BY <1>1, Fields DEF Do
<1>4. AScan(p) = st /\ Held(pl, stops, p) = L
  BY <1>2, <1>3 DEF AScan, Held
<1>5. ScriptA(p)
  <2>1. Len(qa) \in 3 .. 4 /\ Len(qa) # 4
    BY <1>1
  <2> QED BY <1>1, <1>2, <1>3, <2>1 DEF ScriptA
<1>6. ScriptB(pl, L, p)
  <2>1. \A k \in 2 .. Len(qb) : k > 2 => k \in 3 .. Len(qb)
    OBVIOUS
  <2>2. qc # << >>
    OBVIOUS
  <2> QED BY <2>1, <2>2 DEF ScriptB
<1>7. ScriptC(pl, L, p)
  <2>1. Len(qc) \in 0 .. 3
    OBVIOUS
  <2> QED BY <2>1 DEF ScriptC
<1> QED BY <1>4, <1>5, <1>6, <1>7 DEF CasePlan

-----------------------------------------------------------------------------
(* The cases whose table holds the six rows.                                   *)

\* What their programs consist of.
LEMMA SixProgram ==
  \A name, wg, a, b, c :
     LET p == Program(name, wg, Six, a, b, c) IN
     DOMAIN p.data = SixIds /\ p.script["A"] = a /\ p.script["B"] = b /\ p.script["C"] = c
  BY SixTidy DEF Program

\* Case 01: A found no row 7, and has the gap before 10.
LEMMA Case01Plan == CasePlan(Plan01, <<10>>, Case01)
<1> DEFINE pl  == Plan01
           ids == SixIds \cup {8}
           p   == Case01
           st  == Add1(Eq("p", 7))
           D   == SixIds
           L   == {Lock("A", "p", <<10, 10>>, "X", "gap")}
           qb  == << Recv("t2"), Send("t3"), Blocked(Insert(8, 8, 8)) >>
           qc  == << Recv("t3"), Free(Add1(Eq("p", 5))), Free(Add1(Eq("p", 10))) >>
<1>1. Straightly(pl, ids) /\ D \in SUBSET ids
  <2>1. pl.col = Straight(ids) /\ ids \subseteq 0 .. 30 /\ D \subseteq ids
    BY DEF Plan01, SixIds
  <2> QED BY <2>1, StraightIs
<1>2. /\ DOMAIN p.data = D /\ p.script["A"] = << Do("begin"), Free(st), Send("t2") >>
      /\ p.script["B"] = qb /\ p.script["C"] = qc
  <2>1. p = Program("case01", 3, Six, << Do("begin"), Free(st), Send("t2") >>, qb, qc) /\ D = SixIds
    BY DEF Case01
  <2> HIDE DEF p, D, st, qb, qc
  <2> QED BY <2>1, SixProgram
<1>3. Planned(pl, p)
  BY PlanCase01
<1>4. /\ st.do = "add1" /\ st.w = Eq("p", 7) /\ st.mode = "X"
      /\ st.w.idx = "p" /\ st.w.lo = 7 /\ st.w.hi = 7 /\ st.w.loIn = TRUE /\ st.w.hiIn = TRUE
  BY Fields
<1>5. /\ qb[1] = Recv("t2") /\ qb[2] = Send("t3") /\ qb[3] = Blocked(Insert(8, 8, 8)) /\ Len(qb) = 3
      /\ qc[1] = Recv("t3") /\ qc[2] = Free(Add1(Eq("p", 5))) /\ qc[3] = Free(Add1(Eq("p", 10))) /\ Len(qc) = 3
  OBVIOUS
<1>6. /\ GapsAt(L, {10}) /\ RecsAt(L, "p", {})
      /\ \E l \in L : l.idx = "p" /\ l.rec = <<10, 10>> /\ CoversGap(l)
  BY Fields DEF GapsAt, RecsAt, CoversGap, CoversRec
<1>7. /\ 10 \in D /\ 10 \in ids /\ 8 < 10 /\ \A j \in ids : 8 < j => 10 <= j
      /\ 7 < 10 /\ \A j \in D : 7 < j \/ 7 = j => 10 <= j
  BY DEF SixIds
<1> HIDE DEF pl, ids, p, st, D, L, qb, qc
<1>8. Walks(pl, D, st, <<10>>) /\ WalkLocks(pl, st, <<10>>) = L
  <2>1. ~InRange(st.w, <<10, 10>>) /\ ScanKind(st.w, <<10, 10>>) = "gap"
    <3>1. ~InRange(st.w, <<10, 10>>) /\ <<10, 10>> # Supremum
      BY <1>4 DEF InRange, Supremum
    <3> QED BY <1>4, <3>1 DEF ScanKind
  <2>2. StopPlace(pl, st, 10) = <<10, 10>> /\ StopLocks(pl, st, 10) = L
    BY <1>1, <1>4, <1>7, <2>1, StraightStop DEF L
  <2>3. Begins(pl, D, st.w) \cap AllPlaces(pl, st.w.idx, D) \subseteq {<<10, 10>>}
    BY <1>1, <1>4, <1>7, StraightBegin
  <2> QED BY <1>7, <2>1, <2>2, <2>3, WalkOne
<1>9. /\ 8 \in 0 .. 30 /\ 5 \in 0 .. 30 /\ 10 \in 0 .. 30 /\ "p" \in {"p", "c"}
      /\ {} \in SUBSET (0 .. 30) /\ 5 \notin {} /\ 10 \notin {}
  OBVIOUS
<1>11. Works(pl, D, L, "B", qb, 3)
  <2>1. \A s, q, k : q[k] = Blocked(Insert(8, 8, 8)) /\ k = Len(q) => Works(pl, D, L, s, q, k)
    BY <1>1, <1>6, <1>7, <1>9, StraightBlockedInsert
  <2> QED BY <1>5, <2>1
<1>12. Works(pl, D, L, "C", qc, 2) /\ Works(pl, D, L, "C", qc, 3)
  <2>1. \A q, k : q[k] = Free(Add1(Eq("p", 5))) => Works(pl, D, L, "C", q, k)
    BY <1>1, <1>6, <1>9, StraightFreeUpdate
  <2>2. \A q, k : q[k] = Free(Add1(Eq("p", 10))) => Works(pl, D, L, "C", q, k)
    BY <1>1, <1>6, <1>9, StraightFreeUpdate
  <2> QED BY <1>5, <2>1, <2>2
<1>13. AllApart(pl, p)
  <2>1. ASSUME NEW t \in {"B", "C"}, NEW j \in 1 .. Len(p.script[t]),
               p.script[t][j].op = "sql", p.script[t][j].blocked
        PROVE  p.script[t][j].st.do = "insert"
    BY <1>2, <1>5, <2>1, Fields, SMTT(40) DEF Recv, Send
  <2> QED BY <2>1, ApartCase
<1>14. CasePlan(pl, <<10>>, p)
  <2>1. /\ \A k \in 3 .. Len(qb) : Works(pl, D, L, "B", qb, k)
        /\ \A k \in 2 .. Len(qc) : Works(pl, D, L, "C", qc, k)
    BY <1>5, <1>11, <1>12
  <2>2. Len(qb) \in 2 .. 5 /\ Len(qc) \in 2 .. 3 /\ st.do \notin {"insert", "select5"}
    BY <1>4, <1>5
  <2> QED BY <1>2, <1>3, <1>5, <1>8, <1>13, <2>1, <2>2, CaseIs
<1> QED BY <1>14 DEF pl, p

\* Case 03: A has row 10 and the gap before 15.
LEMMA Case03Plan == CasePlan(Plan03, <<10, 15>>, Case03)
<1> DEFINE pl  == Plan03
           ids == SixIds \cup {8, 13}
           p   == Case03
           st  == ForUpdate(Between("p", 10, TRUE, 11, FALSE))
           D   == SixIds
           L   == {Lock("A", "p", <<10, 10>>, "X", "rec"), Lock("A", "p", <<15, 15>>, "X", "gap")}
           qb  == << Recv("t2"), Send("t3"), Free(Insert(8, 8, 8)), Blocked(Insert(13, 13, 13)) >>
           qc  == << Recv("t3"), Free(Add1(Eq("p", 15))) >>
<1>1. Straightly(pl, ids) /\ D \in SUBSET ids
  <2>1. pl.col = Straight(ids) /\ ids \subseteq 0 .. 30 /\ D \subseteq ids
    BY DEF Plan03, SixIds
  <2> QED BY <2>1, StraightIs
<1>2. /\ DOMAIN p.data = D /\ p.script["A"] = << Do("begin"), Free(st), Send("t2") >>
      /\ p.script["B"] = qb /\ p.script["C"] = qc
  <2>1. p = Program("case03", 3, Six, << Do("begin"), Free(st), Send("t2") >>, qb, qc) /\ D = SixIds
    BY DEF Case03
  <2> HIDE DEF p, D, st, qb, qc
  <2> QED BY <2>1, SixProgram
<1>3. Planned(pl, p)
  BY PlanCase03
<1>4. /\ st.do = "select" /\ st.mode = "X" /\ st.limit = 1000
      /\ st.w.idx = "p" /\ st.w.lo = 10 /\ st.w.hi = 11 /\ st.w.loIn = TRUE /\ st.w.hiIn = FALSE
  BY DEF ForUpdate, Scan, Between, NoLimit
<1>5. /\ qb[1] = Recv("t2") /\ qb[2] = Send("t3") /\ Len(qb) = 4
      /\ qb[3] = Free(Insert(8, 8, 8)) /\ qb[4] = Blocked(Insert(13, 13, 13))
      /\ qc[1] = Recv("t3") /\ qc[2] = Free(Add1(Eq("p", 15))) /\ Len(qc) = 2
  OBVIOUS
<1>6. /\ GapsAt(L, {15}) /\ RecsAt(L, "p", {10})
      /\ \E l \in L : l.idx = "p" /\ l.rec = <<15, 15>> /\ CoversGap(l)
  BY Fields DEF GapsAt, RecsAt, CoversGap, CoversRec
<1>7. /\ 10 \in D /\ 10 \in ids /\ 15 \in D /\ 15 \in ids /\ 13 < 15 /\ \A j \in ids : 13 < j => 15 <= j
      /\ \A j \in D : 10 < j => 15 <= j
      /\ \A j \in D : 10 < j \/ 10 = j => 10 <= j
      /\ \A m \in {15} : \E i \in D : 8 < i /\ i < m
  BY DEF SixIds
<1>8. /\ 8 \in 0 .. 30 /\ 13 \in 0 .. 30 /\ 10 \in 0 .. 30 /\ 15 \in 0 .. 30 /\ "p" \in {"p", "c"} /\ 10 < 15
      /\ {15} \in SUBSET (0 .. 30) /\ {10} \in SUBSET (0 .. 30) /\ 15 \notin {10} /\ 10 # 15
  OBVIOUS
<1> HIDE DEF pl, ids, p, st, D, L, qb, qc
<1>9. Walks(pl, D, st, <<10, 15>>) /\ WalkLocks(pl, st, <<10, 15>>) = L
  <2>1. /\ InRange(st.w, <<10, 10>>) /\ ScanKind(st.w, <<10, 10>>) = "rec"
        /\ ~InRange(st.w, <<15, 15>>) /\ ScanKind(st.w, <<15, 15>>) = "gap" /\ ~NeedsRow(st)
    <3>1. InRange(st.w, <<10, 10>>) /\ <<10, 10>> # Supremum /\ ~InRange(st.w, <<15, 15>>) /\ <<15, 15>> # Supremum
      BY <1>4 DEF InRange, Supremum
    <3> QED BY <1>4, <3>1 DEF ScanKind, NeedsRow
  <2>2. StopPlace(pl, st, 10) = <<10, 10>> /\ StopLocks(pl, st, 10) = {Lock("A", "p", <<10, 10>>, "X", "rec")}
    BY <1>1, <1>4, <1>7, <2>1, StraightStop
  <2>3. StopPlace(pl, st, 15) = <<15, 15>> /\ StopLocks(pl, st, 15) = {Lock("A", "p", <<15, 15>>, "X", "gap")}
    BY <1>1, <1>4, <1>7, <2>1, StraightStop
  <2>4. Begins(pl, D, st.w) \cap AllPlaces(pl, st.w.idx, D) \subseteq {<<10, 10>>}
    BY <1>1, <1>4, <1>7, StraightBegin
  <2>5. Nexts(pl, D, st.w.idx, <<10, 10>>) \cap AllPlaces(pl, st.w.idx, D) \subseteq {<<15, 15>>}
    BY <1>1, <1>4, <1>7, <1>8, StraightNext
  <2>6. ~Over(pl, st, <<10, 15>>, 1)
    BY <1>4 DEF Over
  <2>7. L = StopLocks(pl, st, 10) \cup StopLocks(pl, st, 15)
    BY <2>2, <2>3 DEF L
  <2> QED BY <1>7, <1>8, <2>1, <2>2, <2>3, <2>4, <2>5, <2>6, <2>7, WalkTwo
<1>10. Works(pl, D, L, "B", qb, 3)
  <2>1. \A q, k : q[k] = Free(Insert(8, 8, 8)) => Works(pl, D, L, "B", q, k)
    BY <1>1, <1>6, <1>7, <1>8, StraightFreeInsert
  <2> QED BY <1>5, <2>1
<1>11. Works(pl, D, L, "B", qb, 4)
  <2>1. \A s, q, k : q[k] = Blocked(Insert(13, 13, 13)) /\ k = Len(q) => Works(pl, D, L, s, q, k)
    BY <1>1, <1>6, <1>7, <1>8, StraightBlockedInsert
  <2> QED BY <1>5, <2>1
<1>12. Works(pl, D, L, "C", qc, 2)
  <2>1. \A q, k : q[k] = Free(Add1(Eq("p", 15))) => Works(pl, D, L, "C", q, k)
    BY <1>1, <1>6, <1>8, StraightFreeUpdate
  <2> QED BY <1>5, <2>1
<1>13. AllApart(pl, p)
  <2>1. ASSUME NEW t \in {"B", "C"}, NEW j \in 1 .. Len(p.script[t]),
               p.script[t][j].op = "sql", p.script[t][j].blocked
        PROVE  p.script[t][j].st.do = "insert"
    BY <1>2, <1>5, <2>1, Fields DEF Recv, Send
  <2> QED BY <2>1, ApartCase
<1>14. CasePlan(pl, <<10, 15>>, p)
  <2>1. /\ \A k \in 3 .. Len(qb) : Works(pl, D, L, "B", qb, k)
        /\ \A k \in 2 .. Len(qc) : Works(pl, D, L, "C", qc, k)
    BY <1>5, <1>10, <1>11, <1>12
  <2>2. Len(qb) \in 2 .. 5 /\ Len(qc) \in 2 .. 3 /\ st.do \notin {"insert", "select5"}
    BY <1>4, <1>5
  <2> QED BY <1>2, <1>3, <1>5, <1>9, <1>13, <2>1, <2>2, CaseIs
<1> QED BY <1>14 DEF pl, p

\* Case 05: A has row 15 and the gap before it.
LEMMA Case05Plan == CasePlan(Plan05, <<15>>, Case05)
<1> DEFINE pl  == Plan05
           ids == SixIds \cup {16}
           p   == Case05
           st  == ForUpdate(Between("p", 10, FALSE, 15, TRUE))
           D   == SixIds
           L   == {Lock("A", "p", <<15, 15>>, "X", "nextkey")}
           qb  == << Recv("t2"), Send("t3"), Free(Add1(Eq("p", 20))) >>
           qc  == << Recv("t3"), Free(Insert(16, 16, 16)) >>
<1>1. Straightly(pl, ids) /\ D \in SUBSET ids
  <2>1. pl.col = Straight(ids) /\ ids \subseteq 0 .. 30 /\ D \subseteq ids
    BY DEF Plan05, SixIds
  <2> QED BY <2>1, StraightIs
<1>2. /\ DOMAIN p.data = D /\ p.script["A"] = << Do("begin"), Free(st), Send("t2") >>
      /\ p.script["B"] = qb /\ p.script["C"] = qc
  <2>1. p = Program("case05", 3, Six, << Do("begin"), Free(st), Send("t2") >>, qb, qc) /\ D = SixIds
    BY DEF Case05
  <2> HIDE DEF p, D, st, qb, qc
  <2> QED BY <2>1, SixProgram
<1>3. Planned(pl, p)
  BY PlanCase05
<1>4. /\ st.do = "select" /\ st.mode = "X"
      /\ st.w.idx = "p" /\ st.w.lo = 10 /\ st.w.hi = 15 /\ st.w.loIn = FALSE /\ st.w.hiIn = TRUE
  BY DEF ForUpdate, Scan, Between
<1>5. /\ qb[1] = Recv("t2") /\ qb[2] = Send("t3") /\ qb[3] = Free(Add1(Eq("p", 20))) /\ Len(qb) = 3
      /\ qc[1] = Recv("t3") /\ qc[2] = Free(Insert(16, 16, 16)) /\ Len(qc) = 2
  OBVIOUS
<1>6. GapsAt(L, {15}) /\ RecsAt(L, "p", {15})
  BY Fields DEF GapsAt, RecsAt, CoversGap, CoversRec
<1>7. /\ 15 \in D /\ 15 \in ids /\ \A j \in D : 10 < j \/ 10 = j => (15 <= j \/ 10 = j)
      /\ \A m \in {15} : m <= 16 \/ \E i \in D : 16 < i /\ i < m
  BY DEF SixIds
<1>8. /\ 16 \in 0 .. 30 /\ 20 \in 0 .. 30 /\ "p" \in {"p", "c"} /\ {15} \in SUBSET (0 .. 30) /\ 20 \notin {15}
      /\ 10 < 15 /\ 10 \in Int
  OBVIOUS
<1> HIDE DEF pl, ids, p, st, D, L, qb, qc
<1>9. Walks(pl, D, st, <<15>>) /\ WalkLocks(pl, st, <<15>>) = L
  <2>1. ScanKind(st.w, <<15, 15>>) = "nextkey" /\ ~NeedsRow(st)
    <3>1. InRange(st.w, <<15, 15>>) /\ <<15, 15>> # Supremum
      BY <1>4 DEF InRange, Supremum
    <3> QED BY <1>4, <3>1 DEF ScanKind, NeedsRow
  <2>2. StopPlace(pl, st, 15) = <<15, 15>> /\ StopLocks(pl, st, 15) = L
    BY <1>1, <1>4, <1>7, <2>1, StraightStop DEF L
  <2>3. Begins(pl, D, st.w) \cap AllPlaces(pl, st.w.idx, D) \subseteq {<<15, 15>>}
    BY <1>1, <1>4, <1>7, <1>8, StraightBegin
  <2>4. Over(pl, st, <<15>>, 1)
    BY <1>4, <2>2 DEF Over
  <2> QED BY <1>7, <2>2, <2>3, <2>4, WalkOne
<1>10. Works(pl, D, L, "B", qb, 3)
  <2>1. \A q, k : q[k] = Free(Add1(Eq("p", 20))) => Works(pl, D, L, "B", q, k)
    BY <1>1, <1>6, <1>8, StraightFreeUpdate
  <2> QED BY <1>5, <2>1
<1>11. Works(pl, D, L, "C", qc, 2)
  <2>1. \A q, k : q[k] = Free(Insert(16, 16, 16)) => Works(pl, D, L, "C", q, k)
    BY <1>1, <1>6, <1>7, <1>8, StraightFreeInsert
  <2> QED BY <1>5, <2>1
<1>12. AllApart(pl, p)
  <2>1. ASSUME NEW t \in {"B", "C"}, NEW j \in 1 .. Len(p.script[t]),
               p.script[t][j].op = "sql", p.script[t][j].blocked
        PROVE  p.script[t][j].st.do = "insert"
    BY <1>2, <1>5, <2>1, Fields DEF Recv, Send
  <2> QED BY <2>1, ApartCase
<1>13. CasePlan(pl, <<15>>, p)
  <2>1. /\ \A k \in 3 .. Len(qb) : Works(pl, D, L, "B", qb, k)
        /\ \A k \in 2 .. Len(qc) : Works(pl, D, L, "C", qc, k)
    BY <1>5, <1>10, <1>11
  <2>2. Len(qb) \in 2 .. 5 /\ Len(qc) \in 2 .. 3 /\ st.do \notin {"insert", "select5"}
    BY <1>4, <1>5
  <2> QED BY <1>2, <1>3, <1>5, <1>9, <1>12, <2>1, <2>2, CaseIs
<1> QED BY <1>13 DEF pl, p

\* In case 04 B inserts before 20 in both indexes, and C waits at 15.
LEMMA InsertBehind ==
  ASSUME NEW pl, NEW ids, Straightly(pl, ids), SixIds \in SUBSET ids, ids \subseteq SixIds \cup {8, 16}
  PROVE  Apart(pl, SixIds, "B", Insert(16, 16, 16), "C", Add1(Eq("c", 15)))
<1> DEFINE st == Insert(16, 16, 16)
           ut == Add1(Eq("c", 15))
           D  == SixIds
           J  == ids
<1>1. st.do = "insert" /\ st.id = 16 /\ st.c = 16 /\ ut.w = Eq("c", 15)
  BY Fields
<1>2. /\ 20 \in D /\ 15 \in D /\ 16 < 20 /\ 16 \in 0 .. 30 /\ 15 \in Int
      /\ \A j \in J : 16 < j => 20 <= j
      /\ \A j \in J : 15 < j \/ 15 = j => 15 <= j
  BY DEF SixIds
<1>3. DOMAIN pl.col = J /\ D \subseteq ids /\ J \subseteq ids
  BY DEF Straightly
<1> HIDE DEF st, ut, D, J
<1>4. ASSUME NEW idx \in {"p", "c"}
      PROVE  Nexts(pl, D, idx, InsertKey(st, idx)) \subseteq {<<20, 20>>}
  <2>1. Plain(pl, idx, ids)
    BY DEF Straightly
  <2>2. Nexts(pl, D, idx, <<16, 16>>) \cap AllPlaces(pl, idx, J) \subseteq {<<20, 20>>}
    <3>1. D \subseteq ids /\ J \subseteq ids
      BY <1>3
    <3>2. 20 \in D /\ 16 \in 0 .. 30 /\ 16 < 20 /\ \A j \in J : 16 < j => 20 <= j
      BY <1>2
    <3> QED BY <2>1, <3>1, <3>2, PlainNext
  <2>3. InsertKey(st, idx) = <<16, 16>>
    BY <1>1 DEF InsertKey
  <2> QED BY <1>3, <2>2, <2>3, PlanPlaces
<1>5. Begins(pl, D, ut.w) \subseteq {<<15, 15>>}
  <2> DEFINE w == ut.w
  <2>1. w.idx = "c" /\ w.lo = 15 /\ w.loIn = TRUE
    BY <1>1, Fields
  <2> HIDE DEF w
  <2>2. Plain(pl, w.idx, ids) /\ w.lo \in Int /\ (w.lo < 15 \/ (w.loIn /\ w.lo = 15))
    BY <2>1 DEF Straightly
  <2>3. \A j \in J : w.lo < j \/ (w.loIn /\ w.lo = j) => 15 <= j
    BY <1>2, <2>1
  <2>4. Begins(pl, D, w) \cap AllPlaces(pl, w.idx, J) \subseteq {<<15, 15>>}
    BY <1>2, <1>3, <2>2, <2>3, PlainBegin
  <2>5. Begins(pl, D, w) \subseteq {<<15, 15>>}
    BY <1>3, <2>4, PlanPlaces
  <2> QED BY <2>5 DEF w
<1>6. ASSUME NEW a \in InsertAsks(pl, D, "B", st), NEW r \in Begins(pl, D, ut.w)
      PROVE  ~Conflicts(a, IndexLock("C", ut, r))
  <2>1. PICK idx \in {"p", "c"} : a \in {Lock("B", idx, x, "X", "insert") : x \in Nexts(pl, D, idx, InsertKey(st, idx))}
    BY <1>6 DEF InsertAsks
  <2>2. PICK x \in Nexts(pl, D, idx, InsertKey(st, idx)) : a = Lock("B", idx, x, "X", "insert")
    BY <2>1
  <2>3. a.rec = <<20, 20>>
    BY <1>4, <2>2, Fields
  <2>4. IndexLock("C", ut, r).rec = <<15, 15>>
    BY <1>5, <1>6, Fields DEF IndexLock
  <2>5. <<20, 20>> # <<15, 15>>
    OBVIOUS
  <2> QED BY <2>3, <2>4, <2>5 DEF Conflicts
<1>7. Apart(pl, D, "B", st, "C", ut)
  BY <1>6 DEF Apart
<1> QED BY <1>7 DEF st, ut, D

\* Case 04: A has rows 10 and 15 of index c, with the gaps before them, and row 10.
LEMMA Case04Plan == CasePlan(Plan04, <<10, 15>>, Case04)
<1> DEFINE pl  == Plan04
           ids == SixIds \cup {8, 16}
           p   == Case04
           st  == ForUpdate(Between("c", 10, TRUE, 11, FALSE))
           D   == SixIds
           L   == {Lock("A", "c", <<10, 10>>, "X", "nextkey"), Lock("A", "p", <<10, 10>>, "X", "rec"),
                   Lock("A", "c", <<15, 15>>, "X", "nextkey")}
           qb  == << Recv("t2"), Send("t3"), Free(Insert(16, 16, 16)), Blocked(Insert(8, 8, 8)) >>
           qc  == << Recv("t3"), Free(Add1(Eq("c", 5))), Blocked(Add1(Eq("c", 15))) >>
<1>1. Straightly(pl, ids) /\ D \in SUBSET ids
  <2>1. pl.col = Straight(ids) /\ ids \subseteq 0 .. 30 /\ D \subseteq ids
    BY DEF Plan04, SixIds
  <2> QED BY <2>1, StraightIs
<1>2. /\ DOMAIN p.data = D /\ p.script["A"] = << Do("begin"), Free(st), Send("t2") >>
      /\ p.script["B"] = qb /\ p.script["C"] = qc
  <2>1. p = Program("case04", 3, Six, << Do("begin"), Free(st), Send("t2") >>, qb, qc) /\ D = SixIds
    BY DEF Case04
  <2> HIDE DEF p, D, st, qb, qc
  <2> QED BY <2>1, SixProgram
<1>3. Planned(pl, p)
  BY PlanCase04
<1>4. /\ st.do = "select" /\ st.mode = "X" /\ st.limit = 1000
      /\ st.w.idx = "c" /\ st.w.lo = 10 /\ st.w.hi = 11 /\ st.w.loIn = TRUE /\ st.w.hiIn = FALSE
  BY DEF ForUpdate, Scan, Between, NoLimit
<1>5. /\ qb[1] = Recv("t2") /\ qb[2] = Send("t3") /\ Len(qb) = 4
      /\ qb[3] = Free(Insert(16, 16, 16)) /\ qb[4] = Blocked(Insert(8, 8, 8))
      /\ qc[1] = Recv("t3") /\ qc[2] = Free(Add1(Eq("c", 5))) /\ qc[3] = Blocked(Add1(Eq("c", 15))) /\ Len(qc) = 3
  OBVIOUS
<1>6. /\ GapsAt(L, {10, 15}) /\ RecsAt(L, "c", {10, 15})
      /\ \E l \in L : l.idx = "c" /\ l.rec = <<10, 10>> /\ CoversGap(l)
      /\ \E l \in L : l.idx = "c" /\ l.rec = <<15, 15>> /\ CoversRec(l)
  BY Fields DEF GapsAt, RecsAt, CoversGap, CoversRec
<1>7. /\ 10 \in D /\ 10 \in ids /\ 15 \in D /\ 15 \in ids /\ 8 < 10 /\ \A j \in ids : 8 < j => 10 <= j
      /\ \A j \in D : 10 < j => 15 <= j
      /\ \A j \in D : 10 < j \/ 10 = j => 10 <= j
      /\ \A m \in {10, 15} : m <= 16 \/ \E i \in D : 16 < i /\ i < m
  BY DEF SixIds
<1>8. /\ 8 \in 0 .. 30 /\ 16 \in 0 .. 30 /\ 5 \in 0 .. 30 /\ 10 \in 0 .. 30 /\ "c" \in {"p", "c"} /\ 10 < 15
      /\ {10, 15} \in SUBSET (0 .. 30) /\ 5 \notin {10, 15} /\ 10 # 15
  OBVIOUS
<1> HIDE DEF pl, ids, p, st, D, L, qb, qc
<1>9. Walks(pl, D, st, <<10, 15>>) /\ WalkLocks(pl, st, <<10, 15>>) = L
  <2>1. /\ InRange(st.w, <<10, 10>>) /\ ScanKind(st.w, <<10, 10>>) = "nextkey"
        /\ ~InRange(st.w, <<15, 15>>) /\ ScanKind(st.w, <<15, 15>>) = "nextkey" /\ NeedsRow(st)
    <3>1. InRange(st.w, <<10, 10>>) /\ <<10, 10>> # Supremum /\ ~InRange(st.w, <<15, 15>>) /\ <<15, 15>> # Supremum
      BY <1>4 DEF InRange, Supremum
    <3>2. ~OneValue(st.w)
      BY <1>4 DEF OneValue
    <3> QED BY <1>4, <3>1, <3>2 DEF ScanKind, NeedsRow
  <2>2. /\ StopPlace(pl, st, 10) = <<10, 10>>
        /\ StopLocks(pl, st, 10) = {Lock("A", "c", <<10, 10>>, "X", "nextkey"), Lock("A", "p", <<10, 10>>, "X", "rec")}
    BY <1>1, <1>4, <1>7, <2>1, StraightStop
  <2>3. StopPlace(pl, st, 15) = <<15, 15>> /\ StopLocks(pl, st, 15) = {Lock("A", "c", <<15, 15>>, "X", "nextkey")}
    BY <1>1, <1>4, <1>7, <2>1, StraightStop
  <2>4. Begins(pl, D, st.w) \cap AllPlaces(pl, st.w.idx, D) \subseteq {<<10, 10>>}
    BY <1>1, <1>4, <1>7, StraightBegin
  <2>5. Nexts(pl, D, st.w.idx, <<10, 10>>) \cap AllPlaces(pl, st.w.idx, D) \subseteq {<<15, 15>>}
    BY <1>1, <1>4, <1>7, <1>8, StraightNext
  <2>6. ~Over(pl, st, <<10, 15>>, 1)
    BY <1>4 DEF Over
  <2>7. L = StopLocks(pl, st, 10) \cup StopLocks(pl, st, 15)
    BY <2>2, <2>3 DEF L
  <2> QED BY <1>7, <1>8, <2>1, <2>2, <2>3, <2>4, <2>5, <2>6, <2>7, WalkTwo
<1>10. Works(pl, D, L, "B", qb, 3)
  <2>1. \A q, k : q[k] = Free(Insert(16, 16, 16)) => Works(pl, D, L, "B", q, k)
    BY <1>1, <1>6, <1>7, <1>8, StraightFreeInsert
  <2> QED BY <1>5, <2>1
<1>11. Works(pl, D, L, "B", qb, 4)
  <2>1. \A s, q, k : q[k] = Blocked(Insert(8, 8, 8)) /\ k = Len(q) => Works(pl, D, L, s, q, k)
    BY <1>1, <1>6, <1>7, <1>8, StraightBlockedInsert
  <2> QED BY <1>5, <2>1
<1>12. Works(pl, D, L, "C", qc, 2) /\ Works(pl, D, L, "C", qc, 3)
  <2>1. \A q, k : q[k] = Free(Add1(Eq("c", 5))) => Works(pl, D, L, "C", q, k)
    BY <1>1, <1>6, <1>8, StraightFreeUpdate
  <2>2. \A s, q, k : q[k] = Blocked(Add1(Eq("c", 15))) /\ k = Len(q) => Works(pl, D, L, s, q, k)
    BY <1>1, <1>6, <1>7, <1>8, StraightBlockedUpdate
  <2> QED BY <1>5, <2>1, <2>2
<1>13. AllApart(pl, p)
  <2>1. Apart(pl, D, "B", Insert(16, 16, 16), "C", Add1(Eq("c", 15)))
    BY <1>1, InsertBehind DEF D, ids
  <2>2. ASSUME NEW s \in {"B", "C"}, NEW t \in {"B", "C"}, s # t,
               NEW k \in 1 .. Len(p.script[s]), NEW j \in 1 .. Len(p.script[t]),
               p.script[s][k].op = "sql", ~p.script[s][k].blocked,
               p.script[t][j].op = "sql", p.script[t][j].blocked
        PROVE  Apart(pl, D, s, p.script[s][k].st, t, p.script[t][j].st)
    <3>1. CASE s = "B" /\ t = "C"
      <4>1. /\ k \in 1 .. 4 /\ qb[k].op = "sql" /\ ~qb[k].blocked
            /\ j \in 1 .. 3 /\ qc[j].op = "sql" /\ qc[j].blocked
        BY <1>2, <1>5, <2>2, <3>1
      <4>2. qb[1].op = "recv" /\ qb[2].op = "send" /\ qb[4].blocked /\ qc[1].op = "recv" /\ ~qc[2].blocked
        BY <1>5, Fields DEF Recv, Send
      <4>3. k = 3 /\ j = 3
        BY <4>1, <4>2
      <4> QED BY <1>2, <1>5, <2>1, <3>1, <4>3, Fields
    <3>2. CASE s = "C" /\ t = "B"
      <4>1. j \in 1 .. 4 /\ qb[j].op = "sql" /\ qb[j].blocked
        BY <1>2, <1>5, <2>2, <3>2
      <4>2. qb[1].op = "recv" /\ qb[2].op = "send" /\ qb[3].blocked = FALSE /\ qb[4].st.do = "insert"
        BY <1>5, Fields DEF Recv, Send
      <4>3. p.script[t][j].st.do = "insert"
        BY <1>2, <3>2, <4>1, <4>2
      <4> QED BY <4>3 DEF Apart
    <3> QED BY <2>2, <3>1, <3>2
  <2> QED BY <1>2, <2>2 DEF AllApart
<1>14. CasePlan(pl, <<10, 15>>, p)
  <2>1. /\ \A k \in 3 .. Len(qb) : Works(pl, D, L, "B", qb, k)
        /\ \A k \in 2 .. Len(qc) : Works(pl, D, L, "C", qc, k)
    BY <1>5, <1>10, <1>11, <1>12
  <2>2. Len(qb) \in 2 .. 5 /\ Len(qc) \in 2 .. 3 /\ st.do \notin {"insert", "select5"}
    BY <1>4, <1>5
  <2> QED BY <1>2, <1>3, <1>5, <1>9, <1>13, <2>1, <2>2, CaseIs
<1> QED BY <1>14 DEF pl, p

\* Case 02: A has row 5 of index c with the gaps around it, and row 5 unless the index is enough.
LEMMA Case02Alternative ==
  ASSUME NEW mode \in {"S", "X"}, NEW covering \in BOOLEAN, NEW update, NEW insert,
         update = IF covering /\ mode = "S" THEN Free(Add1(Eq("p", 5))) ELSE Blocked(Add1(Eq("p", 5))),
         insert \in {Blocked(Insert(7, 7, 7)), Blocked(Insert(2, 2, 2))}
  PROVE  CasePlan(Plan02, <<5, 10>>, Case02With(Scan("select", Eq("c", 5), mode, covering, NoLimit), update, insert))
<1> DEFINE pl  == Plan02
           ids == SixIds \cup {2, 7}
           st  == Scan("select", Eq("c", 5), mode, covering, NoLimit)
           p   == Case02With(st, update, insert)
           D   == SixIds
           row == IF covering /\ mode = "S" THEN {} ELSE {Lock("A", "p", <<5, 5>>, mode, "rec")}
           L   == {Lock("A", "c", <<5, 5>>, mode, "nextkey")} \cup row \cup {Lock("A", "c", <<10, 10>>, mode, "gap")}
           qb  == << Recv("t2"), Send("t3"), update >>
           qc  == << Recv("t3"), insert >>
<1>1. Straightly(pl, ids) /\ D \in SUBSET ids
  <2>1. pl.col = Straight(ids) /\ ids \subseteq 0 .. 30 /\ D \subseteq ids
    BY DEF Plan02, SixIds
  <2> QED BY <2>1, StraightIs
<1>2. /\ DOMAIN p.data = D /\ p.script["A"] = << Do("begin"), Free(st), Send("t2") >>
      /\ p.script["B"] = qb /\ p.script["C"] = qc
  <2>1. p = Program("case02", 3, Six, << Do("begin"), Free(st), Send("t2") >>, qb, qc) /\ D = SixIds
    BY DEF Case02With
  <2> HIDE DEF p, D, st, qb, qc
  <2> QED BY <2>1, SixProgram
<1>3. st.do = "select" /\ st.mode = mode /\ st.covering = covering /\ st.limit = 1000 /\ st.w = Eq("c", 5)
  BY DEF Scan, NoLimit
<1>4. st.w.idx = "c" /\ st.w.lo = 5 /\ st.w.hi = 5 /\ st.w.loIn = TRUE /\ st.w.hiIn = TRUE
  BY <1>3, Fields
<1>5. /\ qb[1] = Recv("t2") /\ qb[2] = Send("t3") /\ qb[3] = update /\ Len(qb) = 3
      /\ qc[1] = Recv("t3") /\ qc[2] = insert /\ Len(qc) = 2
  OBVIOUS
<1>6. /\ covering /\ mode = "S" => RecsAt(L, "p", {})
      /\ ~(covering /\ mode = "S") => \E l \in L : l.idx = "p" /\ l.rec = <<5, 5>> /\ CoversRec(l)
      /\ \E l \in L : l.idx = "c" /\ l.rec = <<5, 5>> /\ CoversGap(l)
      /\ \E l \in L : l.idx = "c" /\ l.rec = <<10, 10>> /\ CoversGap(l)
  <2>1. /\ Lock("A", "c", <<5, 5>>, mode, "nextkey") \in L /\ Lock("A", "c", <<10, 10>>, mode, "gap") \in L
        /\ ~(covering /\ mode = "S") => Lock("A", "p", <<5, 5>>, mode, "rec") \in L
        /\ covering /\ mode = "S" =>
              L = {Lock("A", "c", <<5, 5>>, mode, "nextkey"), Lock("A", "c", <<10, 10>>, mode, "gap")}
    OBVIOUS
  <2> HIDE DEF L
  <2> QED BY <2>1, Fields DEF RecsAt, CoversGap, CoversRec
<1>7. /\ 5 \in D /\ 5 \in ids /\ 10 \in D /\ 10 \in ids
      /\ 7 < 10 /\ \A j \in ids : 7 < j => 10 <= j
      /\ 2 < 5 /\ \A j \in ids : 2 < j => 5 <= j
      /\ \A j \in D : 5 < j => 10 <= j
      /\ \A j \in D : 5 < j \/ 5 = j => 5 <= j
  BY DEF SixIds
<1>8. /\ 2 \in 0 .. 30 /\ 7 \in 0 .. 30 /\ 5 \in 0 .. 30 /\ "p" \in {"p", "c"} /\ "c" \in {"p", "c"} /\ 5 < 10
      /\ {} \in SUBSET (0 .. 30) /\ 5 \notin {} /\ 5 # 10
  OBVIOUS
<1> HIDE DEF st
<1>9. Planned(pl, p)
  <2>1. update \in {Free(Add1(Eq("p", 5))), Blocked(Add1(Eq("p", 5)))}
    OBVIOUS
  <2> QED BY <1>3, <2>1, PlanCase02
<1> HIDE DEF pl, ids, p, D, qb, qc
<1>10. Walks(pl, D, st, <<5, 10>>) /\ WalkLocks(pl, st, <<5, 10>>) = L
  <2>1. /\ InRange(st.w, <<5, 5>>) /\ ScanKind(st.w, <<5, 5>>) = "nextkey"
        /\ ~InRange(st.w, <<10, 10>>) /\ ScanKind(st.w, <<10, 10>>) = "gap"
        /\ NeedsRow(st) <=> ~(covering /\ mode = "S")
    <3>1. InRange(st.w, <<5, 5>>) /\ <<5, 5>> # Supremum /\ ~InRange(st.w, <<10, 10>>) /\ <<10, 10>> # Supremum
      BY <1>4 DEF InRange, Supremum
    <3>2. OneValue(st.w)
      BY <1>4 DEF OneValue
    <3> QED BY <1>3, <1>4, <3>1, <3>2 DEF ScanKind, NeedsRow
  <2>2. StopPlace(pl, st, 5) = <<5, 5>> /\ StopLocks(pl, st, 5) = {Lock("A", "c", <<5, 5>>, mode, "nextkey")} \cup row
    BY <1>1, <1>3, <1>4, <1>7, <2>1, StraightStop
  <2>3. StopPlace(pl, st, 10) = <<10, 10>> /\ StopLocks(pl, st, 10) = {Lock("A", "c", <<10, 10>>, mode, "gap")}
    BY <1>1, <1>3, <1>4, <1>7, <2>1, StraightStop
  <2>4. Begins(pl, D, st.w) \cap AllPlaces(pl, st.w.idx, D) \subseteq {<<5, 5>>}
    BY <1>1, <1>4, <1>7, StraightBegin
  <2>5. Nexts(pl, D, st.w.idx, <<5, 5>>) \cap AllPlaces(pl, st.w.idx, D) \subseteq {<<10, 10>>}
    BY <1>1, <1>4, <1>7, <1>8, StraightNext
  <2>6. ~Over(pl, st, <<5, 10>>, 1)
    BY <1>3, <1>4 DEF Over
  <2>7. L = StopLocks(pl, st, 5) \cup StopLocks(pl, st, 10)
    BY <2>2, <2>3
  <2> HIDE DEF L
  <2> QED BY <1>7, <1>8, <2>1, <2>2, <2>3, <2>4, <2>5, <2>6, <2>7, WalkTwo
<1> HIDE DEF L
<1>11. Works(pl, D, L, "B", qb, 3)
  <2>1. CASE covering /\ mode = "S"
    <3>1. \A q, k : q[k] = Free(Add1(Eq("p", 5))) => Works(pl, D, L, "B", q, k)
      BY <1>1, <1>6, <1>8, <2>1, StraightFreeUpdate
    <3> QED BY <1>5, <2>1, <3>1
  <2>2. CASE ~(covering /\ mode = "S")
    <3>1. \A s, q, k : q[k] = Blocked(Add1(Eq("p", 5))) /\ k = Len(q) => Works(pl, D, L, s, q, k)
      BY <1>1, <1>6, <1>7, <1>8, <2>2, StraightBlockedUpdate
    <3> QED BY <1>5, <2>2, <3>1
  <2> QED BY <2>1, <2>2
<1>12. Works(pl, D, L, "C", qc, 2)
  <2>1. \A s, q, k : q[k] = Blocked(Insert(7, 7, 7)) /\ k = Len(q) => Works(pl, D, L, s, q, k)
    BY <1>1, <1>6, <1>7, <1>8, StraightBlockedInsert
  <2>2. \A s, q, k : q[k] = Blocked(Insert(2, 2, 2)) /\ k = Len(q) => Works(pl, D, L, s, q, k)
    BY <1>1, <1>6, <1>7, <1>8, StraightBlockedInsert
  <2> QED BY <1>5, <2>1, <2>2
<1>13. AllApart(pl, p)
  <2>1. /\ qb[1].op # "sql" /\ qb[2].op # "sql" /\ qb[3].st.do # "insert"
        /\ qc[1].op # "sql" /\ qc[2].blocked = TRUE
    BY <1>5, Fields DEF Recv, Send
  <2>2. ASSUME NEW s \in {"B", "C"}, NEW k \in 1 .. Len(p.script[s]),
               p.script[s][k].op = "sql", ~p.script[s][k].blocked
        PROVE  p.script[s][k].st.do # "insert"
    BY <1>2, <1>5, <2>1, <2>2
  <2> QED BY <2>2, ApartCase
<1>14. CasePlan(pl, <<5, 10>>, p)
  <2>1. /\ \A k \in 3 .. Len(qb) : Works(pl, D, L, "B", qb, k)
        /\ \A k \in 2 .. Len(qc) : Works(pl, D, L, "C", qc, k)
    BY <1>5, <1>11, <1>12
  <2>2. Len(qb) \in 2 .. 5 /\ Len(qc) \in 2 .. 3 /\ st.do \notin {"insert", "select5"}
    BY <1>3, <1>5
  <2> QED BY <1>2, <1>5, <1>9, <1>10, <1>13, <2>1, <2>2, CaseIs
<1> QED BY <1>14 DEF pl, p, st

\* The file's statements and alternatives are all of this kind.
LEMMA Case02Plan ==
  ASSUME NEW p \in Case02
  PROVE  CasePlan(Plan02, <<5, 10>>, p)
<1> DEFINE F == Free(Add1(Eq("p", 5)))
           G == Blocked(Add1(Eq("p", 5)))
           W(mode, covering) == Scan("select", Eq("c", 5), mode, covering, NoLimit)
<1>1. PICK insert \in {Blocked(Insert(7, 7, 7)), Blocked(Insert(2, 2, 2))} :
         \/ p = Case02With(ShareMode(Eq("c", 5), TRUE), F, insert)
         \/ p = Case02With(ShareMode(Eq("c", 5), FALSE), G, insert)
         \/ p = Case02With(ForUpdate(Eq("c", 5)), G, insert)
  BY DEF Case02
<1>2. \/ p = Case02With(W("S", TRUE), F, insert)
      \/ p = Case02With(W("S", FALSE), G, insert)
      \/ p = Case02With(W("X", FALSE), G, insert)
  BY <1>1 DEF ShareMode, ForUpdate
<1>3. CasePlan(Plan02, <<5, 10>>, Case02With(W("S", TRUE), F, insert))
  <2>1. F = IF TRUE /\ "S" = "S" THEN F ELSE G
    OBVIOUS
  <2> QED BY <2>1, Case02Alternative
<1>4. CasePlan(Plan02, <<5, 10>>, Case02With(W("S", FALSE), G, insert))
  <2>1. G = IF FALSE /\ "S" = "S" THEN F ELSE G
    OBVIOUS
  <2> QED BY <2>1, Case02Alternative
<1>5. CasePlan(Plan02, <<5, 10>>, Case02With(W("X", FALSE), G, insert))
  <2>1. G = IF FALSE /\ "X" = "S" THEN F ELSE G
    OBVIOUS
  <2> QED BY <2>1, Case02Alternative
<1> HIDE DEF F, G, W
<1> QED BY <1>2, <1>3, <1>4, <1>5

-----------------------------------------------------------------------------
(* The cases without a session C.                                              *)

\* What is left to say of one.
LEMMA PairIs ==
  ASSUME NEW pl, NEW stops, NEW p, NEW D, NEW st, NEW L, NEW qb,
         DOMAIN p.data = D, ScriptA(p), AScan(p) = st, p.script["B"] = qb, p.script["C"] = << >>,
         Planned(pl, p), Walks(pl, D, st, stops), WalkLocks(pl, st, stops) = L,
         Len(qb) \in 2 .. 5, qb[1] = Recv("t2"), \A k \in 2 .. Len(qb) : Works(pl, D, L, "B", qb, k)
  PROVE  CasePlan(pl, stops, p)
<1>1. Held(pl, stops, p) = L
  BY DEF Held
<1>2. ScriptB(pl, L, p)
  BY DEF ScriptB
<1>3. Len(p.script["C"]) = 0 /\ 2 .. 0 = {} /\ 1 .. 0 = {}
  OBVIOUS
<1>4. ScriptC(pl, L, p)
  BY <1>3 DEF ScriptC
<1>5. AllApart(pl, p)
  BY <1>3 DEF AllApart
<1> QED BY <1>1, <1>2, <1>4, <1>5 DEF CasePlan

\* Case 08: A has row 10 of index c, shared, and the gaps around it.
LEMMA Case08Plan == CasePlan(Plan08, <<10, 15>>, Case08)
<1> DEFINE pl  == Plan08
           ids == SixIds \cup {8}
           p   == Case08
           st  == ShareMode(Eq("c", 10), TRUE)
           D   == SixIds
           L   == {Lock("A", "c", <<10, 10>>, "S", "nextkey"), Lock("A", "c", <<15, 15>>, "S", "gap")}
           qa  == << Do("begin"), Free(st), Send("t2"), Free(Insert(8, 8, 8)) >>
           qb  == << Recv("t2"), Blocked(Add1(Eq("c", 10))) >>
<1>1. Straightly(pl, ids) /\ D \in SUBSET ids
  <2>1. pl.col = Straight(ids) /\ ids \subseteq 0 .. 30 /\ D \subseteq ids
    BY DEF Plan08, SixIds
  <2> QED BY <2>1, StraightIs
<1>2. /\ DOMAIN p.data = D /\ p.script["A"] = qa /\ p.script["B"] = qb /\ p.script["C"] = << >>
      /\ p.name = "case08"
  <2>1. p = Program("case08", 2, Six, qa, qb, << >>) /\ D = SixIds
    BY DEF Case08
  <2> HIDE DEF p, D, st, qa, qb
  <2>2. p.name = "case08"
    BY <2>1 DEF Program
  <2> QED BY <2>1, <2>2, SixProgram
<1>3. Planned(pl, p)
  BY PlanCase08
<1>4. st.do = "select" /\ st.mode = "S" /\ st.covering = TRUE /\ st.limit = 1000 /\ st.w = Eq("c", 10)
  BY DEF ShareMode, Scan, NoLimit
<1> HIDE DEF st
<1>5. st.w.idx = "c" /\ st.w.lo = 10 /\ st.w.hi = 10 /\ st.w.loIn = TRUE /\ st.w.hiIn = TRUE
  BY <1>4, Fields
<1>6. /\ qa[1] = Do("begin") /\ qa[2] = Free(st) /\ qa[3] = Send("t2") /\ qa[4] = Free(Insert(8, 8, 8)) /\ Len(qa) = 4
      /\ qb[1] = Recv("t2") /\ qb[2] = Blocked(Add1(Eq("c", 10))) /\ Len(qb) = 2
  OBVIOUS
<1>7. \E l \in L : l.idx = "c" /\ l.rec = <<10, 10>> /\ CoversRec(l)
  BY Fields DEF CoversRec
<1>8. /\ 10 \in D /\ 10 \in ids /\ 15 \in D /\ 15 \in ids
      /\ \A j \in D : 10 < j => 15 <= j
      /\ \A j \in D : 10 < j \/ 10 = j => 10 <= j
  BY DEF SixIds
<1>9. 10 \in 0 .. 30 /\ "c" \in {"p", "c"} /\ 10 < 15 /\ 10 # 15
  OBVIOUS
<1> HIDE DEF pl, ids, p, D, L, qa, qb
<1>10. Walks(pl, D, st, <<10, 15>>) /\ WalkLocks(pl, st, <<10, 15>>) = L
  <2>1. /\ InRange(st.w, <<10, 10>>) /\ ScanKind(st.w, <<10, 10>>) = "nextkey"
        /\ ~InRange(st.w, <<15, 15>>) /\ ScanKind(st.w, <<15, 15>>) = "gap" /\ ~NeedsRow(st)
    <3>1. InRange(st.w, <<10, 10>>) /\ <<10, 10>> # Supremum /\ ~InRange(st.w, <<15, 15>>) /\ <<15, 15>> # Supremum
      BY <1>5 DEF InRange, Supremum
    <3>2. OneValue(st.w)
      BY <1>5 DEF OneValue
    <3> QED BY <1>4, <1>5, <3>1, <3>2 DEF ScanKind, NeedsRow
  <2>2. StopPlace(pl, st, 10) = <<10, 10>> /\ StopLocks(pl, st, 10) = {Lock("A", "c", <<10, 10>>, "S", "nextkey")}
    BY <1>1, <1>4, <1>5, <1>8, <2>1, StraightStop
  <2>3. StopPlace(pl, st, 15) = <<15, 15>> /\ StopLocks(pl, st, 15) = {Lock("A", "c", <<15, 15>>, "S", "gap")}
    BY <1>1, <1>4, <1>5, <1>8, <2>1, StraightStop
  <2>4. Begins(pl, D, st.w) \cap AllPlaces(pl, st.w.idx, D) \subseteq {<<10, 10>>}
    BY <1>1, <1>5, <1>8, StraightBegin
  <2>5. Nexts(pl, D, st.w.idx, <<10, 10>>) \cap AllPlaces(pl, st.w.idx, D) \subseteq {<<15, 15>>}
    BY <1>1, <1>5, <1>8, <1>9, StraightNext
  <2>6. ~Over(pl, st, <<10, 15>>, 1)
    BY <1>4, <1>5 DEF Over
  <2>7. L = StopLocks(pl, st, 10) \cup StopLocks(pl, st, 15)
    BY <2>2, <2>3 DEF L
  <2> QED BY <1>8, <1>9, <2>1, <2>2, <2>3, <2>4, <2>5, <2>6, <2>7, WalkTwo
<1>11. Works(pl, D, L, "B", qb, 2)
  <2>1. \A s, q, k : q[k] = Blocked(Add1(Eq("c", 10))) /\ k = Len(q) => Works(pl, D, L, s, q, k)
    BY <1>1, <1>7, <1>8, <1>9, StraightBlockedUpdate
  <2> QED BY <1>6, <2>1
<1>12. ScriptA(p) /\ AScan(p) = st
  <2>1. /\ qa[1].op = "begin" /\ qa[2].op = "sql" /\ qa[2].st = st /\ qa[2].blocked = FALSE
        /\ qa[4].op = "sql" /\ qa[4].st.do = "insert" /\ qa[4].blocked = FALSE
        /\ qb[2].blocked = TRUE /\ qb[2].st.do # "insert"
    BY <1>6, Fields DEF Do
  <2>2. Len(qa) \in 3 .. 4 /\ st.do \notin {"insert", "select5"}
    BY <1>4, <1>6
  <2> QED BY <1>2, <1>6, <2>1, <2>2 DEF ScriptA, AScan
<1>13. CasePlan(pl, <<10, 15>>, p)
  <2>1. Len(qb) \in 2 .. 5 /\ \A k \in 2 .. Len(qb) : Works(pl, D, L, "B", qb, k)
    BY <1>6, <1>11
  <2> QED BY <1>2, <1>3, <1>6, <1>10, <1>12, <2>1, PairIs
<1> QED BY <1>13 DEF pl, p

-----------------------------------------------------------------------------
(* The cases whose table also has row 30, with c = 10.                         *)

SevenIds == SixIds \cup {30}

\* A plan for such a table.
Sevenfold(pl, ids) ==
  /\ DOMAIN pl.col = ids /\ SevenIds \subseteq ids /\ ids \subseteq 0 .. 30
  /\ pl.col[30] = 10 /\ \A i \in SixIds : pl.col[i] = i

\* What their programs consist of.
LEMMA SevenProgram ==
  \A name, wg, a, b, c :
     LET p == Program(name, wg, Seven, a, b, c) IN
     DOMAIN p.data = SevenIds /\ p.script["A"] = a /\ p.script["B"] = b /\ p.script["C"] = c
  BY SevenTidy DEF Program, SevenIds

\* The rows in the order of index c from 10 on: 10, 30, 15.
LEMMA SevenOrder ==
  ASSUME NEW pl, NEW ids, Sevenfold(pl, ids)
  PROVE  /\ Place(pl, "c", 10) = <<10, 10>> /\ Place(pl, "c", 30) = <<10, 30>> /\ Place(pl, "c", 15) = <<15, 15>>
         /\ Nexts(pl, SevenIds, "c", <<10, 10>>) \cap AllPlaces(pl, "c", SevenIds) \subseteq {<<10, 30>>}
         /\ Nexts(pl, SevenIds, "c", <<10, 30>>) \cap AllPlaces(pl, "c", SevenIds) \subseteq {<<15, 15>>}
         /\ Begins(pl, SevenIds, Eq("c", 10)) \cap AllPlaces(pl, "c", SevenIds) \subseteq {<<10, 10>>}
<1> DEFINE D == SevenIds
           w == Eq("c", 10)
<1>1. w.idx = "c" /\ w.lo = 10 /\ w.loIn = TRUE
  BY Fields
<1>2. /\ 10 \in D /\ 30 \in D /\ 15 \in D /\ pl.col[10] = 10 /\ pl.col[30] = 10 /\ pl.col[15] = 15
      /\ \A j \in D : /\ pl.col[j] \in 0 .. 30 /\ j \in 0 .. 30 /\ (pl.col[j] = 10 => j \in {10, 30})
                      /\ (pl.col[j] > 10 => pl.col[j] > 15 \/ j = 15)
  BY DEF Sevenfold, SevenIds, SixIds
<1>3. \A i : Place(pl, "c", i) = <<pl.col[i], i>>
  <2>1. "c" # "p"
    OBVIOUS
  <2> QED BY <2>1 DEF Place
<1>4. Place(pl, "c", 10) = <<10, 10>> /\ Place(pl, "c", 30) = <<10, 30>> /\ Place(pl, "c", 15) = <<15, 15>>
  BY <1>2, <1>3
<1>5. \A x, y, u, v : Before(<<x, y>>, <<u, v>>) <=> (x < u \/ (x = u /\ y < v))
  BY DEF Before
<1>6. /\ Before(<<10, 10>>, Supremum) /\ Before(<<10, 30>>, Supremum) /\ Before(<<15, 15>>, Supremum)
      /\ Before(<<10, 10>>, <<10, 30>>) /\ Before(<<10, 30>>, <<15, 15>>)
  <2>1. 10 < 1000 /\ 15 < 1000 /\ 10 < 30 /\ 10 < 15
    OBVIOUS
  <2> QED BY <1>5, <2>1 DEF Supremum
<1> HIDE DEF D, w
<1>7. Nexts(pl, D, "c", <<10, 10>>) \cap AllPlaces(pl, "c", D) \subseteq {<<10, 30>>}
  <2>1. ASSUME NEW j \in D, Before(<<10, 10>>, Place(pl, "c", j))
        PROVE  j = 30 \/ Before(Place(pl, "c", 30), Place(pl, "c", j))
    <3>1. 10 < pl.col[j] \/ (10 = pl.col[j] /\ 10 < j)
      BY <1>3, <1>5, <2>1
    <3>2. j = 30 \/ 10 < pl.col[j]
      BY <1>2, <3>1
    <3> QED BY <1>3, <1>4, <1>5, <3>2
  <2> QED BY <1>2, <1>4, <1>6, <2>1, NextIs
<1>8. Nexts(pl, D, "c", <<10, 30>>) \cap AllPlaces(pl, "c", D) \subseteq {<<15, 15>>}
  <2>1. ASSUME NEW j \in D, Before(<<10, 30>>, Place(pl, "c", j))
        PROVE  j = 15 \/ Before(Place(pl, "c", 15), Place(pl, "c", j))
    <3>1. 10 < pl.col[j] \/ (10 = pl.col[j] /\ 30 < j)
      BY <1>3, <1>5, <2>1
    <3>2. j = 15 \/ 15 < pl.col[j]
      BY <1>2, <3>1
    <3> QED BY <1>3, <1>4, <1>5, <3>2
  <2> QED BY <1>2, <1>4, <1>6, <2>1, NextIs
<1>9. Begins(pl, D, w) \cap AllPlaces(pl, w.idx, D) \subseteq {<<10, 10>>}
  <2>1. From(w, Place(pl, w.idx, 10)) /\ Before(Place(pl, w.idx, 10), Supremum)
    BY <1>1, <1>4, <1>6 DEF From
  <2>2. ASSUME NEW j \in D, From(w, Place(pl, w.idx, j))
        PROVE  j = 10 \/ Before(Place(pl, w.idx, 10), Place(pl, w.idx, j))
    <3>1. 10 < pl.col[j] \/ 10 = pl.col[j]
      BY <1>1, <1>3, <2>2 DEF From
    <3>2. j = 10 \/ 10 < pl.col[j] \/ (10 = pl.col[j] /\ 10 < j)
      BY <1>2, <3>1
    <3> QED BY <1>1, <1>3, <1>4, <1>5, <3>2
  <2>3. Begins(pl, D, w) \cap AllPlaces(pl, w.idx, D) \subseteq {Place(pl, w.idx, 10)}
    BY <1>2, <2>1, <2>2, BeginIs
  <2> QED BY <1>1, <1>4, <2>3
<1> QED BY <1>1, <1>4, <1>7, <1>8, <1>9 DEF D, w

\* What A's DELETE locks at each.
LEMMA SevenStops ==
  ASSUME NEW pl, NEW ids, Sevenfold(pl, ids), NEW limit, NEW st, st = Delete(Eq("c", 10), limit)
  PROVE  /\ st.do = "delete" /\ st.limit = limit /\ st.w.idx = "c" /\ st.w = Eq("c", 10)
         /\ StopPlace(pl, st, 10) = <<10, 10>> /\ StopPlace(pl, st, 30) = <<10, 30>> /\ StopPlace(pl, st, 15) = <<15, 15>>
         /\ InRange(st.w, <<10, 10>>) /\ InRange(st.w, <<10, 30>>) /\ ~InRange(st.w, <<15, 15>>)
         /\ StopLocks(pl, st, 10) = {Lock("A", "c", <<10, 10>>, "X", "nextkey"), Lock("A", "p", <<10, 10>>, "X", "rec")}
         /\ StopLocks(pl, st, 30) = {Lock("A", "c", <<10, 30>>, "X", "nextkey"), Lock("A", "p", <<30, 30>>, "X", "rec")}
         /\ StopLocks(pl, st, 15) = {Lock("A", "c", <<15, 15>>, "X", "gap")}
<1>1. st.do = "delete" /\ st.limit = limit /\ st.w = Eq("c", 10) /\ st.mode = "X" /\ st.covering = FALSE
  BY DEF Delete, Scan
<1>2. st.w.idx = "c" /\ st.w.lo = 10 /\ st.w.hi = 10 /\ st.w.hiIn = TRUE
  BY <1>1, Fields
<1>3. StopPlace(pl, st, 10) = <<10, 10>> /\ StopPlace(pl, st, 30) = <<10, 30>> /\ StopPlace(pl, st, 15) = <<15, 15>>
  BY <1>2, SevenOrder DEF StopPlace
<1>4. InRange(st.w, <<10, 10>>) /\ InRange(st.w, <<10, 30>>) /\ ~InRange(st.w, <<15, 15>>)
  BY <1>2 DEF InRange
<1>5. <<10, 10>> # Supremum /\ <<10, 30>> # Supremum /\ <<15, 15>> # Supremum
  BY DEF Supremum
<1>6. OneValue(st.w) /\ NeedsRow(st)
  BY <1>1, <1>2 DEF OneValue, NeedsRow
<1>7. /\ ScanKind(st.w, <<10, 10>>) = "nextkey" /\ ScanKind(st.w, <<10, 30>>) = "nextkey"
      /\ ScanKind(st.w, <<15, 15>>) = "gap"
  BY <1>2, <1>4, <1>5, <1>6 DEF ScanKind
<1>8. StopLocks(pl, st, 10) = {Lock("A", "c", <<10, 10>>, "X", "nextkey"), Lock("A", "p", <<10, 10>>, "X", "rec")}
  BY <1>1, <1>2, <1>3, <1>4, <1>6, <1>7 DEF StopLocks, IndexLock, RowLock
<1>9. StopLocks(pl, st, 30) = {Lock("A", "c", <<10, 30>>, "X", "nextkey"), Lock("A", "p", <<30, 30>>, "X", "rec")}
  BY <1>1, <1>2, <1>3, <1>4, <1>6, <1>7 DEF StopLocks, IndexLock, RowLock
<1>10. StopLocks(pl, st, 15) = {Lock("A", "c", <<15, 15>>, "X", "gap")}
  BY <1>1, <1>2, <1>3, <1>4, <1>6, <1>7 DEF StopLocks, IndexLock
<1> QED BY <1>1, <1>2, <1>3, <1>4, <1>8, <1>9, <1>10

\* An insert that comes after every gap that is locked.
LEMMA InsertAfter ==
  ASSUME NEW pl, NEW D, NEW L, NEW s, NEW id \in Int, NEW c \in Int, NEW d,
         \A l \in L : CoversGap(l) => l.idx = "c" /\ \E m, n \in Int : l.rec = <<m, n>> /\ m < c
  PROVE  \A q, k : q[k] = Free(Insert(id, c, d)) => Works(pl, D, L, s, q, k)
<1> DEFINE st == Insert(id, c, d)
<1>1. st.do = "insert" /\ st.id = id /\ st.c = c
  BY Fields
<1> HIDE DEF st
<1>2. ASSUME NEW l \in L, CoversGap(l)
      PROVE  l.rec \notin Nexts(pl, D, l.idx, InsertKey(st, l.idx))
  <2>1. PICK m \in Int, n \in Int : l.idx = "c" /\ l.rec = <<m, n>> /\ m < c
    BY <1>2
  <2>2. InsertKey(st, l.idx) = <<c, id>>
    <3>1. "c" # "p"
      OBVIOUS
    <3> QED BY <1>1, <2>1, <3>1 DEF InsertKey
  <2>3. ~Before(<<c, id>>, <<m, n>>)
    BY <2>1 DEF Before
  <2> QED BY <2>1, <2>2, <2>3, NotNext
<1>3. Unhindered(pl, D, L, s, st)
  BY <1>1, <1>2, FreeInsert
<1>4. \A q, k : q[k] = Free(st) => Works(pl, D, L, s, q, k)
  BY <1>1, <1>3, FreeWorks
<1> QED BY <1>4 DEF st

\* Case 06: A has rows 10 and 30 in both indexes, and the gaps of index c from before 10 up to 15.
LEMMA Case06Plan == CasePlan(Plan06, <<10, 30, 15>>, Case06)
<1> DEFINE pl  == Plan06
           ids == SixIds \cup {12, 13, 16, 30}
           p   == Case06
           st  == Delete(Eq("c", 10), NoLimit)
           D   == SevenIds
           L   == {Lock("A", "c", <<10, 10>>, "X", "nextkey"), Lock("A", "p", <<10, 10>>, "X", "rec"),
                   Lock("A", "c", <<10, 30>>, "X", "nextkey"), Lock("A", "p", <<30, 30>>, "X", "rec"),
                   Lock("A", "c", <<15, 15>>, "X", "gap")}
           qb  == << Recv("t2"), Send("t3"), Free(Insert(16, 16, 16)), Free(Insert(13, 50, 13)),
                     Blocked(Insert(12, 12, 12)) >>
           qc  == << Recv("t3"), Free(Add1(Eq("c", 15))) >>
<1>1. Sevenfold(pl, ids) /\ D \in SUBSET ids
  BY DEF Sevenfold, Plan06, SevenIds, SixIds
<1>2. /\ DOMAIN p.data = D /\ p.script["A"] = << Do("begin"), Free(st), Send("t2") >>
      /\ p.script["B"] = qb /\ p.script["C"] = qc
  <2>1. p = Program("case06", 3, Seven, << Do("begin"), Free(st), Send("t2") >>, qb, qc) /\ D = SevenIds
    BY DEF Case06
  <2> HIDE DEF p, D, st, qb, qc
  <2> QED BY <2>1, SevenProgram
<1>3. Planned(pl, p)
  BY PlanCase06
<1>4. /\ qb[1] = Recv("t2") /\ qb[2] = Send("t3") /\ Len(qb) = 5
      /\ qb[3] = Free(Insert(16, 16, 16)) /\ qb[4] = Free(Insert(13, 50, 13)) /\ qb[5] = Blocked(Insert(12, 12, 12))
      /\ qc[1] = Recv("t3") /\ qc[2] = Free(Add1(Eq("c", 15))) /\ Len(qc) = 2
  OBVIOUS
<1>5. /\ \A l \in L : CoversGap(l) => l.idx = "c" /\ (l.rec = <<10, 10>> \/ l.rec = <<10, 30>> \/ l.rec = <<15, 15>>)
      /\ \A l \in L : CoversRec(l) => \/ l.idx = "c" /\ (l.rec = <<10, 10>> \/ l.rec = <<10, 30>>)
                                      \/ l.idx = "p" /\ (l.rec = <<10, 10>> \/ l.rec = <<30, 30>>)
      /\ \E l \in L : l.idx = "c" /\ l.rec = <<15, 15>> /\ CoversGap(l)
  BY Fields DEF CoversGap, CoversRec
<1>6. /\ 10 \in D /\ 30 \in D /\ 15 \in D /\ D \subseteq ids /\ DOMAIN pl.col = ids /\ pl.col[15] = 15
      /\ \A j \in ids : pl.col[j] \in 0 .. 50 /\ j \in 0 .. 30 /\ (pl.col[j] = 15 => j = 15)
      /\ \A j \in ids : pl.col[j] > 12 \/ (pl.col[j] = 12 /\ j > 12) => pl.col[j] > 15 \/ j = 15
  BY DEF Plan06, SevenIds, SixIds
<1> HIDE DEF pl, ids, p, D, L, qb, qc, st
<1>7. Walks(pl, D, st, <<10, 30, 15>>) /\ WalkLocks(pl, st, <<10, 30, 15>>) = L
  <2>1. /\ StopPlace(pl, st, 10) = <<10, 10>> /\ StopPlace(pl, st, 30) = <<10, 30>> /\ StopPlace(pl, st, 15) = <<15, 15>>
        /\ InRange(st.w, <<10, 10>>) /\ InRange(st.w, <<10, 30>>) /\ ~InRange(st.w, <<15, 15>>)
        /\ st.limit = NoLimit /\ st.w.idx = "c" /\ st.w = Eq("c", 10)
    BY <1>1, SevenStops DEF st
  <2>2. L = StopLocks(pl, st, 10) \cup StopLocks(pl, st, 30) \cup StopLocks(pl, st, 15)
    <3>1. /\ StopLocks(pl, st, 10) = {Lock("A", "c", <<10, 10>>, "X", "nextkey"), Lock("A", "p", <<10, 10>>, "X", "rec")}
          /\ StopLocks(pl, st, 30) = {Lock("A", "c", <<10, 30>>, "X", "nextkey"), Lock("A", "p", <<30, 30>>, "X", "rec")}
          /\ StopLocks(pl, st, 15) = {Lock("A", "c", <<15, 15>>, "X", "gap")}
      BY <1>1, SevenStops DEF st
    <3> QED BY <3>1 DEF L
  <2>3. /\ Nexts(pl, D, "c", <<10, 10>>) \cap AllPlaces(pl, "c", D) \subseteq {<<10, 30>>}
        /\ Nexts(pl, D, "c", <<10, 30>>) \cap AllPlaces(pl, "c", D) \subseteq {<<15, 15>>}
        /\ Begins(pl, D, Eq("c", 10)) \cap AllPlaces(pl, "c", D) \subseteq {<<10, 10>>}
    BY <1>1, SevenOrder DEF D
  <2>4. ~Over(pl, st, <<10, 30, 15>>, 1) /\ ~Over(pl, st, <<10, 30, 15>>, 2)
    BY <2>1 DEF Over, NoLimit
  <2>5. 10 # 30 /\ 10 # 15 /\ 30 # 15
    OBVIOUS
  <2> QED BY <1>6, <2>1, <2>2, <2>3, <2>4, <2>5, WalkThree
<1>8. Works(pl, D, L, "B", qb, 3) /\ Works(pl, D, L, "B", qb, 4)
  <2>1. \A l \in L : CoversGap(l) => l.idx = "c" /\ \E m, n \in Int : l.rec = <<m, n>> /\ m < 16
    BY <1>5
  <2>2. \A l \in L : CoversGap(l) => l.idx = "c" /\ \E m, n \in Int : l.rec = <<m, n>> /\ m < 50
    BY <1>5
  <2>3. \A q, k : q[k] = Free(Insert(16, 16, 16)) => Works(pl, D, L, "B", q, k)
    BY <2>1, InsertAfter
  <2>4. \A q, k : q[k] = Free(Insert(13, 50, 13)) => Works(pl, D, L, "B", q, k)
    BY <2>2, InsertAfter
  <2> QED BY <1>4, <2>3, <2>4
<1>9. Works(pl, D, L, "B", qb, 5)
  <2> DEFINE ut == Insert(12, 12, 12)
             r  == <<15, 15>>
  <2>1. ut.do = "insert" /\ InsertKey(ut, "c") = <<12, 12>>
    BY Fields DEF InsertKey
  <2>2. \A x, y, u, v : Before(<<x, y>>, <<u, v>>) <=> (x < u \/ (x = u /\ y < v))
    BY DEF Before
  <2>3. \A j : Place(pl, "c", j) = <<pl.col[j], j>>
    BY DEF Place
  <2>4. Place(pl, "c", 15) = r /\ Before(<<12, 12>>, r) /\ Before(r, Supremum)
    <3>1. 12 < 15 /\ 15 < 1000
      OBVIOUS
    <3> QED BY <1>6, <2>2, <2>3, <3>1 DEF Supremum
  <2>5. ASSUME NEW j \in ids, Before(<<12, 12>>, Place(pl, "c", j))
        PROVE  j = 15 \/ Before(r, Place(pl, "c", j))
    <3>1. 12 < pl.col[j] \/ (12 = pl.col[j] /\ 12 < j)
      BY <2>2, <2>3, <2>5
    <3>2. j = 15 \/ 15 < pl.col[j]
      BY <1>6, <3>1
    <3> QED BY <2>2, <2>3, <3>2
  <2>6. \E l \in L : l.idx = "c" /\ l.rec = r /\ CoversGap(l)
    BY <1>5
  <2> HIDE DEF ut, r
  <2>7. Nexts(pl, D, "c", <<12, 12>>) \cap AllPlaces(pl, "c", ids) \subseteq {r}
    <3>1. 15 \in D /\ Before(<<12, 12>>, Place(pl, "c", 15)) /\ Before(Place(pl, "c", 15), Supremum)
      BY <1>6, <2>4
    <3>2. \A j \in ids : Before(<<12, 12>>, Place(pl, "c", j)) => j = 15 \/ Before(Place(pl, "c", 15), Place(pl, "c", j))
      BY <2>4, <2>5
    <3>3. Nexts(pl, D, "c", <<12, 12>>) \cap AllPlaces(pl, "c", ids) \subseteq {Place(pl, "c", 15)}
      BY <3>1, <3>2, NextIs
    <3> QED BY <2>4, <3>3
  <2>8. Nexts(pl, D, "c", InsertKey(ut, "c")) \subseteq {r}
    BY <1>6, <2>1, <2>7, PlanPlaces
  <2>9. Barred(pl, D, L, ut)
    BY <2>1, <2>6, <2>8, BlockedInsert
  <2>10. qb[5] = Blocked(ut) /\ 5 = Len(qb)
    BY <1>4 DEF ut
  <2> QED BY <2>1, <2>9, <2>10, BlockedWorks
<1>10. Works(pl, D, L, "C", qc, 2)
  <2>1. \A j \in ids : Place(pl, "c", j) = <<pl.col[j], j>>
    BY DEF Place
  <2>2. \A x \in AllPlaces(pl, "c", DOMAIN pl.col) : x[1] \in Int
    BY <1>6, <2>1 DEF AllPlaces, Supremum
  <2>3. ASSUME NEW l \in L, CoversRec(l)
        PROVE  /\ l.idx = "c" => l.rec[1] # 15
               /\ l.idx = "p" => \A i \in DOMAIN pl.col : Place(pl, "c", i)[1] = 15 => l.rec # <<i, i>>
    <3>1. l.idx = "c" => l.rec[1] # 15
      BY <1>5, <2>3
    <3>2. l.idx = "p" => l.rec # <<15, 15>>
      BY <1>5, <2>3
    <3>3. \A i \in DOMAIN pl.col : Place(pl, "c", i)[1] = 15 => i = 15
      BY <1>6, <2>1
    <3> QED BY <3>1, <3>2, <3>3
  <2>4. Unhindered(pl, D, L, "C", Add1(Eq("c", 15)))
    <3>1. 15 \in 0 .. 99
      OBVIOUS
    <3> QED BY <2>2, <2>3, <3>1, FreeUpdate, ZenonT(60)
  <2> QED BY <1>4, <2>4, FreeWorks
<1>11. AllApart(pl, p)
  <2>1. /\ qb[1].op # "sql" /\ qb[2].op # "sql" /\ qb[3].blocked = FALSE /\ qb[4].blocked = FALSE
        /\ qb[5].st.do = "insert" /\ qc[1].op # "sql" /\ qc[2].blocked = FALSE
    BY <1>4, Fields DEF Recv, Send
  <2>2. ASSUME NEW t \in {"B", "C"}, NEW j \in 1 .. Len(p.script[t]),
               p.script[t][j].op = "sql", p.script[t][j].blocked
        PROVE  p.script[t][j].st.do = "insert"
    BY <1>2, <1>4, <2>1, <2>2, SMTT(40)
  <2> QED BY <2>2, ApartCase
<1>12. CasePlan(pl, <<10, 30, 15>>, p)
  <2>1. /\ \A k \in 3 .. Len(qb) : Works(pl, D, L, "B", qb, k)
        /\ \A k \in 2 .. Len(qc) : Works(pl, D, L, "C", qc, k)
    BY <1>4, <1>8, <1>9, <1>10
  <2>2. Len(qb) \in 2 .. 5 /\ Len(qc) \in 2 .. 3 /\ st.do = "delete"
    BY <1>1, <1>4, SevenStops DEF st
  <2>3. st.do \notin {"insert", "select5"}
    BY <2>2
  <2> QED BY <1>2, <1>3, <1>4, <1>7, <1>11, <2>1, <2>2, <2>3, CaseIs
<1> QED BY <1>12 DEF pl, p

\* Case 07: the limit is reached with row 30, and the gap after it stays free.
LEMMA Case07Plan == CasePlan(Plan07, <<10, 30>>, Case07)
<1> DEFINE pl  == Plan07
           ids == SixIds \cup {12, 16, 30}
           p   == Case07
           st  == Delete(Eq("c", 10), 2)
           D   == SevenIds
           L   == {Lock("A", "c", <<10, 10>>, "X", "nextkey"), Lock("A", "p", <<10, 10>>, "X", "rec"),
                   Lock("A", "c", <<10, 30>>, "X", "nextkey"), Lock("A", "p", <<30, 30>>, "X", "rec")}
           qa  == << Do("begin"), Free(st), Send("t2") >>
           qb  == << Recv("t2"), Free(Insert(16, 16, 16)), Free(Insert(12, 12, 12)) >>
<1>1. Sevenfold(pl, ids) /\ D \in SUBSET ids /\ 10 \in D /\ 30 \in D
  BY DEF Sevenfold, Plan07, SevenIds, SixIds
<1>2. DOMAIN p.data = D /\ p.script["A"] = qa /\ p.script["B"] = qb /\ p.script["C"] = << >>
  <2>1. p = Program("case07", 2, Seven, qa, qb, << >>) /\ D = SevenIds
    BY DEF Case07
  <2> HIDE DEF p, D, st, qa, qb
  <2> QED BY <2>1, SevenProgram
<1>3. Planned(pl, p)
  BY PlanCase07
<1>4. /\ qa[1] = Do("begin") /\ qa[2] = Free(st) /\ qa[3] = Send("t2") /\ Len(qa) = 3
      /\ qb[1] = Recv("t2") /\ qb[2] = Free(Insert(16, 16, 16)) /\ qb[3] = Free(Insert(12, 12, 12)) /\ Len(qb) = 3
  OBVIOUS
<1>5. \A l \in L : CoversGap(l) => l.idx = "c" /\ (l.rec = <<10, 10>> \/ l.rec = <<10, 30>>)
  BY Fields DEF CoversGap
<1> HIDE DEF pl, ids, p, D, L, qa, qb, st
<1>6. st.do = "delete"
  BY <1>1, SevenStops DEF st
<1>7. Walks(pl, D, st, <<10, 30>>) /\ WalkLocks(pl, st, <<10, 30>>) = L
  <2>1. /\ StopPlace(pl, st, 10) = <<10, 10>> /\ StopPlace(pl, st, 30) = <<10, 30>>
        /\ InRange(st.w, <<10, 10>>) /\ st.limit = 2 /\ st.w.idx = "c" /\ st.w = Eq("c", 10)
    BY <1>1, SevenStops DEF st
  <2>2. L = StopLocks(pl, st, 10) \cup StopLocks(pl, st, 30)
    <3>1. /\ StopLocks(pl, st, 10) = {Lock("A", "c", <<10, 10>>, "X", "nextkey"), Lock("A", "p", <<10, 10>>, "X", "rec")}
          /\ StopLocks(pl, st, 30) = {Lock("A", "c", <<10, 30>>, "X", "nextkey"), Lock("A", "p", <<30, 30>>, "X", "rec")}
      BY <1>1, SevenStops DEF st
    <3> QED BY <3>1 DEF L
  <2>3. /\ Nexts(pl, D, "c", <<10, 10>>) \cap AllPlaces(pl, "c", D) \subseteq {<<10, 30>>}
        /\ Begins(pl, D, Eq("c", 10)) \cap AllPlaces(pl, "c", D) \subseteq {<<10, 10>>}
    BY <1>1, SevenOrder DEF D
  <2>4. ~Over(pl, st, <<10, 30>>, 1) /\ Over(pl, st, <<10, 30>>, 2)
    BY <2>1 DEF Over
  <2>5. 10 # 30
    OBVIOUS
  <2> QED BY <1>1, <2>1, <2>2, <2>3, <2>4, <2>5, WalkTwo
<1>8. Works(pl, D, L, "B", qb, 2) /\ Works(pl, D, L, "B", qb, 3)
  <2>1. \A l \in L : CoversGap(l) => l.idx = "c" /\ \E m, n \in Int : l.rec = <<m, n>> /\ m < 16
    BY <1>5
  <2>2. \A l \in L : CoversGap(l) => l.idx = "c" /\ \E m, n \in Int : l.rec = <<m, n>> /\ m < 12
    BY <1>5
  <2>3. \A q, k : q[k] = Free(Insert(16, 16, 16)) => Works(pl, D, L, "B", q, k)
    BY <2>1, InsertAfter
  <2>4. \A q, k : q[k] = Free(Insert(12, 12, 12)) => Works(pl, D, L, "B", q, k)
    BY <2>2, InsertAfter
  <2> QED BY <1>4, <2>3, <2>4
<1>9. ScriptA(p) /\ AScan(p) = st
  <2>1. qa[1].op = "begin" /\ qa[2].op = "sql" /\ qa[2].st = st /\ qa[2].blocked = FALSE
    BY <1>4, Fields DEF Do
  <2>2. Len(qa) \in 3 .. 4 /\ Len(qa) # 4 /\ st.do \notin {"insert", "select5"}
    BY <1>4, <1>6
  <2> QED BY <1>2, <1>4, <2>1, <2>2 DEF ScriptA, AScan
<1>10. CasePlan(pl, <<10, 30>>, p)
  <2>1. Len(qb) \in 2 .. 5 /\ \A k \in 2 .. Len(qb) : Works(pl, D, L, "B", qb, k)
    BY <1>4, <1>8
  <2> QED BY <1>2, <1>3, <1>4, <1>7, <1>9, <2>1, PairIs
<1> QED BY <1>10 DEF pl, p

\* Every case starts where its invariant says.
LEMMA CaseStarts ==
  ASSUME NEW pl, NEW stops, CasePlan(pl, stops, prog), Init
  PROVE  CaseNow(pl, stops)
<1>1. /\ rows = prog.data /\ locks = {} /\ waits = [s \in Sessions |-> NoRequest]
      /\ before = [s \in Sessions |-> {}] /\ undo = [s \in Sessions |-> << >>]
      /\ inTx = [s \in Sessions |-> FALSE] /\ iso = [s \in Sessions |-> "RR"] /\ at = [s \in Sessions |-> Idle]
      /\ pc = [s \in Sessions |-> 1] /\ tableLock = NoSession /\ dropped = {} /\ ended = "no"
  BY DEF Init, InitDB
<1>2. err = [s \in Sessions |-> ""]
  BY DEF Init
<1>3. Tables
  <2>1. {} \in SUBSET Sessions
    OBVIOUS
  <2> QED BY <1>1, <2>1 DEF Tables
<1>4. Keys(pl)
  <2>1. \A i \in DOMAIN prog.data : i \in DOMAIN pl.col /\ prog.data[i].c = pl.col[i] /\ prog.data[i].sec
    BY DEF CasePlan, Planned, Tidy
  <2>2. \A i \in Ids : GoodRow(pl, i, rows[i])
    BY <1>1, <2>1 DEF GoodRow, Ids
  <2>3. \A s \in Sessions : undo[s] = << >>
    BY <1>1
  <2>4. \A s \in Sessions : DOMAIN undo[s] = {}
    BY <2>3, NothingIn
  <2> QED BY <1>1, <2>2, <2>4 DEF Keys, Ids
<1>5. pc["A"] = 1 /\ pc["B"] = 1 /\ pc["C"] = 1
  BY <1>1, SessionNames
<1>6. Order
  BY <1>5 DEF Order
<1>7. \A s \in Sessions : /\ at[s] = Idle /\ waits[s] = NoRequest /\ iso[s] = "RR" /\ inTx[s] = FALSE
                          /\ undo[s] = << >>
  BY <1>1
<1>8. \A s \in Sessions : Well(s) /\ err[s] \notin RolledBack /\ err[s] # "killed"
  <2>1. \A s \in Sessions : err[s] = ""
    BY <1>2
  <2> QED BY <2>1, Zenon DEF Well, RolledBack
<1>9. \A s : MyLocks(s) = {}
  BY <1>1 DEF MyLocks
<1>10. RunsA(pl, stops)
  <2>1. "A" \in Sessions /\ ~(1 > 1) /\ 1 # 2 /\ ~(1 >= 3)
    BY SessionNames
  <2>2. Ids = DOMAIN prog.data /\ \A i \in Ids : ~rows[i].del
    BY <1>1 DEF CasePlan, Planned, Tidy, Ids
  <2>3. "A" \notin dropped /\ at["A"].stage = "idle" /\ MyLocks("A") = {} /\ undo["A"] = << >> /\ inTx["A"] = FALSE
        /\ err["A"] \notin RolledBack
    BY <1>1, <1>7, <1>8, <1>9, <2>1, IdleIs
  <2> QED BY <1>5, <2>1, <2>2, <2>3, Zenon DEF RunsA, Scans
<1>11. ASSUME NEW s \in Sessions
       PROVE  Local(pl, stops, s)
  <2>1. at[s].stage = "idle" /\ at[s] = Idle
    BY <1>7, IdleIs
  <2>2. Stands(pl, s) /\ Queued(pl, s) /\ Rests(s)
    BY <1>7, <2>1 DEF Stands, Queued, Rests
  <2>3. Failed(s)
    BY <1>8, Zenon DEF Failed
  <2>4. Alone(pl, s) /\ AtGate(pl, s, Held(pl, stops, prog))
    BY <1>7, <1>9, <2>1 DEF Alone, AtGate
  <2> QED BY <1>7, <1>10, <2>2, <2>3, <2>4 DEF Local
<1>12. IsFiniteSet(locks) /\ \A l \in locks : IsLock(l)
  BY <1>1, FS_EmptySet
<1>13. CaseInv(pl, stops)
  <2>1. Together
    BY <1>8, Zenon DEF Together
  <2> QED BY <1>1, <1>4, <1>6, <1>11, <1>12, <2>1 DEF CaseInv
<1> QED BY <1>1, <1>3, <1>13, InitTypes DEF CaseNow

-----------------------------------------------------------------------------
(* The table lock demo.  A holds the table lock from its first operation to   *)
(* its last; B is past cond.Wait only when A has broadcast, and reads only    *)
(* when the table is free, which with A past Broadcast means unlocked.        *)

DemoInv ==
  prog = MetadataDemo =>
  /\ pc["A"] \in 1 .. 5 /\ pc["B"] \in 1 .. 4 /\ pc["C"] = 1
  /\ tableLock \in {"A", NoSession}
  /\ "A" \notin dropped /\ Well("A") /\ ended = "no" /\ pc["A"] \in {2, 3, 4} => tableLock = "A"
  /\ pc["B"] >= 2 /\ pc["A"] <= 3 => "B" \in waiting /\ pc["B"] = 2
  /\ pc["B"] = 4 /\ ~LostA => pc["A"] = 5

\* The demo's scripts, position by position.
LEMMA DemoOps ==
  ASSUME prog = MetadataDemo, pc["A"] \in 1 .. 5, pc["B"] \in 1 .. 4, pc["C"] = 1,
         NEW s \in Sessions, Running(s) \/ InSql(s)
  PROVE  \/ s = "A" /\ pc[s] = 1 /\ Op(s).op = "lockTables"
         \/ s = "A" /\ pc[s] = 2 /\ Op(s).op = "sql"
         \/ s = "A" /\ pc[s] = 3 /\ Op(s).op = "broadcast"
         \/ s = "A" /\ pc[s] = 4 /\ Op(s).op = "unlockTables"
         \/ s = "B" /\ pc[s] = 1 /\ Op(s).op = "condWait"
         \/ s = "B" /\ pc[s] = 2 /\ Op(s).op = "woken"
         \/ s = "B" /\ pc[s] = 3 /\ Op(s).op = "select"
<1>1. /\ Script("A") = << Do("lockTables"), Free(Add1(Eq("p", 123))), Do("broadcast"), Do("unlockTables") >>
      /\ Script("B") = << Do("condWait"), Do("woken"), Do("select") >>
      /\ Script("C") = << >>
  BY DEF Script, MetadataDemo, Program
<1>2. s \in {"A", "B", "C"} /\ pc[s] <= Len(Script(s))
  BY SessionNames DEF Running, InSql
<1>3. CASE s = "A"
  BY <1>1, <1>2, <1>3 DEF Op, Do, Free
<1>4. CASE s = "B"
  BY <1>1, <1>2, <1>4 DEF Op, Do, Free
<1>5. CASE s = "C"
  BY <1>1, <1>2, <1>5
<1> QED BY <1>2, <1>3, <1>4, <1>5

\* No step of the demo lets B read before A has unlocked.
LEMMA DemoStep ==
  ASSUME TypeInv, DemoInv, NoLockErrors, Together, [Next]_vars
  PROVE  DemoInv'
<1> SUFFICES ASSUME prog = MetadataDemo, prog' = prog
             PROVE  DemoInv'
  BY ProgramStays DEF DemoInv
<1>1. pc \in [Sessions -> Nat] /\ Sessions = {"A", "B", "C"}
  BY SessionNames DEF TypeInv, ControlOK
<1>2. LostA => LostA'
  BY LostStays
<1>3. "A" \notin dropped' /\ Well("A")' /\ ended' = "no" => "A" \notin dropped /\ Well("A") /\ ended = "no"
  <2>1. Well("A")' => Well("A")
    <3>1. "A" \in Sessions
      BY <1>1
    <3>2. err'["A"] = err["A"] \/ Well("A")
      BY <3>1, StepMoves
    <3> QED BY <3>2, Zenon DEF Well
  <2> QED BY <2>1, StoreOnward
<1>4. ASSUME UNCHANGED <<pc, waiting>>, tableLock' \in {tableLock, NoSession},
             "A" \notin dropped' /\ Well("A")' /\ ended' = "no" => tableLock' = tableLock
      PROVE  DemoInv'
  <2>1. /\ pc["A"] \in 1 .. 5 /\ pc["B"] \in 1 .. 4 /\ pc["C"] = 1
        /\ pc["B"] >= 2 /\ pc["A"] <= 3 => "B" \in waiting /\ pc["B"] = 2
    BY DEF DemoInv
  <2>2. tableLock' \in {"A", NoSession}
    BY <1>4 DEF DemoInv
  <2>3. "A" \notin dropped' /\ Well("A")' /\ ended' = "no" /\ pc["A"] \in {2, 3, 4} => tableLock' = "A"
    BY <1>3, <1>4 DEF DemoInv
  <2>4. pc["B"] = 4 /\ ~LostA' => pc["A"] = 5
    BY <1>2 DEF DemoInv
  <2> QED BY <1>4, <2>1, <2>2, <2>3, <2>4 DEF DemoInv
<1>5. ASSUME NEW s \in Sessions, Step({s}), Running(s), UNCHANGED <<err, dropped, ended>>,
             \/ Op(s).op = "sql" /\ UNCHANGED <<tableLock, waiting>>
             \/ LockTables(s) \/ UnlockTables(s) \/ CondWait(s) \/ Broadcast(s) \/ Woken(s) \/ Select(s)
      PROVE  DemoInv'
  <2>1. pc' = [t \in Sessions |-> IF t = s THEN pc[t] + 1 ELSE pc[t]]
    BY <1>5 DEF Step
  <2>2. /\ pc["A"] \in 1 .. 5 /\ pc["B"] \in 1 .. 4 /\ pc["C"] = 1
        /\ tableLock \in {"A", NoSession}
        /\ "A" \notin dropped /\ Well("A") /\ ended = "no" /\ pc["A"] \in {2, 3, 4} => tableLock = "A"
        /\ pc["B"] >= 2 /\ pc["A"] <= 3 => "B" \in waiting /\ pc["B"] = 2
        /\ pc["B"] = 4 /\ ~LostA => pc["A"] = 5
    BY DEF DemoInv
  <2>3. (LostA' <=> LostA) /\ (Well("A")' <=> Well("A")) /\ dropped' = dropped /\ ended' = ended
    BY <1>5 DEF LostA, Well
  <2>4. CASE s = "A"
    <3>1. pc'["A"] = pc["A"] + 1 /\ pc'["B"] = pc["B"] /\ pc'["C"] = pc["C"]
      BY <1>1, <2>1, <2>4
    <3>2. \/ pc["A"] = 1 /\ tableLock' = "A" /\ waiting' = waiting
          \/ pc["A"] = 2 /\ UNCHANGED <<tableLock, waiting>>
          \/ pc["A"] = 3 /\ UNCHANGED tableLock
          \/ pc["A"] = 4 /\ tableLock' \in {tableLock, NoSession}
      BY <1>5, <2>2, <2>4, DemoOps
        DEF LockTables, UnlockTables, CondWait, Broadcast, Woken, Select, At
    <3> HIDE DEF LostA, Well
    <3>3. pc'["A"] \in 1 .. 5 /\ tableLock' \in {"A", NoSession}
      BY <2>2, <3>1, <3>2
    <3>4. "A" \notin dropped /\ Well("A") /\ ended = "no" /\ pc'["A"] \in {2, 3, 4} => tableLock' = "A"
      BY <2>2, <3>1, <3>2
    <3>5. pc["B"] >= 2 /\ pc'["A"] <= 3 => "B" \in waiting' /\ pc["B"] = 2
      BY <2>2, <3>1, <3>2
    <3>6. pc["B"] = 4 /\ ~LostA => pc'["A"] = 5
      BY <1>5, <2>2, <2>4, DemoOps, <3>2
    <3> QED BY <2>2, <2>3, <3>1, <3>3, <3>4, <3>5, <3>6 DEF DemoInv
  <2>5. CASE s = "B"
    <3>1. pc'["A"] = pc["A"] /\ pc'["B"] = pc["B"] + 1 /\ pc'["C"] = pc["C"]
      BY <1>1, <2>1, <2>5
    <3>2. \/ pc["B"] = 1 /\ waiting' = waiting \cup {"B"} /\ UNCHANGED tableLock
          \/ pc["B"] = 2 /\ "B" \notin waiting /\ UNCHANGED <<tableLock, waiting>>
          \/ pc["B"] = 3 /\ tableLock # "A" /\ UNCHANGED <<tableLock, waiting>>
      BY <1>5, <2>2, <2>5, DemoOps
        DEF LockTables, UnlockTables, CondWait, Broadcast, Woken, Select, At, TableFree, NoSession
    <3>3. ended = "no" /\ (~LostA => Well("A") /\ "A" \notin dropped)
      BY <1>5, WellOrLost DEF Running
    <3>4. pc["B"] = 3 /\ ~LostA => pc["A"] = 5
      BY <2>2, <3>2, <3>3
    <3>5. pc'["B"] \in 1 .. 4 /\ tableLock' = tableLock
      BY <2>2, <3>1, <3>2
    <3>6. pc'["B"] >= 2 /\ pc["A"] <= 3 => "B" \in waiting' /\ pc'["B"] = 2
      BY <2>2, <3>1, <3>2
    <3>7. pc'["B"] = 4 /\ ~LostA => pc["A"] = 5
      BY <2>2, <3>1, <3>4
    <3> QED BY <2>2, <2>3, <3>1, <3>5, <3>6, <3>7 DEF DemoInv
  <2>6. CASE s = "C"
    BY <1>5, <2>2, <2>6, DemoOps
  <2> QED BY <1>1, <2>4, <2>5, <2>6
<1>6. ASSUME NEW s \in Sessions, SessionStep(s) \/ ConnectionLost(s)
      PROVE  DemoInv'
  <2>1. /\ pc["A"] \in 1 .. 5 /\ pc["B"] \in 1 .. 4 /\ pc["C"] = 1 /\ tableLock \in {"A", NoSession}
    BY DEF DemoInv
  <2>2. ~ (\E r \in Sessions : Rendezvous(s, r)) /\ ~BeginTx(s) /\ ~SetIsolation(s) /\ ~CommitTx(s)
    BY <2>1, DemoOps DEF Rendezvous, BeginTx, SetIsolation, CommitTx, At
  <2>3. CASE Return(s) \/ Quiet(s)
    <3>1. \/ Return(s) \/ LockTables(s) \/ UnlockTables(s)
          \/ CondWait(s) \/ Broadcast(s) \/ Woken(s) \/ Select(s)
      BY <2>2, <2>3 DEF Quiet
    <3>2. Step({s}) /\ Running(s) /\ UNCHANGED <<err, dropped, ended>>
      BY <3>1 DEF Return, LockTables, UnlockTables, CondWait, Broadcast, Woken, Select, At
    <3>3. Return(s) => Op(s).op = "sql" /\ UNCHANGED <<tableLock, waiting>>
      BY DEF Return, At
    <3> QED BY <1>5, <3>1, <3>2, <3>3
  <2>4. CASE Statement(s) \/ NobodyToAnswer(s) \/ Dies(s)
    <3>1. UNCHANGED <<pc, waiting, tableLock>>
      BY <2>4, DiesMoves DEF Statement, NobodyToAnswer
    <3> QED BY <1>4, <3>1
  <2>5. CASE Undoes(s)
    <3>1. UNCHANGED <<pc, waiting>> /\ tableLock' \in {tableLock, NoSession}
      BY <2>5, UndoesMoves
    <3>2. tableLock' = tableLock \/ s = "A"
      <4>1. tableLock' = tableLock \/ tableLock = s
        BY <2>5, UndoesMoves
      <4>2. NoSession \notin {"A", "B", "C"}
        BY DEF NoSession
      <4> QED BY <1>1, <2>1, <4>1, <4>2
    <3>3. s = "A" => tableLock' = tableLock \/ "A" \in dropped' \/ ~Well("A")'
      <4>1. HangUp(s) => ~Well(s)'
        BY DEF HangUp, Well
      <4> QED BY <2>5, <4>1 DEF Undoes, DeadlockFound, LockWaitTimeout, LostBetween, Fails
    <3> QED BY <1>4, <3>1, <3>2, <3>3
  <2> QED BY <1>6, <2>3, <2>4, <2>5, StepKinds
<1>7. CASE MainReturns
  <2>1. ended' # "no" /\ UNCHANGED <<pc, waiting>> /\ tableLock' = NoSession
    BY <1>7 DEF MainReturns
  <2> QED BY <1>4, <2>1
<1>8. CASE UNCHANGED vars
  <2>1. UNCHANGED <<pc, waiting, tableLock>>
    BY <1>8 DEF vars
  <2> QED BY <1>4, <2>1
<1> QED BY <1>6, <1>7, <1>8 DEF Next

-----------------------------------------------------------------------------
(* The two programs without a labelled statement: the phantom read and the    *)
(* table lock demo.                                                           *)

Frame == Tables /\ \A l \in locks : IsLock(l)

\* A session that waits stays at its request.
Asked(t) ==
  \/ waits'[t] = NoRequest
  \/ waits'[t] = waits[t] /\ (at'[t] = at[t] \/ at[t].stage \in {"idle", "end"})
  \/ Statement(t) /\ Wait(t, Op(t).st)

\* Every session keeps or gives back its locks but the one whose statement goes on.
LEMMA FrameStep ==
  ASSUME TypeInv, Frame, [Next]_vars, ended' = "no"
  PROVE  /\ Frame' /\ \A t \in Sessions : Statement(t) \/ MyLocks(t)' \subseteq MyLocks(t)
         /\ \A t \in Sessions : Asked(t)
<1>2. Tables /\ \A l \in locks : IsLock(l)
  BY DEF Frame
<1> DEFINE Kept == /\ Frame' /\ \A t \in Sessions : Statement(t) \/ MyLocks(t)' \subseteq MyLocks(t)
                   /\ \A t \in Sessions : Asked(t)
<1>3. ASSUME NEW s \in Sessions, waits' = waits, before' = before, at' = at, locks' = locks \/ locks' = LocksAfter(s),
             inTx' = inTx \/ \E b : inTx' = [inTx EXCEPT ![s] = b],
             iso' = iso \/ \E b : iso' = [iso EXCEPT ![s] = b]
      PROVE  Kept
  <2>1. inTx' = [t \in Sessions |-> inTx'[t]] /\ iso' = [t \in Sessions |-> iso'[t]]
    BY <1>2, <1>3 DEF Tables
  <2>2. Tables'
    BY <1>2, <1>3, <2>1 DEF Tables
  <2>3. locks' \subseteq locks
    BY <1>3 DEF LocksAfter
  <2>4. \A t \in Sessions : MyLocks(t)' \subseteq MyLocks(t)
    BY <2>3 DEF MyLocks
  <2> QED BY <1>2, <1>3, <2>2, <2>3, <2>4 DEF Frame, Asked
<1>4. ASSUME UNCHANGED dbVars
      PROVE  Kept
  <2>1. /\ waits' = waits /\ before' = before /\ locks' = locks /\ inTx' = inTx /\ iso' = iso /\ at' = at
    BY <1>4 DEF dbVars
  <2>2. "A" \in Sessions
    BY SessionNames
  <2> QED BY <1>3, <2>1, <2>2
<1>5. ASSUME NEW s \in Sessions, SessionStep(s) \/ ConnectionLost(s)
      PROVE  Kept
  <2>1. CASE \/ \E r \in Sessions : Rendezvous(s, r)
             \/ LockTables(s) \/ UnlockTables(s) \/ CondWait(s) \/ Broadcast(s) \/ Woken(s) \/ Select(s)
             \/ Dies(s)
    <3>1. UNCHANGED dbVars
      BY <2>1, DiesMoves DEF Rendezvous, LockTables, UnlockTables, CondWait, Broadcast, Woken, Select
    <3> QED BY <1>4, <3>1
  <2>2. CASE BeginTx(s) \/ SetIsolation(s) \/ CommitTx(s)
    <3>1. /\ waits' = waits /\ before' = before /\ at' = at /\ (locks' = locks \/ locks' = LocksAfter(s))
          /\ inTx' = inTx \/ \E b : inTx' = [inTx EXCEPT ![s] = b]
          /\ iso' = iso \/ \E b : iso' = [iso EXCEPT ![s] = b]
      BY <2>2 DEF BeginTx, Begin, SetIsolation, SetReadCommitted, CommitTx, Commit
    <3> QED BY <1>3, <3>1
  <2>3. CASE Statement(s)
    <3>1. Start(s, Op(s).st) \/ Wait(s, Op(s).st) \/ Proceed(s, Op(s).st)
      BY <2>3, StatementStands
    <3>2. /\ Tables' /\ \A l \in locks' : IsLock(l)
          /\ \A t \in Sessions : t # s => Untouched(t)
      BY <1>2, <3>1, StatementFrame
    <3>3. Asked(s)
      <4>1. CASE Start(s, Op(s).st)
        <5>1. waits' = waits /\ at[s].stage = "idle"
          BY <4>1, IdleIs DEF Start
        <5> QED BY <5>1 DEF Asked
      <4>2. CASE Proceed(s, Op(s).st)
        <5>1. waits' = [waits EXCEPT ![s] = NoRequest]
          BY <4>2 DEF Proceed, Dequeue
        <5> QED BY <1>2, <5>1 DEF Tables, Asked
      <4> QED BY <2>3, <3>1, <4>1, <4>2 DEF Asked
    <3>4. \A t \in Sessions : t # s => MyLocks(t)' = MyLocks(t) /\ Asked(t)
      BY <3>2 DEF Untouched, Asked
    <3> QED BY <2>3, <3>2, <3>3, <3>4 DEF Frame
  <2>4. CASE Return(s) \/ NobodyToAnswer(s)
    <3>1. Finish(s)
      BY <2>4 DEF Return, NobodyToAnswer
    <3>2. /\ Tables' /\ waits' = waits /\ \A l \in locks' : IsLock(l)
          /\ \A t \in Sessions : t # s => Untouched(t)
          /\ MyLocks(s)' = MyLocks(s) \/ MyLocks(s)' = {}
          /\ at[s].stage = "end"
      BY <1>2, <3>1, FinishFrame
    <3>3. \A t \in Sessions : t # s => MyLocks(t)' = MyLocks(t)
      BY <3>2 DEF Untouched
    <3>4. \A t \in Sessions : MyLocks(t)' \subseteq MyLocks(t)
      BY <3>2, <3>3, Zenon
    <3>5. \A t \in Sessions : Asked(t)
      BY <3>2 DEF Asked, Untouched
    <3> QED BY <3>2, <3>4, <3>5 DEF Frame
  <2>5. CASE Undoes(s)
    <3>1. RollBack(s)
      BY <2>5, UndoesMoves
    <3>2. /\ Tables' /\ \A l \in locks' : IsLock(l)
          /\ \A t \in Sessions : t # s => Untouched(t)
          /\ waits'[s] = NoRequest /\ MyLocks(s)' = {}
      BY <1>2, <3>1, RollBackFrame
    <3>3. \A t \in Sessions : t # s => MyLocks(t)' = MyLocks(t)
      BY <3>2 DEF Untouched
    <3>4. \A t \in Sessions : MyLocks(t)' \subseteq MyLocks(t)
      BY <3>2, <3>3, Zenon
    <3>5. \A t \in Sessions : Asked(t)
      BY <3>2 DEF Asked, Untouched
    <3> QED BY <3>2, <3>4, <3>5 DEF Frame
  <2> QED BY <1>5, <2>1, <2>2, <2>3, <2>4, <2>5, StepKinds DEF Quiet
<1>6. ~MainReturns
  BY DEF MainReturns
<1>7. CASE Next
  BY <1>5, <1>6, <1>7 DEF Next
<1>8. CASE UNCHANGED vars
  BY <1>4, <1>8 DEF vars
<1> QED BY <1>7, <1>8

Calm == Frame /\ \A s \in Sessions : waits[s] = NoRequest

\* What the statement of s asks for next, nobody else has locked.
Clear(s) ==
  at[s].stage \in {"index", "row", "insP", "insC"} =>
     \A l \in locks : l.s # s => ~Conflicts(Request(s, Op(s).st), l)

\* A program stays calm as long as nobody has to wait, and no statement of it fails on a lock.
LEMMA CalmStep ==
  ASSUME TypeInv, Calm, \A s \in Sessions : Clear(s), [Next]_vars, ended' = "no"
  PROVE  Calm' /\ \A t \in Sessions : Statement(t) \/ MyLocks(t)' \subseteq MyLocks(t)
<1>1. Frame /\ \A t \in Sessions : waits[t] = NoRequest
  BY DEF Calm
<1>2. ASSUME NEW s \in Sessions
      PROVE  ~Wait(s, Op(s).st)
  <2> DEFINE req == Request(s, Op(s).st)
  <2>1. SUFFICES ASSUME at[s].stage \in {"index", "row", "insP", "insC"}
                 PROVE  Blockers(req) = {}
    BY DEF Wait
  <2>2. req.s = s /\ \A l \in locks : l.s # s => ~Conflicts(req, l)
    BY <2>1, RequestOwned DEF Clear
  <2> HIDE DEF req
  <2>3. \A l \in locks : ~Conflicts(req, l)
    BY <2>2 DEF Conflicts
  <2>4. \A m \in Ahead(s) : m = NoRequest
    BY <1>1 DEF Waiting, Ahead
  <2>5. \A m \in locks \cup Ahead(req.s) : ~Conflicts(req, m)
    BY <2>2, <2>3, <2>4, NoRequestMeets
  <2> QED BY <2>5 DEF Blockers
<1>3. /\ Frame' /\ \A t \in Sessions : Statement(t) \/ MyLocks(t)' \subseteq MyLocks(t)
      /\ \A t \in Sessions : Asked(t)
  BY <1>1, FrameStep
<1> QED BY <1>1, <1>2, <1>3 DEF Calm, Asked

\* Where nobody waits, nobody waits in vain.
LEMMA CalmErrors ==
  ASSUME TypeInv, NoLockErrors, Calm, [Next]_vars
  PROVE  NoLockErrors'
<1>1. \A t \in Sessions : ~DeadlockFound(t) /\ ~LockWaitTimeout(t)
  BY DEF Calm, DeadlockFound, Victim, InCycle, WaitsFor, Waiting, LockWaitTimeout
<1>2. \A t \in Sessions : err'[t] = err[t] \/ err'[t] \in {"network", "killed"}
  BY <1>1, StepMoves
<1> QED BY <1>2 DEF NoLockErrors, RolledBack

\* The table lock demo: only A works on the table.
DemoCalm ==
  /\ TypeInv /\ prog = MetadataDemo /\ DemoInv /\ Calm /\ NoLockErrors /\ Together /\ ended = "no"
  /\ \A t \in {"B", "C"} : MyLocks(t) = {}

\* Nobody waits in it.
LEMMA DemoClear ==
  ASSUME DemoCalm, NEW s \in Sessions
  PROVE  Clear(s) /\ (InSql(s) => s = "A")
<1>1. /\ prog = MetadataDemo /\ pc["A"] \in 1 .. 5 /\ pc["B"] \in 1 .. 4 /\ pc["C"] = 1
  BY DEF DemoCalm, DemoInv
<1>2. InSql(s) => s = "A"
  BY <1>1, DemoOps DEF InSql
<1>3. \A l \in locks : l.s = "A"
  <2>1. ASSUME NEW l \in locks
        PROVE  l.s = "A"
    <3>1. l.s \in {"A", "B", "C"} /\ l \in MyLocks(l.s)
      BY SessionNames DEF DemoCalm, TypeInv, DataOK, LockOK, MyLocks
    <3> QED BY <3>1 DEF DemoCalm
  <2> QED BY <2>1
<1>4. at[s].stage # "idle" => InSql(s)
  BY DEF DemoCalm, TypeInv, StageOK
<1> QED BY <1>2, <1>3, <1>4 DEF Clear

\* And it stays so.
LEMMA DemoCalmStep ==
  ASSUME DemoCalm, [Next]_vars, ended' = "no"
  PROVE  DemoCalm'
<1>1. TypeInv /\ DemoInv /\ Calm /\ NoLockErrors /\ Together /\ prog = MetadataDemo
  BY DEF DemoCalm
<1>2. TypeInv' /\ DemoInv' /\ Together' /\ prog' = MetadataDemo
  BY <1>1, TypesStep, DemoStep, TogetherStep, ProgramStays
<1>3. \A s \in Sessions : Clear(s) /\ (InSql(s) => s = "A")
  BY DemoClear
<1>4. Calm' /\ \A t \in Sessions : Statement(t) \/ MyLocks(t)' \subseteq MyLocks(t)
  BY <1>1, <1>3, CalmStep
<1>5. NoLockErrors'
  BY <1>1, CalmErrors
<1>6. \A t \in {"B", "C"} : MyLocks(t)' = {}
  <2>1. ASSUME NEW t \in {"B", "C"}
        PROVE  MyLocks(t)' = {}
    <3>1. t \in Sessions /\ t # "A" /\ MyLocks(t) = {}
      BY SessionNames DEF DemoCalm
    <3>2. ~Statement(t)
      BY <1>1, <1>3, <3>1, StatementStands
    <3> QED BY <1>4, <3>1, <3>2
  <2> QED BY <2>1
<1> QED BY <1>2, <1>4, <1>5, <1>6 DEF DemoCalm

\* The phantom read program: as long as A's transaction lasts, it has locked the
\* rows it has shown and no gap, at first only row 5; but when its connection is
\* replaced before it begins, all that it has read.
LocksOfA ==
  /\ iso["A"] \in {"RC", "RR"}
  /\ inTx["A"] /\ iso["A"] = "RC" =>
        \A l \in MyLocks("A") : l.kind = "rec" /\ (pc["A"] <= 5 => l.rec = <<5, 5>>)
  /\ pc["A"] <= 2 => ~inTx["A"]
  /\ "A" \notin dropped /\ (inTx["A"] \/ (Well("A") /\ pc["A"] = 2)) => iso["A"] = "RC"
  /\ ~inTx["A"] /\ at["A"].stage = "idle" => MyLocks("A") = {}

\* B and C have locks only while they write.
PhantomLocks ==
  /\ tableLock = NoSession /\ LocksOfA /\ \A s \in Sessions : Rests(s)
  /\ \A t \in {"B", "C"} : pc[t] # 2 => MyLocks(t) = {}

\* What B and C may wait for: B for the row that it updates, C for the gap.
PhantomQueue ==
  /\ waits["A"] = NoRequest /\ \A s \in Sessions : Waiting(s) => waits[s].s = s
  /\ Waiting("B") => at["B"].stage = "index" /\ waits["B"].rec = <<0, 0>>
  /\ Waiting("C") => at["C"].stage \in {"insP", "insC"} /\ waits["C"].kind = "insert"

PhantomErrors == \A t \in Sessions : err[t] # "deadlock" /\ (err[t] = "timeout" => "A" \in dropped)

PhantomCalm == PhantomNow /\ Frame /\ PhantomErrors /\ PhantomLocks /\ PhantomQueue

\* Who is at a statement, and where the others are.
LEMMA PhantomWorks ==
  ASSUME PhantomNow, NEW s \in Sessions, InSql(s)
  PROVE  \/ s = "A" /\ pc["A"] \in {3, 6, 9} /\ Op(s).st = Phantoms /\ pc["B"] # 2 /\ pc["C"] # 2
         \/ s = "B" /\ pc["B"] = 2 /\ pc["A"] = 5 /\ pc["C"] # 2 /\ (Writing(s) => BWrites) /\ Op(s).st = Set5(Eq("p", 0))
         \/ s = "C" /\ pc["C"] = 2 /\ pc["A"] = 8 /\ pc["B"] # 2 /\ (Writing(s) => CWrites) /\ Op(s).st = Insert(1, 1, 5)
<1>1. PhantomPlaces /\ PhantomRows /\ prog = PhantomRead /\ Op(s).op = "sql"
  BY DEF PhantomNow, InSql
<1>2. \/ s = "A" /\ pc[s] \in {3, 6, 9} /\ Op(s).st = Phantoms
      \/ s = "B" /\ pc[s] = 2 /\ Op(s).st = Set5(Eq("p", 0))
      \/ s = "C" /\ pc[s] = 2 /\ Op(s).st = Insert(1, 1, 5)
  <2>1. \A ch : Send(ch).op # "sql" /\ Recv(ch).op # "sql"
    BY DEF Send, Recv
  <2> QED BY <1>1, <2>1, PhantomOps
<1>3. (pc["B"] = 2 => pc["A"] = 5 /\ pc["C"] # 2) /\ (pc["C"] = 2 => pc["A"] = 8 /\ pc["B"] # 2)
  <2>1. (pc["B"] = 2 => pc["A"] = 5 /\ pc["C"] = 1) /\ (pc["C"] = 2 => pc["A"] = 8 /\ pc["B"] = 4)
    BY <1>1, PhantomWriters
  <2> QED BY <2>1
<1>4. s = "B" => (Writing(s) => BWrites)
  BY <1>1, <1>2, Zenon DEF PhantomRows
<1>5. s = "C" => (Writing(s) => CWrites)
  BY <1>1, <1>2, Zenon DEF PhantomRows
<1>6. pc["A"] \in {3, 6, 9} => pc["B"] # 2 /\ pc["C"] # 2
  BY <1>3
<1> QED BY <1>2, <1>3, <1>4, <1>5, <1>6

\* A statement under way is where the script has one.
LEMMA PhantomBusy ==
  ASSUME PhantomNow, NEW s \in Sessions, at[s].stage # "idle"
  PROVE  InSql(s) /\ Writing(s)
BY DEF PhantomNow, TypeInv, StageOK, Writing

\* One at a time.
LEMMA PhantomAlone ==
  ASSUME PhantomNow, NEW s \in Sessions, at[s].stage # "idle", NEW t \in Sessions, at[t].stage # "idle"
  PROVE  s = t
<1>1. InSql(s) /\ InSql(t)
  BY PhantomBusy
<1> HIDE DEF InSql, BWrites, CWrites, Writing
<1>2. \/ s = "A" /\ pc["A"] \in {3, 6, 9} /\ pc["B"] # 2 /\ pc["C"] # 2
      \/ s = "B" /\ pc["B"] = 2 /\ pc["A"] = 5 /\ pc["C"] # 2
      \/ s = "C" /\ pc["C"] = 2 /\ pc["A"] = 8 /\ pc["B"] # 2
  BY <1>1, PhantomWorks
<1>3. \/ t = "A" /\ pc["A"] \in {3, 6, 9} /\ pc["B"] # 2 /\ pc["C"] # 2
      \/ t = "B" /\ pc["B"] = 2 /\ pc["A"] = 5 /\ pc["C"] # 2
      \/ t = "C" /\ pc["C"] = 2 /\ pc["A"] = 8 /\ pc["B"] # 2
  BY <1>1, PhantomWorks
<1> QED BY <1>2, <1>3

\* What a statement asks for only A's transaction can have locked, at the default level.
LEMMA PhantomBars ==
  ASSUME PhantomCalm, NEW s \in Sessions, at[s].stage # "idle", NEW l \in locks, l.s # s, NEW req, Conflicts(req, l),
         s = "B" => req.rec = <<0, 0>>, s = "C" => req.kind = "insert"
  PROVE  l.s = "A" /\ inTx["A"] /\ iso["A"] = "RR"
<1>1. /\ PhantomNow /\ PhantomLocks /\ l.s \in {"A", "B", "C"} /\ l \in MyLocks(l.s)
  BY SessionNames DEF PhantomCalm, PhantomNow, TypeInv, DataOK, LockOK, MyLocks
<1>2. \A t \in {"B", "C"} : pc[t] # 2 => l.s # t
  BY <1>1 DEF PhantomLocks
<1>3. InSql(s)
  BY <1>1, PhantomBusy
<1>4. /\ s # "A" /\ l.s = "A"
      /\ pc["A"] \in {5, 8} /\ (s = "B" => pc["A"] = 5)
  <2>1. CASE s = "A"
    BY <1>1, <1>2, <1>3, <2>1, PhantomWorks
  <2>2. CASE s = "B"
    BY <1>1, <1>2, <1>3, <2>2, PhantomWorks
  <2>3. CASE s = "C"
    BY <1>1, <1>2, <1>3, <2>3, PhantomWorks
  <2> QED BY <2>1, <2>2, <2>3, SessionNames
<1>5. LocksOfA /\ at["A"].stage = "idle" /\ l \in MyLocks("A")
  BY <1>1, <1>4, PhantomIdle DEF PhantomLocks
<1>6. inTx["A"]
  BY <1>5 DEF LocksOfA
<1>7. CASE iso["A"] = "RC"
  <2>1. l.kind = "rec" /\ (pc["A"] <= 5 => l.rec = <<5, 5>>)
    BY <1>5, <1>6, <1>7 DEF LocksOfA
  <2>2. CASE s = "B"
    <3>1. l.rec = <<5, 5>>
      BY <1>4, <2>1, <2>2
    <3> QED BY <2>2, <3>1 DEF Conflicts
  <2>3. CASE s = "C"
    BY <2>1, <2>3 DEF Conflicts, CoversGap, CoversRec
  <2> QED BY <1>4, <2>2, <2>3, SessionNames
<1> QED BY <1>4, <1>5, <1>6, <1>7 DEF LocksOfA

\* So nobody waits but for A, nor does A.
LEMMA PhantomWaits ==
  ASSUME PhantomCalm, NEW s \in Sessions, NEW t, WaitsFor(s, t)
  PROVE  t = "A" /\ s # "A" /\ inTx["A"] /\ iso["A"] = "RR"
<1>1. PhantomNow /\ PhantomQueue /\ Tables
  BY DEF PhantomCalm, Frame
<1>2. Waiting(s) /\ waits[s].s = s /\ s # "A"
  BY <1>1 DEF WaitsFor, PhantomQueue, Waiting
<1>3. ASSUME NEW u \in Sessions, Waiting(u)
      PROVE  at[u].stage # "idle"
  BY <1>1, <1>3, SessionNames DEF PhantomQueue, Waiting
<1>4. PICK m \in locks \cup Ahead(s) : m.s = t /\ Conflicts(waits[s], m)
  BY <1>2 DEF WaitsFor, Blockers
<1>5. m \in locks
  <2>1. ASSUME m \in Ahead(s)
        PROVE  FALSE
    <3>1. PICK u \in Sessions : m = waits[u]
      BY <1>1, <1>2, <2>1 DEF Ahead, Tables
    <3>2. Waiting(u)
      BY <1>4, <3>1, NoRequestMeets DEF Waiting
    <3>3. u = s
      BY <1>1, <1>2, <1>3, <3>2, PhantomAlone
    <3> QED BY <1>4, <3>1, <3>3 DEF Conflicts
  <2> QED BY <1>4, <2>1
<1>6. /\ at[s].stage # "idle" /\ m.s # s
      /\ s = "B" => waits[s].rec = <<0, 0>>
      /\ s = "C" => waits[s].kind = "insert"
  BY <1>1, <1>2, <1>3, <1>4 DEF PhantomQueue, Conflicts
<1> QED BY <1>2, <1>4, <1>5, <1>6, PhantomBars

\* Nobody is found in a cycle, and no wait is too long unless A's connection has been replaced.
LEMMA PhantomFails ==
  ASSUME PhantomCalm, [Next]_vars
  PROVE  PhantomErrors'
<1>1. /\ TypeInv /\ LocksOfA /\ PhantomErrors /\ PhantomQueue /\ ended = "no"
  BY DEF PhantomCalm, PhantomNow, PhantomLocks
<1>2. ASSUME NEW s \in Sessions
      PROVE  ~DeadlockFound(s)
  BY PhantomWaits DEF DeadlockFound, Victim, InCycle
<1>3. ASSUME NEW s \in Sessions, LockWaitTimeout(s)
      PROVE  "A" \in dropped
  <2>1. Waiting(s) /\ Running(s) /\ Stuck(s)
    BY <1>3 DEF LockWaitTimeout
  <2>2. at[s].stage # "idle"
    BY <1>1, <2>1, SessionNames DEF PhantomQueue, Waiting
  <2>3. InSql(s)
    BY <2>2, PhantomBusy DEF PhantomCalm
  <2>4. pc[s] <= Len(Script(s)) /\ Op(s).op = "sql" /\ pc[s] \in Nat /\ Len(Script(s)) \in Nat /\ pc[s] \in 1 .. Len(Script(s))
    BY <1>1, <2>1, <2>3, Running1, ScriptLengths DEF InSql
  <2>5. Script(s) # << >> /\ ~Done(s)
    <3> DEFINE n == Len(Script(s))
               m == pc[s]
    <3>1. m \in 1 .. n /\ n \in Nat
      BY <2>4
    <3>2. Len(<< >>) = 0
      OBVIOUS
    <3> HIDE DEF n, m
    <3>3. ~(m > n) /\ n # 0
      BY <3>1
    <3> QED BY <3>2, <3>3 DEF Done, n, m
  <2>6. \E t \in Sessions : WaitsFor(s, t)
    BY <1>1, <2>1, <2>4, <2>5 DEF Stuck, At
  <2>7. inTx["A"] /\ iso["A"] = "RR"
    BY <2>6, PhantomWaits
  <2>8. "RR" # "RC"
    OBVIOUS
  <2> QED BY <1>1, <2>7, <2>8 DEF LocksOfA
<1>4. dropped \subseteq dropped'
  BY <1>1, StepMoves
<1>5. ASSUME NEW t \in Sessions
      PROVE  err'[t] # "deadlock" /\ (err'[t] = "timeout" => "A" \in dropped')
  <2>1. err'[t] = err[t] \/ err'[t] \in {"network", "killed"} \/ (err'[t] = "timeout" /\ LockWaitTimeout(t))
    BY <1>1, <1>2, StepMoves
  <2>2. err[t] # "deadlock" /\ (err[t] = "timeout" => "A" \in dropped)
    BY <1>1 DEF PhantomErrors
  <2> QED BY <1>3, <1>4, <2>1, <2>2
<1> QED BY <1>5 DEF PhantomErrors

\* Nothing else comes to be asked for.
LEMMA PhantomAsks ==
  ASSUME PhantomCalm, [Next]_vars, ended' = "no"
  PROVE  PhantomQueue'
<1>1. /\ PhantomNow /\ TypeInv /\ Frame /\ PhantomQueue /\ Sessions = {"A", "B", "C"} /\ Tables
  BY SessionNames DEF PhantomCalm, PhantomNow, Frame
<1>2. \A t \in Sessions : Asked(t)
  BY <1>1, FrameStep
<1>3. ASSUME NEW s \in Sessions, Statement(s), Wait(s, Op(s).st)
      PROVE  /\ s # "A" /\ at' = at /\ waits'[s].s = s
             /\ s = "B" => at[s].stage = "index" /\ waits'[s].rec = <<0, 0>>
             /\ s = "C" => at[s].stage \in {"insP", "insC"} /\ waits'[s].kind = "insert"
  <2> DEFINE req == Request(s, Op(s).st)
  <2>1. /\ at[s].stage \in {"index", "row", "insP", "insC"} /\ Blockers(req) # {} /\ at' = at
        /\ waits'[s] = req
    <3>1. waits' = [waits EXCEPT ![s] = req]
      BY <1>3 DEF Wait, Enqueue
    <3> QED BY <1>1, <1>3, <3>1 DEF Wait, Tables
  <2>2. at[s].stage # "idle" /\ InSql(s) /\ Writing(s) /\ req.s = s
    BY <1>1, <2>1, PhantomBusy, RequestOwned
  <2>3. s = "B" => at[s].stage = "index" /\ req.rec = <<0, 0>>
    <3>1. ASSUME s = "B"
          PROVE  at[s].stage = "index" /\ at[s].rec = <<0, 0>>
      <4>1. BWrites
        BY <1>1, <2>2, <3>1, PhantomWorks
      <4>2. at[s] = [stage |-> "index", rec |-> <<0, 0>>, hits |-> {}]
        BY <2>1, <3>1, <4>1 DEF BWrites
      <4> QED BY <4>2
    <3> QED BY <3>1 DEF Request, Lock
  <2>4. s = "C" => at[s].stage \in {"insP", "insC"} /\ req.kind = "insert"
    <3>1. ASSUME s = "C"
          PROVE  at[s].stage \in {"insP", "insC"}
      <4>1. CWrites
        BY <1>1, <2>2, <3>1, PhantomWorks
      <4> QED BY <2>1, <3>1, <4>1 DEF CWrites
    <3> QED BY <3>1 DEF Request, Lock
  <2>5. s # "A"
    <3> SUFFICES ASSUME s = "A"
                 PROVE  FALSE
      OBVIOUS
    <3> HIDE DEF req
    <3>1. PICK m \in locks \cup Ahead(s) : Conflicts(req, m)
      BY <2>1, <2>2 DEF Blockers
    <3>2. m.s # s
      BY <2>2, <3>1 DEF Conflicts
    <3>3. m \in locks
      <4>1. ASSUME m \in Ahead(s)
            PROVE  FALSE
        <5>1. PICK u \in Sessions : m = waits[u]
          BY <1>1, <4>1 DEF Ahead, Tables
        <5>2. Waiting(u)
          BY <3>1, <5>1, NoRequestMeets DEF Waiting
        <5>3. at[u].stage # "idle" /\ waits[u].s = u
          BY <1>1, <5>2 DEF PhantomQueue, Waiting
        <5>4. u = s
          BY <1>1, <2>2, <5>3, PhantomAlone
        <5> QED BY <3>2, <5>1, <5>3, <5>4
      <4> QED BY <3>1, <4>1
    <3>4. m.s = "A"
      BY <2>2, <3>1, <3>2, <3>3, PhantomBars
    <3> QED BY <3>2, <3>4
  <2> QED BY <2>1, <2>2, <2>3, <2>4, <2>5
<1>4. ASSUME NEW s \in Sessions, waits'[s] # NoRequest, ~(Statement(s) /\ Wait(s, Op(s).st))
      PROVE  waits'[s] = waits[s] /\ Waiting(s) /\ at'[s] = at[s]
  <2>1. waits'[s] = waits[s] /\ (at'[s] = at[s] \/ at[s].stage \in {"idle", "end"})
    BY <1>2, <1>4 DEF Asked
  <2>2. Waiting(s)
    BY <1>4, <2>1 DEF Waiting
  <2>3. at[s].stage \in {"index", "insP", "insC"}
    BY <1>1, <2>2 DEF PhantomQueue, Waiting
  <2> QED BY <2>1, <2>2, <2>3
<1>5. waits'["A"] = NoRequest
  BY <1>1, <1>3, <1>4 DEF PhantomQueue, Waiting
<1>6. \A s \in Sessions : Waiting(s)' => waits'[s].s = s
  BY <1>1, <1>3, <1>4 DEF PhantomQueue, Waiting
<1>7. Waiting("B")' => at'["B"].stage = "index" /\ waits'["B"].rec = <<0, 0>>
  BY <1>1, <1>3, <1>4 DEF PhantomQueue, Waiting
<1>8. Waiting("C")' => at'["C"].stage \in {"insP", "insC"} /\ waits'["C"].kind = "insert"
  BY <1>1, <1>3, <1>4 DEF PhantomQueue, Waiting
<1> QED BY <1>5, <1>6, <1>7, <1>8 DEF PhantomQueue

\* In its transaction A locks the rows that it shows.
LEMMA PhantomTakes ==
  ASSUME PhantomCalm, inTx["A"], iso["A"] = "RC", Proceed("A", Phantoms), InSql("A")
  PROVE  \A l \in MyLocks("A")' : l \in MyLocks("A") \/ (l.kind = "rec" /\ (pc["A"] = 3 => l.rec = <<5, 5>>))
<1> DEFINE req == Request("A", Phantoms)
<1>1. at["A"].stage = "index" /\ PhantomPlaces /\ PhantomRows /\ pc["A"] \in {3, 6, 9}
  <2>1. pc["A"] \in {3, 6, 9}
    BY SessionNames, PhantomWorks DEF PhantomCalm
  <2> QED BY <2>1, ZenonT(60) DEF PhantomCalm, PhantomNow, PhantomScan, Selects, Proceed
<1>2. PICK n \in 0 .. 1000 : at["A"].rec = <<n, n>>
  BY <1>1, ZenonT(60) DEF PhantomCalm, PhantomNow, PhantomScan, Selects
<1>3. req = Lock("A", "p", <<n, n>>, "X", "rec")
  <2>1. Phantoms.w.idx = "p" /\ Phantoms.mode = "X"
    BY DEF Phantoms, Scan, All, Between
  <2> QED BY <1>1, <1>2, <2>1 DEF Request
<1>4. ~NeedsRow(Phantoms) /\ Phantoms.do = "select5"
  BY DEF NeedsRow, Phantoms, Scan, All, Between
<1>5. locks' = locks \/ (locks' = locks \cup {req} /\ Matches(Phantoms, n))
  <2>1. ScanIndex("A", Phantoms, req)
    BY <1>1 DEF Proceed, ScanRow, InsertPrimary, InsertSecondary
  <2>2. <<n, n>>[2] = n
    OBVIOUS
  <2> HIDE DEF req
  <2> QED BY <1>1, <1>2, <1>4, <2>1, <2>2 DEF ScanIndex, Reach
<1>6. pc["A"] = 3 /\ Matches(Phantoms, n) => n = 5
  <2>1. SUFFICES ASSUME pc["A"] = 3, Matches(Phantoms, n)
                 PROVE  n = 5
    OBVIOUS
  <2>2. rows = Six
    BY <1>1, <2>1, PhantomScanned
  <2>3. n \in {0, 5, 10, 15, 20, 25} /\ Six[n].d = 5
    BY <1>4, <2>1, <2>2 DEF Matches, Six
  <2> QED BY <2>3 DEF Six
<1>7. \A l \in MyLocks("A")' : l \in MyLocks("A") \/ (l = req /\ Matches(Phantoms, n))
  BY <1>5 DEF MyLocks
<1>8. req.kind = "rec" /\ req.rec = <<n, n>>
  BY <1>3 DEF Lock
<1> HIDE DEF req
<1> QED BY <1>6, <1>7, <1>8

\* A statement under way is under way.
LEMMA StatementBusy ==
  ASSUME TypeInv, NEW s \in Sessions, NEW st, Start(s, st) \/ Proceed(s, st)
  PROVE  at'[s].stage # "idle"
<1>1. at = [t \in Sessions |-> at[t]]
  BY DEF TypeInv
<1>2. CASE Start(s, st)
  <2>1. [Idle EXCEPT !.stage = "insP"].stage = "insP"
    BY DEF Idle
  <2> QED BY <1>1, <1>2, <2>1 DEF Start
<1>3. ASSUME NEW g, at' = [at EXCEPT ![s].stage = g]
      PROVE  at'[s].stage = g
  <2>1. at' = [at EXCEPT ![s] = [stage |-> g, rec |-> at[s].rec, hits |-> at[s].hits]]
    BY <1>3, StageEnds
  <2>2. at'[s] = [stage |-> g, rec |-> at[s].rec, hits |-> at[s].hits]
    BY <1>1, <2>1
  <2> QED BY <2>2
<1>4. ASSUME NEW req, Reach(s, st, req)
      PROVE  at'[s].stage \in {"end", "index"}
  BY <1>1, <1>4 DEF Reach
<1>5. CASE Proceed(s, st)
  <2>1. PICK req : \/ ScanIndex(s, st, req) \/ ScanRow(s, st, req)
                   \/ InsertPrimary(s, st, req) \/ InsertSecondary(s, st, req)
    BY <1>5 DEF Proceed
  <2>2. \/ \E g \in {"end", "row", "insC"} : at' = [at EXCEPT ![s].stage = g]
        \/ Reach(s, st, req)
    BY <2>1 DEF ScanIndex, ScanRow, InsertPrimary, InsertSecondary
  <2> QED BY <1>3, <1>4, <2>2
<1> QED BY <1>2, <1>3, <1>4, <1>5

\* What is said of A's locks holds as long as nothing happens to A but that it goes on.
LEMMA LocksOfAStay ==
  ASSUME LocksOfA, pc["A"] \in Nat, pc'["A"] = pc["A"] \/ (pc["A"] > 2 /\ pc'["A"] = pc["A"] + 1),
         at'["A"].stage = at["A"].stage, inTx'["A"] = inTx["A"], iso'["A"] = iso["A"],
         MyLocks("A")' = MyLocks("A"), Well("A")' => Well("A"), dropped \subseteq dropped'
  PROVE  LocksOfA'
<1> DEFINE n == pc["A"]
           m == pc'["A"]
<1>1. n \in Nat /\ (m = n \/ (n > 2 /\ m = n + 1))
  OBVIOUS
<1> HIDE DEF n, m
<1>2. (m <= 5 => n <= 5) /\ (m <= 2 => n <= 2) /\ (m = 2 => n = 2)
  BY <1>1
<1>3. "A" \notin dropped' => "A" \notin dropped
  OBVIOUS
<1> QED BY <1>2, <1>3, Zenon DEF LocksOfA, n, m

\* B and C give back what they have locked when their statement returns.
LEMMA PhantomReleases ==
  ASSUME PhantomCalm, [Next]_vars, ended' = "no", NEW t \in {"B", "C"}
  PROVE  pc'[t] # 2 => MyLocks(t)' = {}
<1>1. /\ PhantomNow /\ TypeInv /\ Frame /\ t \in Sessions /\ t # "A" /\ Tables /\ \A l \in locks : IsLock(l)
  BY SessionNames DEF PhantomCalm, PhantomNow, Frame
<1>2. pc'[t] = pc[t] \/ (pc'[t] = pc[t] + 1 /\ Running(t) /\ (Op(t).op = "sql" => Return(t)))
  BY <1>1, StepMoves
<1>3. Statement(t) \/ MyLocks(t)' \subseteq MyLocks(t)
  BY <1>1, FrameStep
<1>4. Statement(t) => pc[t] = 2
  BY <1>1, StatementStands, PhantomWorks
<1>5. pc[t] # 2 => MyLocks(t) = {}
  BY DEF PhantomCalm, PhantomLocks
<1>6. CASE pc[t] # 2
  BY <1>3, <1>4, <1>5, <1>6
<1>7. CASE pc[t] = 2 /\ pc'[t] # 2
  <2>1. Running(t) /\ (Op(t).op = "sql" => Return(t))
    BY <1>2, <1>7
  <2>2. PhantomPlaces /\ PhantomRows /\ prog = PhantomRead
    BY <1>1 DEF PhantomNow
  <2>3. Op(t).op = "sql"
    <3>1. 2 # 1 /\ 2 # 3
      OBVIOUS
    <3> QED BY <1>1, <1>7, <2>1, <2>2, <3>1, PhantomOps
  <2>4. Finish(t) /\ ~inTx[t]
    BY <2>1, <2>2, <2>3 DEF Return, PhantomRows
  <2> QED BY <1>1, <2>4, FinishFrame
<1> QED BY <1>6, <1>7

\* The steps of A that are not part of a SELECT.
LEMMA PhantomOfA ==
  ASSUME PhantomCalm, NEW s \in Sessions,
         SetIsolation(s) \/ BeginTx(s) \/ CommitTx(s) \/ \E r \in Sessions : Rendezvous(s, r)
  PROVE  LocksOfA' /\ tableLock' = tableLock /\ at' = at
<1>1. /\ PhantomNow /\ TypeInv /\ LocksOfA /\ PhantomPlaces /\ prog = PhantomRead /\ Tables
      /\ pc = [t \in Sessions |-> pc[t]] /\ "A" \in Sessions /\ pc["A"] \in Nat
  BY SessionNames DEF PhantomCalm, PhantomLocks, PhantomNow, Frame, TypeInv, ControlOK
<1>0. err' = err /\ dropped' = dropped /\ (Well("A")' <=> Well("A"))
  <2>1. err' = err /\ dropped' = dropped
    BY DEF SetIsolation, BeginTx, CommitTx, Rendezvous
  <2> QED BY <2>1 DEF Well
<1>2. ASSUME NEW r \in Sessions, Rendezvous(s, r)
      PROVE  LocksOfA' /\ tableLock' = tableLock /\ at' = at
  <2>1. /\ Step({s, r}) /\ locks' = locks /\ at' = at /\ inTx' = inTx /\ iso' = iso /\ tableLock' = tableLock
    BY <1>2 DEF Rendezvous, dbVars
  <2>2. pc["A"] \in {4, 5, 7, 8}
    BY <1>1, <1>2, PhantomMeets
  <2>3. pc["A"] > 2 /\ (pc'["A"] = pc["A"] \/ pc'["A"] = pc["A"] + 1)
    BY <1>1, <2>1, <2>2 DEF Step
  <2>4. MyLocks("A")' = MyLocks("A")
    BY <2>1 DEF MyLocks
  <2> QED BY <1>0, <1>1, <2>1, <2>3, <2>4, LocksOfAStay
<1>3. ASSUME Running(s), Op(s).op \in {"readCommitted", "begin", "commit"}
      PROVE  /\ s = "A" /\ pc["A"] \in {1, 2, 10}
             /\ Op(s).op = "readCommitted" => pc["A"] = 1
             /\ Op(s).op = "begin" => pc["A"] = 2
             /\ Op(s).op = "commit" => pc["A"] = 10
  <2>1. \A ch : Send(ch).op = "send" /\ Recv(ch).op = "recv"
    BY DEF Send, Recv
  <2>2. \/ s = "A" /\ pc[s] = 1 /\ Op(s).op = "readCommitted"
        \/ s = "A" /\ pc[s] = 2 /\ Op(s).op = "begin"
        \/ s = "A" /\ pc[s] = 10 /\ Op(s).op = "commit"
    BY <1>1, <1>3, <2>1, PhantomOps
  <2> QED BY <2>2
<1>4. ASSUME s = "A", pc["A"] \in {1, 2, 10}
      PROVE  at["A"].stage = "idle"
  BY <1>1, <1>4, PhantomIdle
<1>5. CASE SetIsolation(s)
  <2>1. s = "A" /\ pc["A"] = 1 /\ at["A"].stage = "idle"
    BY <1>3, <1>4, <1>5 DEF SetIsolation, At
  <2>2. /\ iso' = [iso EXCEPT !["A"] = "RC"] /\ locks' = locks /\ inTx' = inTx /\ at' = at /\ tableLock' = tableLock
        /\ Step({"A"})
    BY <1>5, <2>1 DEF SetIsolation, SetReadCommitted
  <2>3. pc'["A"] = 2 /\ iso'["A"] = "RC"
    <3>1. iso = [t \in Sessions |-> iso[t]]
      BY <1>1 DEF Tables
    <3> QED BY <1>1, <2>1, <2>2, <3>1 DEF Step
  <2>4. 1 <= 2
    OBVIOUS
  <2>5. ~inTx["A"] /\ MyLocks("A") = {}
    BY <1>1, <2>1, <2>4 DEF LocksOfA
  <2>6. MyLocks("A")' = {}
    BY <2>2, <2>5 DEF MyLocks
  <2> QED BY <2>2, <2>3, <2>5, <2>6, Zenon DEF LocksOfA
<1>6. CASE BeginTx(s)
  <2>1. s = "A" /\ pc["A"] = 2 /\ at["A"].stage = "idle"
    BY <1>3, <1>4, <1>6 DEF BeginTx, At
  <2>2. /\ inTx' = [inTx EXCEPT !["A"] = TRUE] /\ locks' = locks /\ iso' = iso /\ at' = at /\ tableLock' = tableLock
        /\ Step({"A"})
    BY <1>6, <2>1 DEF BeginTx, Begin
  <2>3. pc'["A"] = 3 /\ inTx'["A"] = TRUE
    <3>1. inTx = [t \in Sessions |-> inTx[t]]
      BY <1>1 DEF Tables
    <3> QED BY <1>1, <2>1, <2>2, <3>1 DEF Step
  <2>4. 2 <= 2 /\ ~(3 <= 2) /\ 3 # 2
    OBVIOUS
  <2>5. MyLocks("A") = {} /\ iso["A"] \in {"RC", "RR"}
    BY <1>1, <2>1, <2>4 DEF LocksOfA
  <2>6. MyLocks("A")' = {}
    BY <2>2, <2>5 DEF MyLocks
  <2>7. "A" \notin dropped => iso["A"] = "RC"
    <3>1. Well("A")
      BY <1>1, <1>6, <2>1, RunningWell DEF BeginTx, At
    <3> QED BY <1>1, <2>1, <3>1 DEF LocksOfA
  <2> QED BY <1>0, <2>2, <2>3, <2>4, <2>5, <2>6, <2>7, Zenon DEF LocksOfA
<1>7. CASE CommitTx(s)
  <2>1. s = "A" /\ pc["A"] = 10
    BY <1>3, <1>7 DEF CommitTx, At
  <2>2. /\ inTx' = [inTx EXCEPT !["A"] = FALSE] /\ locks' = LocksAfter("A") /\ at' = at /\ tableLock' = tableLock
        /\ Step({"A"})
    BY <1>7, <2>1 DEF CommitTx, Commit
  <2>3. pc'["A"] = 11 /\ inTx'["A"] = FALSE
    <3>1. inTx = [t \in Sessions |-> inTx[t]]
      BY <1>1 DEF Tables
    <3> QED BY <1>1, <2>1, <2>2, <3>1 DEF Step
  <2>4. MyLocks("A")' = {}
    BY <2>2 DEF MyLocks, LocksAfter
  <2>5. 11 # 2 /\ iso'["A"] \in {"RC", "RR"}
    <3>1. iso = [t \in Sessions |-> iso[t]] /\ iso' = [iso EXCEPT !["A"] = "RR"]
      BY <1>1, <1>7, <2>1 DEF Tables, CommitTx, Commit
    <3> QED BY <1>1, <3>1
  <2> QED BY <2>2, <2>3, <2>4, <2>5, Zenon DEF LocksOfA
<1> QED BY <1>2, <1>5, <1>6, <1>7

\* A's statements and their ends.
LEMMA PhantomSqlOfA ==
  ASSUME PhantomCalm, Statement("A") \/ Return("A") \/ NobodyToAnswer("A")
  PROVE  LocksOfA'
<1>1. /\ PhantomNow /\ TypeInv /\ LocksOfA /\ Tables /\ (\A l \in locks : IsLock(l)) /\ "A" \in Sessions
      /\ pc = [t \in Sessions |-> pc[t]]
  BY SessionNames DEF PhantomCalm, PhantomLocks, PhantomNow, Frame, TypeInv, ControlOK
<1>2. pc["A"] \in {3, 6, 9} /\ Op("A").st = Phantoms /\ InSql("A")
  <2>1. InSql("A")
    <3>1. Return("A") \/ NobodyToAnswer("A") => at["A"].stage # "idle"
      BY DEF Return, NobodyToAnswer, Finish
    <3> QED BY <1>1, <3>1, PhantomBusy, StatementStands
  <2> QED BY <1>1, <2>1, PhantomWorks
<1>0. err' = err /\ dropped' = dropped /\ (Well("A")' <=> Well("A"))
  <2>1. err' = err /\ dropped' = dropped
    BY DEF Statement, Return, NobodyToAnswer
  <2> QED BY <2>1 DEF Well
<1>3. CASE Statement("A")
  <2>1. /\ Start("A", Phantoms) \/ Wait("A", Phantoms) \/ Proceed("A", Phantoms)
        /\ pc' = pc
    BY <1>1, <1>2, <1>3, StatementStands
  <2>2. inTx' = inTx /\ iso' = iso
    BY <1>1, <2>1, StatementFrame
  <2>3. ~(pc["A"] <= 2) /\ pc["A"] # 2 /\ (pc["A"] <= 5 => pc["A"] = 3)
    BY <1>2
  <2>4. CASE Wait("A", Phantoms)
    <3>1. locks' = locks /\ at' = at
      BY <2>4 DEF Wait
    <3>2. MyLocks("A")' = MyLocks("A")
      BY <3>1 DEF MyLocks
    <3> QED BY <1>0, <1>1, <2>1, <2>2, <2>3, <3>1, <3>2, Zenon DEF LocksOfA
  <2>5. CASE Start("A", Phantoms)
    <3>1. locks' = locks /\ at'["A"].stage # "idle"
      BY <1>1, <2>5, StatementBusy DEF Start
    <3>2. MyLocks("A")' = MyLocks("A")
      BY <3>1 DEF MyLocks
    <3> QED BY <1>0, <1>1, <2>1, <2>2, <2>3, <3>1, <3>2, Zenon DEF LocksOfA
  <2>6. CASE Proceed("A", Phantoms)
    <3>1. at'["A"].stage # "idle"
      BY <1>1, <2>6, StatementBusy
    <3>2. ASSUME inTx["A"], iso["A"] = "RC", NEW l \in MyLocks("A")'
          PROVE  l.kind = "rec" /\ (pc["A"] <= 5 => l.rec = <<5, 5>>)
      <4>1. \A q \in MyLocks("A")' : q \in MyLocks("A") \/ (q.kind = "rec" /\ (pc["A"] = 3 => q.rec = <<5, 5>>))
        BY <1>2, <2>6, <3>2, PhantomTakes
      <4>2. l \in MyLocks("A") \/ (l.kind = "rec" /\ (pc["A"] = 3 => l.rec = <<5, 5>>))
        BY <3>2, <4>1
      <4> QED BY <1>1, <2>3, <3>2, <4>2 DEF LocksOfA
    <3> QED BY <1>0, <1>1, <2>1, <2>2, <2>3, <3>1, <3>2, Zenon DEF LocksOfA
  <2> QED BY <2>1, <2>4, <2>5, <2>6
<1>4. CASE Return("A") \/ NobodyToAnswer("A")
  <2>1. Finish("A") /\ (Step({"A"}) \/ pc' = pc)
    BY <1>4 DEF Return, NobodyToAnswer
  <2>2. /\ iso' = iso /\ inTx' = inTx /\ at'["A"] = Idle
        /\ IF inTx["A"] THEN MyLocks("A")' = MyLocks("A") ELSE MyLocks("A")' = {}
    BY <1>1, <2>1, FinishFrame
  <2>3. pc'["A"] = pc["A"] + 1 \/ pc'["A"] = pc["A"]
    BY <1>1, <2>1 DEF Step
  <2>4. ~(pc'["A"] <= 2) /\ pc'["A"] # 2 /\ (pc'["A"] <= 5 => pc["A"] <= 5)
    <3> DEFINE n == pc["A"]
               m == pc'["A"]
    <3>1. n \in {3, 6, 9} /\ (m = n + 1 \/ m = n)
      BY <1>2, <2>3
    <3> HIDE DEF n, m
    <3>2. ~(m <= 2) /\ m # 2 /\ (m <= 5 => n <= 5)
      BY <3>1
    <3> QED BY <3>2 DEF n, m
  <2> QED BY <1>0, <1>1, <2>2, <2>4, Zenon DEF LocksOfA
<1> QED BY <1>3, <1>4

\* Who is rolled back has failed, or goes on with a new connection.
LEMMA UndoesEnds ==
  ASSUME TypeInv, NEW s \in Sessions, Undoes(s)
  PROVE  ~Well(s)' \/ s \in dropped'
<1>1. err = [t \in Sessions |-> err[t]]
  BY DEF TypeInv, ControlOK
<1>2. CASE DeadlockFound(s) \/ LockWaitTimeout(s)
  <2>1. err'[s] \in {"deadlock", "timeout"}
    BY <1>1, <1>2 DEF DeadlockFound, LockWaitTimeout, Fails
  <2> QED BY <2>1, Zenon DEF Well
<1>3. CASE HangUp(s) \/ LostBetween(s)
  BY <1>3 DEF HangUp, LostBetween, Well
<1> QED BY <1>2, <1>3 DEF Undoes

\* With its connection A loses its transaction and its locks.
LEMMA PhantomLoses ==
  ASSUME PhantomCalm, Undoes("A")
  PROVE  LocksOfA'
<1>1. TypeInv /\ LocksOfA /\ Tables /\ (\A l \in locks : IsLock(l)) /\ "A" \in Sessions
  BY SessionNames DEF PhantomCalm, PhantomLocks, PhantomNow, Frame
<1>2. RollBack("A")
  BY <1>1, UndoesMoves
<1>3. iso'["A"] = "RR" /\ inTx'["A"] = FALSE /\ MyLocks("A")' = {}
  BY <1>1, <1>2, RollBackFrame
<1>4. ~Well("A")' \/ "A" \in dropped'
  BY <1>1, UndoesEnds
<1> QED BY <1>3, <1>4, Zenon DEF LocksOfA

\* A step of B or C does not touch A's locks.
LEMMA PhantomOthers ==
  ASSUME PhantomCalm, [Next]_vars, NEW s \in Sessions,
         Statement(s) \/ Return(s) \/ NobodyToAnswer(s) \/ Undoes(s)
  PROVE  /\ s # "A" => LocksOfA'
         /\ \A t \in Sessions : Rests(t)'
<1>1. /\ TypeInv /\ LocksOfA /\ Tables /\ (\A l \in locks : IsLock(l)) /\ "A" \in Sessions
      /\ pc = [t \in Sessions |-> pc[t]] /\ pc["A"] \in Nat /\ \A t \in Sessions : Rests(t)
  BY SessionNames DEF PhantomCalm, PhantomLocks, PhantomNow, Frame, TypeInv, ControlOK
<1>2. (\A t \in Sessions : t # s => Untouched(t)) /\ Rests(s)'
  <2>1. CASE Statement(s)
    <3>1. Start(s, Op(s).st) \/ Wait(s, Op(s).st) \/ Proceed(s, Op(s).st)
      BY <1>1, <2>1, StatementStands
    <3>2. \A t \in Sessions : t # s => Untouched(t)
      BY <1>1, <3>1, StatementFrame
    <3>3. Wait(s, Op(s).st) => at'[s] = at[s]
      BY DEF Wait
    <3>4. Start(s, Op(s).st) \/ Proceed(s, Op(s).st) => at'[s].stage # "idle"
      BY <1>1, StatementBusy
    <3> QED BY <1>1, <3>1, <3>2, <3>3, <3>4 DEF Rests
  <2>2. CASE Return(s) \/ NobodyToAnswer(s)
    <3>1. Finish(s)
      BY <2>2 DEF Return, NobodyToAnswer
    <3>2. at'[s] = Idle /\ \A t \in Sessions : t # s => Untouched(t)
      BY <1>1, <3>1, FinishFrame
    <3> QED BY <3>2 DEF Rests
  <2>3. CASE Undoes(s)
    <3>1. RollBack(s)
      BY <2>3, UndoesMoves
    <3>2. at'[s] = Idle /\ \A t \in Sessions : t # s => Untouched(t)
      BY <1>1, <3>1, RollBackFrame
    <3> QED BY <3>2 DEF Rests
  <2> QED BY <2>1, <2>2, <2>3
<1>3. \A t \in Sessions : t # s => Rests(t)'
  BY <1>1, <1>2 DEF Rests, Untouched
<1>4. ASSUME s # "A"
      PROVE  LocksOfA'
  <2>1. at'["A"] = at["A"] /\ inTx'["A"] = inTx["A"] /\ iso'["A"] = iso["A"] /\ MyLocks("A")' = MyLocks("A")
    BY <1>1, <1>2, <1>4 DEF Untouched
  <2>2. pc'["A"] = pc["A"]
    <3>1. pc' = pc \/ Step({s})
      BY UndoesMoves DEF Statement, Return, NobodyToAnswer
    <3> QED BY <1>1, <1>4, <3>1 DEF Step
  <2>3. (Well("A")' => Well("A")) /\ dropped \subseteq dropped'
    <3>1. err'["A"] = err["A"] \/ Well("A")
      BY <1>1, StepMoves
    <3> QED BY <1>1, <3>1, StepMoves DEF Well
  <2> QED BY <1>1, <2>1, <2>2, <2>3, LocksOfAStay
<1> QED BY <1>2, <1>3, <1>4

\* The phantom read program stays on its plan.
LEMMA PhantomCalmStep ==
  ASSUME PhantomCalm, [Next]_vars, ended' = "no"
  PROVE  PhantomCalm'
<1>1. /\ PhantomNow /\ TypeInv /\ Frame /\ LocksOfA /\ tableLock = NoSession /\ prog = PhantomRead
      /\ PhantomInv /\ \A t \in Sessions : Rests(t)
  BY DEF PhantomCalm, PhantomLocks, PhantomNow, PhantomInv
<1>2. PhantomNow'
  <2>1. TypeInv' /\ PhantomInv' /\ prog' = PhantomRead
    BY <1>1, TypesStep, PhantomStep, ProgramStays
  <2> QED BY <2>1 DEF PhantomInv, PhantomNow
<1>3. Frame' /\ PhantomErrors' /\ PhantomQueue'
  BY <1>1, FrameStep, PhantomFails, PhantomAsks
<1> DEFINE Rest == LocksOfA' /\ tableLock' = NoSession /\ \A t \in Sessions : Rests(t)'
<1>5. ASSUME UNCHANGED <<dbVars, pc, tableLock>> PROVE Rest
  <2>1. /\ pc' = pc /\ locks' = locks /\ at' = at /\ inTx' = inTx /\ iso' = iso /\ tableLock' = tableLock
    BY <1>5 DEF dbVars
  <2>2. MyLocks("A")' = MyLocks("A") /\ pc["A"] \in Nat
    BY <1>1, <2>1, SessionNames DEF MyLocks, TypeInv, ControlOK
  <2>3. (Well("A")' => Well("A")) /\ dropped \subseteq dropped'
    <3>1. "A" \in Sessions
      BY SessionNames
    <3>2. err'["A"] = err["A"] \/ Well("A")
      BY <1>1, <3>1, StepMoves
    <3> QED BY <1>1, <3>2, StepMoves DEF Well
  <2>4. LocksOfA'
    BY <1>1, <2>1, <2>2, <2>3, LocksOfAStay
  <2> QED BY <1>1, <2>1, <2>4 DEF Rests
<1>6. ASSUME NEW s \in Sessions, SessionStep(s) \/ ConnectionLost(s)
      PROVE  Rest
  <2>1. CASE SetIsolation(s) \/ BeginTx(s) \/ CommitTx(s) \/ \E r \in Sessions : Rendezvous(s, r)
    <3>1. LocksOfA' /\ tableLock' = tableLock /\ at' = at
      BY <2>1, PhantomOfA
    <3> QED BY <1>1, <3>1 DEF Rests
  <2>2. CASE LockTables(s) \/ UnlockTables(s) \/ CondWait(s) \/ Broadcast(s) \/ Woken(s) \/ Select(s)
    <3>1. Running(s) /\ Op(s).op \in {"lockTables", "unlockTables", "condWait", "broadcast", "woken", "select"}
      BY <2>2 DEF LockTables, UnlockTables, CondWait, Broadcast, Woken, Select, At
    <3>2. \A ch : Send(ch).op = "send" /\ Recv(ch).op = "recv"
      BY DEF Send, Recv
    <3>3. Op(s).op \in {"readCommitted", "begin", "sql", "send", "recv", "commit"}
      <4>1. PhantomPlaces
        BY <1>1 DEF PhantomNow
      <4> QED BY <1>1, <3>1, <3>2, <4>1, PhantomOps
    <3> QED BY <3>1, <3>3
  <2>3. CASE Statement(s) \/ Return(s) \/ NobodyToAnswer(s) \/ Undoes(s)
    <3>1. (s # "A" => LocksOfA') /\ \A t \in Sessions : Rests(t)'
      BY <2>3, PhantomOthers
    <3>2. s = "A" => LocksOfA'
      BY <2>3, PhantomSqlOfA, PhantomLoses
    <3>3. tableLock' = NoSession
      <4>1. Undoes(s) => tableLock' = tableLock \/ tableLock' = NoSession
        BY UndoesMoves
      <4> QED BY <1>1, <2>3, <4>1 DEF Statement, Return, NobodyToAnswer
    <3> QED BY <3>1, <3>2, <3>3
  <2>4. CASE Dies(s)
    <3>1. UNCHANGED <<dbVars, pc, tableLock>>
      BY <2>4, DiesMoves
    <3> QED BY <1>5, <3>1
  <2> QED BY <1>6, <2>1, <2>2, <2>3, <2>4, StepKinds DEF Quiet
<1>7. ~MainReturns
  BY DEF MainReturns
<1>8. ASSUME UNCHANGED vars PROVE Rest
  <2>1. UNCHANGED <<dbVars, pc, tableLock>>
    BY <1>8 DEF vars
  <2> QED BY <1>5, <2>1
<1>9. Rest
  BY <1>6, <1>7, <1>8 DEF Next
<1>10. \A t \in {"B", "C"} : pc'[t] # 2 => MyLocks(t)' = {}
  BY PhantomReleases
<1> QED BY <1>2, <1>3, <1>9, <1>10 DEF PhantomCalm, PhantomLocks

-----------------------------------------------------------------------------
(* What the two programs show.                                                 *)

\* In neither of them a statement is labelled "blocked".
LEMMA CalmLabels ==
  ASSUME DemoCalm \/ PhantomCalm, NEW s \in Sessions, Return(s)
  PROVE  ~Op(s).blocked
<1>1. Running(s) /\ Op(s).op = "sql"
  BY DEF Return, At
<1>2. \A st : Free(st).blocked = FALSE
  BY DEF Free
<1>3. CASE DemoCalm
  <2>1. /\ prog = MetadataDemo /\ pc["A"] \in 1 .. 5 /\ pc["B"] \in 1 .. 4 /\ pc["C"] = 1
    BY <1>3 DEF DemoCalm, DemoInv
  <2>2. s = "A" /\ pc[s] = 2
    BY <1>1, <2>1, DemoOps
  <2>3. Script("A") = << Do("lockTables"), Free(Add1(Eq("p", 123))), Do("broadcast"), Do("unlockTables") >>
    BY <2>1 DEF Script, MetadataDemo, Program
  <2>4. Op(s) = Free(Add1(Eq("p", 123)))
    BY <2>2, <2>3 DEF Op
  <2> QED BY <1>2, <2>4
<1>4. CASE PhantomCalm
  <2>1. PhantomNow /\ prog = PhantomRead /\ InSql(s)
    <3>1. pc[s] <= Len(Script(s))
      BY <1>1 DEF Running
    <3> QED BY <1>1, <1>4, <3>1 DEF PhantomCalm, PhantomNow, InSql
  <2>2. \/ s = "A" /\ pc["A"] \in {3, 6, 9}
        \/ s = "B" /\ pc["B"] = 2
        \/ s = "C" /\ pc["C"] = 2
    BY <2>1, PhantomWorks
  <2>3. /\ Script("A") = << Do("readCommitted"), Do("begin"), Free(Phantoms), Send("t2"),
                            Recv("t3"), Free(Phantoms), Send("t4"),
                            Recv("t5"), Free(Phantoms), Do("commit") >>
        /\ Script("B") = << Recv("t2"), Free(Set5(Eq("p", 0))), Send("t3") >>
        /\ Script("C") = << Recv("t4"), Free(Insert(1, 1, 5)), Send("t5") >>
    BY <2>1 DEF Script, PhantomRead, Program
  <2>4. \E st : Op(s) = Free(st)
    BY <2>2, <2>3 DEF Op
  <2> QED BY <1>2, <2>4
<1> QED BY <1>3, <1>4

\* Nothing waits for A, but for the phantom program at the default level.
LEMMA CalmWaits ==
  ASSUME DemoCalm \/ PhantomCalm
  PROVE  OnlyLabelledWait
<1>1. CASE DemoCalm
  BY <1>1, NoRequestMeets DEF DemoCalm, Calm, OnlyLabelledWait
<1>2. CASE PhantomCalm
  <2>1. SUFFICES ASSUME NEW s \in Sessions, NEW l \in locks, l.s = "A", Conflicts(waits[s], l)
                 PROVE  AtDefaultLevel
    BY DEF OnlyLabelledWait
  <2>2. waits[s] # NoRequest
    BY <2>1, NoRequestMeets
  <2>3. PhantomQueue /\ Waiting(s)
    BY <1>2, <2>2 DEF PhantomCalm, Waiting
  <2>4. s = "B" \/ s = "C"
    BY <2>2, <2>3, SessionNames DEF PhantomQueue
  <2>5. /\ at[s].stage # "idle"
        /\ s = "B" => waits[s].rec = <<0, 0>>
        /\ s = "C" => waits[s].kind = "insert"
    BY <2>3, <2>4 DEF PhantomQueue
  <2>6. l.s # s
    BY <2>1, <2>4
  <2>7. inTx["A"] /\ iso["A"] = "RR"
    BY <1>2, <2>1, <2>5, <2>6, PhantomBars
  <2>8. prog.name = "phantom"
    BY <1>2 DEF PhantomCalm, PhantomNow, PhantomRead, Program
  <2> QED BY <2>7, <2>8 DEF AtDefaultLevel
<1> QED BY <1>1, <1>2

\* And no error, but for a timeout once A has another connection.
LEMMA CalmFails ==
  ASSUME DemoCalm \/ PhantomCalm, [Next]_vars
  PROVE  ErrorsAsShown'
<1>1. CASE DemoCalm
  <2>1. NoLockErrors'
    BY <1>1, CalmErrors DEF DemoCalm
  <2> QED BY <2>1, Zenon DEF NoLockErrors, RolledBack, ErrorsAsShown
<1>2. CASE PhantomCalm
  <2>1. PhantomErrors'
    BY <1>2, PhantomFails
  <2>2. prog'.name = "phantom"
    BY <1>2, ProgramStays DEF PhantomCalm, PhantomNow, PhantomRead, Program
  <2> QED BY <2>1, <2>2, Zenon DEF PhantomErrors, ErrorsAsShown
<1> QED BY <1>1, <1>2

-----------------------------------------------------------------------------
(* The theorems.                                                               *)

\* Every program keeps to its plan until it ends.
OnPlan == (\E pl : \E stops : CaseNow(pl, stops)) \/ DemoCalm \/ PhantomCalm

OrderInv ==
  /\ BlockedAsLabelled /\ ErrorsAsShown /\ DemoInv
  /\ IF ended = "no" THEN OnPlan ELSE \A s \in Sessions : ~Open(s) /\ waits[s] = NoRequest

\* Every program starts on its plan.
LEMMA ProgramsStart ==
  ASSUME Init
  PROVE  OnPlan /\ DemoInv
<1>1. prog \in Programs /\ TypeInv
  BY InitTypes DEF Init
<1>2. ASSUME \E pl : \E stops : CasePlan(pl, stops, prog)
      PROVE  OnPlan
  BY <1>2, CaseStarts DEF OnPlan
<1>3. \/ \E pl : \E stops : CasePlan(pl, stops, prog)
      \/ prog = MetadataDemo \/ prog = PhantomRead
  <2>1. CASE prog = Case01
    BY <2>1, Case01Plan
  <2>2. CASE prog \in Case02
    BY <2>2, Case02Plan
  <2>3. CASE prog = Case03
    BY <2>3, Case03Plan
  <2>4. CASE prog = Case04
    BY <2>4, Case04Plan
  <2>5. CASE prog = Case05
    BY <2>5, Case05Plan
  <2>6. CASE prog = Case06
    BY <2>6, Case06Plan
  <2>7. CASE prog = Case07
    BY <2>7, Case07Plan
  <2>8. CASE prog = Case08
    BY <2>8, Case08Plan
  <2> QED BY <1>1, <2>1, <2>2, <2>3, <2>4, <2>5, <2>6, <2>7, <2>8 DEF Programs
<1>4. /\ pc["A"] = 1 /\ pc["B"] = 1 /\ pc["C"] = 1 /\ ended = "no" /\ tableLock = NoSession /\ locks = {}
      /\ at = [s \in Sessions |-> Idle] /\ inTx = [s \in Sessions |-> FALSE]
      /\ waits = [s \in Sessions |-> NoRequest] /\ before = [s \in Sessions |-> {}]
      /\ iso = [s \in Sessions |-> "RR"] /\ undo = [s \in Sessions |-> << >>]
  BY SessionNames DEF Init, InitDB
<1>5. NoLockErrors /\ Together /\ PhantomErrors
  <2>1. \A s \in Sessions : err[s] = ""
    BY DEF Init
  <2> QED BY <2>1, Zenon DEF NoLockErrors, RolledBack, Together, PhantomErrors
<1>6. \A s : MyLocks(s) = {}
  BY <1>4 DEF MyLocks
<1>7. Calm
  <2>1. {} \in SUBSET Sessions
    OBVIOUS
  <2> QED BY <1>4, <2>1 DEF Calm, Frame, Tables
<1>8. DemoInv
  BY <1>4 DEF DemoInv, NoSession
<1>9. CASE prog = MetadataDemo
  BY <1>1, <1>4, <1>5, <1>6, <1>7, <1>8, <1>9 DEF DemoCalm, OnPlan
<1>10. CASE prog = PhantomRead
  <2>1. Sessions = {"A", "B", "C"} /\ \A s \in Sessions : at[s] = Idle /\ undo[s] = << >> /\ inTx[s] = FALSE
    BY <1>4, SessionNames
  <2>2. PhantomPlaces
    BY <1>4 DEF PhantomPlaces
  <2>3. PhantomSeen
    <3>1. seen = [s \in Sessions |-> << >>]
      BY DEF Init
    <3>2. Shows(1) = << >>
      BY DEF Shows
    <3> QED BY <1>4, <2>1, <3>1, <3>2 DEF PhantomSeen
  <2>4. rows = Six
    BY <1>10 DEF Init, InitDB, PhantomRead, Program
  <2>5. PhantomRows
    <3>1. /\ 1 # 2 /\ 1 \notin {3, 4}
      OBVIOUS
    <3>2. pc["B"] # 2 /\ pc["C"] # 2 /\ pc["B"] \notin {3, 4} /\ pc["C"] \notin {3, 4}
      BY <1>4, <3>1
    <3>3. inTx = [s \in Sessions |-> inTx[s]] /\ ~inTx["B"] /\ ~inTx["C"]
      BY <1>4, <2>1
    <3> QED BY <2>1, <2>4, <3>2, <3>3, Zenon DEF PhantomRows
  <2>6. PhantomScan
    <3>1. at["A"].stage = "idle"
      BY <2>1, IdleIs
    <3> QED BY <3>1 DEF PhantomScan, Selects
  <2>7. LocksOfA
    <3>1. inTx["A"] = FALSE /\ pc["A"] # 2 /\ MyLocks("A") = {} /\ iso["A"] = "RR"
      BY <1>4, <1>6, <2>1
    <3> QED BY <3>1, Zenon DEF LocksOfA
  <2>8. PhantomLocks
    BY <1>4, <1>6, <2>1, <2>7 DEF PhantomLocks, Rests
  <2>9. PhantomNow
    BY <1>1, <1>4, <1>10, <2>2, <2>3, <2>5, <2>6 DEF PhantomNow
  <2>10. PhantomQueue
    BY <1>7, SessionNames DEF Calm, PhantomQueue, Waiting
  <2> QED BY <1>5, <1>7, <1>8, <2>8, <2>9, <2>10 DEF Calm, PhantomCalm, OnPlan
<1> QED BY <1>2, <1>3, <1>8, <1>9, <1>10

\* Nothing is labelled or shown yet.
LEMMA OrderInit ==
  ASSUME Init
  PROVE  OrderInv
<1>1. \A s \in Sessions : err[s] = ""
  BY DEF Init
<1>2. ErrorsAsShown
  BY <1>1, Zenon DEF ErrorsAsShown
<1>3. \A s \in Sessions : 1 .. pc[s] - 1 = {}
  <2>1. \A s \in Sessions : pc[s] = 1
    BY DEF Init
  <2>2. 1 .. 1 - 1 = {}
    OBVIOUS
  <2> QED BY <2>1, <2>2
<1>4. BlockedAsLabelled
  BY <1>3 DEF BlockedAsLabelled
<1>5. ended = "no"
  BY DEF Init
<1> QED BY <1>2, <1>4, <1>5, ProgramsStart DEF OrderInv

\* Nobody has a request left when the connections are closed.
LEMMA EndWaits ==
  ASSUME TypeInv, OnPlan, ended = "no", [Next]_vars, ended' # "no"
  PROVE  \A s \in Sessions : ~Open(s)' /\ waits'[s] = NoRequest
<1>1. CASE MainReturns
  BY <1>1, EndCloses DEF MainReturns, RollBackAll
<1>2. CASE (\A s \in Sessions : ~Open(s)) /\ UNCHANGED <<dbVars, prog, pc, tableLock, err, dropped>>
  <2>1. \A s \in Sessions : at[s].stage = "idle"
    BY <1>2, IdleIs DEF Open
  <2>2. waits' = waits
    BY <1>2 DEF dbVars
  <2>3. ASSUME NEW s \in Sessions PROVE waits[s] = NoRequest
    <3>1. CASE \E pl : \E stops : CaseNow(pl, stops)
      <4>1. PICK pl : \E stops : CaseNow(pl, stops)
        BY <3>1
      <4>2. Queued(pl, s)
        BY <4>1 DEF CaseNow, CaseInv, Local
      <4> QED BY <2>1, <2>3, <4>2 DEF Queued
    <3>2. CASE DemoCalm
      BY <3>2 DEF DemoCalm, Calm
    <3>3. CASE PhantomCalm
      BY <2>1, <2>3, <3>3, SessionNames DEF PhantomCalm, PhantomQueue, Waiting
    <3> QED BY <3>1, <3>2, <3>3 DEF OnPlan
  <2> QED BY <2>2, <2>3, EndCloses
<1> QED BY <1>1, <1>2, EndCloses

\* What one step of a program on its plan shows.
LEMMA PlanShows ==
  ASSUME TypeInv, OnPlan, BlockedAsLabelled, ErrorsAsShown, DemoInv, [Next]_vars
  PROVE  BlockedAsLabelled' /\ ErrorsAsShown' /\ DemoInv' /\ (ended' = "no" => OnPlan')
<1>1. CASE \E pl : \E stops : CaseNow(pl, stops)
  <2>1. PICK pl : \E stops : CaseNow(pl, stops)
    BY <1>1
  <2>2. PICK stops : CaseNow(pl, stops)
    BY <2>1
  <2>3. \A s \in Sessions : Return(s) => ~Op(s).blocked \/ LostA
    BY <2>2, CaseBlocked
  <2>4. BlockedAsLabelled'
    BY <2>3, LabelStep
  <2>5. ErrorsAsShown'
    BY <2>2, CaseErrors
  <2>6. ended' = "no" => CaseNow(pl, stops)'
    BY <2>2, CaseStep
  <2>7. prog # MetadataDemo
    <3>1. prog.script["A"][1].op = "begin"
      BY <2>2 DEF CaseNow, CasePlan, ScriptA
    <3>2. MetadataDemo.script["A"][1].op = "lockTables"
      BY DEF MetadataDemo, Program, Do
    <3> QED BY <3>1, <3>2
  <2>8. DemoInv'
    BY <2>7, ProgramStays DEF DemoInv
  <2> QED BY <2>4, <2>5, <2>6, <2>8 DEF OnPlan
<1>2. CASE DemoCalm \/ PhantomCalm
  <2>1. BlockedAsLabelled'
    BY <1>2, CalmLabels, LabelStep
  <2>2. ErrorsAsShown'
    BY <1>2, CalmFails
  <2>3. DemoInv'
    <3>1. CASE DemoCalm
      BY <3>1, DemoStep DEF DemoCalm
    <3>2. CASE PhantomCalm
      <4>1. prog.name = "phantom" /\ MetadataDemo.name = "metadata"
        BY <3>2 DEF PhantomCalm, PhantomNow, PhantomRead, MetadataDemo, Program
      <4> QED BY <4>1, ProgramStays DEF DemoInv
    <3> QED BY <1>2, <3>1, <3>2
  <2>4. ended' = "no" => OnPlan'
    BY <1>2, DemoCalmStep, PhantomCalmStep DEF OnPlan
  <2> QED BY <2>1, <2>2, <2>3, <2>4
<1> QED BY <1>1, <1>2 DEF OnPlan

\* No step of any program breaks it.
LEMMA OrderStep == TypeInv /\ OrderInv /\ [Next]_vars => OrderInv'
<1> SUFFICES ASSUME TypeInv, OrderInv, [Next]_vars
             PROVE  OrderInv'
  OBVIOUS
<1>1. CASE ended = "no"
  <2>1. OnPlan
    BY <1>1 DEF OrderInv
  <2>2. BlockedAsLabelled' /\ ErrorsAsShown' /\ DemoInv' /\ (ended' = "no" => OnPlan')
    BY <2>1, PlanShows DEF OrderInv
  <2>3. ended' # "no" => \A s \in Sessions : ~Open(s)' /\ waits'[s] = NoRequest
    BY <1>1, <2>1, EndWaits
  <2> QED BY <2>2, <2>3 DEF OrderInv
<1>2. CASE ended # "no"
  <2>1. UNCHANGED vars
    BY <1>2, ClosedStays DEF OrderInv
  <2>2. /\ pc' = pc /\ prog' = prog /\ err' = err /\ dropped' = dropped /\ waits' = waits /\ ended' = ended
        /\ at' = at /\ inTx' = inTx /\ iso' = iso /\ tableLock' = tableLock /\ waiting' = waiting
    BY <2>1 DEF vars, dbVars
  <2>3. BlockedAsLabelled' /\ ErrorsAsShown'
    BY <2>2 DEF OrderInv, BlockedAsLabelled, LostA, ErrorsAsShown, Shown, Script, Done, Op
  <2>4. DemoInv'
    BY <2>2 DEF OrderInv, DemoInv, LostA, Well
  <2> QED BY <1>2, <2>2, <2>3, <2>4 DEF OrderInv, Open
<1> QED BY <1>1, <1>2

\* And while it holds, only the labelled statements wait for A.
LEMMA OrderWaits == OrderInv => OnlyLabelledWait
<1> SUFFICES ASSUME OrderInv
             PROVE  OnlyLabelledWait
  OBVIOUS
<1>1. CASE ended # "no"
  BY <1>1, NoRequestMeets DEF OrderInv, OnlyLabelledWait
<1>2. CASE \E pl : \E stops : CaseNow(pl, stops)
  BY <1>2, CaseWaits
<1>3. CASE DemoCalm \/ PhantomCalm
  BY <1>3, CalmWaits
<1> QED BY <1>1, <1>2, <1>3 DEF OrderInv, OnPlan

\* The invariant holds.
LEMMA OrderHolds == Spec => []OrderInv
<1>1. Init => OrderInv
  BY OrderInit
<1> QED BY <1>1, OrderStep, TypesHold, PTL DEF Spec

(* Of every program and in every interleaving of its sessions: a statement   *)
(* that a session string or a comment says is blocked does not return unless  *)
(* A has lost a connection (lock-cases/case-*.go).                            *)
THEOREM LabelsHold == Spec => []BlockedAsLabelled
<1>1. OrderInv => BlockedAsLabelled
  BY DEF OrderInv
<1> QED BY <1>1, OrderHolds, PTL

(* And only such a statement ever waits for a lock of A, but for the phantom  *)
(* program whose A begins at the default isolation level, the connection that *)
(* it had set to READ COMMITTED being lost (shared/phantom-read.go:47-50).    *)
THEOREM OthersGoOn == Spec => []OnlyLabelledWait
BY OrderHolds, OrderWaits, PTL

(* A deadlock is found in case 08 alone, and it is B that is rolled back; and *)
(* when a lock wait times out, every session has shown what it is there for,  *)
(* unless A of the phantom program had its connection replaced.               *)
THEOREM ErrorsAreShown == Spec => []ErrorsAsShown
<1>1. OrderInv => ErrorsAsShown
  BY DEF OrderInv
<1> QED BY <1>1, OrderHolds, PTL

(* The SELECT of session B in the table lock demo (metadata/main.go) is done  *)
(* only after A's UNLOCK TABLES, unless A has lost a connection: whatever the *)
(* order of Broadcast, Wait and the statements.                               *)
THEOREM ReadsComeLate == Spec => []ReadsAfterUnlock
<1>1. OrderInv /\ prog \in Programs => ReadsAfterUnlock
  <2>1. SUFFICES ASSUME DemoInv, prog = MetadataDemo, Done("B"), ~LostA
                 PROVE  pc["A"] > 4
    BY ProgramNames DEF ReadsAfterUnlock, OrderInv
  <2>2. Script("B") = << Do("condWait"), Do("woken"), Do("select") >>
    BY <2>1 DEF Script, MetadataDemo, Program
  <2>3. pc["B"] > 3
    BY <2>1, <2>2 DEF Done
  <2> QED BY <2>1, <2>3 DEF DemoInv
<1> QED BY <1>1, OrderHolds, ProgramHolds, PTL
=============================================================================
