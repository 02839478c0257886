------------------------------- MODULE InnoDB -------------------------------
(***************************************************************************)
(* The row locks of one table t(id PRIMARY KEY, c, d, KEY c (c)), as the   *)
(* programs under src/db-engines/mysql/locks meet them.  External: the     *)
(* server (8.0, default settings) is modelled from how the statements of   *)
(* those programs use it and from what their "blocked" labels and READMEs  *)
(* say of them.  A lock covers a record of an index, the gap before it, or *)
(* both (next-key); a statement takes its locks one at a time, so that two *)
(* statements interleave between any two locks.                            *)
(***************************************************************************)
EXTENDS Integers, FiniteSets, Sequences

CONSTANT Sessions          \* one pooled connection each

VARIABLES
    rows,                  \* id -> row; sec: its entry in index c is written
    locks,                 \* granted: [s, idx, rec, mode, kind]
    waits,                 \* session -> its queued request, or NoRequest
    before,                \* session -> the sessions queued before it
    undo,                  \* session -> (id -> the row before its writes)
    inTx,                  \* session -> between BEGIN and COMMIT
    iso,                   \* session -> isolation level, "RR" or "RC"
    at                     \* session -> where its statement stands

dbVars == <<rows, locks, waits, before, undo, inTx, iso, at>>

Supremum == <<1000, 1000>>             \* behind the last record of an index
NoRow    == [c |-> -1, d |-> -1, del |-> TRUE, sec |-> FALSE]
Idle     == [stage |-> "idle", rec |-> Supremum, hits |-> {}]

Put(f, k, v)    == [i \in DOMAIN f \cup {k} |-> IF i = k THEN v ELSE f[i]]
PutNew(f, k, v) == IF k \in DOMAIN f THEN f ELSE Put(f, k, v)

-----------------------------------------------------------------------------
(* Indexes: "p" holds <<id, id>>, "c" holds <<c, id>>. *)

Key(idx, id)  == IF idx = "p" THEN <<id, id>> ELSE <<rows[id].c, id>>
Records(idx)  == {Supremum} \cup
                 {Key(idx, i) : i \in {j \in DOMAIN rows : idx = "p" \/ rows[j].sec}}
Before(x, y)  == x[1] < y[1] \/ (x[1] = y[1] /\ x[2] < y[2])
Least(S)      == CHOOSE x \in S : \A y \in S : x = y \/ Before(x, y)
Successor(idx, k) == Least({r \in Records(idx) : Before(k, r)})

(* A condition is [idx, lo, loIn, hi, hiIn]: a range of one index. *)
FirstOf(w)    == Least({r \in Records(w.idx) : w.lo < r[1] \/ (w.loIn /\ w.lo = r[1])})
InRange(w, r) == r[1] < w.hi \/ (w.hiIn /\ r[1] = w.hi)
OneValue(w)   == w.lo = w.hi

-----------------------------------------------------------------------------
(* Locks. *)

Lock(s, idx, rec, mode, kind) ==
    [s |-> s, idx |-> idx, rec |-> rec, mode |-> mode, kind |-> kind]

NoRequest == Lock("none", "p", Supremum, "S", "none")

CoversGap(l) == l.kind \in {"gap", "nextkey"}
CoversRec(l) == l.kind \in {"rec", "nextkey"}

(* An insert waits for the gap; nothing waits for an insert intention, and a
   gap request waits for nothing. *)
Conflicts(req, l) ==
    /\ req.s # l.s /\ req.idx = l.idx /\ req.rec = l.rec
    /\ \/ req.kind = "insert" /\ CoversGap(l)
       \/ CoversRec(req) /\ CoversRec(l) /\ "X" \in {req.mode, l.mode}

Holds(req) == \E l \in locks :
    /\ l.s = req.s /\ l.idx = req.idx /\ l.rec = req.rec
    /\ req.kind # "insert" /\ l.kind \in {req.kind, "nextkey"} /\ l.mode \in {req.mode, "X"}

(* The granted locks and the earlier requests that keep req waiting. *)
Waiting(s)    == waits[s] # NoRequest
Ahead(s)      == {waits[t] : t \in IF Waiting(s) THEN before[s] ELSE Sessions \ {s}}
Blockers(req) == IF Holds(req) THEN {}
                 ELSE {l.s : l \in {m \in locks \cup Ahead(req.s) : Conflicts(req, m)}}
WaitsFor(s, t) == Waiting(s) /\ t \in Blockers(waits[s])

Dequeue(s) == /\ waits' = [waits EXCEPT ![s] = NoRequest]
              /\ before' = [t \in Sessions |-> IF t = s THEN {} ELSE before[t] \ {s}]
Enqueue(s, req) ==
    /\ waits' = [waits EXCEPT ![s] = req]
    /\ before' = [t \in Sessions |-> IF t = s THEN {u \in Sessions \ {s} : Waiting(u)}
                                     ELSE before[t] \ {s}]

(* What a scan locks at record r: repeatable read takes next-key locks, only
   the record where a unique key equals the lower bound, and only the gap
   where an equality or a primary key range ends. *)
ScanKind(w, r) ==
    CASE r = Supremum -> "gap"
      [] r # Supremum /\ InRange(w, r) ->
            IF w.idx = "p" /\ w.loIn /\ r[1] = w.lo THEN "rec" ELSE "nextkey"
      [] OTHER -> IF w.idx = "p" \/ OneValue(w) THEN "gap" ELSE "nextkey"

(* A secondary index entry is enough only for a shared read of its columns. *)
NeedsRow(st) == st.w.idx = "c" /\ ~(st.covering /\ st.mode = "S")

Request(s, st) ==
    LET stage == at[s].stage IN
    CASE stage = "index" -> Lock(s, st.w.idx, at[s].rec, st.mode,
                                 IF iso[s] = "RC" THEN "rec" ELSE ScanKind(st.w, at[s].rec))
      [] stage = "row"   -> Lock(s, "p", <<at[s].rec[2], at[s].rec[2]>>, st.mode, "rec")
      [] stage = "insP"  -> Lock(s, "p", Successor("p", <<st.id, st.id>>), "X", "insert")
      [] stage = "insC"  -> Lock(s, "c", Successor("c", <<st.c, st.id>>), "X", "insert")

-----------------------------------------------------------------------------
(* Statements. *)

Start(s, st) ==
    /\ at[s] = Idle
    /\ at' = [at EXCEPT ![s] = IF st.do = "insert" THEN [Idle EXCEPT !.stage = "insP"]
                               ELSE [stage |-> "index", rec |-> FirstOf(st.w), hits |-> {}]]
    /\ UNCHANGED <<rows, locks, waits, before, undo, inTx, iso>>

Wait(s, st) ==
    /\ at[s].stage \in {"index", "row", "insP", "insC"}
    /\ LET req == Request(s, st) IN
       /\ Blockers(req) # {}
       /\ waits[s] # req
       /\ Enqueue(s, req)
    /\ UNCHANGED <<rows, locks, undo, inTx, iso, at>>

(* A row whose insert has been undone meanwhile is passed over. *)
Matches(st, id) == /\ id \in DOMAIN rows /\ ~rows[id].del
                   /\ st.do = "select5" => rows[id].d = 5

(* The row is reached: change it, then go on to the next record unless the
   condition cannot hold again. *)
Reach(s, st, held) ==
    LET r    == at[s].rec
        id   == r[2]
        hit  == Matches(st, id)
        hits == at[s].hits \cup (IF hit THEN {id} ELSE {})
        new  == CASE st.do = "delete" -> [rows[id] EXCEPT !.del = TRUE]
                  [] st.do = "add1"   -> [rows[id] EXCEPT !.d = @ + 1]
                  [] st.do = "set5"   -> [rows[id] EXCEPT !.d = 5]
                  [] OTHER            -> rows[id]
        done == Cardinality(hits) = st.limit \/ (st.w.idx = "p" /\ st.w.hiIn /\ r[1] = st.w.hi)
    IN  /\ rows' = IF hit THEN [rows EXCEPT ![id] = new] ELSE rows
        /\ undo' = IF hit /\ new # rows[id] THEN [undo EXCEPT ![s] = PutNew(@, id, rows[id])] ELSE undo
        /\ locks' = IF iso[s] = "RC" /\ ~hit THEN locks ELSE locks \cup {held}
        /\ at' = [at EXCEPT ![s] = IF done THEN [stage |-> "end", rec |-> r, hits |-> hits]
                                   ELSE [stage |-> "index", rec |-> Successor(st.w.idx, r), hits |-> hits]]

ScanIndex(s, st, req) ==
    /\ at[s].stage = "index"
    /\ IF ~InRange(st.w, at[s].rec)
       THEN /\ at' = [at EXCEPT ![s].stage = "end"]
            /\ locks' = IF iso[s] = "RC" THEN locks ELSE locks \cup {req}
            /\ UNCHANGED <<rows, undo>>
       ELSE IF NeedsRow(st)
       THEN /\ at' = [at EXCEPT ![s].stage = "row"]
            /\ locks' = locks \cup {req}
            /\ UNCHANGED <<rows, undo>>
       ELSE Reach(s, st, req)

ScanRow(s, st, req) == at[s].stage = "row" /\ Reach(s, st, req)

(* The new record is locked, and the locks on the gap it falls into now cover
   the gap before it too. *)
Inherited(idx, succ, k) ==
    {[l EXCEPT !.rec = k, !.kind = "gap"] :
        l \in {m \in locks : m.idx = idx /\ m.rec = succ /\ CoversGap(m)}}

InsertPrimary(s, st, req) ==
    /\ at[s].stage = "insP"
    /\ rows' = Put(rows, st.id, [c |-> st.c, d |-> st.d, del |-> FALSE, sec |-> FALSE])
    /\ undo' = [undo EXCEPT ![s] = PutNew(@, st.id, NoRow)]
    /\ locks' = locks \cup {Lock(s, "p", <<st.id, st.id>>, "X", "rec")}
                      \cup Inherited("p", req.rec, <<st.id, st.id>>)
    /\ at' = [at EXCEPT ![s].stage = "insC"]

InsertSecondary(s, st, req) ==
    /\ at[s].stage = "insC"
    /\ rows' = [rows EXCEPT ![st.id].sec = TRUE]
    /\ locks' = locks \cup {Lock(s, "c", <<st.c, st.id>>, "X", "rec")}
                      \cup Inherited("c", req.rec, <<st.c, st.id>>)
    /\ at' = [at EXCEPT ![s].stage = "end"]
    /\ UNCHANGED undo

Proceed(s, st) ==
    /\ at[s].stage \in {"index", "row", "insP", "insC"}
    /\ LET req == Request(s, st) IN
       /\ Blockers(req) = {}
       /\ \/ ScanIndex(s, st, req)
          \/ ScanRow(s, st, req)
          \/ InsertPrimary(s, st, req)
          \/ InsertSecondary(s, st, req)
    /\ Dequeue(s)
    /\ UNCHANGED <<inTx, iso>>

LocksAfter(s) == {l \in locks : l.s # s}

(* Outside a transaction a statement commits by itself. *)
Finish(s) ==
    /\ at[s].stage = "end"
    /\ at' = [at EXCEPT ![s] = Idle]
    /\ locks' = IF inTx[s] THEN locks ELSE LocksAfter(s)
    /\ undo' = IF inTx[s] THEN undo ELSE [undo EXCEPT ![s] = <<>>]
    /\ UNCHANGED <<rows, waits, before, inTx, iso>>

Begin(s) ==
    /\ inTx' = [inTx EXCEPT ![s] = TRUE]
    /\ UNCHANGED <<rows, locks, waits, before, undo, iso, at>>

SetReadCommitted(s) ==
    /\ iso' = [iso EXCEPT ![s] = "RC"]
    /\ UNCHANGED <<rows, locks, waits, before, undo, inTx, at>>

Commit(s) ==
    /\ inTx' = [inTx EXCEPT ![s] = FALSE]
    /\ iso' = [iso EXCEPT ![s] = "RR"]
    /\ locks' = LocksAfter(s)
    /\ undo' = [undo EXCEPT ![s] = <<>>]
    /\ UNCHANGED <<rows, waits, before, at>>

(* Faulty: the inserted row is left behind. *)
UndoneKeepsInserts(u) == [i \in DOMAIN rows \cup DOMAIN u |-> IF i \in DOMAIN u THEN u[i] ELSE rows[i]]

Undone(u) == [i \in {j \in DOMAIN rows \cup DOMAIN u : j \in DOMAIN u => u[j] # NoRow} |->
                IF i \in DOMAIN u THEN u[i] ELSE rows[i]]

RollBack(s) ==
    /\ rows' = Undone(undo[s])
    /\ locks' = LocksAfter(s)
    /\ Dequeue(s)
    /\ undo' = [undo EXCEPT ![s] = <<>>]
    /\ inTx' = [inTx EXCEPT ![s] = FALSE]
    /\ iso' = [iso EXCEPT ![s] = "RR"]
    /\ at' = [at EXCEPT ![s] = Idle]

RollBackAll ==
    LET touched == UNION {DOMAIN undo[s] : s \in Sessions} IN
    /\ rows' = Undone([i \in touched |-> undo[CHOOSE s \in Sessions : i \in DOMAIN undo[s]][i]])
    /\ locks' = {}
    /\ waits' = [s \in Sessions |-> NoRequest] /\ before' = [s \in Sessions |-> {}]
    /\ undo' = [s \in Sessions |-> <<>>]
    /\ inTx' = [s \in Sessions |-> FALSE]
    /\ iso' = [s \in Sessions |-> "RR"]
    /\ at' = [s \in Sessions |-> Idle]

(* Two sessions wait for each other; the one that changed and locked less is
   rolled back. *)
Weight(s)  == Cardinality(DOMAIN undo[s]) + Cardinality({l \in locks : l.s = s})
InCycle(s) == \E t \in Sessions : WaitsFor(s, t) /\ WaitsFor(t, s)
Victim(s)  == InCycle(s) /\ \A t \in Sessions : InCycle(t) => Weight(s) <= Weight(t)

InitDB(data) ==
    /\ rows = data
    /\ locks = {}
    /\ waits = [s \in Sessions |-> NoRequest] /\ before = [s \in Sessions |-> {}]
    /\ undo = [s \in Sessions |-> <<>>]
    /\ inTx = [s \in Sessions |-> FALSE]
    /\ iso = [s \in Sessions |-> "RR"]
    /\ at = [s \in Sessions |-> Idle]
=============================================================================
