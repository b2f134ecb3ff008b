--------------------------- MODULE TikiMgrProofs ---------------------------
(***************************************************************************)
(* Proofs about TikiMgr, for every set of statements, scopes, nodes and    *)
(* tables: the type invariant, the life of the timers and the ownership of *)
(* the tables, and what holds while the node's roles are steady.           *)
(***************************************************************************)
EXTENDS TikiMgr, FiniteSetTheorems, TLAPS

(* TablesAccounted, table by table and statement by statement.             *)
TablesOwned ==
  /\ \A q \in Ids : stm[q].temp # 0 => /\ tables[stm[q].temp] # NoTable
                                       /\ stm[q].temp \notin leaked
  /\ \A t \in TableIds : tables[t] # NoTable =>
                           t \in leaked \/ \E q \in Ids : stm[q].temp = t
  /\ \A t \in leaked : tables[t] # NoTable
  /\ \A p, q \in Ids : p # q /\ stm[p].temp = stm[q].temp => stm[p].temp = 0

(* What being steady means for the statements: a SELECT runs where the     *)
(* node is a member of all its scopes, the dummy of a forwarder has the    *)
(* one scope the node forwards for, and no SELECT has a late slot, or one  *)
(* of less than two ticks.                                                 *)
SteadyRoles ==
  steady => \A q \in Ids :
     /\ stm[q].kind = "real" => /\ \A s \in Froms[q] : role[s] = "member"
                                /\ role[stm[q].scope] = "member"
                                /\ slot[q] # "late"
                                /\ stm[q].period = "ample"
     /\ stm[q].kind = "dummy" => /\ Froms[q] = {stm[q].scope}
                                 /\ role[stm[q].scope] = "forwarder"
                                 /\ stm[q].diss = FALSE

WorldMember == role[World] = "member"

Inv ==
  /\ TypeOK
  /\ WorldMember
  /\ TimersLive
  /\ TablesOwned
  /\ DummyHasTable
  /\ SteadyRoles
  /\ CollectsRecent
  /\ SafeWhenSteady
  /\ ReportsWhenSteady

-----------------------------------------------------------------------------
LEMMA NoTableFits == NoTable \in Table /\ Cardinality(NoTable.rows) <= MaxRows
BY FS_EmptySet, TikiMgrAssumption DEF NoTable, Table, Rows

LEMMA SetRows ==
  ASSUME NEW tab \in Table, NEW R
  PROVE  [tab EXCEPT !.rows = R] = [epoch |-> tab.epoch, rows |-> R]
BY DEF Table

LEMMA NoStatementType == NoStatement \in Statement
BY DEF NoStatement, Statement, AllScopes, Periods

(* A child's report is a table that is not empty, of a real epoch.         *)
LEMMA ReportType ==
  ASSUME NEW report \in Reports
  PROVE  /\ report \in Table
         /\ report # NoTable
         /\ report.rows # {}
         /\ Cardinality(report.rows) <= MaxRows
<1>1. PICK e \in 1..MaxEpoch :
        report \in {[epoch |-> e, rows |-> R] :
             R \in {X \in SUBSET (Others \X ({e, e + 1} \intersect (1..MaxEpoch))) :
                      /\ \E n \in Others : <<n, e>> \in X
                      /\ Cardinality(X) <= MaxRows}}
  BY DEF Reports
<1>2. PICK R \in SUBSET (Others \X ({e, e + 1} \intersect (1..MaxEpoch))) :
        /\ \E n \in Others : <<n, e>> \in R
        /\ Cardinality(R) <= MaxRows
        /\ report = [epoch |-> e, rows |-> R]
  BY <1>1
<1>3. R \subseteq Rows
  BY TikiMgrAssumption DEF Rows
<1>. QED
  BY <1>2, <1>3, TikiMgrAssumption DEF Table, NoTable

THEOREM InitInv == Init => Inv
<1>. SUFFICES ASSUME Init PROVE Inv
  OBVIOUS
<1>1. TypeOK
  BY NoTableFits, NoStatementType DEF Init, TypeOK, Roles
<1>2. WorldMember
  BY DEF Init, WorldMember, AllScopes
<1>3. TimersLive /\ DummyHasTable /\ SteadyRoles /\ CollectsRecent
  BY DEF Init, TimersLive, DummyHasTable, SteadyRoles, CollectsRecent, NoStatement
<1>4. TablesOwned
  BY DEF Init, TablesOwned, NoStatement
<1>5. SafeWhenSteady /\ ReportsWhenSteady
  BY DEF Init, SafeWhenSteady, ReportsWhenSteady
<1>. QED
  BY <1>1, <1>2, <1>3, <1>4, <1>5 DEF Inv

-----------------------------------------------------------------------------
(* A step into undefined behaviour changes nothing but `fault'.            *)
LEMMA FailKeepsInv ==
  ASSUME Inv, fault = "none",
         NEW what \in {"uninitialised", "zero period", "no slot", "table", "ids", "rows"},
         Fail(what),
         steady' \in BOOLEAN,
         steady' => steady /\ what \in {"ids", "rows"}
  PROVE  Inv'
<1>. USE DEF Inv, Fail
<1>1. TypeOK' /\ WorldMember'
  BY DEF TypeOK, WorldMember
<1>2. TimersLive' /\ TablesOwned' /\ DummyHasTable'
  BY DEF TimersLive, TablesOwned, DummyHasTable
<1>3. SteadyRoles' /\ CollectsRecent'
  BY DEF SteadyRoles, CollectsRecent
<1>4. SafeWhenSteady' /\ ReportsWhenSteady'
  BY DEF SafeWhenSteady, ReportsWhenSteady
<1>. QED
  BY <1>1, <1>2, <1>3, <1>4

(* A statement ends: its table, if it has one, is left in the buffer.      *)
LEMMA EndKeepsInv ==
  ASSUME Inv, fault = "none", NEW q \in Ids,
         End(q), tables' = tables, out' = "none",
         role' \in [AllScopes -> Roles], role'[World] = "member",
         fault' \in {"none", "freed"},
         steady' \in BOOLEAN,
         steady' => steady /\ role' = role /\ fault' = "none"
  PROVE  Inv'
<1>. USE DEF Inv
<1>0. /\ stm' \in [Ids -> Statement]
      /\ stm'[q] = NoStatement
      /\ \A p \in Ids : p # q => stm'[p] = stm[p]
      /\ slot' \in [Ids -> {"off", "armed", "late"}]
      /\ slot'[q] = "off"
      /\ \A p \in Ids : p # q => slot'[p] = slot[p]
      /\ periodic' = periodic \ {q}
      /\ leaked' = leaked \union ({stm[q].temp} \ {0})
  BY NoStatementType DEF End, TypeOK
<1>1. TypeOK' /\ WorldMember'
  <2>1. stm[q].temp \in TableIds \union {0}
    BY DEF TypeOK, Statement
  <2>. QED
    BY <1>0, <2>1 DEF TypeOK, WorldMember
<1>2. TimersLive' /\ DummyHasTable'
  BY <1>0 DEF TimersLive, DummyHasTable, NoStatement
<1>3. TablesOwned'
  <2>1. stm'[q].temp = 0
    BY <1>0 DEF NoStatement
  <2>2. stm[q].temp \in leaked' \/ stm[q].temp = 0
    BY <1>0
  <2>. QED
    BY <1>0, <2>1, <2>2 DEF TablesOwned
<1>4. SteadyRoles' /\ CollectsRecent'
  BY <1>0 DEF SteadyRoles, CollectsRecent, NoStatement
<1>5. SafeWhenSteady' /\ ReportsWhenSteady'
  BY DEF SafeWhenSteady, ReportsWhenSteady
<1>. QED
  BY <1>1, <1>2, <1>3, <1>4, <1>5

(* An execution, the first one or a later one.                             *)
LEMMA ExecuteKeepsInv ==
  ASSUME Inv, fault = "none", NEW q \in Ids, NEW st \in Statement, NEW deep \in BOOLEAN,
         Execute(q, st, deep), tables' = tables, role' = role, out' = "none",
         st.kind = "real",
         \/ stm[q].kind = "none" /\ st.temp = 0
         \/ stm[q] = st /\ slot[q] # "armed",
         steady' \in BOOLEAN,
         steady' => /\ steady /\ ~deep /\ st.period = "ample"
                    /\ \A s \in Froms[q] : role[s] = "member"
                    /\ role[st.scope] = "member"
  PROVE  Inv'
<1>1. CASE Last(st) /\ End(q) /\ UNCHANGED fault
  <2>1. role' \in [AllScopes -> Roles] /\ role'[World] = "member"
    BY DEF Inv, TypeOK, WorldMember
  <2>. QED
    BY <1>1, <2>1, EndKeepsInv
<1>2. CASE /\ ~Last(st) /\ st.period # "ample"
           /\ fault' = IF st.period = "zero" THEN "zero period" ELSE "no slot"
           /\ UNCHANGED <<stm, periodic, slot, leaked>>
  <2>1. PICK what \in {"zero period", "no slot"} : fault' = what
    BY <1>2
  <2>2. Fail(what) /\ steady' = FALSE
    BY <1>2, <2>1 DEF Fail
  <2>. QED
    BY <2>2, FailKeepsInv
<1>3. CASE /\ ~Last(st) /\ st.period = "ample"
           /\ stm' = [stm EXCEPT ![q] = [st EXCEPT !.elapsed = @ + 1]]
           /\ periodic' = periodic \union {q}
           /\ slot' = [slot EXCEPT ![q] = IF deep THEN "late" ELSE "armed"]
           /\ UNCHANGED <<fault, leaked>>
  <2>. USE DEF Inv
  <2>. DEFINE new == [st EXCEPT !.elapsed = @ + 1]
  <2>0. /\ new \in Statement
        /\ new.kind = "real" /\ new.temp = st.temp /\ new.scope = st.scope
        /\ new.elapsed = st.elapsed + 1 /\ new.period = "ample"
    BY <1>3 DEF Statement
  <2>1. /\ stm' \in [Ids -> Statement]
        /\ stm'[q] = new
        /\ \A p \in Ids : p # q => stm'[p] = stm[p]
        /\ slot' \in [Ids -> {"off", "armed", "late"}]
        /\ slot'[q] = IF deep THEN "late" ELSE "armed"
        /\ \A p \in Ids : p # q => slot'[p] = slot[p]
        /\ periodic' = periodic \union {q}
        /\ leaked' = leaked
    BY <1>3, <2>0 DEF TypeOK
  <2>. HIDE DEF new
  <2>2. st.temp = stm[q].temp
    BY DEF TypeOK, NoStatement
  <2>3. TypeOK' /\ WorldMember'
    BY <1>3, <2>0, <2>1 DEF TypeOK, WorldMember
  <2>4. TimersLive' /\ DummyHasTable'
    BY <2>0, <2>1, <1>3 DEF TimersLive, DummyHasTable
  <2>5. TablesOwned'
    BY <2>0, <2>1, <2>2 DEF TablesOwned
  <2>6. SteadyRoles'
    BY <2>0, <2>1 DEF SteadyRoles
  <2>7. CollectsRecent'
    <3>. SUFFICES ASSUME NEW p \in Ids, steady', stm'[p].kind = "real", stm'[p].temp # 0
                  PROVE  LET e == tables'[stm'[p].temp].epoch IN
                         e = stm'[p].elapsed \/ (slot'[p] = "armed" /\ e + 1 = stm'[p].elapsed)
      BY DEF CollectsRecent
    <3>1. CASE p # q
      BY <3>1, <2>1 DEF CollectsRecent
    <3>2. CASE p = q
      <4>1. stm[q] = st /\ slot[q] # "armed"
        BY <3>2, <2>0, <2>1
      <4>2. slot[q] # "late"
        BY <4>1 DEF SteadyRoles
      <4>3. tables[stm[q].temp].epoch = stm[q].elapsed
        BY <3>2, <4>1, <4>2, <2>0, <2>1 DEF CollectsRecent
      <4>. QED
        BY <3>2, <4>1, <4>3, <2>0, <2>1
    <3>. QED
      BY <3>1, <3>2
  <2>8. SafeWhenSteady' /\ ReportsWhenSteady'
    BY <1>3 DEF SafeWhenSteady, ReportsWhenSteady
  <2>. QED
    BY <2>3, <2>4, <2>5, <2>6, <2>7, <2>8
<1>. QED
  BY <1>1, <1>2, <1>3 DEF Execute

-----------------------------------------------------------------------------
(* A report leaves: its table is dropped and its timer is off.             *)
LEMMA ForwardKeepsInv ==
  ASSUME Inv, fault = "none", NEW q \in Ids, stm[q].kind # "none", Forward(q)
  PROVE  Inv'
<1>. USE DEF Inv
<1>. DEFINE new == [stm[q] EXCEPT !.temp = 0]
<1>0. /\ new \in Statement
      /\ new.kind = stm[q].kind /\ new.scope = stm[q].scope /\ new.diss = stm[q].diss
      /\ new.temp = 0 /\ new.period = stm[q].period
  BY DEF TypeOK, Statement
<1>1. /\ stm' \in [Ids -> Statement]
      /\ stm'[q] = new
      /\ \A p \in Ids : p # q => stm'[p] = stm[p]
      /\ slot' \in [Ids -> {"off", "armed", "late"}]
      /\ slot'[q] = "off"
      /\ \A p \in Ids : p # q => slot'[p] = slot[p]
      /\ \A t \in TableIds : tables'[t] = IF t = stm[q].temp THEN NoTable ELSE tables[t]
      /\ tables' \in [TableIds -> Table]
  BY <1>0, NoTableFits DEF Forward, TypeOK
<1>2. \A p \in Ids : stm[p].temp \in TableIds \union {0}
  BY DEF TypeOK, Statement
<1>. HIDE DEF new
<1>3. TypeOK' /\ WorldMember'
  <2>1. out' \in {"none", "upper", "routing", "nowhere"}
    BY DEF Forward, Destination
  <2>2. \A t \in TableIds : Cardinality(tables'[t].rows) <= MaxRows
    BY <1>1, NoTableFits DEF TypeOK
  <2>. QED
    BY <1>0, <1>1, <2>1, <2>2 DEF Forward, TypeOK, WorldMember
<1>4. TimersLive' /\ DummyHasTable'
  BY <1>0, <1>1 DEF Forward, TimersLive, DummyHasTable
<1>5. TablesOwned'
  <2>1. \A p \in Ids : stm'[p].temp # 0 => /\ tables'[stm'[p].temp] # NoTable
                                           /\ stm'[p].temp \notin leaked
    BY <1>0, <1>1, <1>2 DEF TablesOwned
  <2>2. \A t \in TableIds : tables'[t] # NoTable =>
                           t \in leaked \/ \E p \in Ids : stm'[p].temp = t
    BY <1>0, <1>1, <1>2 DEF TablesOwned
  <2>3. \A t \in leaked : tables'[t] # NoTable
    BY <1>0, <1>1, <1>2, TikiMgrAssumption DEF TablesOwned, TypeOK
  <2>4. \A p, r \in Ids : p # r /\ stm'[p].temp = stm'[r].temp => stm'[p].temp = 0
    BY <1>0, <1>1, <1>2 DEF TablesOwned
  <2>. QED
    BY <2>1, <2>2, <2>3, <2>4 DEF Forward, TablesOwned
<1>6. SteadyRoles'
  BY <1>0, <1>1 DEF Forward, SteadyRoles
<1>7. CollectsRecent'
  <2>1. \A p \in Ids : p # q /\ stm[p].temp # 0 => stm[p].temp # stm[q].temp
    BY DEF TablesOwned
  <2>2. \A p \in Ids : p # q /\ stm[p].temp # 0 =>
                       tables'[stm[p].temp] = tables[stm[p].temp]
    BY <1>1, <1>2, <2>1
  <2>3. \A p \in Ids : steady' /\ stm'[p].kind = "real" /\ stm'[p].temp # 0 =>
          /\ p # q /\ steady /\ stm'[p] = stm[p] /\ slot'[p] = slot[p]
          /\ tables'[stm'[p].temp] = tables[stm[p].temp]
    BY <1>0, <1>1, <2>2 DEF Forward
  <2>. QED
    BY <2>3 DEF CollectsRecent
<1>8. SafeWhenSteady' /\ ReportsWhenSteady'
  <2>1. steady => out' # "nowhere"
    BY DEF Forward, Destination, Known, SteadyRoles, TypeOK, Statement
  <2>. QED
    BY <2>1 DEF Forward, SafeWhenSteady, ReportsWhenSteady
<1>. QED
  BY <1>3, <1>4, <1>5, <1>6, <1>7, <1>8

(* A report is merged into the table of statement st, which was listed     *)
(* under q or is a new dummy.                                              *)
LEMMA MergeKeepsInv ==
  ASSUME Inv, fault = "none", NEW q \in Ids, NEW st \in Statement,
         NEW t \in TableIds, tables[t] = NoTable, NEW report \in Reports,
         Merge(q, st, t, report),
         st.kind # "none",
         \/ st = stm[q]
         \/ stm[q].kind = "none" /\ st.kind = "dummy" /\ st.temp = 0,
         slot' \in [Ids -> {"off", "armed", "late"}],
         \A p \in Ids : p # q => slot'[p] = slot[p],
         slot'[q] = slot[q] \/ slot'[q] = "late",
         st.kind = "dummy" => slot'[q] = "late",
         UNCHANGED <<periodic, role, leaked>>, out' = "none",
         steady' \in BOOLEAN,
         steady' => steady,
         steady' /\ st.kind = "real" => slot' = slot /\ report.epoch = st.elapsed,
         steady' /\ st.kind = "dummy" => /\ Froms[q] = {st.scope} /\ st.diss = FALSE
                                         /\ role[st.scope] = "forwarder"
  PROVE  Inv'
<1>. USE DEF Inv
<1>0. /\ \A p \in Ids : stm[p].temp \in TableIds \union {0}
      /\ st.temp \in TableIds \union {0}
      /\ st.temp = stm[q].temp
      /\ 0 \notin TableIds
  BY TikiMgrAssumption DEF TypeOK, Statement, NoStatement
<1>1. CASE st.temp = 0
  <2>. DEFINE new == [st EXCEPT !.temp = t]
  <2>0. /\ new \in Statement
        /\ new.kind = st.kind /\ new.scope = st.scope /\ new.diss = st.diss
        /\ new.elapsed = st.elapsed /\ new.temp = t /\ new.period = st.period
    BY DEF Statement
  <2>1. /\ stm' \in [Ids -> Statement]
        /\ stm'[q] = new
        /\ \A p \in Ids : p # q => stm'[p] = stm[p]
        /\ tables' \in [TableIds -> Table]
        /\ tables'[t] = report
        /\ \A u \in TableIds : u # t => tables'[u] = tables[u]
        /\ fault' = fault
    BY <1>1, <2>0, ReportType DEF Merge, TypeOK
  <2>. HIDE DEF new
  <2>2. TypeOK' /\ WorldMember'
    <3>1. \A u \in TableIds : Cardinality(tables'[u].rows) <= MaxRows
      BY <2>1, ReportType DEF TypeOK
    <3>2. \A p \in Ids : stm'[p].kind = "none" => stm'[p] = NoStatement
      BY <2>0, <2>1 DEF TypeOK
    <3>. QED
      BY <2>1, <3>1, <3>2 DEF TypeOK, WorldMember
  <2>3. TimersLive' /\ DummyHasTable'
    BY <1>0, <2>0, <2>1 DEF TimersLive, DummyHasTable
  <2>4. TablesOwned'
    <3>1. t \notin leaked /\ \A p \in Ids : stm[p].temp # t
      BY <1>0 DEF TablesOwned
    <3>2. report # NoTable /\ stm'[q].temp = t
      BY <2>0, <2>1, ReportType
    <3>3. \A p \in Ids : stm'[p].temp # 0 => /\ tables'[stm'[p].temp] # NoTable
                                             /\ stm'[p].temp \notin leaked
      BY <1>0, <2>1, <3>1, <3>2 DEF TablesOwned
    <3>4. \A u \in TableIds : tables'[u] # NoTable =>
                           u \in leaked \/ \E p \in Ids : stm'[p].temp = u
      <4>. SUFFICES ASSUME NEW u \in TableIds, tables'[u] # NoTable, u \notin leaked
                    PROVE  \E p \in Ids : stm'[p].temp = u
        OBVIOUS
      <4>1. CASE u = t
        BY <4>1, <3>2
      <4>2. CASE u # t
        <5>1. PICK p \in Ids : stm[p].temp = u
          BY <4>2, <2>1 DEF TablesOwned
        <5>2. p # q
          BY <5>1, <1>0, <1>1
        <5>. QED
          BY <5>1, <5>2, <2>1
      <4>. QED
        BY <4>1, <4>2
    <3>5. \A u \in leaked : tables'[u] # NoTable
      BY <2>1, <3>1 DEF TablesOwned, TypeOK
    <3>6. \A p, r \in Ids : p # r /\ stm'[p].temp = stm'[r].temp => stm'[p].temp = 0
      BY <1>0, <2>1, <3>1, <3>2 DEF TablesOwned
    <3>. QED
      BY <3>3, <3>4, <3>5, <3>6 DEF TablesOwned
  <2>5. SteadyRoles'
    BY <2>0, <2>1 DEF SteadyRoles
  <2>6. CollectsRecent'
    <3>1. \A p \in Ids : stm[p].temp # t
      BY <1>0 DEF TablesOwned
    <3>. QED
      BY <1>0, <2>0, <2>1, <3>1 DEF CollectsRecent
  <2>7. SafeWhenSteady' /\ ReportsWhenSteady'
    BY <2>1 DEF SafeWhenSteady, ReportsWhenSteady
  <2>. QED
    BY <2>2, <2>3, <2>4, <2>5, <2>6, <2>7
<1>2. CASE st.temp # 0 /\ fault' = "rows" /\ UNCHANGED <<stm, tables>>
  <2>1. st = stm[q]
    BY <1>2
  <2>2. TypeOK' /\ WorldMember'
    BY <1>2 DEF TypeOK, WorldMember
  <2>3. TimersLive' /\ DummyHasTable'
    BY <1>2, <2>1 DEF TimersLive, DummyHasTable
  <2>4. TablesOwned'
    BY <1>2 DEF TablesOwned
  <2>5. SteadyRoles' /\ CollectsRecent'
    BY <1>2, <2>1 DEF SteadyRoles, CollectsRecent
  <2>6. SafeWhenSteady' /\ ReportsWhenSteady'
    BY <1>2 DEF SafeWhenSteady, ReportsWhenSteady
  <2>. QED
    BY <2>2, <2>3, <2>4, <2>5, <2>6
<1>3. CASE /\ st.temp # 0
           /\ MayFit(tables[st.temp].rows, report.rows)
           /\ tables' = [tables EXCEPT ![st.temp].rows = @ \union report.rows]
           /\ stm' = [stm EXCEPT ![q] = st]
           /\ UNCHANGED fault
  <2>. DEFINE old == tables[st.temp]
              new == [epoch |-> old.epoch, rows |-> old.rows \union report.rows]
  <2>0. st = stm[q] /\ st.temp \in TableIds /\ old \in Table
    BY <1>0, <1>3 DEF TypeOK
  <2>1. new \in Table /\ new # NoTable /\ Cardinality(new.rows) <= MaxRows
    BY <1>3, <2>0, ReportType DEF Table, NoTable, MayFit
  <2>2. /\ stm' = stm
        /\ tables' = [tables EXCEPT ![st.temp] = new]
    <3>1. [old EXCEPT !.rows = old.rows \union report.rows] = new
      BY <2>0, SetRows
    <3>2. tables' = [tables EXCEPT ![st.temp] =
                       [old EXCEPT !.rows = old.rows \union report.rows]]
      BY <1>3
    <3>3. stm' = stm
      BY <1>3, <2>0 DEF TypeOK
    <3>. QED
      BY <3>1, <3>2, <3>3
  <2>. HIDE DEF new
  <2>3. /\ tables' \in [TableIds -> Table]
        /\ tables'[st.temp] = new
        /\ \A u \in TableIds : u # st.temp => tables'[u] = tables[u]
    BY <2>0, <2>1, <2>2 DEF TypeOK
  <2>4. TypeOK' /\ WorldMember'
    <3>1. \A u \in TableIds : Cardinality(tables'[u].rows) <= MaxRows
      BY <2>1, <2>3 DEF TypeOK
    <3>2. stm' = stm /\ fault' = fault /\ UNCHANGED <<periodic, role, leaked>>
      BY <1>3, <2>2
    <3>. QED
      BY <2>3, <3>1, <3>2 DEF TypeOK, WorldMember
  <2>5. TimersLive' /\ DummyHasTable'
    BY <1>3, <2>0, <2>2 DEF TimersLive, DummyHasTable
  <2>6. TablesOwned'
    BY <1>0, <2>0, <2>1, <2>2, <2>3 DEF TablesOwned, TypeOK
  <2>7. SteadyRoles'
    BY <2>0, <2>2 DEF SteadyRoles
  <2>8. CollectsRecent'
    <3>1. new.epoch = tables[st.temp].epoch
      BY DEF new
    <3>2. \A p \in Ids : stm[p].temp # 0 => tables'[stm[p].temp].epoch = tables[stm[p].temp].epoch
      BY <1>0, <2>3, <3>1
    <3>. QED
      BY <2>0, <2>2, <3>2 DEF CollectsRecent
  <2>9. SafeWhenSteady' /\ ReportsWhenSteady'
    BY <1>3 DEF SafeWhenSteady, ReportsWhenSteady
  <2>. QED
    BY <2>4, <2>5, <2>6, <2>7, <2>8, <2>9
<1>. QED
  BY <1>1, <1>2, <1>3 DEF Merge

(* A scope that no statement uses may change its role.                     *)
LEMMA RolesKeepInv ==
  ASSUME Inv, fault = "none", NEW s \in Scopes, NEW r \in Roles,
         role' = [role EXCEPT ![s] = r],
         steady' = (steady /\ \A q \in Ids : ~Uses(q, s)),
         out' = "none",
         UNCHANGED <<stm, periodic, slot, tables, leaked>>,
         fault' \in {"none", "uninitialised"},
         steady' => fault' = "none"
  PROVE  Inv'
<1>. USE DEF Inv
<1>1. TypeOK' /\ WorldMember'
  BY TikiMgrAssumption DEF TypeOK, WorldMember, AllScopes
<1>2. TimersLive' /\ TablesOwned' /\ DummyHasTable'
  BY DEF TimersLive, TablesOwned, DummyHasTable
<1>3. SteadyRoles'
  <2>. SUFFICES ASSUME steady', NEW q \in Ids, stm[q].kind # "none"
                PROVE  /\ \A f \in Froms[q] : role'[f] = role[f]
                       /\ role'[stm[q].scope] = role[stm[q].scope]
    BY DEF SteadyRoles
  <2>1. s \notin Froms[q] \union {stm[q].scope}
    BY DEF Uses
  <2>2. Froms[q] \subseteq AllScopes /\ stm[q].scope \in AllScopes
    BY TikiMgrAssumption DEF TypeOK, Statement, AllScopes
  <2>. QED
    BY <2>1, <2>2 DEF TypeOK
<1>4. CollectsRecent'
  BY DEF CollectsRecent
<1>5. SafeWhenSteady' /\ ReportsWhenSteady'
  BY DEF SafeWhenSteady, ReportsWhenSteady
<1>. QED
  BY <1>1, <1>2, <1>3, <1>4, <1>5

-----------------------------------------------------------------------------
LEMMA ReceiveSelectKeepsInv ==
  ASSUME Inv, NEW q \in Ids, NEW s \in Scopes, NEW per \in Periods,
         NEW lt \in Lifetimes, NEW deep \in BOOLEAN,
         ReceiveSelect(q, s, per, lt, deep)
  PROVE  Inv'
<1>. DEFINE st == Real(FALSE, s, per, lt)
<1>1. /\ st \in Statement
      /\ st.kind = "real" /\ st.temp = 0 /\ st.scope = s /\ st.period = per
  BY TikiMgrAssumption DEF Real, NoStatement, Statement, AllScopes
<1>2. Execute(q, st, deep) /\ tables' = tables /\ role' = role /\ out' = "none"
      /\ fault = "none" /\ stm[q].kind = "none"
  BY DEF ReceiveSelect, CanStart
<1>3. steady' \in BOOLEAN
      /\ (steady' => steady /\ ~deep /\ per = "ample" /\ Froms[q] = {s} /\ role[s] = "member")
  BY DEF ReceiveSelect, Inv, TypeOK
<1>. HIDE DEF st
<1>. QED
  BY <1>1, <1>2, <1>3, ExecuteKeepsInv

LEMMA DisseminateKeepsInv ==
  ASSUME Inv, NEW q \in Ids, NEW s \in AllScopes, NEW per \in Periods,
         NEW lt \in Lifetimes, NEW deep \in BOOLEAN,
         Disseminate(q, s, per, lt, deep)
  PROVE  Inv'
<1>. DEFINE st == Real(TRUE, s, per, lt)
<1>1. /\ st \in Statement
      /\ st.kind = "real" /\ st.temp = 0 /\ st.scope = s /\ st.period = per
  BY TikiMgrAssumption DEF Real, NoStatement, Statement
<1>2. /\ IF Last(st) THEN End(q) /\ fault' = "freed" ELSE Execute(q, st, deep)
      /\ tables' = tables /\ role' = role /\ out' = "none"
      /\ fault = "none" /\ stm[q].kind = "none"
  BY DEF Disseminate, CanStart
<1>3. steady' \in BOOLEAN
      /\ (steady' => /\ steady /\ s = World /\ ~Last(st) /\ per = "ample" /\ ~deep
                     /\ \A f \in Froms[q] : role[f] = "member")
  BY DEF Disseminate, Inv, TypeOK
<1>. HIDE DEF st
<1>4. role[World] = "member" /\ role \in [AllScopes -> Roles]
  BY DEF Inv, WorldMember, TypeOK
<1>5. CASE Last(st) /\ End(q) /\ fault' = "freed"
  BY <1>2, <1>3, <1>4, <1>5, EndKeepsInv
<1>6. CASE ~Last(st) /\ Execute(q, st, deep)
  BY <1>1, <1>2, <1>3, <1>4, <1>6, ExecuteKeepsInv
<1>. QED
  BY <1>2, <1>5, <1>6

LEMMA PeriodicTimerKeepsInv ==
  ASSUME Inv, NEW q \in Ids, NEW deep \in BOOLEAN, PeriodicTimer(q, deep)
  PROVE  Inv'
<1>1. PICK st \in Statement : st = stm[q]
  BY DEF Inv, TypeOK
<1>2. st.kind = "real"
  BY <1>1 DEF PeriodicTimer, Inv, TimersLive
<1>3. Execute(q, st, deep) /\ tables' = tables /\ role' = role /\ out' = "none"
      /\ fault = "none" /\ slot[q] # "armed"
  BY <1>1 DEF PeriodicTimer
<1>4. steady' \in BOOLEAN
      /\ (steady' => /\ steady /\ ~deep /\ st.period = "ample"
                     /\ \A s \in Froms[q] : role[s] = "member"
                     /\ role[st.scope] = "member")
  BY <1>1, <1>2 DEF PeriodicTimer, Inv, TypeOK, SteadyRoles
<1>. QED
  BY <1>1, <1>2, <1>3, <1>4, ExecuteKeepsInv

(* Steadily, the slot's timer finds a table at a forwarder and initialised *)
(* lists at a member.                                                      *)
LEMMA SlotTimerKeepsInv ==
  ASSUME Inv, NEW q \in Ids, SlotTimer(q)
  PROVE  Inv'
<1>0. /\ fault = "none" /\ slot[q] # "off" /\ stm[q].kind # "none"
      /\ stm[q].kind \in {"real", "dummy"} /\ stm[q].scope \in AllScopes
      /\ steady \in BOOLEAN
  BY DEF SlotTimer, Inv, TimersLive, TypeOK, Statement
<1>1. PICK member \in MemberOf(stm[q].scope) :
        IF ~member
        THEN IF stm[q].temp = 0 THEN Fail("table") /\ UNCHANGED steady ELSE Forward(q)
        ELSE IF OwnRow(q) # "none" THEN Fail(OwnRow(q)) /\ UNCHANGED steady ELSE Forward(q)
  BY DEF SlotTimer
<1>2. CASE Forward(q)
  BY <1>0, <1>2, ForwardKeepsInv
<1>3. CASE ~member /\ stm[q].temp = 0 /\ Fail("table") /\ UNCHANGED steady
  <2>1. ~steady
    BY <1>0, <1>1, <1>3 DEF Inv, SteadyRoles, DummyHasTable, MemberOf, Known
  <2>. QED
    BY <1>0, <1>3, <2>1, FailKeepsInv
<1>4. CASE member /\ OwnRow(q) # "none" /\ Fail(OwnRow(q)) /\ UNCHANGED steady
  <2>1. PICK what : what = OwnRow(q)
    OBVIOUS
  <2>2. what \in {"uninitialised", "ids", "rows"}
    BY <1>4, <2>1 DEF OwnRow
  <2>3. what = "uninitialised" => ~steady
    <3>1. what = "uninitialised" => stm[q].kind = "dummy"
      BY <2>1 DEF OwnRow
    <3>. QED
      BY <1>0, <1>4, <3>1 DEF Inv, SteadyRoles, MemberOf, Known
  <2>. QED
    BY <1>0, <1>4, <2>1, <2>2, <2>3, FailKeepsInv
<1>. QED
  BY <1>1, <1>2, <1>3, <1>4

(***************************************************************************)
(* Results                                                                 *)
(***************************************************************************)
LEMMA ReceiveResultKeepsInv ==
  ASSUME Inv, NEW q \in Ids, NEW s \in Scopes, NEW report \in Reports,
         NEW diss \in BOOLEAN, ReceiveResult(q, s, report, diss)
  PROVE  Inv'
<1>1. PICK t \in TableIds : IsFreeId(t) /\
       \/ /\ TRUE \in MemberOf(s)
          /\ diss = FALSE
          /\ ResultAtMember(q, t, report)
       \/ /\ role[s] \in {"forwarder", "relay"}
          /\ ResultAtForwarder(q, s, t, report, diss)
  BY DEF ReceiveResult
<1>2. /\ fault = "none" /\ s \in Froms[q] /\ tables[t] = NoTable
      /\ steady \in BOOLEAN /\ slot \in [Ids -> {"off", "armed", "late"}]
      /\ stm[q] \in Statement
  BY <1>1 DEF ReceiveResult, IsFreeId, FreeIds, Inv, TypeOK
<1>3. CASE TRUE \in MemberOf(s) /\ ResultAtMember(q, t, report)
  <2>1. CASE stm[q].kind = "dummy" /\ Fail("zero period") /\ UNCHANGED steady
    <3>1. ~steady
      <4>1. role[s] = "forwarder" => MemberOf(s) = {FALSE}
        BY DEF MemberOf, Known
      <4>2. role[s] # "forwarder"
        BY <1>3, <4>1
      <4>3. stm[q].kind = "dummy" /\ s \in Froms[q]
        BY <1>2, <2>1
      <4>4. SteadyRoles
        BY DEF Inv
      <4>5. ASSUME steady PROVE FALSE
        <5>1. Froms[q] = {stm[q].scope} /\ role[stm[q].scope] = "forwarder"
          BY <4>3, <4>4, <4>5 DEF SteadyRoles
        <5>. QED
          BY <4>2, <4>3, <5>1
      <4>. QED
        BY <4>5
    <3>. QED
      BY <1>2, <2>1, <3>1, FailKeepsInv
  <2>2. CASE /\ stm[q].kind = "real"
             /\ report.epoch = stm[q].elapsed
             /\ Merge(q, stm[q], t, report)
             /\ out' = "none"
             /\ UNCHANGED <<periodic, slot, role, leaked, steady>>
    <3>1. PICK st \in Statement : st = stm[q]
      BY <1>2
    <3>. QED
      BY <1>1, <1>2, <2>2, <3>1, MergeKeepsInv
  <2>. QED
    BY <1>3, <2>1, <2>2 DEF ResultAtMember
<1>4. CASE /\ role[s] \in {"forwarder", "relay"}
           /\ ResultAtForwarder(q, s, t, report, diss)
  <2>1. PICK st : st = IF stm[q].kind = "none"
                       THEN [NoStatement EXCEPT !.kind = "dummy", !.diss = diss, !.scope = s]
                       ELSE stm[q]
    OBVIOUS
  <2>2. /\ st \in Statement
        /\ st.kind # "none"
        /\ \/ st = stm[q]
           \/ /\ stm[q].kind = "none" /\ st.kind = "dummy" /\ st.temp = 0
              /\ st.scope = s
    BY <1>2, <2>1 DEF Statement, NoStatement, AllScopes, Periods
  <2>3. /\ Merge(q, st, t, report)
        /\ slot' = [slot EXCEPT ![q] = "late"]
        /\ steady' = (steady /\ Known(s) /\ Froms[q] = {s} /\ st.diss = FALSE)
        /\ out' = "none"
        /\ UNCHANGED <<periodic, role, leaked>>
    BY <1>4, <2>1 DEF ResultAtForwarder
  <2>4. /\ slot' \in [Ids -> {"off", "armed", "late"}]
        /\ \A p \in Ids : p # q => slot'[p] = slot[p]
        /\ slot'[q] = "late"
    BY <1>2, <2>3
  <2>5. steady' \in BOOLEAN /\ (steady' => steady)
    BY <1>2, <2>3
  <2>6. ASSUME steady'
        PROVE  /\ st.kind = "dummy" /\ st.diss = FALSE
               /\ Froms[q] = {st.scope} /\ role[st.scope] = "forwarder"
    <3>1. role[s] = "forwarder" /\ Froms[q] = {s} /\ st.diss = FALSE /\ steady
      BY <1>4, <2>3, <2>6 DEF Known
    <3>2. stm[q].kind # "real"
      BY <1>2, <3>1 DEF Inv, SteadyRoles
    <3>3. st = stm[q] => st.kind = "dummy" /\ Froms[q] = {st.scope}
      BY <1>2, <2>2, <3>1, <3>2 DEF Inv, SteadyRoles, Statement
    <3>. QED
      BY <2>2, <3>1, <3>3
  <2>7. st.kind = "real" => ~steady'
    BY <2>6
  <2>. QED
    BY <1>1, <1>2, <2>2, <2>3, <2>4, <2>5, <2>6, <2>7, MergeKeepsInv
<1>. QED
  BY <1>1, <1>3, <1>4

(***************************************************************************)
(* Roles                                                                   *)
(***************************************************************************)
LEMMA ChangeRoleKeepsInv ==
  ASSUME Inv, NEW s \in Scopes, NEW r \in Roles, ChangeRole(s, r)
  PROVE  Inv'
<1>1. /\ fault = "none" /\ fault' = "none" /\ out' = "none"
      /\ role' = [role EXCEPT ![s] = r]
      /\ steady' = (steady /\ \A q \in Ids : ~Uses(q, s))
      /\ UNCHANGED <<stm, periodic, slot, tables, leaked>>
  BY DEF ChangeRole
<1>. QED
  BY <1>1, RolesKeepInv

LEMMA LeaveKeepsInv ==
  ASSUME Inv, NEW s \in Scopes, NEW r \in Roles, Leave(s, r)
  PROVE  Inv'
<1>. DEFINE running == {q \in Ids : stm[q].kind # "none" /\ stm[q].scope = s}
<1>1. /\ fault = "none" /\ out' = "none" /\ tables' = tables
      /\ role' = [role EXCEPT ![s] = r]
      /\ steady' = (steady /\ \A q \in Ids : ~Uses(q, s))
      /\ \/ UNCHANGED <<stm, periodic, slot, fault, leaked>>
         \/ \E q \in running :
              IF stm[q].kind = "dummy"
              THEN /\ fault' = "uninitialised"
                   /\ UNCHANGED <<stm, periodic, slot, leaked>>
              ELSE End(q) /\ UNCHANGED fault
  BY DEF Leave
<1>2. ASSUME NEW q \in running
      PROVE  steady' = FALSE
  BY <1>1, <1>2 DEF Uses
<1>3. CASE UNCHANGED <<stm, periodic, slot, fault, leaked>>
  BY <1>1, <1>3, RolesKeepInv
<1>4. CASE \E q \in running : stm[q].kind = "dummy" /\ fault' = "uninitialised"
                             /\ UNCHANGED <<stm, periodic, slot, leaked>>
  BY <1>1, <1>2, <1>4, RolesKeepInv
<1>5. CASE \E q \in running : End(q) /\ UNCHANGED fault
  <2>1. PICK q \in running : End(q) /\ UNCHANGED fault
    BY <1>5
  <2>2. role' \in [AllScopes -> Roles] /\ role'[World] = "member"
    BY <1>1, TikiMgrAssumption DEF Inv, TypeOK, WorldMember, AllScopes
  <2>. QED
    BY <1>1, <1>2, <2>1, <2>2, EndKeepsInv
<1>. QED
  BY <1>1, <1>3, <1>4, <1>5

-----------------------------------------------------------------------------
(* The invariant is inductive.                                             *)
THEOREM NextInv == Inv /\ [Next]_vars => Inv'
<1>. SUFFICES ASSUME Inv, [Next]_vars PROVE Inv'
  OBVIOUS
<1>1. CASE UNCHANGED vars
  <2>1. UNCHANGED <<stm, periodic, slot, tables, role, out, fault, leaked, steady>>
    BY <1>1 DEF vars
  <2>2. TypeOK' /\ WorldMember'
    BY <2>1 DEF Inv, TypeOK, WorldMember
  <2>3. TimersLive' /\ TablesOwned' /\ DummyHasTable'
    BY <2>1 DEF Inv, TimersLive, TablesOwned, DummyHasTable
  <2>4. SteadyRoles' /\ CollectsRecent' /\ SafeWhenSteady' /\ ReportsWhenSteady'
    BY <2>1 DEF Inv, SteadyRoles, CollectsRecent, SafeWhenSteady, ReportsWhenSteady
  <2>. QED
    BY <2>2, <2>3, <2>4 DEF Inv
<1>2. ASSUME NEW q \in Ids, NEW per \in Periods, NEW lt \in Lifetimes,
             NEW deep \in BOOLEAN, NEW s \in Scopes, ReceiveSelect(q, s, per, lt, deep)
      PROVE  Inv'
  BY <1>2, ReceiveSelectKeepsInv
<1>3. ASSUME NEW q \in Ids, NEW per \in Periods, NEW lt \in Lifetimes,
             NEW deep \in BOOLEAN, NEW s \in AllScopes, Disseminate(q, s, per, lt, deep)
      PROVE  Inv'
  BY <1>3, DisseminateKeepsInv
<1>4. ASSUME NEW q \in Ids, StartInDirtyBlock(q)
      PROVE  Inv'
  BY <1>4, FailKeepsInv DEF StartInDirtyBlock, CanStart
<1>5. ASSUME NEW q \in Ids, NEW deep \in BOOLEAN, PeriodicTimer(q, deep)
      PROVE  Inv'
  BY <1>5, PeriodicTimerKeepsInv
<1>6. ASSUME NEW q \in Ids, SlotTimer(q)
      PROVE  Inv'
  BY <1>6, SlotTimerKeepsInv
<1>7. ASSUME NEW q \in Ids, NEW s \in Scopes, NEW report \in Reports, NEW diss \in BOOLEAN,
             ReceiveResult(q, s, report, diss)
      PROVE  Inv'
  BY <1>7, ReceiveResultKeepsInv
<1>8. ASSUME NEW s \in Scopes, NEW r \in Roles, ChangeRole(s, r) \/ Leave(s, r)
      PROVE  Inv'
  BY <1>8, ChangeRoleKeepsInv, LeaveKeepsInv
<1>. QED
  BY <1>1, <1>2, <1>3, <1>4, <1>5, <1>6, <1>7, <1>8 DEF Next

(* ... so it holds of every state the node can reach.                     *)
THEOREM SpecInv == Spec => []Inv
BY InitInv, NextInv, PTL DEF Spec

(* The manager's variables keep their types, for every number of           *)
(* statements, scopes and tables.                                          *)
THEOREM TypeCorrect == Spec => []TypeOK
<1>1. Inv => TypeOK
  BY DEF Inv
<1>. QED
  BY <1>1, SpecInv, PTL

(* No timer outlives the statement its callback gets a pointer to.         *)
THEOREM TimersLiveCorrect == Spec => []TimersLive
<1>1. Inv => TimersLive
  BY DEF Inv
<1>. QED
  BY <1>1, SpecInv, PTL

(* The buffer holds what statements collect and what ended ones left, and  *)
(* no table has two owners.                                                *)
THEOREM TablesAccountedCorrect == Spec => []TablesAccounted
<1>1. Inv => TablesAccounted
  <2>. SUFFICES ASSUME Inv PROVE TablesAccounted
    OBVIOUS
  <2>. DEFINE held == {stm[q].temp : q \in Listed} \ {0}
  <2>1. TypeOK /\ TablesOwned
    BY DEF Inv
  <2>2. \A q \in Ids : stm[q].temp \in TableIds \union {0}
    BY <2>1 DEF TypeOK, Statement
  <2>3. \A q \in Ids : stm[q].temp # 0 => q \in Listed
    <3>1. NoStatement.temp = 0
      BY DEF NoStatement
    <3>2. \A q \in Ids : stm[q].kind = "none" => stm[q] = NoStatement
      BY <2>1 DEF TypeOK
    <3>. QED
      BY <3>1, <3>2 DEF Listed
  <2>4. \A t \in TableIds : t \in held <=> \E q \in Ids : stm[q].temp = t
    <3>1. 0 \notin TableIds
      BY TikiMgrAssumption
    <3>. QED
      BY <2>3, <3>1 DEF Listed
  <2>5. held \subseteq TableIds
    <3>. SUFFICES ASSUME NEW q \in Listed, stm[q].temp # 0
                  PROVE  stm[q].temp \in TableIds
      OBVIOUS
    <3>1. q \in Ids
      BY DEF Listed
    <3>. QED
      BY <2>2, <3>1
  <2>. HIDE DEF held
  <2>6. \A t \in held : tables[t] # NoTable /\ t \notin leaked
    BY <2>1, <2>4, <2>5, TikiMgrAssumption DEF TablesOwned
  <2>7. TableIds \ FreeIds = held \union leaked
    <3>1. \A t \in TableIds : tables[t] # NoTable => t \in held \union leaked
      BY <2>1, <2>4 DEF TablesOwned
    <3>2. \A t \in leaked : t \in TableIds /\ tables[t] # NoTable
      BY <2>1 DEF TablesOwned, TypeOK
    <3>. QED
      BY <2>5, <2>6, <3>1, <3>2 DEF FreeIds
  <2>8. held \intersect leaked = {}
    BY <2>6
  <2>9. \A p, q \in Listed : p # q /\ stm[p].temp = stm[q].temp => stm[p].temp = 0
    BY <2>1 DEF TablesOwned, Listed
  <2>. QED
    BY <2>7, <2>8, <2>9 DEF TablesAccounted, held
<1>. QED
  BY <1>1, SpecInv, PTL

(* A dummy's timer is running exactly while the dummy has a table.         *)
THEOREM DummyHasTableCorrect == Spec => []DummyHasTable
<1>1. Inv => DummyHasTable
  BY DEF Inv
<1>. QED
  BY <1>1, SpecInv, PTL

(* A late result waits for one report at most.                             *)
THEOREM CollectsRecentCorrect == Spec => []CollectsRecent
<1>1. Inv => CollectsRecent
  BY DEF Inv
<1>. QED
  BY <1>1, SpecInv, PTL

(* While its roles are steady, and its SELECTs' slots have two ticks, a    *)
(* node runs into none of the modelled faults but a full table or buffer.  *)
THEOREM SteadyIsSafe == Spec => []SafeWhenSteady
<1>1. Inv => SafeWhenSteady
  BY DEF Inv
<1>. QED
  BY <1>1, SpecInv, PTL

(* While its roles are steady, no report of a node is dropped by its own   *)
(* scopes_send.                                                            *)
THEOREM SteadyReports == Spec => []ReportsWhenSteady
<1>1. Inv => ReportsWhenSteady
  BY DEF Inv
<1>. QED
  BY <1>1, SpecInv, PTL
=============================================================================
