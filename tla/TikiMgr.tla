------------------------------ MODULE TikiMgr ------------------------------
(***************************************************************************)
(* The TikiDB manager (tikidb-mgr.c) of one node: the statements it runs,  *)
(* their two timers, the table of children's results each one collects,    *)
(* and the buffer those tables live in (tikidb-buffer.c).                  *)
(*                                                                         *)
(* The rest of the network is the environment.  It delivers SELECTs and    *)
(* results in any order and number, and it moves the node between roles in *)
(* a scope: what scopes.c and scopes-selfur.c answer about it.             *)
(*                                                                         *)
(* The code calls into undefined behaviour on some paths (a NULL table, a  *)
(* division by zero, a freed or an uninitialised statement):               *)
(* `fault' says so, and a faulty node takes no further step.  A table is   *)
(* the set of its rows' primary keys, <<node, epoch>>, and the epoch of    *)
(* its first row, which is all resultset_get_epoch looks at.  Time is      *)
(* counted in sample periods.  OPEN and CLOSE statements are listed,       *)
(* handed to scopes.c and freed in one step: to this module they are the   *)
(* change of role they cause.  STOP and LIST never get here, because       *)
(* statement_unmarshall does not build them, and neither do WHERE and      *)
(* GROUP BY, whose parsers do not return.                                  *)
(***************************************************************************)
EXTENDS Naturals, FiniteSets

CONSTANTS
  Ids,        (* statement ids                                             *)
  Scopes,     (* the scopes of the network, without the world scope        *)
  World,      (* SCOPES_WORLD_SCOPE_ID, 0: every node is a member          *)
  Froms,      (* Froms[q]: the scopes that statement q selects from        *)
  Self,       (* this node                                                 *)
  Others,     (* the nodes whose rows arrive in results                    *)
  TableIds,   (* 1 .. TIKIDB_MAX_TABLES                                    *)
  MaxRows,    (* MAX_ROWS                                                  *)
  Lifetimes,  (* lifetimes of statements, in periods; elapsed_lifetime     *)
              (* does not wrap before it reaches them                      *)
  MaxEpoch    (* BOUND: epochs of the rows that arrive                     *)

ASSUME TikiMgrAssumption ==
  /\ World \notin Scopes
  /\ Froms \in [Ids -> SUBSET Scopes]
  /\ Self \notin Others
  /\ TableIds \subseteq Nat \ {0}
  /\ IsFiniteSet(TableIds)
  /\ MaxRows \in Nat \ {0}
  /\ Lifetimes \subseteq Nat
  /\ MaxEpoch \in Nat

VARIABLES
  stm,      (* the statements of tikidb_mgr_statements, by id              *)
  periodic, (* the statements whose periodic_timer is set                  *)
  slot,     (* in_slot_timer: "off", "armed" (it fires before the next     *)
            (* period) or "late" (nothing says when)                       *)
  tables,   (* table_buffer                                                *)
  role,     (* what scopes.c and scopes-selfur.c say about each scope      *)
  out,      (* where the report of the last step went, if it made one      *)
  fault,    (* the undefined behaviour the node ran into                   *)
  leaked,   (* HISTORY: tables whose statement was freed                   *)
  steady    (* HISTORY: every scope kept its role and was known while a    *)
            (* statement used it, every query had one scope, of which its  *)
            (* issuer was a member, and a period of two ticks a slot, the  *)
            (* blocks from malloc held zeros, and no query came from       *)
            (* farther away than the tree height written into it           *)

vars == <<stm, periodic, slot, tables, role, out, fault, leaked, steady>>

AllScopes == Scopes \union {World}
Rows == ({Self} \union Others) \X Nat
Roles == {"unknown", "relay", "bystander", "forwarder", "member"}

(* sample_period, of which every tree level gets a slot: zero ticks; too   *)
(* few for two a slot, so that half a slot is zero; or enough.             *)
Periods == {"zero", "brief", "ample"}
Statement == [kind : {"none", "real", "dummy"}, diss : BOOLEAN, scope : AllScopes,
              period : Periods, elapsed : Nat, lifetime : Nat,
              temp : TableIds \union {0}]
Table == [epoch : Nat, rows : SUBSET Rows]

NoStatement == [kind |-> "none", diss |-> FALSE, scope |-> World,
                period |-> "zero", elapsed |-> 0, lifetime |-> 0, temp |-> 0]
NoTable == [epoch |-> 0, rows |-> {}]

(* The reports of children: the first row's epoch and the rows.  A report  *)
(* may start with rows of the epoch before, see SlotTimer.                 *)
Reports ==
  UNION {{[epoch |-> e, rows |-> R] :
             R \in {X \in SUBSET (Others \X ({e, e + 1} \intersect (1..MaxEpoch))) :
                      /\ \E n \in Others : <<n, e>> \in X
                      /\ Cardinality(X) <= MaxRows}} : e \in 1..MaxEpoch}

Listed == {q \in Ids : stm[q].kind # "none"}
FreeIds == {t \in TableIds : tables[t] = NoTable}

(* tikidb_buffer_get_free_id: the smallest id not in use, if there is one. *)
IsFreeId(t) == t \in FreeIds /\ \A u \in FreeIds : t <= u

Known(s) == role[s] \in {"bystander", "forwarder", "member"}

(* scopes_member_of.  Of a scope that scopes.c does not know, it reads the *)
(* status behind a NULL pointer.                                           *)
MemberOf(s) == IF Known(s) THEN {role[s] = "member"} ELSE BOOLEAN

Init ==
  /\ stm = [q \in Ids |-> NoStatement]
  /\ periodic = {}
  /\ slot = [q \in Ids |-> "off"]
  /\ tables = [t \in TableIds |-> NoTable]
  /\ role = [s \in AllScopes |-> IF s = World THEN "member" ELSE "unknown"]
  /\ out = "none"
  /\ fault = "none"
  /\ leaked = {}
  /\ steady = TRUE

Fail(what) ==
  /\ fault' = what
  /\ out' = "none"
  /\ UNCHANGED <<stm, periodic, slot, tables, role, leaked>>

(* Mutants of End: the statement is taken off the list and keeps what it   *)
(* held; the in-slot timer is not stopped.                                 *)
EndUnfreed(q) ==
  /\ stm' = [stm EXCEPT ![q].kind = "none"]
  /\ periodic' = periodic \ {q}
  /\ slot' = [slot EXCEPT ![q] = "off"]
  /\ leaked' = leaked \union ({stm[q].temp} \ {0})

EndSlotRunning(q) ==
  /\ stm' = [stm EXCEPT ![q] = NoStatement]
  /\ periodic' = periodic \ {q}
  /\ UNCHANGED slot
  /\ leaked' = leaked \union ({stm[q].temp} \ {0})

(* stop_select_statement, remove_statement, free_statement: both timers    *)
(* stop; the table of collected results stays in the buffer.               *)
End(q) ==
  /\ stm' = [stm EXCEPT ![q] = NoStatement]
  /\ periodic' = periodic \ {q}
  /\ slot' = [slot EXCEPT ![q] = "off"]
  /\ leaked' = leaked \union ({stm[q].temp} \ {0})

(* One more period has elapsed; is it the last?                            *)
Last(st) == st.elapsed + (IF st.period = "zero" THEN 0 ELSE 1) >= st.lifetime

(* Mutant of Execute: the elapsed time is not saved.                       *)
ExecuteUncounted(q, st, deep) ==
  \/ Last(st) /\ End(q) /\ UNCHANGED fault
  \/ /\ ~Last(st) /\ st.period = "ample"
     /\ stm' = [stm EXCEPT ![q] = st]
     /\ periodic' = periodic \union {q}
     /\ slot' = [slot EXCEPT ![q] = IF deep THEN "late" ELSE "armed"]
     /\ UNCHANGED <<fault, leaked>>
  \/ /\ ~Last(st) /\ st.period # "ample"
     /\ fault' = IF st.period = "zero" THEN "zero period" ELSE "no slot"
     /\ UNCHANGED <<stm, periodic, slot, leaked>>

(* handle_select_statement, for statement st under id q.  The last         *)
(* execution ends the statement.  Any other divides by the period, and by  *)
(* half a slot.  A node farther from the root than the height in the       *)
(* statement subtracts below zero: its slot is late.                       *)
Execute(q, st, deep) ==
  \/ Last(st) /\ End(q) /\ UNCHANGED fault
  \/ /\ ~Last(st) /\ st.period = "ample"
     /\ stm' = [stm EXCEPT ![q] = [st EXCEPT !.elapsed = @ + 1]]
     /\ periodic' = periodic \union {q}
     /\ slot' = [slot EXCEPT ![q] = IF deep THEN "late" ELSE "armed"]
     /\ UNCHANGED <<fault, leaked>>
  \/ /\ ~Last(st) /\ st.period # "ample"
     /\ fault' = IF st.period = "zero" THEN "zero period" ELSE "no slot"
     /\ UNCHANGED <<stm, periodic, slot, leaked>>

(***************************************************************************)
(* handle_statement.  A statement whose id is listed is parsed and freed   *)
(* again; these are the steps for an id that is not.                       *)
(***************************************************************************)
CanStart(q) == fault = "none" /\ stm[q].kind = "none"

Real(diss, s, per, lt) ==
  [NoStatement EXCEPT !.kind = "real", !.diss = diss, !.scope = s,
                      !.period = per, !.lifetime = lt]

(* A SELECT arrives through scope s.  scopes.c hands it to members only.   *)
ReceiveSelect(q, s, per, lt, deep) ==
  /\ CanStart(q)
  /\ s \in Froms[q] /\ role[s] = "member"
  /\ Execute(q, Real(FALSE, s, per, lt), deep)
  /\ steady' = (steady /\ Froms[q] = {s} /\ per = "ample" /\ ~deep)
  /\ out' = "none"
  /\ UNCHANGED <<tables, role>>

(* The user of this node issues a SELECT.  Its scope_id is never assigned: *)
(* it is what malloc left there.  When the first execution is the last,    *)
(* disseminate_statement reads the statement after free_statement.         *)
Disseminate(q, s, per, lt, deep) ==
  LET st == Real(TRUE, s, per, lt) IN
  /\ CanStart(q)
  /\ Froms[q] # {}
  /\ IF Last(st) THEN End(q) /\ fault' = "freed" ELSE Execute(q, st, deep)
  /\ steady' = (/\ steady /\ s = World /\ ~Last(st) /\ per = "ample" /\ ~deep
                /\ \E f \in Froms[q] : Froms[q] = {f} /\ role[f] = "member")
  /\ out' = "none"
  /\ UNCHANGED <<tables, role>>

(* unmarshall_select assigns neither elapsed_lifetime nor                  *)
(* temporary_table_id.  When malloc's block does not hold zeros, the       *)
(* statement may end with its first execution, which changes nothing here, *)
(* or restart a timer that was never set, or use a table that is not its.  *)
StartInDirtyBlock(q) ==
  /\ CanStart(q)
  /\ \E s \in Froms[q] : role[s] = "member"
  /\ Fail("uninitialised")
  /\ steady' = FALSE

PeriodicTimer(q, deep) ==
  /\ fault = "none"
  /\ q \in periodic /\ slot[q] # "armed"
  /\ Execute(q, stm[q], deep)
  /\ steady' = (steady /\ ~deep)
  /\ out' = "none"
  /\ UNCHANGED <<tables, role>>

(***************************************************************************)
(* do_select_statement and forward_resultset                               *)
(***************************************************************************)
(* Mutant of Destination: only members may send, as before scopes_send     *)
(* got its line "added for aggregation support".                           *)
DestinationOfMembers(st) ==
  IF st.diss THEN {"upper"}
  ELSE IF role[st.scope] = "member" THEN {"routing"} ELSE {"nowhere"}

(* The root's reports go to querymanager_cb_result, those of others to     *)
(* scopes_send, which returns when scopes.c does not know the scope or the *)
(* node is neither its member nor its forwarder.  A bystander that asks    *)
(* scopes-selfur.c about a scope it does not know may be told anything.    *)
Destination(st) ==
  IF st.diss THEN {"upper"}
  ELSE CASE ~Known(st.scope) -> {"nowhere"}
         [] role[st.scope] = "bystander" -> {"nowhere", "routing"}
         [] OTHER -> {"routing"}

(* Mutants of Forward: the table stays in the buffer; the timer starts     *)
(* again.                                                                  *)
ForwardKeepsTable(q) ==
  /\ out' \in Destination(stm[q])
  /\ stm' = [stm EXCEPT ![q].temp = 0]
  /\ slot' = [slot EXCEPT ![q] = "off"]
  /\ UNCHANGED <<tables, periodic, role, fault, leaked, steady>>

ForwardAgain(q) ==
  LET t == stm[q].temp IN
  /\ out' \in Destination(stm[q])
  /\ tables' = [u \in TableIds |-> IF u = t THEN NoTable ELSE tables[u]]
  /\ stm' = [stm EXCEPT ![q].temp = 0]
  /\ UNCHANGED <<slot, periodic, role, fault, leaked, steady>>

Forward(q) ==
  LET t == stm[q].temp IN
  /\ out' \in Destination(stm[q])
  /\ tables' = [u \in TableIds |-> IF u = t THEN NoTable ELSE tables[u]]
  /\ stm' = [stm EXCEPT ![q].temp = 0]
  /\ slot' = [slot EXCEPT ![q] = "off"]
  /\ UNCHANGED <<periodic, role, fault, leaked, steady>>

(* A member adds its own row of this epoch, by way of a table of its own   *)
(* that is dropped again, to what its children sent.  Rows of children     *)
(* that came after the last report are still there, ahead of the new ones. *)
OwnRow(q) ==
  CASE stm[q].kind = "dummy" -> "uninitialised"
    [] FreeIds = {} -> "ids"
    [] stm[q].temp # 0 /\ Cardinality(tables[stm[q].temp].rows) >= MaxRows -> "rows"
    [] OTHER -> "none"

SlotTimer(q) ==
  /\ fault = "none"
  /\ slot[q] # "off"
  /\ \E member \in MemberOf(stm[q].scope) :
       IF ~member
       THEN IF stm[q].temp = 0 THEN Fail("table") /\ UNCHANGED steady ELSE Forward(q)
       ELSE IF OwnRow(q) # "none" THEN Fail(OwnRow(q)) /\ UNCHANGED steady ELSE Forward(q)

(***************************************************************************)
(* handle_resultset                                                        *)
(***************************************************************************)
(* table_union adds row by row and gives up when it finds the table full,  *)
(* even if the row it would add is already there.  With rows in no         *)
(* particular order, both outcomes are possible at the limit.              *)
MayFit(old, new) == /\ Cardinality(old) < MaxRows
                    /\ Cardinality(old \union new) <= MaxRows
MayOverflow(old, new) == \/ Cardinality(old) >= MaxRows
                         \/ Cardinality(old \union new) > MaxRows
                         \/ /\ Cardinality(old \union new) = MaxRows
                            /\ old \intersect new # {}

(* The received table t becomes the statement's, or is added to it and     *)
(* dropped.  A union that fails returns NULL, and its id is read.          *)
Merge(q, st, t, report) ==
  IF st.temp = 0
  THEN /\ tables' = [tables EXCEPT ![t] = report]
       /\ stm' = [stm EXCEPT ![q] = [st EXCEPT !.temp = t]]
       /\ UNCHANGED fault
  ELSE \/ /\ MayFit(tables[st.temp].rows, report.rows)
          /\ tables' = [tables EXCEPT ![st.temp].rows = @ \union report.rows]
          /\ stm' = [stm EXCEPT ![q] = st]
          /\ UNCHANGED fault
       \/ /\ MayOverflow(tables[st.temp].rows, report.rows)
          /\ fault' = "rows"
          /\ UNCHANGED <<stm, tables>>

(* Mutant of ResultAtMember: the epoch is not compared.                    *)
ResultAtMemberOfAnyEpoch(q, t, report) ==
  \/ /\ stm[q].kind = "dummy"
     /\ Fail("zero period") /\ UNCHANGED steady
  \/ /\ stm[q].kind = "real"
     /\ Merge(q, stm[q], t, report)
     /\ out' = "none"
     /\ UNCHANGED <<periodic, slot, role, leaked, steady>>

(* A member takes results of its own epoch and throws the others away.     *)
ResultAtMember(q, t, report) ==
  \/ /\ stm[q].kind = "dummy"                 (* its sample_period is 0    *)
     /\ Fail("zero period") /\ UNCHANGED steady
  \/ /\ stm[q].kind = "real"
     /\ report.epoch = stm[q].elapsed
     /\ Merge(q, stm[q], t, report)
     /\ out' = "none"
     /\ UNCHANGED <<periodic, slot, role, leaked, steady>>

(* Mutant of ResultAtForwarder: only a new dummy's timer is set.           *)
ResultAtForwarderOnce(q, s, t, report, diss) ==
  LET st == IF stm[q].kind = "none"
            THEN [NoStatement EXCEPT !.kind = "dummy", !.diss = diss, !.scope = s]
            ELSE stm[q] IN
  /\ Merge(q, st, t, report)
  /\ slot' = [slot EXCEPT ![q] = IF stm[q].kind = "none" THEN "late" ELSE @]
  /\ steady' = (steady /\ Known(s) /\ Froms[q] = {s} /\ st.diss = FALSE)
  /\ out' = "none"
  /\ UNCHANGED <<periodic, role, leaked>>

(* A forwarder takes them all.  It has no statement of that id when the    *)
(* SELECT passed it by: it lists a dummy, whose disseminator flag is what  *)
(* malloc left there.  Each result sets the in-slot timer back.            *)
ResultAtForwarder(q, s, t, report, diss) ==
  LET st == IF stm[q].kind = "none"
            THEN [NoStatement EXCEPT !.kind = "dummy", !.diss = diss, !.scope = s]
            ELSE stm[q] IN
  /\ Merge(q, st, t, report)
  /\ slot' = [slot EXCEPT ![q] = "late"]
  /\ steady' = (steady /\ Known(s) /\ Froms[q] = {s} /\ st.diss = FALSE)
  /\ out' = "none"
  /\ UNCHANGED <<periodic, role, leaked>>

(* Results reach every node that knows the scope or relays for it.         *)
ReceiveResult(q, s, report, diss) ==
  /\ fault = "none"
  /\ s \in Froms[q] /\ role[s] # "unknown"
  /\ \E t \in TableIds : IsFreeId(t) /\
       \/ /\ TRUE \in MemberOf(s)
          /\ diss = FALSE
          /\ ResultAtMember(q, t, report)
       \/ /\ role[s] \in {"forwarder", "relay"}
          /\ ResultAtForwarder(q, s, t, report, diss)

(***************************************************************************)
(* The callbacks of scopes.c, and its other changes the manager cannot see *)
(***************************************************************************)
Uses(q, s) == stm[q].kind # "none" /\ s \in Froms[q] \union {stm[q].scope}

(* cb_join_scope and everything that does not end a membership: an OPEN    *)
(* statement, an announcement, an activation, a scope that is removed.     *)
ChangeRole(s, r) ==
  /\ fault = "none"
  /\ role[s] \notin {"member", r}
  /\ role' = [role EXCEPT ![s] = r]
  /\ steady' = (steady /\ \A q \in Ids : ~Uses(q, s))
  /\ out' = "none"
  /\ UNCHANGED <<stm, periodic, slot, tables, fault, leaked>>

(* cb_leave_scope ends a statement of the scope; the walk stops there,     *)
(* because list_remove has cleared the node's next pointer.  Freeing a     *)
(* dummy walks lists that were never initialised.                          *)
Leave(s, r) ==
  /\ fault = "none"
  /\ role[s] = "member" /\ r # "member"
  /\ role' = [role EXCEPT ![s] = r]
  /\ LET running == {q \in Ids : stm[q].kind # "none" /\ stm[q].scope = s} IN
     \/ /\ running = {}
        /\ UNCHANGED <<stm, periodic, slot, fault, leaked>>
     \/ \E q \in running :
          IF stm[q].kind = "dummy"
          THEN /\ fault' = "uninitialised"
               /\ UNCHANGED <<stm, periodic, slot, leaked>>
          ELSE End(q) /\ UNCHANGED fault
  /\ steady' = (steady /\ \A q \in Ids : ~Uses(q, s))
  /\ out' = "none"
  /\ UNCHANGED tables

Next ==
  \/ \E q \in Ids, per \in Periods, lt \in Lifetimes, deep \in BOOLEAN :
       \/ \E s \in Scopes : ReceiveSelect(q, s, per, lt, deep)
       \/ \E s \in AllScopes : Disseminate(q, s, per, lt, deep)
  \/ \E q \in Ids : StartInDirtyBlock(q)
  \/ \E q \in Ids, deep \in BOOLEAN : PeriodicTimer(q, deep)
  \/ \E q \in Ids : SlotTimer(q)
  \/ \E q \in Ids, s \in Scopes, report \in Reports, diss \in BOOLEAN :
       ReceiveResult(q, s, report, diss)
  \/ \E s \in Scopes, r \in Roles : ChangeRole(s, r)
  \/ \E s \in Scopes, r \in Roles : Leave(s, r)

Spec == Init /\ [][Next]_vars

(* etimers fire when their time has come; messages and users owe nothing.  *)
Fairness == \A q \in Ids : /\ WF_vars(\E deep \in BOOLEAN : PeriodicTimer(q, deep))
                            /\ WF_vars(SlotTimer(q))
FairSpec == Spec /\ Fairness

-----------------------------------------------------------------------------
(* Every variable holds a value of its type, ended statements leave the    *)
(* record blank, and no table outgrows its array of MAX_ROWS rows.         *)
TypeOK ==
  /\ stm \in [Ids -> Statement]
  /\ \A q \in Ids : stm[q].kind = "none" => stm[q] = NoStatement
  /\ periodic \subseteq Ids
  /\ slot \in [Ids -> {"off", "armed", "late"}]
  /\ tables \in [TableIds -> Table]
  /\ \A t \in TableIds : Cardinality(tables[t].rows) <= MaxRows
  /\ role \in [AllScopes -> Roles]
  /\ out \in {"none", "upper", "routing", "nowhere"}
  /\ fault \in {"none", "uninitialised", "freed", "zero period", "no slot",
                "table", "ids", "rows"}
  /\ leaked \subseteq TableIds
  /\ steady \in BOOLEAN

(* A timer's callback gets a pointer to a statement: no timer outlives the *)
(* statement it points to, a SELECT has its periodic timer for as long as  *)
(* it is listed, and a forwarder's dummy never gets one.                   *)
TimersLive ==
  \A q \in Ids : /\ q \in periodic <=> stm[q].kind = "real"
                 /\ slot[q] # "off" => stm[q].kind # "none"

(* The buffer holds exactly the tables that statements collect into and    *)
(* the ones ended statements have left there, and no table has two owners: *)
(* dropping one never takes another statement's results.                   *)
TablesAccounted ==
  LET held == {stm[q].temp : q \in Listed} \ {0} IN
  /\ TableIds \ FreeIds = held \union leaked
  /\ held \intersect leaked = {}
  /\ \A p, q \in Listed : p # q /\ stm[p].temp = stm[q].temp => stm[p].temp = 0

(* When a dummy's timer runs out there is a table to report, and a table   *)
(* it has collected always has a timer running that will report it.        *)
DummyHasTable ==
  \A q \in Ids : stm[q].kind = "dummy" /\ fault = "none" =>
                   (slot[q] # "off" <=> stm[q].temp # 0)

(* What a member has collected starts in this epoch, or, until it reports, *)
(* in the one before: a child's result that came after its parent's report *)
(* waits one period, never two.                                            *)
CollectsRecent ==
  \A q \in Ids : steady /\ stm[q].kind = "real" /\ stm[q].temp # 0 =>
     LET e == tables[stm[q].temp].epoch IN
     e = stm[q].elapsed \/ (slot[q] = "armed" /\ e + 1 = stm[q].elapsed)

(* As long as scopes keep their roles while statements use them, and        *)
(* statements have one scope, an issuer that is its member, a period of two *)
(* ticks a slot and more than one of them at their issuer, a tree height as *)
(* great as the node's, and blocks of zeros from malloc, the manager runs   *)
(* into none of the faults above except a full table or a full buffer.      *)
SafeWhenSteady == steady => fault \in {"none", "rows", "ids"}

(* No report of such a node is dropped by scopes_send.                     *)
ReportsWhenSteady == steady => out # "nowhere"

(* Every SELECT ends: its lifetime is counted down whatever arrives.       *)
StatementEnds ==
  \A q \in Ids : stm[q].kind = "real" ~> (stm[q].kind # "real" \/ fault # "none")

(* tikidb-mgr.c:406 of forward_resultset: "Sends a result message to the   *)
(* network, if this node is a forwarder": no report of a node that relays  *)
(* for the statement's scope comes to nothing.                             *)
ForwarderSends ==
  [][\A q \in Ids : (/\ slot[q] # "off" /\ slot'[q] = "off"
                    /\ stm'[q].kind # "none"
                    /\ role[stm[q].scope] \in {"forwarder", "relay"})
                   => out' # "nowhere"]_vars
=============================================================================
