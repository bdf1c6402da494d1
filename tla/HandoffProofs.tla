---------------------------- MODULE HandoffProofs ---------------------------
(***************************************************************************)
(* The handoff table, for every number of hooks, tickets, destinations and *)
(* checkpoints: its invariants, and that it implements the abstract ticket *)
(* of module Ticket.                                                       *)
(***************************************************************************)
EXTENDS Handoff, TLAPS

-----------------------------------------------------------------------------
(* The inductive invariant.                                                 *)

\* Tickets are created in order, and only a created one can be consumed.
OrderInv ==
  /\ \A t, u \in Tickets : rows[t].phase # "unused" /\ u < t => rows[u].phase # "unused"
  /\ \A t \in Tickets : rows[t].phase = "unused" => ~rows[t].consumed

\* A hook that says it consumed a ticket wrote its context first, and the row
\* agrees.
HookInv ==
  \A h \in Hooks :
    /\ hook[h].pc = "finalize" => hook[h].written
    /\ hook[h].pc = "consumed" => hook[h].written /\ rows[hook[h].ticket].consumed

IInv ==
  /\ TypeOK
  /\ OrderInv /\ HookInv
  /\ NewestIsOpen /\ ConsumedOnce /\ ConsumedWasDelivered

-----------------------------------------------------------------------------
(* Steps that change only one side.                                         *)

\* Rows keep who they are; none is consumed and none is opened.
RowsKept ==
  /\ rows' \in [Tickets -> Row]
  /\ \A t \in Tickets : /\ rows'[t].dest = rows[t].dest
                        /\ rows'[t].consumed = rows[t].consumed
                        /\ rows'[t].phase = "unused" <=> rows[t].phase = "unused"
                        /\ Open(t)' => Open(t)

\* One hook moves on, and neither starts from nor arrives at "consumed".
HookMoved(h) ==
  /\ hook' \in [Hooks -> [pc : HookPcs, ticket : Tickets \cup {None}, written : BOOLEAN]]
  /\ \A g \in Hooks \ {h} : hook'[g] = hook[g]
  /\ hook[h].pc # "consumed" /\ hook'[h].pc # "consumed"
  /\ hook'[h].pc = "finalize" => hook'[h].written
  /\ hook'[h].pc \notin {"find", "done"} => hook'[h].ticket # None

LEMMA TableStep ==
  ASSUME IInv, RowsKept, hook' = hook, day' \in 0..MaxDay,
         sessions' \in [Sources -> [present : BOOLEAN, updated : 0..MaxDay]]
  PROVE  IInv'
<1>1. TypeOK'
  BY DEF IInv, TypeOK, RowsKept
<1>2. OrderInv'
  BY DEF IInv, OrderInv, RowsKept
<1>3. HookInv'
  BY DEF IInv, HookInv, RowsKept, TypeOK
<1>4. NewestIsOpen'
  BY DEF IInv, NewestIsOpen, RowsKept
<1>5. ConsumedOnce' /\ ConsumedWasDelivered'
  BY DEF IInv, ConsumedOnce, ConsumedWasDelivered, RowsKept
<1>6. QED
  BY <1>1, <1>2, <1>3, <1>4, <1>5 DEF IInv

LEMMA HookMove ==
  ASSUME IInv, RowsKept, NEW h \in Hooks, HookMoved(h), UNCHANGED <<day, sessions>>
  PROVE  IInv'
<1>1. TypeOK'
  BY DEF IInv, TypeOK, RowsKept, HookMoved
<1>2. OrderInv'
  BY DEF IInv, OrderInv, RowsKept
<1>3. HookInv'
  <2> SUFFICES ASSUME NEW g \in Hooks
               PROVE  /\ hook'[g].pc = "finalize" => hook'[g].written
                      /\ hook'[g].pc = "consumed"
                           => hook'[g].written /\ rows'[hook'[g].ticket].consumed
    BY DEF HookInv
  <2>1. CASE g = h
    BY <2>1 DEF HookMoved
  <2>2. CASE g # h
    <3>1. hook[g].pc = "consumed" => hook[g].ticket \in Tickets
      BY DEF IInv, TypeOK
    <3>2. QED
      BY <2>2, <3>1 DEF HookMoved, IInv, HookInv, RowsKept
  <2>3. QED
    BY <2>1, <2>2
<1>4. NewestIsOpen'
  BY DEF IInv, NewestIsOpen, RowsKept
<1>5. ConsumedOnce' /\ ConsumedWasDelivered'
  BY DEF IInv, ConsumedOnce, ConsumedWasDelivered, RowsKept, HookMoved
<1>6. QED
  BY <1>1, <1>2, <1>3, <1>4, <1>5 DEF IInv

LEMMA RowsUnchanged ==
  ASSUME TypeOK, UNCHANGED <<day, rows>>
  PROVE  RowsKept
BY DEF TypeOK, RowsKept, Open, Unconsumed

\* What the abstract ticket sees of a row.
LEMMA StatusOf ==
  ASSUME NEW t \in Tickets
  PROVE  /\ rows[t].phase = "unused" => status[t] = "none"
         /\ rows[t].phase # "unused" /\ rows[t].consumed => status[t] = "consumed"
         /\ rows[t].phase # "unused" /\ ~rows[t].consumed
              => status[t] = IF Open(t) THEN "open" ELSE "void"
BY DEF status

LEMMA NextStatusOf ==
  ASSUME NEW t \in Tickets
  PROVE  /\ rows'[t].phase = "unused" => status'[t] = "none"
         /\ rows'[t].phase # "unused" /\ rows'[t].consumed => status'[t] = "consumed"
         /\ rows'[t].phase # "unused" /\ ~rows'[t].consumed
              => status'[t] = IF Open(t)' THEN "open" ELSE "void"
BY DEF status

\* A step that keeps the rows only voids the tickets that are no longer open.
LEMMA KeptRowsVoid ==
  ASSUME RowsKept
  PROVE  \E S \in SUBSET Tickets : A!Void(S)
<1> DEFINE S == {t \in Tickets : status[t] = "open" /\ status'[t] # "open"}
<1>1. S \in SUBSET Tickets /\ \A t \in S : status[t] = "open"
  OBVIOUS
<1>2. ASSUME NEW t \in Tickets
      PROVE  status'[t] = IF t \in S THEN "void" ELSE status[t]
  <2>1. /\ rows'[t].consumed = rows[t].consumed
        /\ rows'[t].phase = "unused" <=> rows[t].phase = "unused"
        /\ Open(t)' => Open(t)
    BY DEF RowsKept
  <2>2. Open(t) => rows[t].phase # "unused" /\ ~rows[t].consumed
    BY DEF Open, Unconsumed
  <2>3. CASE rows[t].phase = "unused"
    BY <2>1, <2>2, <2>3, StatusOf, NextStatusOf
  <2>4. CASE rows[t].phase # "unused" /\ rows[t].consumed
    BY <2>1, <2>2, <2>4, StatusOf, NextStatusOf
  <2>5. CASE rows[t].phase # "unused" /\ ~rows[t].consumed
    BY <2>1, <2>2, <2>5, StatusOf, NextStatusOf
  <2>6. QED
    BY <2>3, <2>4, <2>5
<1>3. status' = [t \in Tickets |-> IF t \in S THEN "void" ELSE status[t]]
  BY <1>2 DEF status
<1>4. [t \in Tickets |-> rows[t].dest]' = [t \in Tickets |-> rows[t].dest]
  BY DEF RowsKept
<1>5. QED
  <2>1. A!Void(S)
    BY <1>1, <1>3, <1>4 DEF A!Void
  <2>2. QED
    BY <1>1, <2>1

\* HookTo, and the fields it leaves alone.
LEMMA HookToMoves ==
  ASSUME IInv, NEW h \in Hooks, NEW pc \in HookPcs \ {"consumed"}, HookTo(h, pc),
         hook[h].pc # "consumed", pc = "finalize" => hook[h].written,
         pc \notin {"find", "done"} => hook[h].ticket # None
  PROVE  HookMoved(h)
<1>1. hook[h] \in [pc : HookPcs, ticket : Tickets \cup {None}, written : BOOLEAN]
  BY DEF IInv, TypeOK
<1>2. hook'[h] = [hook[h] EXCEPT !.pc = pc]
  BY DEF IInv, TypeOK, HookTo
<1>3. hook'[h] \in [pc : HookPcs, ticket : Tickets \cup {None}, written : BOOLEAN]
      /\ hook'[h].pc = pc /\ hook'[h].written = hook[h].written
      /\ hook'[h].ticket = hook[h].ticket
  BY <1>1, <1>2
<1>4. hook' \in [Hooks -> [pc : HookPcs, ticket : Tickets \cup {None}, written : BOOLEAN]]
      /\ \A g \in Hooks \ {h} : hook'[g] = hook[g]
  BY <1>3 DEF IInv, TypeOK, HookTo
<1>5. QED
  BY <1>3, <1>4 DEF HookMoved

-----------------------------------------------------------------------------
(* One step per action.                                                     *)

LEMMA CreateHandoffKeeps ==
  ASSUME IInv, NEW t \in Tickets, NEW s \in Sources, NEW d \in Dests, CreateHandoff(t, s, d)
  PROVE  IInv' /\ A!Create(t, d)
<1>1. /\ rows[t].phase = "unused"
      /\ \A u \in Tickets : u < t => rows[u].phase # "unused"
      /\ UNCHANGED <<day, sessions, hook>>
  BY DEF CreateHandoff
<1>2. TypeOK /\ day \in Nat /\ t \in Nat /\ day + TicketDays \in Nat
  BY BoundsAssumption DEF IInv, TypeOK, Tickets
<1>3. /\ rows'[t] = NewRow(s, d)
      /\ \A u \in Tickets \ {t} :
           rows'[u] = IF Unconsumed(u) /\ rows[u].dest = d THEN Superseded(u) ELSE rows[u]
  BY DEF CreateHandoff
<1>4. NewRow(s, d) \in Row
  BY <1>2 DEF NewRow, Row
<1>5. ASSUME NEW u \in Tickets PROVE Superseded(u) \in Row
  <2>1. rows[u] \in Row
    BY <1>2 DEF TypeOK
  <2>2. QED
    BY <1>2, <2>1 DEF Superseded, Row
<1>6. rows' \in [Tickets -> Row]
  BY <1>2, <1>3, <1>4, <1>5 DEF CreateHandoff, TypeOK
<1>7. TypeOK'
  BY <1>1, <1>2, <1>6 DEF TypeOK
<1>8. /\ rows'[t].phase = "present" /\ ~rows'[t].consumed /\ rows'[t].dest = d
      /\ \A u \in Tickets \ {t} : /\ rows'[u].phase = rows[u].phase
                                  /\ rows'[u].consumed = rows[u].consumed
                                  /\ rows'[u].dest = rows[u].dest
                                  /\ Open(u)' => Open(u) /\ rows[u].dest # d
  <2>1. rows'[t].phase = "present" /\ ~rows'[t].consumed /\ rows'[t].dest = d
    BY <1>3 DEF NewRow
  <2>2. ASSUME NEW u \in Tickets \ {t}
        PROVE  /\ rows'[u].phase = rows[u].phase
               /\ rows'[u].consumed = rows[u].consumed
               /\ rows'[u].dest = rows[u].dest
               /\ Open(u)' => Open(u) /\ rows[u].dest # d
    <3>1. rows[u] \in Row
      BY <1>2 DEF TypeOK
    <3>2. CASE Unconsumed(u) /\ rows[u].dest = d
      <4>1. rows'[u] = [rows[u] EXCEPT !.expires = day, !.token = None, !.lapsed = FALSE]
        BY <1>3, <3>2 DEF Superseded
      <4>2. /\ rows'[u].phase = rows[u].phase /\ rows'[u].consumed = rows[u].consumed
            /\ rows'[u].dest = rows[u].dest /\ rows'[u].expires = day
        BY <3>1, <4>1 DEF Row
      <4>3. ~Open(u)'
        BY <1>1, <1>2, <4>2 DEF Open
      <4>4. QED
        BY <4>2, <4>3
    <3>3. CASE ~(Unconsumed(u) /\ rows[u].dest = d)
      BY <1>1, <1>3, <3>3 DEF Open, Unconsumed
    <3>4. QED
      BY <3>2, <3>3
  <2>3. QED
    BY <2>1, <2>2
<1>9. \A u \in Tickets : rows[u].phase # "unused" => u < t
  BY <1>1, <1>2 DEF IInv, OrderInv, Tickets
<1>10. OrderInv'
  BY <1>1, <1>8, <1>9 DEF IInv, OrderInv, Tickets
<1>11. HookInv' /\ ConsumedOnce' /\ ConsumedWasDelivered'
  <2>1. \A u \in Tickets : rows'[u].consumed <=> rows[u].consumed
    <3>1. ~rows'[t].consumed /\ ~rows[t].consumed
      BY <1>1, <1>8 DEF IInv, OrderInv
    <3>2. QED
      BY <1>8, <3>1
  <2>2. HookInv'
    BY <1>1, <1>2, <2>1 DEF IInv, HookInv, TypeOK
  <2>3. ConsumedOnce'
    BY <1>1 DEF IInv, ConsumedOnce
  <2>4. ConsumedWasDelivered'
    BY <1>1, <2>1 DEF IInv, ConsumedWasDelivered
  <2>5. QED
    BY <2>2, <2>3, <2>4
<1>12. NewestIsOpen'
  <2> SUFFICES ASSUME NEW u \in Tickets, NEW v \in Tickets, Open(u)',
                      rows'[v].phase # "unused", rows'[v].dest = rows'[u].dest
               PROVE  v <= u
    BY DEF NewestIsOpen
  <2>1. CASE u = t
    BY <1>8, <1>9, <2>1 DEF Tickets
  <2>2. CASE u # t
    BY <1>8, <2>2 DEF IInv, NewestIsOpen
  <2>3. QED
    BY <2>1, <2>2
<1>13. A!Create(t, d)
  <2>1. status[t] = "none"
    BY <1>1, StatusOf
  <2>2. [u \in Tickets |-> rows[u].dest]' = [[u \in Tickets |-> rows[u].dest] EXCEPT ![t] = d]
    BY <1>8
  <2>3. status'[t] = "open"
    <3>1. Open(t)'
      BY <1>1, <1>2, <1>3, BoundsAssumption DEF NewRow, Open, Unconsumed
    <3>2. QED
      BY <1>8, <3>1, NextStatusOf
  <2>4. ASSUME NEW u \in Tickets, u # t
        PROVE  status'[u] = IF status[u] = "open" /\ rows[u].dest = d THEN "void" ELSE status[u]
    <3>1. /\ rows'[u].phase = rows[u].phase
          /\ rows'[u].consumed <=> rows[u].consumed
          /\ Open(u)' => Open(u) /\ rows[u].dest # d
      BY <1>8, <2>4
    <3>2. Open(u) /\ rows[u].dest # d => Open(u)'
      BY <1>1, <1>3, <2>4 DEF Open, Unconsumed
    <3>3. CASE rows[u].phase = "unused"
      BY <3>1, <3>3, StatusOf, NextStatusOf
    <3>4. CASE rows[u].phase # "unused" /\ rows[u].consumed
      BY <3>1, <3>4, StatusOf, NextStatusOf
    <3>5. CASE rows[u].phase # "unused" /\ ~rows[u].consumed
      <4>1. status[u] = IF Open(u) THEN "open" ELSE "void"
        BY <3>5, StatusOf
      <4>2. status'[u] = IF Open(u)' THEN "open" ELSE "void"
        BY <3>1, <3>5, NextStatusOf
      <4>3. QED
        BY <3>1, <3>2, <4>1, <4>2
    <3>6. QED
      BY <3>3, <3>4, <3>5
  <2>5. status' = [u \in Tickets |->
                     IF u = t THEN "open"
                     ELSE IF status[u] = "open" /\ [v \in Tickets |-> rows[v].dest][u] = d
                            THEN "void" ELSE status[u]]
    <3>1. status' = [u \in Tickets |-> status'[u]]
      BY DEF status
    <3>2. QED
      BY <2>3, <2>4, <3>1
  <2>6. QED
    BY <2>1, <2>2, <2>5 DEF A!Create
<1>14. QED
  BY <1>7, <1>10, <1>11, <1>12, <1>13 DEF IInv

LEMMA DeleteSessionsKeeps ==
  ASSUME IInv, NEW S, DeleteSessions(S)
  PROVE  IInv' /\ RowsKept
<1>1. TypeOK /\ UNCHANGED <<day, hook>>
  BY DEF IInv, DeleteSessions
<1>2. sessions' \in [Sources -> [present : BOOLEAN, updated : 0..MaxDay]]
  BY <1>1 DEF DeleteSessions, TypeOK
<1>3. RowsKept
  <2>1. ASSUME NEW t \in Tickets
        PROVE  /\ rows'[t] \in Row /\ rows'[t].dest = rows[t].dest
               /\ rows'[t].consumed = rows[t].consumed
               /\ rows'[t].phase = "unused" <=> rows[t].phase = "unused"
               /\ Open(t)' => Open(t)
    <3>1. rows[t] \in Row
      BY <1>1 DEF TypeOK
    <3>2. CASE rows[t].phase = "present" /\ rows[t].source \in S
      <4>1. rows'[t] = [rows[t] EXCEPT !.phase = "deleted", !.token = None, !.lapsed = FALSE]
        BY <3>2 DEF DeleteSessions
      <4>2. QED
        BY <3>1, <3>2, <4>1 DEF Row, Open, Unconsumed
    <3>3. CASE ~(rows[t].phase = "present" /\ rows[t].source \in S)
      BY <1>1, <3>1, <3>3 DEF DeleteSessions, Open, Unconsumed
    <3>4. QED
      BY <3>2, <3>3
  <2>2. rows' = [t \in Tickets |-> rows'[t]]
    BY DEF DeleteSessions
  <2>3. QED
    BY <2>1, <2>2 DEF RowsKept
<1>4. QED
  BY <1>1, <1>2, <1>3, TableStep DEF TypeOK

LEMMA TouchKeeps ==
  ASSUME IInv, NEW s \in Sources, Touch(s)
  PROVE  IInv' /\ RowsKept
<1>1. TypeOK /\ UNCHANGED <<day, rows, hook>>
  BY DEF IInv, Touch
<1>2. sessions' \in [Sources -> [present : BOOLEAN, updated : 0..MaxDay]]
  BY <1>1 DEF Touch, TypeOK
<1>3. RowsKept
  BY <1>1, RowsUnchanged
<1>4. QED
  BY <1>1, <1>2, <1>3, TableStep DEF TypeOK

\* A row whose claim is set is a row, and keeps its other fields.
LEMMA RowClaimed ==
  ASSUME NEW r \in Row, NEW holder \in Hooks \cup {None}, NEW q,
         \/ q = [r EXCEPT !.token = holder, !.lapsed = TRUE]
         \/ q = [r EXCEPT !.token = holder, !.lapsed = FALSE]
  PROVE  /\ q \in Row
         /\ q.phase = r.phase /\ q.dest = r.dest
         /\ q.consumed = r.consumed /\ q.expires = r.expires
BY DEF Row

\* A statement that sets only the claim of one row.
ClaimSet(t, holder) ==
  \/ rows' = [rows EXCEPT ![t].token = holder, ![t].lapsed = TRUE]
  \/ rows' = [rows EXCEPT ![t].token = holder, ![t].lapsed = FALSE]

LEMMA ClaimWritten ==
  ASSUME IInv, NEW t \in Tickets, NEW holder \in Hooks \cup {None}, day' = day,
         ClaimSet(t, holder)
  PROVE  RowsKept
<1>1. rows[t] \in Row /\ rows \in [Tickets -> Row]
  BY DEF IInv, TypeOK
<1>2. \/ rows'[t] = [rows[t] EXCEPT !.token = holder, !.lapsed = TRUE]
      \/ rows'[t] = [rows[t] EXCEPT !.token = holder, !.lapsed = FALSE]
  BY <1>1 DEF ClaimSet
<1>3. rows'[t] \in Row
  BY <1>1, <1>2, RowClaimed
<1>4. /\ rows'[t].phase = rows[t].phase /\ rows'[t].dest = rows[t].dest
      /\ rows'[t].consumed = rows[t].consumed /\ rows'[t].expires = rows[t].expires
  <2>1. CASE rows'[t] = [rows[t] EXCEPT !.token = holder, !.lapsed = TRUE]
    BY <1>1, <2>1 DEF Row
  <2>2. CASE rows'[t] = [rows[t] EXCEPT !.token = holder, !.lapsed = FALSE]
    BY <1>1, <2>2 DEF Row
  <2>3. QED
    BY <1>2, <2>1, <2>2
<1>5. rows' \in [Tickets -> Row] /\ \A u \in Tickets \ {t} : rows'[u] = rows[u]
  BY <1>1, <1>3 DEF ClaimSet
<1>6. QED
  BY <1>3, <1>4, <1>5 DEF RowsKept, Open, Unconsumed

LEMMA LeaseLapsesKeeps ==
  ASSUME IInv, NEW t \in Tickets, LeaseLapses(t)
  PROVE  IInv' /\ RowsKept
<1>1. TypeOK /\ rows[t] \in Row /\ rows \in [Tickets -> Row]
  BY DEF IInv, TypeOK
<1>2. rows' = [rows EXCEPT ![t].token = rows[t].token, ![t].lapsed = TRUE]
  <2>1. [rows[t] EXCEPT !.lapsed = TRUE] = [rows[t] EXCEPT !.token = rows[t].token, !.lapsed = TRUE]
    BY <1>1 DEF Row
  <2>2. QED
    BY <1>1, <2>1 DEF LeaseLapses
<1>3. RowsKept
  BY <1>1, <1>2, ClaimWritten DEF LeaseLapses, Row, ClaimSet
<1>4. QED
  BY <1>1, <1>3, TableStep DEF LeaseLapses, TypeOK

LEMMA NextDayKeeps ==
  ASSUME IInv, NextDay
  PROVE  IInv' /\ RowsKept
<1>1. TypeOK /\ day' \in 0..MaxDay /\ day < day'
  BY BoundsAssumption DEF IInv, TypeOK, NextDay
<1>2. RowsKept
  BY <1>1 DEF NextDay, RowsKept, Open, Unconsumed, TypeOK, Row
<1>3. QED
  BY <1>1, <1>2, TableStep DEF NextDay, TypeOK

LEMMA HookStepKeeps ==
  ASSUME IInv, NEW h \in Hooks, HookStep(h)
  PROVE  IInv' /\ (RowsKept \/ \E t \in Tickets : A!Consume(t))
<1>1. TypeOK /\ hook[h] \in [pc : HookPcs, ticket : Tickets \cup {None}, written : BOOLEAN]
      /\ rows \in [Tickets -> Row]
  BY DEF IInv, TypeOK
<1>2. {"build", "claim", "write", "finalize", "release", "done"} \subseteq HookPcs \ {"consumed"}
      /\ "consumed" \in HookPcs
  BY DEF HookPcs
<1>3. CASE \E d \in Dests : FindHandoff(h, d)
  <2>1. PICK d \in Dests : FindHandoff(h, d)
    BY <1>3
  <2>2. hook[h].pc = "find" /\ UNCHANGED <<day, sessions, rows>>
    BY <2>1 DEF FindHandoff
  <2>3. CASE HookTo(h, "done")
    BY <1>1, <1>2, <2>2, <2>3, HookToMoves, RowsUnchanged, HookMove
  <2>4. CASE \E t \in Tickets : hook' = [hook EXCEPT ![h].pc = "build", ![h].ticket = t]
    <3>1. PICK t \in Tickets : hook' = [hook EXCEPT ![h].pc = "build", ![h].ticket = t]
      BY <2>4
    <3>2. hook'[h] = [hook[h] EXCEPT !.pc = "build", !.ticket = t]
          /\ \A g \in Hooks \ {h} : hook'[g] = hook[g]
      BY <1>1, <3>1 DEF TypeOK
    <3>3. hook'[h] \in [pc : HookPcs, ticket : Tickets \cup {None}, written : BOOLEAN]
          /\ hook'[h].pc = "build" /\ hook'[h].ticket # None
      <4>1. t # None /\ "build" \in HookPcs
        BY <1>2, NoneAssumption DEF Tickets
      <4>2. QED
        BY <1>1, <3>2, <4>1
    <3>4. HookMoved(h)
      BY <1>1, <2>2, <3>1, <3>2, <3>3 DEF HookMoved, TypeOK
    <3>5. QED
      BY <1>1, <2>2, <3>4, RowsUnchanged, HookMove
  <2>5. QED
    BY <2>1, <2>3, <2>4 DEF FindHandoff
<1>4. CASE BuildContext(h)
  <2>1. hook[h].pc = "build" /\ UNCHANGED <<day, sessions, rows>>
        /\ (HookTo(h, "claim") \/ HookTo(h, "done")) /\ hook[h].ticket # None
    BY <1>1, <1>4 DEF BuildContext, TypeOK
  <2>2. HookMoved(h)
    BY <1>1, <1>2, <2>1, HookToMoves
  <2>3. QED
    BY <1>1, <2>1, <2>2, RowsUnchanged, HookMove
<1>5. CASE ClaimHandoff(h)
  <2>1. hook[h].pc = "claim" /\ UNCHANGED <<day, sessions>> /\ hook[h].ticket # None
        /\ (HookTo(h, "write") \/ HookTo(h, "done")) /\ hook[h].ticket \in Tickets
    BY <1>1, <1>5 DEF ClaimHandoff, TypeOK
  <2>2. HookMoved(h)
    BY <1>1, <1>2, <2>1, HookToMoves
  <2>3. RowsKept
    BY <1>1, <1>5, <2>1, RowsUnchanged, ClaimWritten DEF ClaimHandoff, ClaimSet
  <2>4. QED
    BY <2>1, <2>2, <2>3, HookMove
<1>6. CASE WriteOutput(h)
  <2>1. hook[h].pc = "write" /\ UNCHANGED <<day, sessions, rows>> /\ hook[h].ticket # None
    BY <1>1, <1>6 DEF WriteOutput, TypeOK
  <2>2. CASE HookTo(h, "release")
    BY <1>1, <1>2, <2>1, <2>2, HookToMoves, RowsUnchanged, HookMove
  <2>3. CASE hook' = [hook EXCEPT ![h].pc = "finalize", ![h].written = TRUE]
    <3>1. hook'[h] = [hook[h] EXCEPT !.pc = "finalize", !.written = TRUE]
          /\ \A g \in Hooks \ {h} : hook'[g] = hook[g]
      BY <1>1, <2>3 DEF TypeOK
    <3>2. hook'[h] \in [pc : HookPcs, ticket : Tickets \cup {None}, written : BOOLEAN]
          /\ hook'[h].pc = "finalize" /\ hook'[h].ticket # None /\ hook'[h].written
      BY <1>1, <1>2, <2>1, <3>1
    <3>3. HookMoved(h)
      BY <1>1, <2>1, <2>3, <3>1, <3>2 DEF HookMoved, TypeOK
    <3>4. QED
      BY <1>1, <2>1, <3>3, RowsUnchanged, HookMove
  <2>4. QED
    BY <1>6, <2>2, <2>3 DEF WriteOutput
<1>7. CASE CompleteHandoffClaim(h)
  <2>1. hook[h].pc = "finalize" /\ UNCHANGED <<day, sessions>> /\ hook[h].written
        /\ hook[h].ticket \in Tickets /\ hook[h].ticket # None
    BY <1>1, <1>7 DEF CompleteHandoffClaim, IInv, TypeOK, HookInv
  <2> DEFINE t == hook[h].ticket
  <2>2. CASE Open(t) /\ rows[t].token = h
    <3>1. /\ rows' = [rows EXCEPT ![t].consumed = TRUE, ![t].token = None, ![t].lapsed = FALSE]
          /\ HookTo(h, "consumed")
      BY <1>7, <2>2 DEF CompleteHandoffClaim
    <3>2. rows'[t] = [rows[t] EXCEPT !.consumed = TRUE, !.token = None, !.lapsed = FALSE]
          /\ (\A u \in Tickets \ {t} : rows'[u] = rows[u]) /\ rows[t] \in Row
      BY <1>1, <2>1, <3>1
    <3>3. rows'[t] \in Row /\ rows'[t].consumed /\ rows'[t].phase = rows[t].phase
          /\ rows'[t].dest = rows[t].dest
      BY <3>2 DEF Row
    <3>4. rows' \in [Tickets -> Row]
      BY <1>1, <2>1, <3>1, <3>3
    <3>5. hook'[h] = [hook[h] EXCEPT !.pc = "consumed"]
          /\ \A g \in Hooks \ {h} : hook'[g] = hook[g]
      BY <1>1, <3>1 DEF HookTo, TypeOK
    <3>6. hook'[h] \in [pc : HookPcs, ticket : Tickets \cup {None}, written : BOOLEAN]
          /\ hook'[h].pc = "consumed" /\ hook'[h].ticket = t /\ hook'[h].written
      BY <1>1, <1>2, <2>1, <3>5
    <3>7. hook' \in [Hooks -> [pc : HookPcs, ticket : Tickets \cup {None}, written : BOOLEAN]]
      BY <1>1, <3>1, <3>6 DEF HookTo, TypeOK
    <3>8. ~rows[t].consumed /\ rows[t].phase = "present"
      BY <2>2 DEF Open, Unconsumed
    <3>9. TypeOK'
      <4>1. \A g \in Hooks : hook'[g].pc \notin {"find", "done"} => hook'[g].ticket # None
        <5>1. \A g \in Hooks : hook[g].pc \notin {"find", "done"} => hook[g].ticket # None
          BY <1>1 DEF TypeOK
        <5> QED
          BY <2>1, <3>5, <3>6, <5>1
      <4>2. day' \in 0..MaxDay /\ sessions' = sessions
        BY <1>1, <2>1 DEF TypeOK
      <4> QED
        BY <1>1, <3>4, <3>7, <4>1, <4>2 DEF TypeOK
    <3>10. ASSUME NEW u \in Tickets
           PROVE  /\ rows'[u].phase = rows[u].phase /\ rows'[u].dest = rows[u].dest
                  /\ Open(u)' => Open(u)
                  /\ rows[u].consumed => rows'[u].consumed
                  /\ u # t => (rows'[u].consumed <=> rows[u].consumed)
      <4>1. CASE u = t
        BY <2>2, <3>3, <3>8, <4>1
      <4>2. CASE u # t
        BY <2>1, <3>2, <4>2 DEF Open, Unconsumed
      <4>3. QED
        BY <4>1, <4>2
    <3>11. OrderInv'
      <4>1. rows'[t].phase # "unused"
        BY <3>3, <3>8
      <4>2. QED
        BY <3>10, <4>1 DEF IInv, OrderInv
    <3>12. HookInv'
      <4> SUFFICES ASSUME NEW g \in Hooks
                   PROVE  /\ hook'[g].pc = "finalize" => hook'[g].written
                          /\ hook'[g].pc = "consumed"
                               => hook'[g].written /\ rows'[hook'[g].ticket].consumed
        BY DEF HookInv
      <4>1. CASE g = h
        BY <3>3, <3>6, <4>1
      <4>2. CASE g # h
        <5>1. hook'[g] = hook[g]
          BY <3>5, <4>2
        <5>2. hook[g].pc = "consumed" => hook[g].ticket \in Tickets
          BY DEF IInv, TypeOK
        <5>3. QED
          BY <3>10, <5>1, <5>2 DEF IInv, HookInv
      <4>3. QED
        BY <4>1, <4>2
    <3>13. NewestIsOpen'
      BY <3>10 DEF IInv, NewestIsOpen
    <3>14. ConsumedOnce'
      BY <3>5, <3>6, <3>8 DEF IInv, HookInv, ConsumedOnce
    <3>15. ConsumedWasDelivered'
      BY <2>1, <3>5, <3>6, <3>10 DEF IInv, ConsumedWasDelivered
    <3>16. A!Consume(t)
      <4>1. status[t] = "open" /\ status'[t] = "consumed"
        BY <2>1, <2>2, <3>3, <3>8, StatusOf, NextStatusOf
      <4>2. ASSUME NEW u \in Tickets, u # t PROVE status'[u] = status[u]
        BY <2>1, <3>2, <4>2 DEF status, Open, Unconsumed
      <4>3. status' = [status EXCEPT ![t] = "consumed"]
        BY <2>1, <4>1, <4>2 DEF status
      <4>4. [u \in Tickets |-> rows[u].dest]' = [u \in Tickets |-> rows[u].dest]
        BY <3>10
      <4>5. QED
        BY <4>1, <4>3, <4>4 DEF A!Consume
    <3>17. QED
      BY <2>1, <3>9, <3>11, <3>12, <3>13, <3>14, <3>15, <3>16 DEF IInv
  <2>3. CASE ~(Open(t) /\ rows[t].token = h)
    <3>1. HookTo(h, "done") /\ rows' = rows
      BY <1>7, <2>3 DEF CompleteHandoffClaim
    <3>2. QED
      BY <1>1, <1>2, <2>1, <3>1, HookToMoves, RowsUnchanged, HookMove
  <2>4. QED
    BY <2>2, <2>3
<1>8. CASE ReleaseHandoffClaim(h)
  <2>1. hook[h].pc = "release" /\ UNCHANGED <<day, sessions>> /\ HookTo(h, "done")
        /\ hook[h].ticket \in Tickets
    BY <1>1, <1>8 DEF ReleaseHandoffClaim, TypeOK
  <2>2. RowsKept
    BY <1>1, <1>8, <2>1, RowsUnchanged, ClaimWritten DEF ReleaseHandoffClaim, ClaimSet
  <2>3. QED
    BY <1>1, <1>2, <2>1, <2>2, HookToMoves, HookMove
<1>9. CASE HookFails(h)
  BY <1>1, <1>2, <1>9, HookToMoves, RowsUnchanged, HookMove DEF HookFails
<1>10. QED
  BY <1>3, <1>4, <1>5, <1>6, <1>7, <1>8, <1>9 DEF HookStep

-----------------------------------------------------------------------------
(* The theorems.                                                            *)

LEMMA InitEstablishes == Init => IInv
<1> SUFFICES ASSUME Init PROVE IInv
  OBVIOUS
<1>1. TypeOK
  BY BoundsAssumption DEF Init, TypeOK, Row, HookPcs
<1>2. OrderInv /\ HookInv /\ NewestIsOpen /\ ConsumedOnce /\ ConsumedWasDelivered
  BY DEF Init, OrderInv, HookInv, NewestIsOpen, ConsumedOnce, ConsumedWasDelivered, Open,
         Unconsumed
<1>3. QED
  BY <1>1, <1>2 DEF IInv

LEMMA InitMaps == Init => A!Init
<1> SUFFICES ASSUME Init PROVE A!Init
  OBVIOUS
<1>1. \A t \in Tickets : rows[t].phase = "unused" /\ rows[t].dest = None
  BY DEF Init
<1>2. QED
  BY <1>1, StatusOf DEF A!Init, status

\* A step keeps the invariant, and is a step of the abstract ticket.
LEMMA NextKeeps ==
  ASSUME IInv, [Next]_vars
  PROVE  IInv' /\ A!Next
<1> USE DEF A!Next
<1>0. RowsKept => A!Next
  <2>1. ASSUME RowsKept PROVE A!Next
    BY <2>1, KeptRowsVoid
  <2>2. QED
    BY <2>1
<1>1. CASE \E t \in Tickets, s \in Sources, d \in Dests : CreateHandoff(t, s, d)
  BY <1>1, CreateHandoffKeeps
<1>2. CASE \E s \in Sources : DeleteSession(s) \/ Touch(s)
  BY <1>0, <1>2, DeleteSessionsKeeps, TouchKeeps DEF DeleteSession
<1>3. CASE CleanupClosedSessions
  BY <1>0, <1>3, DeleteSessionsKeeps DEF CleanupClosedSessions
<1>4. CASE \E h \in Hooks : HookStep(h)
  BY <1>0, <1>4, HookStepKeeps
<1>5. CASE \E t \in Tickets : LeaseLapses(t)
  BY <1>0, <1>5, LeaseLapsesKeeps
<1>6. CASE NextDay
  BY <1>0, <1>6, NextDayKeeps
<1>7. CASE UNCHANGED vars
  <2>1. RowsKept
    BY <1>7, RowsUnchanged DEF vars, IInv
  <2>2. QED
    BY <1>0, <1>7, <2>1, TableStep DEF vars, IInv, TypeOK
<1>8. QED
  BY <1>1, <1>2, <1>3, <1>4, <1>5, <1>6, <1>7 DEF Next

\* The strengthened invariant holds in every reachable state.
THEOREM Inductive == Spec => []IInv
<1>1. IInv /\ [Next]_vars => IInv'
  BY NextKeeps
<1>2. QED
  BY <1>1, InitEstablishes, PTL DEF Spec

\* Every variable keeps its shape, and a hook past FindHandoff has a ticket.
THEOREM TypeCorrect == Spec => []TypeOK
<1>1. IInv => TypeOK
  BY DEF IInv
<1>2. QED
  BY <1>1, Inductive, PTL

\* The open ticket of a destination is the last one created for it.
THEOREM NewestDelivered == Spec => []NewestIsOpen
<1>1. IInv => NewestIsOpen
  BY DEF IInv
<1>2. QED
  BY <1>1, Inductive, PTL

\* However many prompts race, and however late they complete, one of them at most
\* consumes a ticket.
THEOREM OneConsumer == Spec => []ConsumedOnce
<1>1. IInv => ConsumedOnce
  BY DEF IInv
<1>2. QED
  BY <1>1, Inductive, PTL

\* A consumed ticket has been written to an agent.
THEOREM NeverLost == Spec => []ConsumedWasDelivered
<1>1. IInv => ConsumedWasDelivered
  BY DEF IInv
<1>2. QED
  BY <1>1, Inductive, PTL

-----------------------------------------------------------------------------
(* Claims.                                                                  *)

\* Nobody holds a ticket that was not created.
UnusedInv == \A t \in Tickets : rows[t].phase = "unused" => rows[t].token = None

Exclusive(t) ==
  rows[t].token # None /\ ~rows[t].lapsed /\ rows'[t].token # rows[t].token
    => \/ rows'[t].phase = "deleted"
       \/ rows'[t].token = None /\ hook'[rows[t].token] # hook[rows[t].token]

\* A row that is rewritten is an unclaimed one, or its own holder's.
LEMMA HookStepExclusive ==
  ASSUME TypeOK, NEW h \in Hooks, HookStep(h), NEW t \in Tickets,
         rows[t].phase = "unused" => rows[t].token = None
  PROVE  Exclusive(t) /\ (rows'[t].phase = "unused" => rows'[t].token = None)
<1>1. rows[t] \in Row /\ rows \in [Tickets -> Row]
  BY DEF TypeOK
<1>2. CASE rows' = rows
  BY <1>2 DEF Exclusive
<1>3. CASE ClaimHandoff(h) /\ rows' # rows
  <2> DEFINE mine == hook[h].ticket
  <2>1. /\ Open(mine) /\ Unclaimed(mine)
        /\ rows' = [rows EXCEPT ![mine].token = h, ![mine].lapsed = FALSE]
    BY <1>3 DEF ClaimHandoff
  <2>2. CASE t = mine
    <3>1. rows'[t] = [rows[t] EXCEPT !.token = h, !.lapsed = FALSE]
      BY <1>1, <2>1, <2>2
    <3>2. rows'[t].phase = "present"
      BY <1>1, <2>1, <2>2, <3>1 DEF Row, Open, Unconsumed
    <3>3. QED
      BY <2>1, <2>2, <3>2 DEF Exclusive, Unclaimed
  <2>3. CASE t # mine
    BY <1>1, <2>1, <2>3 DEF Exclusive
  <2>4. QED
    BY <2>2, <2>3
<1>4. CASE (CompleteHandoffClaim(h) \/ ReleaseHandoffClaim(h)) /\ rows' # rows
  <2> DEFINE mine == hook[h].ticket
  <2>1. /\ rows[mine].token = h /\ hook[h].pc \in {"finalize", "release"}
        /\ \/ rows' = [rows EXCEPT ![mine].consumed = TRUE, ![mine].token = None,
                                   ![mine].lapsed = FALSE]
           \/ rows' = [rows EXCEPT ![mine].token = None, ![mine].lapsed = FALSE]
    BY <1>4 DEF CompleteHandoffClaim, ReleaseHandoffClaim
  <2>2. hook'[h] # hook[h]
    <3>1. \E pc \in {"consumed", "done"} : hook' = [hook EXCEPT ![h].pc = pc]
      BY <1>4 DEF CompleteHandoffClaim, ReleaseHandoffClaim, HookTo
    <3>2. hook'[h].pc \in {"consumed", "done"}
      BY <3>1 DEF TypeOK
    <3>3. QED
      BY <2>1, <3>2
  <2>3. CASE t = mine
    <3>1. rows'[t].token = None
      BY <1>1, <2>1, <2>3 DEF Row
    <3>2. QED
      BY <2>1, <2>2, <2>3, <3>1 DEF Exclusive
  <2>4. CASE t # mine
    BY <1>1, <2>1, <2>4 DEF Exclusive
  <2>5. QED
    BY <2>3, <2>4
<1>5. QED
  <2>1. CASE (\E d \in Dests : FindHandoff(h, d)) \/ BuildContext(h) \/ WriteOutput(h) \/ HookFails(h)
    BY <1>2, <2>1 DEF FindHandoff, BuildContext, WriteOutput, HookFails
  <2>2. QED
    BY <1>2, <1>3, <1>4, <2>1 DEF HookStep

LEMMA NextExclusive ==
  ASSUME TypeOK, UnusedInv, [Next]_vars, NEW t \in Tickets
  PROVE  Exclusive(t) /\ (rows'[t].phase = "unused" => rows'[t].token = None)
<1>1. rows[t] \in Row /\ rows \in [Tickets -> Row]
      /\ (rows[t].phase = "unused" => rows[t].token = None)
  BY DEF TypeOK, UnusedInv
<1>2. CASE rows' = rows
  BY <1>1, <1>2 DEF Exclusive
<1>3. CASE \E u \in Tickets, s \in Sources, d \in Dests : CreateHandoff(u, s, d)
  <2>1. PICK u \in Tickets, s \in Sources, d \in Dests : CreateHandoff(u, s, d)
    BY <1>3
  <2>2. CASE t = u
    <3>1. rows'[t] = NewRow(s, d) /\ rows[t].phase = "unused"
      BY <2>1, <2>2 DEF CreateHandoff
    <3>2. QED
      BY <1>1, <3>1 DEF NewRow, Exclusive
  <2>3. CASE t # u /\ Unconsumed(t) /\ rows[t].dest = d
    <3>1. rows'[t] = Superseded(t) /\ Unclaimed(t)
      BY <2>1, <2>3 DEF CreateHandoff
    <3>2. rows'[t].token = None
      BY <1>1, <3>1 DEF Superseded, Row
    <3>3. QED
      BY <3>1, <3>2 DEF Exclusive, Unclaimed
  <2>4. CASE t # u /\ ~(Unconsumed(t) /\ rows[t].dest = d)
    <3>1. rows'[t] = rows[t]
      BY <2>1, <2>4 DEF CreateHandoff
    <3>2. QED
      BY <1>1, <3>1 DEF Exclusive
  <2>5. QED
    BY <2>2, <2>3, <2>4
<1>4. ASSUME NEW S, DeleteSessions(S)
      PROVE  Exclusive(t) /\ (rows'[t].phase = "unused" => rows'[t].token = None)
  <2>1. \/ rows'[t] = rows[t]
        \/ rows'[t] = [rows[t] EXCEPT !.phase = "deleted", !.token = None, !.lapsed = FALSE]
    BY <1>4 DEF DeleteSessions
  <2>2. CASE rows'[t] = rows[t]
    BY <1>1, <2>2 DEF Exclusive
  <2>3. CASE rows'[t] = [rows[t] EXCEPT !.phase = "deleted", !.token = None, !.lapsed = FALSE]
    <3>1. rows'[t].phase = "deleted"
      BY <1>1, <2>3 DEF Row
    <3>2. QED
      BY <3>1 DEF Exclusive
  <2>4. QED
    BY <2>1, <2>2, <2>3
<1>5. CASE \E h \in Hooks : HookStep(h)
  BY <1>1, <1>5, HookStepExclusive
<1>6. CASE \E u \in Tickets : LeaseLapses(u)
  <2>1. PICK u \in Tickets : rows' = [rows EXCEPT ![u].lapsed = TRUE]
    BY <1>6 DEF LeaseLapses
  <2>2. rows'[t].token = rows[t].token /\ rows'[t].phase = rows[t].phase
    BY <1>1, <2>1 DEF Row
  <2>3. QED
    BY <1>1, <2>2 DEF Exclusive
<1>7. QED
  <2>1. CASE \E s \in Sources : DeleteSession(s) \/ Touch(s)
    BY <1>2, <1>4, <2>1 DEF DeleteSession, Touch
  <2>2. CASE CleanupClosedSessions
    BY <1>4, <2>2 DEF CleanupClosedSessions
  <2>3. CASE NextDay \/ UNCHANGED vars
    BY <1>2, <2>3 DEF NextDay, vars
  <2>4. QED
    BY <1>3, <1>5, <1>6, <2>1, <2>2, <2>3 DEF Next

\* While its 30 seconds last nobody takes a claimed ticket over, and no new ticket
\* supersedes it: the claim ends with its holder's step or with the session.
THEOREM ExclusiveClaim == Spec => ClaimIsExclusive
<1>1. Init => UnusedInv
  BY DEF Init, UnusedInv
<1>2. TypeOK /\ UnusedInv /\ [Next]_vars => UnusedInv'
  BY NextExclusive DEF UnusedInv
<1>3. TypeOK /\ UnusedInv /\ [Next]_vars => [\A t \in Tickets : Exclusive(t)]_vars
  BY NextExclusive
<1>4. (\A t \in Tickets : Exclusive(t)) <=>
        \A t \in Tickets :
          rows[t].token # None /\ ~rows[t].lapsed /\ rows'[t].token # rows[t].token
            => \/ rows'[t].phase = "deleted"
               \/ rows'[t].token = None /\ hook'[rows[t].token] # hook[rows[t].token]
  BY DEF Exclusive
<1>5. QED
  BY <1>1, <1>2, <1>3, <1>4, TypeCorrect, PTL DEF Spec, ClaimIsExclusive

\* The handoffs table implements the abstract ticket: every step of the daemon, of
\* a hook and of the clock creates, consumes or voids tickets as Ticket allows.
THEOREM Implements == Spec => ImplementsTicket
<1>1. IInv /\ [Next]_vars => [A!Next]_<<status, [t \in Tickets |-> rows[t].dest]>>
  BY NextKeeps
<1>2. QED
  BY <1>1, InitMaps, Inductive, PTL DEF Spec, ImplementsTicket, A!Spec

=============================================================================
