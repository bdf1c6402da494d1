--------------------------- MODULE ActivityProofs ---------------------------
(***************************************************************************)
(* Proofs about Activity: what the rows of a slot show, for any number of  *)
(* calls, conversations, runs and hooks, recorded in any order. An item is *)
(* known by its kind and ID; every statement of the transaction maps the   *)
(* rows to rows of the same keys, or adds one of a new key.                *)
(***************************************************************************)
EXTENDS Activity, FiniteSetTheorems, TLAPS

\* The calls of a run and a conversation.
Here(run, session) ==
  {t \in Tools : call[t].state # "idle" /\ call[t].run = run /\ call[t].session = session}

\* A table of rows whose calls are in S.
Table(table, S) ==
  /\ table \subseteq Item
  /\ \A i, j \in table : SameKey(i, j) => i = j
  /\ \A i \in table : /\ i.kind = "tool" => i.id \in Tools
                      /\ i.id \in Tools => i.id \in S

\* Every row stays and what has ended stays so.
Grows(old, new) ==
  \A i \in old : \E j \in new : SameKey(i, j) /\ (i.finished => j.finished)

Ended(table) == \A i \in table : i.finished

\* What one statement, or several, may make of a table.
Written(old, new, S) == Table(new, S) /\ Grows(old, new) /\ (Ended(old) => Ended(new))

-----------------------------------------------------------------------------
(* The statements.                                                          *)

LEMMA WrittenTwice ==
  ASSUME NEW S, NEW old, NEW middle, NEW new, Grows(old, middle), Ended(old) => Ended(middle),
         Written(middle, new, S)
  PROVE  Written(old, new, S)
<1>1. Grows(old, new)
  <2> SUFFICES ASSUME NEW i \in old
               PROVE  \E j \in new : SameKey(i, j) /\ (i.finished => j.finished)
    BY DEF Grows
  <2>1. PICK k \in middle : SameKey(i, k) /\ (i.finished => k.finished)
    BY DEF Grows
  <2>2. PICK j \in new : SameKey(k, j) /\ (k.finished => j.finished)
    BY DEF Grows, Written
  <2> QED
    BY <2>1, <2>2 DEF SameKey
<1> QED
  BY <1>1 DEF Written

LEMMA NothingWritten ==
  ASSUME NEW S, NEW table, Table(table, S)
  PROVE  Written(table, table, S)
BY DEF Written, Grows, SameKey

\* An update: f says what becomes of each row.
LEMMA UpdateKeeps ==
  ASSUME NEW S, NEW table, Table(table, S), NEW f \in [table -> Item],
         \A i \in table : f[i].kind = i.kind /\ f[i].id = i.id /\ (i.finished => f[i].finished)
  PROVE  Written(table, {f[i] : i \in table}, S)
<1> DEFINE new == {f[i] : i \in table}
<1>1. Table(new, S)
  BY DEF Table, SameKey
<1>2. Grows(table, new)
  BY DEF Grows, SameKey
<1>3. Ended(table) => Ended(new)
  BY DEF Ended
<1> QED
  BY <1>1, <1>2, <1>3 DEF Written

LEMMA AdoptKeeps ==
  ASSUME NEW S, NEW table, Table(table, S), NEW rows, NEW parent \in Tools
  PROVE  Written(table, Adopt(table, rows, parent), S)
<1> DEFINE f == [i \in table |-> IF i \in rows /\ i.kind = "confirmation" /\ i.parent = None
                                   THEN [i EXCEPT !.parent = parent] ELSE i]
<1>1. ASSUME NEW i \in table
      PROVE  f[i] \in Item /\ f[i].kind = i.kind /\ f[i].id = i.id /\ f[i].finished = i.finished
  <2>1. i \in Item
    BY DEF Table
  <2> QED
    BY <2>1 DEF Item
<1>2. Adopt(table, rows, parent) = {f[i] : i \in table}
  BY DEF Adopt
<1> HIDE DEF f
<1>3. f \in [table -> Item]
  BY <1>1 DEF f
<1> QED
  BY <1>1, <1>2, <1>3, UpdateKeeps

LEMMA FinishRequestsKeeps ==
  ASSUME NEW S, NEW table, Table(table, S), NEW t
  PROVE  Written(table, FinishRequests(table, t), S)
<1> DEFINE f == [i \in table |-> IF i.kind = "confirmation" /\ i.parent = t
                                   THEN [i EXCEPT !.finished = TRUE] ELSE i]
<1>1. ASSUME NEW i \in table
      PROVE  f[i] \in Item /\ f[i].kind = i.kind /\ f[i].id = i.id /\ (i.finished => f[i].finished)
  <2>1. i \in Item
    BY DEF Table
  <2> QED
    BY <2>1 DEF Item
<1>2. FinishRequests(table, t) = {f[i] : i \in table}
  BY DEF FinishRequests
<1> HIDE DEF f
<1>3. f \in [table -> Item]
  BY <1>1 DEF f
<1> QED
  BY <1>1, <1>2, <1>3, UpdateKeeps

\* A stop ends whatever there is.
LEMMA StopKeeps ==
  ASSUME NEW S, NEW table, Table(table, S)
  PROVE  /\ Written(table, {[i EXCEPT !.finished = TRUE] : i \in table}, S)
         /\ Ended({[i EXCEPT !.finished = TRUE] : i \in table})
<1> DEFINE f == [i \in table |-> [i EXCEPT !.finished = TRUE]]
<1>1. ASSUME NEW i \in table
      PROVE  f[i] \in Item /\ f[i].kind = i.kind /\ f[i].id = i.id /\ f[i].finished
  <2>1. i \in Item
    BY DEF Table
  <2> QED
    BY <2>1 DEF Item
<1>2. {[i EXCEPT !.finished = TRUE] : i \in table} = {f[i] : i \in table}
  OBVIOUS
<1> HIDE DEF f
<1>3. f \in [table -> Item]
  BY <1>1 DEF f
<1> QED
  BY <1>1, <1>2, <1>3, UpdateKeeps DEF Ended

\* An insert that updates the row of its key: with a new key, it needs a call of S.
LEMMA UpsertKeeps ==
  ASSUME NEW S, NEW table, Table(table, S), NEW new \in Item,
         \/ \E i \in table : SameKey(i, new)
         \/ (new.kind = "tool" => new.id \in Tools) /\ (new.id \in Tools => new.id \in S)
  PROVE  /\ Table(Upsert(table, new), S) /\ Grows(table, Upsert(table, new))
         /\ Ended(table) /\ new.finished => Ended(Upsert(table, new))
<1>1. CASE \E i \in table : SameKey(i, new)
  <2> DEFINE f == [i \in table |-> IF SameKey(i, new)
                                     THEN [i EXCEPT !.finished = @ \/ new.finished] ELSE i]
  <2>1. ASSUME NEW i \in table
        PROVE  f[i] \in Item /\ f[i].kind = i.kind /\ f[i].id = i.id /\ (i.finished => f[i].finished)
    <3>1. i \in Item
      BY DEF Table
    <3> QED
      BY <3>1 DEF Item
  <2>2. Upsert(table, new) = {f[i] : i \in table}
    BY <1>1 DEF Upsert
  <2> HIDE DEF f
  <2>3. f \in [table -> Item]
    BY <2>1 DEF f
  <2>4. Written(table, {f[i] : i \in table}, S)
    BY <2>1, <2>3, UpdateKeeps
  <2>5. Table(Upsert(table, new), S) /\ Grows(table, Upsert(table, new))
    BY <2>2, <2>4 DEF Written
  <2>6. Ended(table) => Ended(Upsert(table, new))
    BY <2>2, <2>4 DEF Written
  <2> QED
    BY <2>5, <2>6
<1>2. CASE ~\E i \in table : SameKey(i, new)
  <2>1. Upsert(table, new) = table \cup {new}
    BY <1>2 DEF Upsert
  <2>2. Table(table \cup {new}, S)
    BY <1>2 DEF Table, SameKey
  <2>3. Grows(table, table \cup {new})
    BY DEF Grows, SameKey
  <2> QED
    BY <2>1, <2>2, <2>3 DEF Ended
<1> QED
  BY <1>1, <1>2

-----------------------------------------------------------------------------
(* The events.                                                              *)

LEMMA RecordToolKeeps ==
  ASSUME NEW S, NEW table, Table(table, S), NEW t \in Tools, t \in S, NEW done \in BOOLEAN
  PROVE  /\ Table(RecordTool(table, t, done), S) /\ Grows(table, RecordTool(table, t, done))
         /\ Ended(table) /\ done => Ended(RecordTool(table, t, done))
<1> DEFINE new == [kind |-> "tool", id |-> t, parent |-> None, anonymous |-> FALSE,
                   finished |-> done]
           written == Upsert(table, new)
           pending == PendingTools(written)
           answered == {i \in written : i.anonymous /\ i.finished}
           linked == IF (~done /\ Cardinality(pending) = 1) \/ (done /\ pending = {})
                       THEN Adopt(written, written, t)
                     ELSE IF done /\ Cardinality(pending) = 1
                       THEN Adopt(written, answered, (CHOOSE i \in pending : TRUE).id)
                     ELSE written
<1>1. Table(written, S) /\ Grows(table, written) /\ (Ended(table) /\ done => Ended(written))
  <2>1. new \in Item
    BY DEF Item
  <2>2. (new.kind = "tool" => new.id \in Tools) /\ (new.id \in Tools => new.id \in S)
    OBVIOUS
  <2>3. new.finished = done
    OBVIOUS
  <2> HIDE DEF new
  <2> QED
    BY <2>1, <2>2, <2>3, UpsertKeeps
<1> HIDE DEF written
<1>2. Written(written, linked, S)
  <2>1. Written(written, Adopt(written, written, t), S) /\ Written(written, written, S)
    BY <1>1, AdoptKeeps, NothingWritten
  <2>2. ASSUME Cardinality(pending) = 1
        PROVE  Written(written, Adopt(written, answered, (CHOOSE i \in pending : TRUE).id), S)
    <3>1. pending # {}
      BY <2>2, FS_EmptySet
    <3>2. (CHOOSE i \in pending : TRUE) \in pending
      BY <3>1
    <3>3. \A i \in pending : i.id \in Tools
      BY <1>1 DEF Table, PendingTools, ToolRows
    <3>4. (CHOOSE i \in pending : TRUE).id \in Tools
      BY <3>2, <3>3
    <3> HIDE DEF pending, answered
    <3> QED
      BY <1>1, <3>4, AdoptKeeps
  <2> QED
    BY <2>1, <2>2
<1> HIDE DEF linked
<1>3. RecordTool(table, t, done) = IF done THEN FinishRequests(linked, t) ELSE linked
  BY DEF RecordTool, linked, written
<1>4. Written(linked, RecordTool(table, t, done), S)
  <2>1. Table(linked, S)
    BY <1>2 DEF Written
  <2> QED
    BY <1>3, <2>1, FinishRequestsKeeps, NothingWritten
<1>5. Written(written, RecordTool(table, t, done), S)
  BY <1>2, <1>4, WrittenTwice DEF Written
<1>6. Grows(table, RecordTool(table, t, done))
  <2> SUFFICES ASSUME NEW i \in table
               PROVE  \E j \in RecordTool(table, t, done) :
                        SameKey(i, j) /\ (i.finished => j.finished)
    BY DEF Grows
  <2>1. PICK k \in written : SameKey(i, k) /\ (i.finished => k.finished)
    BY <1>1 DEF Grows
  <2>2. PICK j \in RecordTool(table, t, done) : SameKey(k, j) /\ (k.finished => j.finished)
    BY <1>5 DEF Grows, Written
  <2> QED
    BY <2>1, <2>2 DEF SameKey
<1> QED
  BY <1>1, <1>5, <1>6 DEF Written

\* One row of a request is written, after its parent may have been adopted.
LEMMA RequestWritten ==
  ASSUME NEW S, NEW table, NEW linked, Table(table, S), Written(table, linked, S),
         NEW new \in Item,
         \/ \E i \in linked : SameKey(i, new)
         \/ (new.kind = "tool" => new.id \in Tools) /\ (new.id \in Tools => new.id \in S)
  PROVE  /\ Table(Upsert(linked, new), S) /\ Grows(table, Upsert(linked, new))
         /\ Ended(table) /\ new.finished => Ended(Upsert(linked, new))
<1> DEFINE after == Upsert(linked, new)
<1>1. /\ Table(after, S) /\ Grows(linked, after)
      /\ Ended(linked) /\ new.finished => Ended(after)
  BY UpsertKeeps DEF Written
<1> HIDE DEF after
<1>2. Grows(table, after)
  <2> SUFFICES ASSUME NEW i \in table
               PROVE  \E j \in after : SameKey(i, j) /\ (i.finished => j.finished)
    BY DEF Grows
  <2>1. PICK k \in linked : SameKey(i, k) /\ (i.finished => k.finished)
    BY DEF Grows, Written
  <2>2. PICK j \in after : SameKey(k, j) /\ (k.finished => j.finished)
    BY <1>1 DEF Grows
  <2> QED
    BY <2>1, <2>2 DEF SameKey
<1> QED
  BY <1>1, <1>2 DEF after, Written

LEMMA ParentIsTool ==
  ASSUME NEW S, NEW table, Table(table, S), NEW anonymous \in BOOLEAN,
         NEW parent \in Parents(table, anonymous)
  PROVE  parent \in Tools \cup {None}
<1>1. \A i \in ToolRows(table) : i.id \in Tools
  BY DEF Table, ToolRows
<1>2. \A i \in PendingTools(table) : i.id \in Tools
  BY <1>1 DEF PendingTools
<1> QED
  BY <1>1, <1>2 DEF Parents

\* The row a request writes, and the table once the row's parent is adopted.
RequestRow(table, e, parent, id) ==
  [kind |-> "confirmation", id |-> id, parent |-> parent,
   anonymous |-> e.request = "anonymous",
   finished |-> e.event = "answer" \/ (parent # None /\ PendingTools(table) = {})]

RequestLinked(table, e, parent, id) ==
  IF e.event = "answer" /\ parent # None
    THEN Adopt(table, {i \in table : i.id = id}, parent) ELSE table

LEMMA RequestForm ==
  ASSUME NEW table, NEW e, NEW new \in RecordRequest(table, e)
  PROVE  \E parent \in Parents(table, e.request = "anonymous") :
           \/ new = Upsert(table, RequestRow(table, e, parent, e.tool))
           \/ new = Upsert(table, RequestRow(table, e, parent, <<"server", parent>>))
           \/ \E id \in Rows(table, parent) :
                new = Upsert(RequestLinked(table, e, parent, id), RequestRow(table, e, parent, id))
<1> DEFINE After(parent) ==
             IF ~(e.request = "anonymous") THEN {Upsert(table, RequestRow(table, e, parent, e.tool))}
             ELSE IF Rows(table, parent) = {}
               THEN {Upsert(table, RequestRow(table, e, parent, <<"server", parent>>))}
             ELSE {Upsert(RequestLinked(table, e, parent, id), RequestRow(table, e, parent, id))
                     : id \in Rows(table, parent)}
<1>1. RecordRequest(table, e) =
        UNION {After(parent) : parent \in Parents(table, e.request = "anonymous")}
  BY Zenon DEF RecordRequest, RequestRow, RequestLinked
<1>2. PICK parent \in Parents(table, e.request = "anonymous") : new \in After(parent)
  <2> HIDE DEF After
  <2> QED
    BY <1>1
<1> QED
  BY <1>2

LEMMA RecordRequestKeeps ==
  ASSUME NEW S, NEW table, Table(table, S), NEW e \in Event, e.tool \in Tools, e.tool \in S,
         NEW new \in RecordRequest(table, e)
  PROVE  /\ Table(new, S) /\ Grows(table, new)
         /\ Ended(table) /\ e.event = "answer" => Ended(new)
<1>1. PICK parent \in Parents(table, e.request = "anonymous") :
           \/ new = Upsert(table, RequestRow(table, e, parent, e.tool))
           \/ new = Upsert(table, RequestRow(table, e, parent, <<"server", parent>>))
           \/ \E id \in Rows(table, parent) :
                new = Upsert(RequestLinked(table, e, parent, id), RequestRow(table, e, parent, id))
  BY RequestForm
<1> DEFINE made == <<"server", parent>>
           Row(id) == RequestRow(table, e, parent, id)
           Linked(id) == RequestLinked(table, e, parent, id)
<1>2. parent \in Tools \cup {None}
  BY ParentIsTool
<1>3. made \in {"server"} \X (Tools \cup {None}) /\ made \notin Tools
  BY <1>2, IdsAssumption
<1>4. ASSUME NEW id \in Tools \cup ({"server"} \X (Tools \cup {None}))
      PROVE  /\ Row(id) \in Item /\ Row(id).kind = "confirmation"
             /\ Row(id).id = id
             /\ e.event = "answer" => Row(id).finished
  BY <1>2, <1>4 DEF Item, RequestRow
<1> HIDE DEF Row, made
<1>5. CASE new = Upsert(table, Row(e.tool))
  BY <1>4, <1>5, NothingWritten, RequestWritten
<1>6. CASE new = Upsert(table, Row(made))
  BY <1>3, <1>4, <1>6, NothingWritten, RequestWritten
<1>7. ASSUME NEW id \in Rows(table, parent), new = Upsert(Linked(id), Row(id))
      PROVE  /\ Table(new, S) /\ Grows(table, new)
             /\ Ended(table) /\ e.event = "answer" => Ended(new)
  <2>1. PICK i \in table : i.kind = "confirmation" /\ i.id = id
    BY <1>7 DEF Rows
  <2>2. id \in Tools \cup ({"server"} \X (Tools \cup {None}))
    BY <2>1 DEF Table, Item
  <2>3. Written(table, Linked(id), S)
    BY <1>2, AdoptKeeps, NothingWritten DEF RequestLinked
  <2> HIDE DEF Linked
  <2>4. \E j \in Linked(id) : SameKey(j, Row(id))
    <3>1. PICK j \in Linked(id) : SameKey(i, j)
      BY <2>3 DEF Written, Grows
    <3> QED
      BY <1>4, <2>1, <2>2, <3>1 DEF SameKey
  <2> QED
    BY <1>4, <1>7, <2>2, <2>3, <2>4, RequestWritten
<1> QED
  BY <1>1, <1>5, <1>6, <1>7 DEF Row, made

-----------------------------------------------------------------------------
(* The invariant.                                                           *)

\* What the table says holds of the run and the conversation of the slot's row.
ItemInv ==
  /\ Table(items, Here(row.run, row.session))
  /\ items # {} => ~row.closed /\ row.session # None

\* A call that goes on is one of the process and of its conversation.
CallInv ==
  /\ \A t \in Tools : call[t].state \in {"running", "asking"} =>
       /\ call[t].run = claude.run /\ call[t].session = claude.session
       /\ call[t].session # None
  /\ claude.turn => claude.session # None

\* A hook tells of a call that was made in the run and the conversation it names.
SentInv ==
  \A e \in sent : e.event \in {"pre", "post", "ask", "answer"} =>
    e.tool \in Here(e.run, e.session)

CallRow == [state : CallStates, run : Runs, session : Conversations \cup {None},
            request : {"none", "named", "anonymous"}]

Types ==
  /\ row \in RunRow
  /\ resume \in Conversations \cup {None}
  /\ claude \in [run : Runs, session : Conversations \cup {None}, turn : BOOLEAN]
  /\ call \in [Tools -> CallRow]
  /\ sent \in SUBSET Event
  /\ orderly \in BOOLEAN

IInv == Types /\ ItemInv /\ CallInv /\ SentInv /\ IdleShowsNothing /\ ResumeIsShown

\* Calls keep their run and conversation: a step that only moves calls keeps Here.
Moves == \A run, session : Here(run, session) \subseteq Here(run, session)'

LEMMA TableGrows ==
  ASSUME NEW table, NEW S, NEW T, Table(table, S), S \subseteq T
  PROVE  Table(table, T)
BY DEF Table

LEMMA InitIInv == Init => IInv
<1> SUFFICES ASSUME Init PROVE IInv
  OBVIOUS
<1>1. Types
  BY BoundsAssumption DEF Init, Types, RunRow, Runs, CallRow, CallStates
<1>2. ItemInv /\ CallInv /\ SentInv /\ IdleShowsNothing /\ ResumeIsShown
  BY DEF Init, ItemInv, Table, CallInv, SentInv, IdleShowsNothing, ResumeIsShown
<1> QED
  BY <1>1, <1>2 DEF IInv

LEMMA BeginKeeps == IInv /\ BeginWorkerActivity => IInv'
<1> SUFFICES ASSUME IInv, BeginWorkerActivity PROVE IInv'
  OBVIOUS
<1> USE DEF IInv, BeginWorkerActivity
<1>1. Types'
  BY BoundsAssumption DEF Types, RunRow, Runs, CallRow, CallStates
<1>2. Moves
  BY DEF Moves, Here, Types, CallRow
<1>3. SentInv'
  BY <1>2 DEF SentInv, Moves
<1>4. CallInv'
  BY DEF CallInv, Types, CallRow
<1>5. ItemInv' /\ IdleShowsNothing' /\ ResumeIsShown'
  BY DEF ItemInv, Table, IdleShowsNothing, ResumeIsShown, Types
<1> QED
  BY <1>1, <1>3, <1>4, <1>5

LEMMA EndKeeps == IInv /\ EndWorkerActivity => IInv'
<1> SUFFICES ASSUME IInv, EndWorkerActivity PROVE IInv'
  OBVIOUS
<1> USE DEF IInv, EndWorkerActivity
<1>1. Types'
  BY DEF Types, RunRow
<1>2. SentInv' /\ CallInv'
  BY DEF SentInv, CallInv, Here
<1>3. ItemInv' /\ IdleShowsNothing' /\ ResumeIsShown'
  BY DEF ItemInv, Table, IdleShowsNothing, ResumeIsShown, Types, RunRow
<1> QED
  BY <1>1, <1>2, <1>3

LEMMA HookFailsKeeps == ASSUME NEW e \in sent PROVE IInv /\ HookFails(e) => IInv'
<1> SUFFICES ASSUME IInv, HookFails(e) PROVE IInv'
  OBVIOUS
<1> USE DEF IInv, HookFails
<1>1. Types'
  BY DEF Types
<1>2. SentInv' /\ CallInv'
  BY DEF SentInv, CallInv, Here
<1>3. ItemInv' /\ IdleShowsNothing' /\ ResumeIsShown'
  BY DEF ItemInv, IdleShowsNothing, ResumeIsShown, Here
<1> QED
  BY <1>1, <1>2, <1>3

\* What an accepted event makes of the rows that are kept.
Kept(e) == IF row.session \in {None, e.session} THEN items ELSE {}

LEMMA RecordedRows ==
  ASSUME IInv, NEW e \in sent, RecordWorkerActivity(e), Accepted(e)
  PROVE  /\ Table(items', Here(row.run, e.session)) /\ Grows(Kept(e), items')
         /\ ~row'.accepting => Ended(items')
<1> DEFINE S == Here(row.run, e.session)
<1>1. e \in Event /\ e.event \in {"start", "stop", "pre", "post", "ask", "answer"}
  BY DEF IInv, Types, Event
<1>2. Table(Kept(e), S)
  <2>1. CASE row.session = e.session
    BY <2>1 DEF IInv, ItemInv, Kept
  <2>2. CASE row.session # e.session
    <3>1. Kept(e) = {}
      BY <2>2 DEF IInv, ItemInv, Kept
    <3> QED
      BY <3>1 DEF Table
  <2> QED
    BY <2>1, <2>2
<1>3. row.run = e.run
  BY DEF Accepted
<1>4. e.event \in {"pre", "post", "ask", "answer"} => e.tool \in S /\ e.tool \in Tools
  BY <1>3 DEF IInv, SentInv, Here
<1>5. ~row.accepting => Ended(Kept(e))
  BY DEF IInv, IdleShowsNothing, Ended, Kept
<1>6. /\ row'.accepting = CASE e.event = "start" -> TRUE
                            [] e.event = "stop" -> FALSE
                            [] OTHER -> row.accepting
      /\ items' \in CASE e.event = "start" -> {Kept(e)}
                      [] e.event = "stop" -> {{[i EXCEPT !.finished = TRUE] : i \in Kept(e)}}
                      [] e.event \in {"pre", "post"} ->
                           {RecordTool(Kept(e), e.tool, e.event = "post")}
                      [] OTHER -> RecordRequest(Kept(e), e)
  BY DEF RecordWorkerActivity, Kept, IInv, Types, RunRow
<1> HIDE DEF S
<1>7. CASE e.event = "start"
  BY <1>2, <1>6, <1>7, NothingWritten DEF Written, S
<1>8. CASE e.event = "stop"
  <2>1. items' = {[i EXCEPT !.finished = TRUE] : i \in Kept(e)}
    BY <1>6, <1>8
  <2> QED
    BY <1>2, <2>1, StopKeeps DEF Written, S
<1>9. CASE e.event \in {"pre", "post"}
  <2>1. items' = RecordTool(Kept(e), e.tool, e.event = "post")
    BY <1>6, <1>9
  <2>2. /\ Table(items', S) /\ Grows(Kept(e), items')
        /\ Ended(Kept(e)) /\ e.event = "post" => Ended(items')
    BY <1>2, <1>4, <1>9, <2>1, RecordToolKeeps
  <2>3. ~row'.accepting => e.event = "post" /\ ~row.accepting
    BY <1>6, <1>9 DEF Accepted
  <2> QED
    BY <1>5, <2>2, <2>3 DEF S
<1>10. CASE e.event \in {"ask", "answer"}
  <2>1. items' \in RecordRequest(Kept(e), e)
    BY <1>6, <1>10
  <2>2. /\ Table(items', S) /\ Grows(Kept(e), items')
        /\ Ended(Kept(e)) /\ e.event = "answer" => Ended(items')
    BY <1>1, <1>2, <1>4, <1>10, <2>1, RecordRequestKeeps
  <2>3. ~row'.accepting => e.event = "answer" /\ ~row.accepting
    BY <1>6, <1>10 DEF Accepted
  <2> QED
    BY <1>5, <2>2, <2>3 DEF S
<1> QED
  BY <1>1, <1>7, <1>8, <1>9, <1>10

LEMMA RecordKeeps == ASSUME NEW e \in sent PROVE IInv /\ RecordWorkerActivity(e) => IInv'
<1> SUFFICES ASSUME IInv, RecordWorkerActivity(e) PROVE IInv'
  OBVIOUS
<1>1. e \in Event /\ e.session \in Conversations /\ e.session # None
  BY NoneAssumption DEF IInv, Types, Event
<1>2. UNCHANGED <<claude, call>> /\ sent' = sent \ {e} /\ orderly' \in BOOLEAN
  BY DEF RecordWorkerActivity, IInv, Types
<1>3. CallInv' /\ SentInv'
  BY <1>2 DEF IInv, CallInv, SentInv, Here
<1>4. CASE Accepted(e)
  <2>1. /\ row' = [row EXCEPT !.session = e.session,
                              !.accepting = CASE e.event = "start" -> TRUE
                                              [] e.event = "stop" -> FALSE
                                              [] OTHER -> @]
        /\ resume' = IF e.event = "start" THEN e.session ELSE resume
    BY <1>4 DEF RecordWorkerActivity
  <2>2. row' \in RunRow /\ row'.run = row.run /\ row'.session = e.session
        /\ row'.closed = row.closed
    BY <1>1, <2>1 DEF IInv, Types, RunRow
  <2>3. Types'
    BY <1>1, <1>2, <2>1, <2>2 DEF IInv, Types
  <2>4. Here(row.run, e.session) = Here(row.run, row.session)'
    BY <1>2, <2>2 DEF Here
  <2>5. ItemInv'
    BY <1>1, <1>4, <2>2, <2>4, RecordedRows DEF ItemInv, Accepted
  <2>6. IdleShowsNothing'
    BY <1>4, RecordedRows DEF IdleShowsNothing, Ended
  <2>7. ResumeIsShown'
    BY <1>4, <2>1, <2>2 DEF IInv, ResumeIsShown, Accepted
  <2> QED
    BY <1>3, <2>3, <2>5, <2>6, <2>7 DEF IInv
<1>5. CASE ~Accepted(e)
  <2>1. UNCHANGED <<row, resume, items>>
    BY <1>5 DEF RecordWorkerActivity
  <2> QED
    BY <1>2, <1>3, <2>1 DEF IInv, Types, ItemInv, Here, IdleShowsNothing, ResumeIsShown
<1> QED
  BY <1>4, <1>5

\* Claude's steps write no row; what they move stays where it was.
LEMMA ClaudeKeepsRows ==
  ASSUME IInv, UNCHANGED <<row, items, resume, orderly>>, Moves
  PROVE  ItemInv' /\ IdleShowsNothing' /\ ResumeIsShown'
<1>1. Table(items, Here(row.run, row.session)')
  BY TableGrows DEF IInv, ItemInv, Moves
<1> QED
  BY <1>1 DEF IInv, ItemInv, IdleShowsNothing, ResumeIsShown

LEMMA SendKeeps ==
  ASSUME IInv, Moves, NEW event, NEW t, NEW request, Send(event, t, request),
         [run |-> claude.run, session |-> claude'.session, event |-> event,
          tool |-> t, request |-> request] \in Event,
         claude'.run = claude.run,
         event \in {"pre", "post", "ask", "answer"} => t \in Here(claude.run, claude.session)'
  PROVE  SentInv' /\ sent' \in SUBSET Event
<1> DEFINE new == [run |-> claude.run, session |-> claude'.session, event |-> event,
                   tool |-> t, request |-> request]
<1>1. sent' = sent \cup {new}
  BY DEF Send
<1>2. \A e \in sent : e.event \in {"pre", "post", "ask", "answer"} =>
        e.tool \in Here(e.run, e.session)'
  BY DEF IInv, SentInv, Moves
<1>3. new.event = event /\ new.tool = t /\ new.run = claude.run
      /\ new.session = claude'.session
  OBVIOUS
<1> HIDE DEF new
<1>4. SentInv'
  BY <1>1, <1>2, <1>3 DEF SentInv
<1> QED
  BY <1>1, <1>4 DEF IInv, Types, new

LEMMA StartKeeps == ASSUME NEW c \in Conversations PROVE IInv /\ Start(c) => IInv'
<1> SUFFICES ASSUME IInv, Start(c) PROVE IInv'
  OBVIOUS
<1>1. claude' = [claude EXCEPT !.session = c, !.turn = TRUE]
      /\ claude'.run = claude.run /\ claude'.session = c /\ claude'.turn
  BY DEF Start, IInv, Types
<1>2. UNCHANGED <<row, items, resume, orderly>> /\ Send("start", None, "none")
  BY DEF Start
<1>3. call' = [t \in Tools |-> IF call[t].state \in {"running", "asking"} /\ call[t].session # c
                                THEN [call[t] EXCEPT !.state = "dropped"] ELSE call[t]]
  BY DEF Start
<1>4. Moves
  BY <1>3 DEF Moves, Here, IInv, Types, CallRow
<1>5. [run |-> claude.run, session |-> claude'.session, event |-> "start",
       tool |-> None, request |-> "none"] \in Event
  BY <1>1 DEF Event, IInv, Types
<1>6. SentInv' /\ sent' \in SUBSET Event
  BY <1>1, <1>2, <1>4, <1>5, SendKeeps
<1>7. Types'
  BY <1>1, <1>2, <1>3, <1>6 DEF IInv, Types, CallRow, CallStates
<1>8. CallInv'
  BY <1>1, <1>3, NoneAssumption DEF IInv, CallInv, Types, CallRow
<1> QED
  BY <1>2, <1>4, <1>6, <1>7, <1>8, ClaudeKeepsRows DEF IInv

LEMMA StopTurnKeeps == IInv /\ Stop => IInv'
<1> SUFFICES ASSUME IInv, Stop PROVE IInv'
  OBVIOUS
<1>1. claude' = [claude EXCEPT !.turn = FALSE]
      /\ claude'.run = claude.run /\ claude'.session = claude.session /\ ~claude'.turn
  BY DEF Stop, IInv, Types
<1>2. UNCHANGED <<row, items, resume, orderly>> /\ Send("stop", None, "none")
  BY DEF Stop
<1>3. call' = [t \in Tools |-> IF call[t].state \in {"running", "asking"}
                                THEN [call[t] EXCEPT !.state = "dropped"] ELSE call[t]]
  BY DEF Stop
<1>4. Moves
  BY <1>3 DEF Moves, Here, IInv, Types, CallRow
<1>5. [run |-> claude.run, session |-> claude'.session, event |-> "stop",
       tool |-> None, request |-> "none"] \in Event
  BY <1>1 DEF Event, IInv, Types, CallInv, Stop
<1>6. SentInv' /\ sent' \in SUBSET Event
  BY <1>1, <1>2, <1>4, <1>5, SendKeeps
<1>7. Types'
  BY <1>1, <1>2, <1>3, <1>6 DEF IInv, Types, CallRow, CallStates
<1>8. CallInv'
  BY <1>1, <1>3 DEF IInv, CallInv, Types, CallRow
<1> QED
  BY <1>2, <1>4, <1>6, <1>7, <1>8, ClaudeKeepsRows DEF IInv

\* A step of one call: its event is of the process's run and conversation.
LEMMA OneCallKeeps ==
  ASSUME IInv, NEW t \in Tools, NEW new \in CallRow,
         new.state # "idle", new.run = claude.run, new.session = claude.session,
         claude.session \in Conversations,
         call' = [call EXCEPT ![t] = new],
         call[t].state # "idle" => call[t].run = claude.run /\ call[t].session = claude.session,
         NEW event \in {"pre", "post", "ask", "answer"},
         NEW sends \in {"none", "named", "anonymous"},
         UNCHANGED <<row, items, resume, orderly, claude>>, Send(event, t, sends)
  PROVE  IInv'
<1>1. Moves
  BY DEF Moves, Here, IInv, Types, CallRow
<1>2. t \in Here(claude.run, claude.session)'
  BY DEF Here, IInv, Types, CallRow
<1>3. [run |-> claude.run, session |-> claude'.session, event |-> event,
       tool |-> t, request |-> sends] \in Event
  BY DEF Event, IInv, Types
<1>4. SentInv' /\ sent' \in SUBSET Event
  BY <1>1, <1>2, <1>3, SendKeeps
<1>5. Types'
  BY <1>4 DEF IInv, Types, CallRow
<1>6. CallInv'
  BY NoneAssumption DEF IInv, CallInv, Types, CallRow
<1> QED
  BY <1>1, <1>4, <1>5, <1>6, ClaudeKeepsRows DEF IInv

\* A call that goes on keeps its run and conversation.
LEMMA GoingOn ==
  ASSUME IInv, NEW t \in Tools, call[t].state \in {"running", "asking"},
         NEW state \in CallStates, NEW request \in {"none", "named", "anonymous"}
  PROVE  /\ call[t].run = claude.run /\ call[t].session = claude.session
         /\ claude.session \in Conversations
         /\ call[t].request \in {"none", "named", "anonymous"}
         /\ [call[t] EXCEPT !.state = state, !.request = request] \in CallRow
         /\ [call[t] EXCEPT !.state = state] \in CallRow
BY DEF IInv, CallInv, Types, CallRow

LEMMA CallStepKeeps ==
  ASSUME IInv, NEW t \in Tools,
         \/ CallTool(t) \/ Answer(t) \/ EndTool(t)
         \/ \E request \in {"named", "anonymous"} : Elicit(t, request)
  PROVE  IInv'
<1> DEFINE goes(state) == [call[t] EXCEPT !.state = state]
           asks(request) == [call[t] EXCEPT !.state = "asking", !.request = request]
<1>1. CASE CallTool(t)
  <2> DEFINE new == [state |-> "running", run |-> claude.run, session |-> claude.session,
                     request |-> "none"]
  <2>1. claude.session \in Conversations
    BY <1>1 DEF CallTool, IInv, CallInv, Types, CallRow
  <2>2. new \in CallRow
    BY <2>1 DEF CallRow, CallStates, IInv, Types
  <2>3. call' = [call EXCEPT ![t] = new] /\ call[t].state = "idle" /\ UNCHANGED claude
        /\ Send("pre", t, "none") /\ UNCHANGED <<row, items, resume, orderly>>
    BY <1>1 DEF CallTool
  <2>4. new.state # "idle" /\ new.run = claude.run /\ new.session = claude.session
    OBVIOUS
  <2> HIDE DEF new
  <2> QED
    BY <2>1, <2>2, <2>3, <2>4, OneCallKeeps
<1>2. ASSUME NEW state \in {"running", "ended"}, NEW event \in {"answer", "post"},
             NEW sends \in {"none", "named", "anonymous"},
             call[t].state \in {"running", "asking"},
             call' = [call EXCEPT ![t].state = state], UNCHANGED claude,
             Send(event, t, sends), UNCHANGED <<row, items, resume, orderly>>
      PROVE  IInv'
  <2>1. /\ call[t].run = claude.run /\ call[t].session = claude.session
        /\ claude.session \in Conversations /\ goes(state) \in CallRow
    BY <1>2, GoingOn DEF CallStates
  <2>2. call' = [call EXCEPT ![t] = goes(state)]
    BY <1>2
  <2>3. goes(state).state # "idle" /\ goes(state).run = claude.run
        /\ goes(state).session = claude.session
    BY <1>2, <2>1 DEF IInv, Types, CallRow
  <2> HIDE DEF goes
  <2> QED
    BY <1>2, <2>1, <2>2, <2>3, OneCallKeeps
<1>3. CASE Answer(t)
  BY <1>2, <1>3, GoingOn DEF Answer, CallStates
<1>4. CASE EndTool(t)
  BY <1>2, <1>4 DEF EndTool
<1>5. ASSUME NEW request \in {"named", "anonymous"}, Elicit(t, request) PROVE IInv'
  <2>1. /\ call[t].run = claude.run /\ call[t].session = claude.session
        /\ claude.session \in Conversations /\ asks(request) \in CallRow
    BY <1>5, GoingOn DEF Elicit, CallStates
  <2>2. call' = [call EXCEPT ![t] = asks(request)] /\ UNCHANGED claude
        /\ Send("ask", t, request) /\ UNCHANGED <<row, items, resume, orderly>>
    BY <1>5 DEF Elicit, IInv, Types
  <2>3. asks(request).state # "idle" /\ asks(request).run = claude.run
        /\ asks(request).session = claude.session
    BY <2>1 DEF IInv, Types, CallRow
  <2> HIDE DEF asks
  <2> QED
    BY <2>1, <2>2, <2>3, OneCallKeeps
<1> QED
  BY <1>1, <1>3, <1>4, <1>5

LEMMA NextIInv == IInv /\ [Next]_vars => IInv'
<1> SUFFICES ASSUME IInv, [Next]_vars PROVE IInv'
  OBVIOUS
<1>1. CASE UNCHANGED vars
  BY <1>1 DEF vars, IInv, Types, ItemInv, CallInv, SentInv, Here, IdleShowsNothing, ResumeIsShown
<1>2. CASE Next
  BY <1>2, BeginKeeps, EndKeeps, HookFailsKeeps, RecordKeeps, StartKeeps, StopTurnKeeps,
     CallStepKeeps DEF Next, Claude
<1> QED
  BY <1>1, <1>2

LEMMA SpecIInv == Spec => []IInv
BY InitIInv, NextIInv, PTL DEF Spec

-----------------------------------------------------------------------------
(* How a request finds the tool that ends it. A request that waits for an   *)
(* answer has a parent that is pending, or none; one without is adopted by   *)
(* the last pending tool at the latest.                                     *)

Waiting(table) == {i \in table : i.kind = "confirmation" /\ ~i.finished}

Orphans(table) == {i \in Waiting(table) : i.parent = None}

\* The parent of a request that waits is pending.
Parented(table) ==
  \A i \in Waiting(table) : i.parent # None => \E j \in PendingTools(table) : j.id = i.parent

\* A statement that writes no tool.
SameTools(old, new) == ToolRows(new) = ToolRows(old)

\* The row a statement on requests makes of i: of the same key, with a parent it had
\* or is given, and finished if it was.
Turned(i, j, parent) ==
  /\ SameKey(i, j) /\ (i.finished => j.finished)
  /\ j.parent = i.parent \/ (i.parent = None /\ j.parent = parent)

LEMMA AdoptIs ==
  ASSUME NEW table \in SUBSET Item, NEW rows, NEW parent \in Tools
  PROVE  /\ SameTools(table, Adopt(table, rows, parent))
         /\ \A j \in Adopt(table, rows, parent) : \E i \in table :
              /\ Turned(i, j, parent) /\ i.finished = j.finished
              /\ i \in rows /\ i.kind = "confirmation" => j.parent # None
              /\ i \notin rows => j = i
<1> DEFINE f(i) == IF i \in rows /\ i.kind = "confirmation" /\ i.parent = None
                     THEN [i EXCEPT !.parent = parent] ELSE i
<1>1. Adopt(table, rows, parent) = {f(i) : i \in table}
  BY DEF Adopt
<1>2. ASSUME NEW i \in table
      PROVE  /\ Turned(i, f(i), parent) /\ f(i).finished = i.finished
             /\ i \in rows /\ i.kind = "confirmation" => f(i).parent # None
             /\ i \notin rows => f(i) = i
             /\ i.kind = "tool" => f(i) = i
             /\ f(i).kind = i.kind
  BY NoneAssumption DEF Item, Turned, SameKey
<1> HIDE DEF f
<1>3. ToolRows({f(i) : i \in table}) = ToolRows(table)
  BY <1>2 DEF ToolRows, Item
<1> QED
  BY <1>1, <1>2, <1>3 DEF SameTools

LEMMA FinishRequestsIs ==
  ASSUME NEW table \in SUBSET Item, NEW t
  PROVE  /\ SameTools(table, FinishRequests(table, t))
         /\ \A j \in FinishRequests(table, t) : \E i \in table :
              /\ SameKey(i, j) /\ i.parent = j.parent /\ (i.finished => j.finished)
              /\ i.kind = "confirmation" /\ i.parent = t => j.finished
<1> DEFINE f(i) == IF i.kind = "confirmation" /\ i.parent = t
                     THEN [i EXCEPT !.finished = TRUE] ELSE i
<1>1. FinishRequests(table, t) = {f(i) : i \in table}
  BY DEF FinishRequests
<1>2. ASSUME NEW i \in table
      PROVE  /\ SameKey(i, f(i)) /\ i.parent = f(i).parent /\ (i.finished => f(i).finished)
             /\ i.kind = "confirmation" /\ i.parent = t => f(i).finished
             /\ i.kind = "tool" => f(i) = i
             /\ f(i).kind = i.kind
  BY DEF Item, SameKey
<1> HIDE DEF f
<1>3. ToolRows({f(i) : i \in table}) = ToolRows(table)
  BY <1>2 DEF ToolRows, Item
<1> QED
  BY <1>1, <1>2, <1>3 DEF SameTools

\* The row of the key is written, or there was one and it keeps its parent.
LEMMA UpsertIs ==
  ASSUME NEW table \in SUBSET Item, NEW new \in Item
  PROVE  \A j \in Upsert(table, new) :
           \/ j = new /\ ~\E i \in table : SameKey(i, new)
           \/ \E i \in table :
                /\ SameKey(i, j) /\ i.parent = j.parent
                /\ j.finished = (i.finished \/ (SameKey(i, new) /\ new.finished))
                /\ ~SameKey(i, new) => j = i
<1>1. CASE \E i \in table : SameKey(i, new)
  <2> DEFINE f(i) == IF SameKey(i, new) THEN [i EXCEPT !.finished = @ \/ new.finished] ELSE i
  <2>1. Upsert(table, new) = {f(i) : i \in table}
    BY <1>1 DEF Upsert
  <2>2. ASSUME NEW i \in table
        PROVE  /\ SameKey(i, f(i)) /\ i.parent = f(i).parent
               /\ f(i).finished = (i.finished \/ (SameKey(i, new) /\ new.finished))
               /\ ~SameKey(i, new) => f(i) = i
    BY DEF Item, SameKey
  <2> HIDE DEF f
  <2> QED
    BY <2>1, <2>2
<1>2. CASE ~\E i \in table : SameKey(i, new)
  <2>1. Upsert(table, new) = table \cup {new}
    BY <1>2 DEF Upsert
  <2>2. ASSUME NEW i \in table
        PROVE  SameKey(i, i) /\ i.finished = (i.finished \/ (SameKey(i, new) /\ new.finished))
    BY <1>2 DEF Item, SameKey
  <2> QED
    BY <1>2, <2>1, <2>2
<1> QED
  BY <1>1, <1>2

LEMMA UpsertHas ==
  ASSUME NEW table \in SUBSET Item, NEW new \in Item
  PROVE  /\ \A i \in table : ~SameKey(i, new) => i \in Upsert(table, new)
         /\ ~(\E i \in table : SameKey(i, new)) => new \in Upsert(table, new)
BY DEF Upsert

\* The row of a tool is written: the other tools and the requests stay as they were.
LEMMA ToolWritten ==
  ASSUME NEW table \in SUBSET Item, NEW t \in Tools, NEW done \in BOOLEAN,
         NEW new \in Item, new.kind = "tool", new.id = t, new.finished = done,
         done \/ \A i \in ToolRows(table) : i.id # t
  PROVE  /\ Waiting(Upsert(table, new)) = Waiting(table)
         /\ done => PendingTools(Upsert(table, new)) = {i \in PendingTools(table) : i.id # t}
         /\ ~done => PendingTools(Upsert(table, new)) = PendingTools(table) \cup {new}
         /\ \A j \in ToolRows(Upsert(table, new)) :
              j.id = t \/ \E i \in ToolRows(table) : i.id = j.id
<1> DEFINE after == Upsert(table, new)
<1>1. \A j \in after :
        \/ j = new /\ ~\E i \in table : SameKey(i, new)
        \/ \E i \in table :
             /\ SameKey(i, j) /\ i.parent = j.parent
             /\ j.finished = (i.finished \/ (SameKey(i, new) /\ new.finished))
             /\ ~SameKey(i, new) => j = i
  BY UpsertIs
<1>2. \A i \in table : ~SameKey(i, new) => i \in after
  BY UpsertHas
<1>3. ~(\E i \in table : SameKey(i, new)) => new \in after
  BY UpsertHas
<1> HIDE DEF after
<1>4. Waiting(after) = Waiting(table)
  BY <1>1, <1>2 DEF Waiting, SameKey
<1>5. ASSUME done PROVE PendingTools(after) = {i \in PendingTools(table) : i.id # t}
  <2>1. \A j \in PendingTools(after) : j \in PendingTools(table) /\ j.id # t
    <3> SUFFICES ASSUME NEW j \in PendingTools(after)
                 PROVE  j \in PendingTools(table) /\ j.id # t
      OBVIOUS
    <3>1. j \in after /\ j.kind = "tool" /\ ~j.finished
      BY DEF PendingTools, ToolRows
    <3>2. j # new
      BY <1>5, <3>1
    <3>3. PICK i \in table :
            /\ SameKey(i, j) /\ j.finished = (i.finished \/ (SameKey(i, new) /\ new.finished))
            /\ ~SameKey(i, new) => j = i
      BY <1>1, <3>1, <3>2
    <3>4. ~SameKey(i, new)
      BY <1>5, <3>1, <3>3
    <3>5. j = i
      BY <3>3, <3>4
    <3> QED
      BY <3>1, <3>4, <3>5 DEF PendingTools, ToolRows, SameKey
  <2>2. \A i \in PendingTools(table) : i.id # t => i \in PendingTools(after)
    BY <1>2 DEF PendingTools, ToolRows, SameKey
  <2> QED
    BY <2>1, <2>2
<1>6. ASSUME ~done PROVE PendingTools(after) = PendingTools(table) \cup {new}
  <2>1. ~\E i \in table : SameKey(i, new)
    BY <1>6 DEF ToolRows, SameKey
  <2>2. after = table \cup {new}
    BY <2>1 DEF after, Upsert
  <2> QED
    BY <1>6, <2>2 DEF PendingTools, ToolRows
<1>7. \A j \in ToolRows(after) : j.id = t \/ \E i \in ToolRows(table) : i.id = j.id
  BY <1>1 DEF ToolRows, SameKey
<1> QED
  BY <1>4, <1>5, <1>6, <1>7 DEF after

\* A tool starts or ends: what still waits has a pending parent, and when nothing is
\* pending no request is left without one.
LEMMA RecordToolLinks ==
  ASSUME NEW S, NEW table, Table(table, S), Parented(table),
         NEW t \in Tools, t \in S, NEW done \in BOOLEAN,
         done \/ \A i \in ToolRows(table) : i.id # t
  PROVE  LET new == RecordTool(table, t, done) IN
         /\ Parented(new)
         /\ Orphans(new) # {} => PendingTools(new) # {}
         /\ \A j \in PendingTools(new) :
              (j.id = t /\ ~done) \/ (j.id # t /\ j \in PendingTools(table))
         /\ \A j \in ToolRows(new) : j.id = t \/ \E i \in ToolRows(table) : i.id = j.id
<1> DEFINE row0 == [kind |-> "tool", id |-> t, parent |-> None, anonymous |-> FALSE,
                    finished |-> done]
           written == Upsert(table, row0)
           pending == PendingTools(written)
           answered == {i \in written : i.anonymous /\ i.finished}
           only == (CHOOSE i \in pending : TRUE).id
           linked == IF (~done /\ Cardinality(pending) = 1) \/ (done /\ pending = {})
                       THEN Adopt(written, written, t)
                     ELSE IF done /\ Cardinality(pending) = 1
                       THEN Adopt(written, answered, only)
                     ELSE written
           final == RecordTool(table, t, done)
<1>0. final = IF done THEN FinishRequests(linked, t) ELSE linked
  BY DEF RecordTool
<1>1. /\ row0 \in Item /\ row0.kind = "tool" /\ row0.id = t /\ row0.finished = done
      /\ table \subseteq Item
  BY DEF Item, Table
<1> HIDE DEF row0
<1>2. Table(written, S) /\ written \in SUBSET Item
  <2>1. Table(written, S)
    BY <1>1, UpsertKeeps
  <2> QED
    BY <2>1 DEF Table
<1>3. /\ Waiting(written) = Waiting(table)
      /\ done => pending = {i \in PendingTools(table) : i.id # t}
      /\ ~done => pending = PendingTools(table) \cup {row0}
      /\ \A j \in ToolRows(written) : j.id = t \/ \E i \in ToolRows(table) : i.id = j.id
  <2> HIDE DEF final
  <2> QED
    BY <1>1, ToolWritten
<1>4. \A i \in pending : i.id \in Tools /\ i.kind = "tool" /\ ~i.finished
  <2>1. \A i \in PendingTools(table) : i.id \in Tools /\ i.kind = "tool" /\ ~i.finished
    BY DEF Table, PendingTools, ToolRows
  <2> HIDE DEF pending
  <2> QED
    BY <1>1, <1>3, <2>1
<1> HIDE DEF written, pending, answered
<1>5. ASSUME Cardinality(pending) = 1 PROVE \E k \in pending : k.id = only
  <2>1. pending # {}
    BY <1>5, FS_EmptySet
  <2>2. (CHOOSE i \in pending : TRUE) \in pending
    BY <2>1
  <2> QED
    BY <2>2
<1> HIDE DEF only
\* What the linking does: the parents it gives are pending, or end with t.
<1> DEFINE Given(parent) ==
             /\ SameTools(written, linked)
             /\ linked \in SUBSET Item
             /\ \A j \in linked : \E i \in written : Turned(i, j, parent)
             /\ parent = t \/ \E k \in pending : k.id = parent
             /\ ~done => parent = t
             /\ done /\ pending = {} => \A j \in linked : j.kind = "confirmation" => j.parent # None
<1>6. PICK parent \in Tools : Given(parent)
  <2>1. ASSUME NEW rows, NEW p \in Tools
        PROVE  /\ SameTools(written, Adopt(written, rows, p))
               /\ Adopt(written, rows, p) \in SUBSET Item
               /\ \A j \in Adopt(written, rows, p) : \E i \in written :
                    Turned(i, j, p) /\ (i \in rows /\ i.kind = "confirmation" => j.parent # None)
    <3>1. Adopt(written, rows, p) \in SUBSET Item
      BY <1>2, AdoptKeeps DEF Written, Table
    <3> QED
      BY <1>2, <3>1, AdoptIs
  <2>2. CASE (~done /\ Cardinality(pending) = 1) \/ (done /\ pending = {})
    <3>1. linked = Adopt(written, written, t)
      BY <2>2
    <3>2. \A j \in linked : \E i \in written :
            Turned(i, j, t) /\ (i.kind = "confirmation" => j.parent # None)
      BY <2>1, <3>1
    <3>3. SameTools(written, linked) /\ linked \in SUBSET Item
      BY <2>1, <3>1
    <3> HIDE DEF linked
    <3>4. \A j \in linked : j.kind = "confirmation" => j.parent # None
      BY <3>2 DEF Turned, SameKey
    <3>5. Given(t)
      BY <3>2, <3>3, <3>4
    <3> QED
      BY <3>5
  <2>3. CASE done /\ Cardinality(pending) = 1 /\ pending # {}
    <3>1. linked = Adopt(written, answered, only)
      BY <2>3
    <3>2. PICK k \in pending : k.id = only
      BY <1>5, <2>3
    <3>3. only \in Tools
      BY <1>4, <3>2
    <3>4. /\ SameTools(written, linked) /\ linked \in SUBSET Item
          /\ \A j \in linked : \E i \in written : Turned(i, j, only)
      BY <2>1, <3>1, <3>3
    <3> HIDE DEF linked
    <3>5. Given(only)
      BY <2>3, <3>2, <3>4
    <3> QED
      BY <3>3, <3>5
  <2>4. CASE ~(~done /\ Cardinality(pending) = 1) /\ ~(done /\ pending = {})
             /\ ~(done /\ Cardinality(pending) = 1)
    <3>1. linked = written
      BY <2>4
    <3>2. \A i \in written : Turned(i, i, t)
      BY DEF Turned, SameKey
    <3> HIDE DEF linked
    <3>3. Given(t)
      BY <1>2, <2>4, <3>1, <3>2 DEF SameTools
    <3> QED
      BY <3>3
  <2> QED
    BY <2>2, <2>3, <2>4
<1> HIDE DEF linked
<1>7. /\ SameTools(linked, final)
      /\ \A j \in final : \E i \in linked :
           /\ SameKey(i, j) /\ i.parent = j.parent /\ (i.finished => j.finished)
           /\ done /\ i.kind = "confirmation" /\ i.parent = t => j.finished
  <2>1. CASE done
    <3>1. final = FinishRequests(linked, t)
      BY <1>0, <2>1
    <3>2. linked \in SUBSET Item
      BY <1>6
    <3>3. /\ SameTools(linked, FinishRequests(linked, t))
          /\ \A j \in FinishRequests(linked, t) : \E i \in linked :
               /\ SameKey(i, j) /\ i.parent = j.parent /\ (i.finished => j.finished)
               /\ i.kind = "confirmation" /\ i.parent = t => j.finished
      BY <3>2, FinishRequestsIs
    <3> HIDE DEF final
    <3> QED
      BY <3>1, <3>3
  <2>2. CASE ~done
    BY <1>0, <2>2 DEF SameTools, SameKey
  <2> QED
    BY <2>1, <2>2
<1> HIDE DEF final
<1>8. PendingTools(final) = pending /\ ToolRows(final) = ToolRows(written)
  BY <1>6, <1>7 DEF SameTools, PendingTools, pending
\* The row of the table behind a request that waits at the end.
<1>9. ASSUME NEW j \in Waiting(final)
      PROVE  /\ ~(done /\ j.parent = t)
             /\ done /\ pending = {} => j.parent # None
             /\ \E i \in Waiting(table) :
                  j.parent = i.parent \/ (i.parent = None /\ j.parent = parent)
  <2>1. PICK k \in linked :
          /\ SameKey(k, j) /\ k.parent = j.parent /\ (k.finished => j.finished)
          /\ done /\ k.kind = "confirmation" /\ k.parent = t => j.finished
    BY <1>7 DEF Waiting
  <2>2. k \in Waiting(linked)
    BY <2>1 DEF Waiting, SameKey
  <2>3. PICK i \in Waiting(written) :
          k.parent = i.parent \/ (i.parent = None /\ k.parent = parent)
    <3>1. PICK i \in written : Turned(i, k, parent)
      BY <1>6
    <3> QED
      BY <2>2, <3>1 DEF Waiting, Turned, SameKey
  <2>4. i \in Waiting(table)
    BY <1>3
  <2>5. j.kind = "confirmation" /\ ~j.finished /\ k.kind = "confirmation"
    BY <2>2 DEF Waiting
  <2>6. done /\ pending = {} => j.parent # None
    BY <1>6, <2>1, <2>5
  <2> QED
    BY <2>1, <2>3, <2>4, <2>5, <2>6
<1>10. Parented(final)
  <2> SUFFICES ASSUME NEW j \in Waiting(final), j.parent # None
               PROVE  \E k \in pending : k.id = j.parent
    BY <1>8 DEF Parented
  <2>1. PICK i \in Waiting(table) : j.parent = i.parent \/ (i.parent = None /\ j.parent = parent)
    BY <1>9
  <2>2. CASE j.parent = i.parent
    <3>1. PICK k \in PendingTools(table) : k.id = i.parent
      BY <2>2 DEF Parented
    <3>2. done => k.id # t
      BY <1>9, <2>2, <3>1
    <3> QED
      BY <1>3, <2>2, <3>1, <3>2
  <2>3. CASE j.parent = parent
    <3>1. CASE ~done
      BY <1>1, <1>3, <1>6, <2>3, <3>1
    <3>2. CASE done
      BY <1>6, <1>9, <2>3, <3>2
    <3> QED
      BY <3>1, <3>2
  <2> QED
    BY <2>1, <2>2, <2>3
<1>11. Orphans(final) # {} => PendingTools(final) # {}
  <2>1. CASE ~done
    BY <1>3, <1>8, <2>1
  <2>2. CASE done
    BY <1>8, <1>9, <2>2 DEF Orphans
  <2> QED
    BY <2>1, <2>2
<1>12. \A j \in PendingTools(final) :
         (j.id = t /\ ~done) \/ (j.id # t /\ j \in PendingTools(table))
  <2>1. ~done => \A i \in PendingTools(table) : i.id # t
    BY DEF PendingTools
  <2> QED
    BY <1>1, <1>3, <1>8, <2>1
<1>13. \A j \in ToolRows(final) : j.id = t \/ \E i \in ToolRows(table) : i.id = j.id
  BY <1>3, <1>8
<1> QED
  BY <1>10, <1>11, <1>12, <1>13 DEF final

\* A parent is pending, unless nothing is.
LEMMA ParentIsPending ==
  ASSUME NEW table, NEW anonymous \in BOOLEAN, NEW parent \in Parents(table, anonymous)
  PROVE  \/ parent = None \/ PendingTools(table) = {}
         \/ \E k \in PendingTools(table) : k.id = parent
BY DEF Parents

\* The row of a request is written over a table whose parents are pending.
LEMMA RequestLinks ==
  ASSUME NEW table \in SUBSET Item, Parented(table), NEW e, NEW parent \in Tools \cup {None},
         \/ parent = None \/ PendingTools(table) = {}
         \/ \E k \in PendingTools(table) : k.id = parent,
         NEW id, NEW linked \in SUBSET Item,
         RequestRow(table, e, parent, id) \in Item,
         \/ linked = table
         \/ /\ linked = RequestLinked(table, e, parent, id)
            /\ \E i \in table : i.kind = "confirmation" /\ i.id = id,
         NEW new, new = Upsert(linked, RequestRow(table, e, parent, id))
  PROVE  /\ SameTools(table, new)
         /\ Parented(new)
         /\ e.event = "answer" /\ Orphans(new) # {} => Orphans(table) # {}
<1> DEFINE written == RequestRow(table, e, parent, id)
<1>1. /\ written.kind = "confirmation" /\ written.id = id /\ written.parent = parent
      /\ e.event = "answer" => written.finished
      /\ parent # None /\ PendingTools(table) = {} => written.finished
  BY DEF RequestRow
<1> HIDE DEF written
\* The rows after the adoption: those of the key of the request may have a new parent.
<1>2. /\ SameTools(table, linked)
      /\ \A j \in linked : j \in table \/ (SameKey(j, written) /\ e.event = "answer")
  <2>1. CASE linked = table
    BY <2>1 DEF SameTools
  <2>2. CASE linked = Adopt(table, {i \in table : i.id = id}, parent)
             /\ e.event = "answer" /\ parent # None
    <3>1. /\ SameTools(table, linked)
          /\ \A j \in linked : \E i \in table :
               /\ Turned(i, j, parent)
               /\ i \notin {k \in table : k.id = id} => j = i
      BY <2>2, AdoptIs
    <3>2. ASSUME NEW j \in linked, j \notin table PROVE SameKey(j, written)
      <4>1. PICK i \in table : SameKey(i, j) /\ i.id = id
        BY <3>1, <3>2 DEF Turned
      <4>2. j.kind # "tool"
        BY <3>1, <3>2 DEF SameTools, ToolRows
      <4>3. j.kind \in {"tool", "confirmation"}
        BY DEF Item
      <4> QED
        BY <1>1, <4>1, <4>2, <4>3 DEF SameKey
    <3> QED
      BY <2>2, <3>1, <3>2
  <2> QED
    BY <2>1, <2>2 DEF RequestLinked
<1>3. \A j \in new :
        \/ j = written
        \/ \E i \in linked :
             /\ SameKey(i, j) /\ i.parent = j.parent
             /\ j.finished = (i.finished \/ (SameKey(i, written) /\ written.finished))
             /\ ~SameKey(i, written) => j = i
  BY UpsertIs DEF written
<1>4. SameTools(table, new)
  <2>1. \A i \in linked : ~SameKey(i, written) => i \in new
    BY UpsertHas DEF written
  <2>2. ToolRows(new) = ToolRows(linked)
    BY <1>1, <1>3, <2>1 DEF ToolRows, SameKey
  <2> QED
    BY <1>2, <2>2 DEF SameTools
\* A request that waits afterwards is the one written, or waited with its parent.
<1>5. ASSUME NEW j \in Waiting(new)
      PROVE  \/ /\ e.event # "answer"
                /\ j.parent = parent /\ (parent # None => PendingTools(table) # {})
             \/ \E i \in Waiting(table) : i.parent = j.parent
  <2>1. j \in new /\ j.kind = "confirmation" /\ ~j.finished
    BY DEF Waiting
  <2>2. CASE j = written
    BY <1>1, <2>1, <2>2
  <2>3. ASSUME NEW i \in linked, SameKey(i, j), i.parent = j.parent,
               j.finished = (i.finished \/ (SameKey(i, written) /\ written.finished))
        PROVE  \E k \in Waiting(table) : k.parent = j.parent
    <3>1. i.kind = "confirmation" /\ ~i.finished
      BY <2>1, <2>3 DEF SameKey, Item
    <3>2. ~(SameKey(i, written) /\ written.finished)
      BY <2>1, <2>3, <3>1 DEF Item
    <3>3. i \in table
      BY <1>1, <1>2, <3>2
    <3> QED
      BY <2>3, <3>1, <3>3 DEF Waiting
  <2> QED
    BY <1>3, <2>1, <2>2, <2>3
<1>6. PendingTools(new) = PendingTools(table)
  BY <1>4 DEF SameTools, PendingTools
<1>7. Parented(new)
  <2> SUFFICES ASSUME NEW j \in Waiting(new), j.parent # None
               PROVE  \E k \in PendingTools(table) : k.id = j.parent
    BY <1>6 DEF Parented
  <2> QED
    BY <1>5 DEF Parented
<1>8. e.event = "answer" /\ Orphans(new) # {} => Orphans(table) # {}
  BY <1>5 DEF Orphans
<1> QED
  BY <1>4, <1>7, <1>8

\* A request or its answer writes no tool, and leaves no parent that is not pending.
LEMMA RecordRequestLinks ==
  ASSUME NEW S, NEW table, Table(table, S), Parented(table),
         NEW e \in Event, e.tool \in Tools, NEW new \in RecordRequest(table, e)
  PROVE  /\ SameTools(table, new)
         /\ Parented(new)
         /\ e.event = "answer" /\ Orphans(new) # {} => Orphans(table) # {}
<1>1. PICK parent \in Parents(table, e.request = "anonymous") :
           \/ new = Upsert(table, RequestRow(table, e, parent, e.tool))
           \/ new = Upsert(table, RequestRow(table, e, parent, <<"server", parent>>))
           \/ \E id \in Rows(table, parent) :
                new = Upsert(RequestLinked(table, e, parent, id), RequestRow(table, e, parent, id))
  BY RequestForm
<1>2. /\ parent \in Tools \cup {None}
      /\ \/ parent = None \/ PendingTools(table) = {}
         \/ \E k \in PendingTools(table) : k.id = parent
  BY ParentIsTool, ParentIsPending
<1>3. table \in SUBSET Item
  BY DEF Table
<1>4. ASSUME NEW id \in Tools \cup ({"server"} \X (Tools \cup {None}))
      PROVE  RequestRow(table, e, parent, id) \in Item
  BY <1>2 DEF RequestRow, Item
<1>5. CASE new = Upsert(table, RequestRow(table, e, parent, e.tool))
  BY <1>2, <1>3, <1>4, <1>5, RequestLinks
<1>6. CASE new = Upsert(table, RequestRow(table, e, parent, <<"server", parent>>))
  BY <1>2, <1>3, <1>4, <1>6, RequestLinks
<1>7. ASSUME NEW id \in Rows(table, parent),
             new = Upsert(RequestLinked(table, e, parent, id), RequestRow(table, e, parent, id))
      PROVE  /\ SameTools(table, new)
             /\ Parented(new)
             /\ e.event = "answer" /\ Orphans(new) # {} => Orphans(table) # {}
  <2>1. PICK i \in table : i.kind = "confirmation" /\ i.id = id
    BY DEF Rows
  <2>2. RequestRow(table, e, parent, id) \in Item
    BY <1>3, <1>4, <2>1 DEF Item
  <2>3. RequestLinked(table, e, parent, id) \in SUBSET Item
    BY <1>2, <1>3, AdoptKeeps DEF RequestLinked, Written, Table
  <2> QED
    BY <1>2, <1>3, <1>7, <2>1, <2>2, <2>3, RequestLinks
<1> QED
  BY <1>1, <1>5, <1>6, <1>7

-----------------------------------------------------------------------------
(* How the calls are accounted for. As long as no hook has failed or        *)
(* overtaken another of its call (orderly), whatever waits or runs in the    *)
(* table is owed an end by a call that goes on, or by a hook that is sent.   *)

Live == orderly /\ ~row.closed

Mine(e) == e.run = row.run

Going(t) == call[t].state \in {"running", "asking", "dropped"}

\* The end of call t is on its way.
Posts(t, run, session) ==
  \E f \in sent : f.event = "post" /\ f.tool = t /\ f.run = run /\ f.session = session

\* Call t of the run and conversation shown is still to end.
Open(t) ==
  \/ t \in Here(row.run, row.session) /\ Going(t)
  \/ Posts(t, row.run, row.session)

\* The process is that of the newest run, and at most one start is on its way.
ProcessInv ==
  /\ claude.run = row.run
  /\ \A e \in sent : /\ e.run <= row.run
                     /\ Mine(e) => claude.session # None
                     /\ Mine(e) /\ e.event = "start" => e.session = claude.session
                     /\ e.event = "pre" => e.request = "none"

\* The conversation shown is that of the process, once its start is recorded.
SessionOrder ==
  /\ \/ claude.session = None \/ row.session = claude.session
     \/ \E e \in sent : Mine(e) /\ e.event = "start"
  /\ row.session = None => \A e \in sent : Mine(e) => e.event = "start"
  /\ \A t \in Tools : call[t].state \in {"running", "asking"} => row.session = claude.session

\* Before the end of a call its other events are recorded, and its start first.
CallOrder ==
  \A e \in sent : Mine(e) =>
    /\ e.event \in {"pre", "ask", "answer"} => Going(e.tool) \/ Posts(e.tool, e.run, e.session)
    /\ e.event = "pre" => \A i \in ToolRows(items) : i.id # e.tool

\* Whatever is pending, or waits, is owed an end.
Owed ==
  /\ \A i \in PendingTools(items) : Open(i.id)
  /\ Parented(items)
  /\ Orphans(items) # {} => \E t \in Tools : Open(t)

Accounted == SessionOrder /\ CallOrder /\ Owed

LInv == IInv /\ ProcessInv /\ (Live => Accounted)

LEMMA PendingAreTools == IInv => \A i \in ToolRows(items) : i.id \in Here(row.run, row.session)
BY DEF IInv, ItemInv, Table, ToolRows

LEMMA InitLInv == Init => LInv
<1> SUFFICES ASSUME Init PROVE LInv
  OBVIOUS
<1> QED
  BY InitIInv DEF Init, LInv, ProcessInv, Live

LEMMA BeginAccounts == LInv /\ BeginWorkerActivity => LInv'
<1> SUFFICES ASSUME LInv, BeginWorkerActivity PROVE LInv'
  OBVIOUS
<1>1. row.run \in Nat /\ row'.run = row.run + 1 /\ claude'.run = row'.run
      /\ claude'.session = None /\ items' = {} /\ sent' = sent
  BY DEF LInv, IInv, Types, RunRow, Runs, BeginWorkerActivity
<1>2. \A e \in sent : e.run \in Nat /\ e.run <= row.run /\ (e.event = "pre" => e.request = "none")
  BY DEF LInv, ProcessInv, IInv, Types, Event, Runs
<1>3. \A e \in sent : e.run # row'.run /\ e.run <= row'.run
  BY <1>1, <1>2
<1>4. ProcessInv'
  BY <1>1, <1>2, <1>3 DEF ProcessInv, Mine
<1>5. \A t \in Tools : call'[t].state \notin {"running", "asking"}
  BY DEF BeginWorkerActivity, LInv, IInv, Types, CallRow
<1>6. SessionOrder' /\ CallOrder'
  BY <1>1, <1>3, <1>5 DEF SessionOrder, CallOrder, Mine
<1>7. Owed'
  BY <1>1 DEF Owed, Parented, Orphans, Waiting, PendingTools, ToolRows
<1> QED
  BY <1>4, <1>6, <1>7, BeginKeeps DEF LInv, Accounted

LEMMA EndAccounts == LInv /\ EndWorkerActivity => LInv'
<1> SUFFICES ASSUME LInv, EndWorkerActivity PROVE LInv'
  OBVIOUS
<1>1. row'.run = row.run /\ row'.closed /\ UNCHANGED <<claude, sent>>
  BY DEF LInv, IInv, Types, RunRow, EndWorkerActivity
<1> QED
  BY <1>1, EndKeeps DEF LInv, ProcessInv, Mine, Live

LEMMA HookFailsAccounts == ASSUME NEW e \in sent PROVE LInv /\ HookFails(e) => LInv'
<1> SUFFICES ASSUME LInv, HookFails(e) PROVE LInv'
  OBVIOUS
<1>1. sent' \subseteq sent /\ ~orderly' /\ UNCHANGED <<row, claude>>
  BY DEF HookFails
<1> QED
  BY <1>1, HookFailsKeeps DEF LInv, ProcessInv, Mine, Live

\* A step of Claude's sends one event.
LEMMA SendAccounts ==
  ASSUME IInv, ProcessInv, NEW event, NEW t, NEW request, Send(event, t, request),
         UNCHANGED row, claude'.run = claude.run, claude'.session # None,
         event = "start" => Heard, event # "start" => claude'.session = claude.session,
         event = "pre" => request = "none"
  PROVE  ProcessInv'
<1> DEFINE new == [run |-> claude.run, session |-> claude'.session, event |-> event,
                   tool |-> t, request |-> request]
<1>1. sent' = sent \cup {new} /\ claude.run = row.run
  BY DEF Send, ProcessInv
<1>2. /\ new.run = row.run /\ new.session = claude'.session /\ new.event = event
      /\ new.request = request
  BY <1>1
<1>3. row.run \in Nat /\ row.run <= row.run
  BY DEF IInv, Types, RunRow, Runs
<1> HIDE DEF new
<1> QED
  BY <1>1, <1>2, <1>3 DEF ProcessInv, Mine, Heard

\* It keeps the account when the calls it ends are sent their end.
LEMMA CallsAccounted ==
  ASSUME IInv, CallOrder, Owed, UNCHANGED <<row, items>>, Moves, sent \subseteq sent',
         \A u \in Tools : \A run, session :
           u \in Here(run, session) /\ Going(u) => Going(u)' \/ Posts(u, run, session)',
         \A e \in sent' \ sent :
           /\ e.event \in {"pre", "ask", "answer"} => Going(e.tool)'
           /\ e.event = "pre" => \A i \in ToolRows(items) : i.id # e.tool
  PROVE  CallOrder' /\ Owed'
<1>1. ASSUME NEW u, NEW run, NEW session, u \in Here(run, session), Going(u)
      PROVE  Going(u)' \/ Posts(u, run, session)'
  BY <1>1 DEF Here
<1>2. ASSUME NEW u, NEW run, NEW session, Posts(u, run, session)
      PROVE  Posts(u, run, session)'
  BY <1>2 DEF Posts
<1>3. ASSUME NEW u \in Tools, Open(u) PROVE Open(u)'
  <2>1. CASE u \in Here(row.run, row.session) /\ Going(u)
    <3>1. u \in Here(row.run, row.session)'
      BY <2>1 DEF Moves
    <3>2. Going(u)' \/ Posts(u, row.run, row.session)'
      BY <1>1, <2>1
    <3> QED
      BY <3>1, <3>2 DEF Open
  <2>2. CASE Posts(u, row.run, row.session)
    <3>1. Posts(u, row.run, row.session)'
      BY <1>2, <2>2
    <3> QED
      BY <3>1 DEF Open
  <2> QED
    BY <1>3, <2>1, <2>2 DEF Open
<1>4. \A i \in PendingTools(items) : i.id \in Tools
  BY PendingAreTools DEF PendingTools, Here
<1>5. Owed'
  BY <1>3, <1>4 DEF Owed
<1>6. CallOrder'
  <2> SUFFICES ASSUME NEW e \in sent', Mine(e)
               PROVE  /\ e.event \in {"pre", "ask", "answer"} =>
                           Going(e.tool)' \/ Posts(e.tool, e.run, e.session)'
                      /\ e.event = "pre" => \A i \in ToolRows(items) : i.id # e.tool
    BY DEF CallOrder, Mine
  <2>1. CASE e \in sent
    <3>1. e.event \in {"pre", "ask", "answer"} => e.tool \in Here(e.run, e.session)
      BY <2>1 DEF IInv, SentInv
    <3> QED
      BY <1>1, <1>2, <2>1, <3>1 DEF CallOrder
  <2>2. CASE e \notin sent
    BY <2>2
  <2> QED
    BY <2>1, <2>2
<1> QED
  BY <1>5, <1>6

\* A step that leaves the conversation with the process.
LEMMA StaysInSession ==
  ASSUME UNCHANGED row, row.session # None, row.session = claude'.session
  PROVE  SessionOrder'
BY DEF SessionOrder

\* While a turn goes on and no start is on its way, the conversations agree.
LEMMA InTurn ==
  ASSUME IInv, ProcessInv, SessionOrder,
         \/ claude.turn /\ Heard
         \/ \E t \in Tools : call[t].state \in {"running", "asking"}
  PROVE  row.session = claude.session /\ claude.session # None
<1>1. CASE claude.turn /\ Heard
  <2>1. claude.session # None
    BY <1>1 DEF IInv, CallInv
  <2>2. ~\E e \in sent : Mine(e) /\ e.event = "start"
    BY <1>1 DEF Heard, Mine, ProcessInv
  <2> QED
    BY <2>1, <2>2 DEF SessionOrder
<1>2. CASE \E t \in Tools : call[t].state \in {"running", "asking"}
  BY <1>2 DEF SessionOrder, IInv, CallInv
<1> QED
  BY <1>1, <1>2

LEMMA StartAccounts == ASSUME NEW c \in Conversations PROVE LInv /\ Start(c) => LInv'
<1> SUFFICES ASSUME LInv, Start(c) PROVE LInv'
  OBVIOUS
<1>1. /\ claude'.run = claude.run /\ claude'.session = c /\ c # None /\ Heard
      /\ UNCHANGED <<row, items, resume, orderly>> /\ Send("start", None, "none")
  BY NoneAssumption DEF Start, LInv, IInv, Types
<1>2. call' = [t \in Tools |-> IF call[t].state \in {"running", "asking"} /\ call[t].session # c
                                THEN [call[t] EXCEPT !.state = "dropped"] ELSE call[t]]
  BY DEF Start
<1>3. /\ Moves
      /\ \A t \in Tools : Going(t) => Going(t)'
      /\ \A t \in Tools : call'[t].state \in {"running", "asking"} =>
           call[t].state \in {"running", "asking"} /\ call[t].session = c
  BY <1>2 DEF Moves, Here, Going, LInv, IInv, Types, CallRow
<1>4. ProcessInv'
  BY <1>1, SendAccounts DEF LInv
<1>5. IInv'
  BY StartKeeps DEF LInv
<1> DEFINE new == [run |-> claude.run, session |-> claude'.session, event |-> "start",
                   tool |-> None, request |-> "none"]
<1>6. sent' = sent \cup {new} /\ new.event = "start" /\ new.run = row.run
  BY <1>1 DEF Send, LInv, ProcessInv
<1> HIDE DEF new
<1>7. ASSUME Live PROVE Accounted'
  <2>1. Accounted
    BY <1>7 DEF LInv
  <2>2. SessionOrder'
    <3>1. \A t \in Tools : call'[t].state \in {"running", "asking"} => row.session = c
      BY <1>3, <2>1 DEF Accounted, SessionOrder, LInv, IInv, CallInv
    <3>2. \E e \in sent' : e.run = row.run /\ e.event = "start"
      BY <1>6
    <3>3. row.session = None => \A e \in sent' : e.run = row.run => e.event = "start"
      BY <1>6, <2>1 DEF Accounted, SessionOrder, Mine
    <3> QED
      BY <1>1, <3>1, <3>2, <3>3 DEF SessionOrder, Mine
  <2>3. CallOrder' /\ Owed'
    BY <1>1, <1>3, <1>6, <2>1, CallsAccounted DEF LInv, Accounted, Here
  <2> QED
    BY <2>2, <2>3 DEF Accounted
<1>8. Live' = Live
  BY <1>1 DEF Live
<1> QED
  BY <1>4, <1>5, <1>7, <1>8 DEF LInv

LEMMA StopTurnAccounts == LInv /\ Stop => LInv'
<1> SUFFICES ASSUME LInv, Stop PROVE LInv'
  OBVIOUS
<1>1. /\ claude'.run = claude.run /\ claude'.session = claude.session /\ claude.turn /\ Heard
      /\ UNCHANGED <<row, items, resume, orderly>> /\ Send("stop", None, "none")
  BY DEF Stop, LInv, IInv, Types
<1>2. call' = [t \in Tools |-> IF call[t].state \in {"running", "asking"}
                                THEN [call[t] EXCEPT !.state = "dropped"] ELSE call[t]]
  BY DEF Stop
<1>3. Moves /\ \A t \in Tools : Going(t) => Going(t)'
  BY <1>2 DEF Moves, Here, Going, LInv, IInv, Types, CallRow
<1>4. ProcessInv'
  BY <1>1, SendAccounts DEF LInv, IInv, CallInv
<1>5. IInv'
  BY StopTurnKeeps DEF LInv
<1> DEFINE new == [run |-> claude.run, session |-> claude'.session, event |-> "stop",
                   tool |-> None, request |-> "none"]
<1>6. sent' = sent \cup {new} /\ new.event = "stop"
  BY <1>1 DEF Send
<1> HIDE DEF new
<1>7. ASSUME Live PROVE Accounted'
  <2>1. Accounted
    BY <1>7 DEF LInv
  <2>2. SessionOrder'
    BY <1>1, <2>1, InTurn, StaysInSession DEF LInv, Accounted
  <2>3. CallOrder' /\ Owed'
    BY <1>1, <1>3, <1>6, <2>1, CallsAccounted DEF LInv, Accounted, Here
  <2> QED
    BY <2>2, <2>3 DEF Accounted
<1>8. Live' = Live
  BY <1>1 DEF Live
<1> QED
  BY <1>4, <1>5, <1>7, <1>8 DEF LInv

\* A step of one call that goes on, or whose end is sent.
LEMMA OneCallAccounts ==
  ASSUME LInv, NEW t \in Tools, NEW new, NEW event, NEW request,
         call' = [call EXCEPT ![t] = new], call[t] \in CallRow,
         new.run = claude.run, new.session = claude.session, new.state # "idle",
         \/ event \in {"pre", "ask", "answer"} /\ new.state \in {"running", "asking"}
         \/ event = "post",
         call[t].state # "idle" => call[t].run = claude.run /\ call[t].session = claude.session,
         event = "pre" => call[t].state = "idle" /\ request = "none",
         \/ claude.turn /\ Heard
         \/ call[t].state \in {"running", "asking"},
         claude.session # None,
         UNCHANGED <<row, items, resume, orderly, claude>>, Send(event, t, request),
         IInv'
  PROVE  LInv'
<1> DEFINE e0 == [run |-> claude.run, session |-> claude'.session, event |-> event,
                  tool |-> t, request |-> request]
<1>1. /\ sent' = sent \cup {e0} /\ e0.event = event /\ e0.tool = t /\ e0.run = claude.run
      /\ e0.session = claude.session
  BY DEF Send
<1> HIDE DEF e0
<1>2. Moves
  BY DEF Moves, Here, LInv, IInv, Types
<1>3. call'[t] = new /\ \A u \in Tools : u # t => call'[u] = call[u]
  BY DEF LInv, IInv, Types
<1>4. ProcessInv'
  BY SendAccounts DEF LInv
<1>5. \A u \in Tools : \A run, session :
        u \in Here(run, session) /\ Going(u) => Going(u)' \/ Posts(u, run, session)'
  <2> SUFFICES ASSUME NEW u \in Tools, NEW run, NEW session, u \in Here(run, session), Going(u),
                      ~(Going(u)')
               PROVE  Posts(u, run, session)'
    OBVIOUS
  <2>1. u = t /\ event = "post"
    BY <1>3 DEF Going
  <2>2. run = claude.run /\ session = claude.session
    BY <2>1 DEF Here
  <2> QED
    BY <1>1, <2>1, <2>2 DEF Posts
<1>6. ASSUME NEW e \in sent' \ sent
      PROVE  /\ e.event \in {"pre", "ask", "answer"} => Going(e.tool)'
             /\ e.event = "pre" => \A i \in ToolRows(items) : i.id # e.tool
  <2>1. e.event = event /\ e.tool = t
    BY <1>1
  <2>2. event \in {"pre", "ask", "answer"} => Going(t)'
    BY <1>3 DEF Going
  <2>3. event = "pre" => \A i \in ToolRows(items) : i.id # t
    BY PendingAreTools DEF LInv, Here
  <2> QED
    BY <2>1, <2>2, <2>3
<1>7. ASSUME Live PROVE Accounted'
  <2>1. Accounted
    BY <1>7 DEF LInv
  <2>2. SessionOrder'
    BY <2>1, InTurn, StaysInSession DEF LInv, Accounted
  <2>3. CallOrder' /\ Owed'
    BY <1>1, <1>2, <1>5, <1>6, <2>1, CallsAccounted DEF LInv, Accounted
  <2> QED
    BY <2>2, <2>3 DEF Accounted
<1>8. Live' = Live
  BY DEF Live
<1> QED
  BY <1>4, <1>7, <1>8 DEF LInv

LEMMA CallStepAccounts ==
  ASSUME LInv, NEW t \in Tools,
         \/ CallTool(t) \/ Answer(t) \/ EndTool(t)
         \/ \E request \in {"named", "anonymous"} : Elicit(t, request)
  PROVE  LInv'
<1>1. IInv'
  BY CallStepKeeps DEF LInv
<1>2. call[t] \in CallRow /\ claude.session \in Conversations \cup {None}
  BY DEF LInv, IInv, Types
<1>3. call[t].state \in {"running", "asking"} =>
        call[t].run = claude.run /\ call[t].session = claude.session /\ claude.session # None
  BY DEF LInv, IInv, CallInv
<1>4. CASE CallTool(t)
  <2> DEFINE new == [state |-> "running", run |-> claude.run, session |-> claude.session,
                     request |-> "none"]
  <2>1. /\ call' = [call EXCEPT ![t] = new] /\ call[t].state = "idle" /\ claude.turn /\ Heard
        /\ Send("pre", t, "none") /\ UNCHANGED <<row, items, resume, orderly, claude>>
    BY <1>4 DEF CallTool
  <2>2. new.run = claude.run /\ new.session = claude.session /\ new.state = "running"
    OBVIOUS
  <2>3. claude.session # None
    BY <2>1 DEF LInv, IInv, CallInv
  <2> HIDE DEF new
  <2> QED
    BY <1>1, <1>2, <2>1, <2>2, <2>3, OneCallAccounts
<1>5. CASE Answer(t)
  <2> DEFINE new == [call[t] EXCEPT !.state = "running"]
  <2>1. /\ call' = [call EXCEPT ![t] = new] /\ call[t].state = "asking"
        /\ Send("answer", t, call[t].request) /\ UNCHANGED <<row, items, resume, orderly, claude>>
    BY <1>5 DEF Answer
  <2>2. new.run = call[t].run /\ new.session = call[t].session /\ new.state = "running"
    BY <1>2 DEF CallRow
  <2> HIDE DEF new
  <2> QED
    BY <1>1, <1>2, <1>3, <2>1, <2>2, OneCallAccounts
<1>6. CASE EndTool(t)
  <2> DEFINE new == [call[t] EXCEPT !.state = "ended"]
  <2>1. /\ call' = [call EXCEPT ![t] = new] /\ call[t].state \in {"running", "asking"}
        /\ Send("post", t, "none") /\ UNCHANGED <<row, items, resume, orderly, claude>>
    BY <1>6 DEF EndTool
  <2>2. new.run = call[t].run /\ new.session = call[t].session /\ new.state = "ended"
    BY <1>2 DEF CallRow
  <2> HIDE DEF new
  <2> QED
    BY <1>1, <1>2, <1>3, <2>1, <2>2, OneCallAccounts
<1>7. ASSUME NEW request \in {"named", "anonymous"}, Elicit(t, request) PROVE LInv'
  <2> DEFINE new == [call[t] EXCEPT !.state = "asking", !.request = request]
  <2>1. /\ call' = [call EXCEPT ![t] = new] /\ call[t].state = "running"
        /\ Send("ask", t, request) /\ UNCHANGED <<row, items, resume, orderly, claude>>
    BY <1>7 DEF Elicit, LInv, IInv, Types
  <2>2. new.run = call[t].run /\ new.session = call[t].session /\ new.state = "asking"
    BY <1>2 DEF CallRow
  <2> HIDE DEF new
  <2> QED
    BY <1>1, <1>2, <1>3, <2>1, <2>2, OneCallAccounts
<1> QED
  BY <1>4, <1>5, <1>6, <1>7

\* A hook records: what is still sent keeps the account.
LEMMA SentAccounts ==
  ASSUME LInv, Live, NEW e \in sent, ~Overtakes(e), sent' = sent \ {e}, UNCHANGED call,
         row'.run = row.run
  PROVE  \A d \in sent' : Mine(d) /\ d.event \in {"pre", "ask", "answer"} =>
           Going(d.tool)' \/ Posts(d.tool, d.run, d.session)'
<1> SUFFICES ASSUME NEW d \in sent, d # e, Mine(d), d.event \in {"pre", "ask", "answer"},
                    ~Going(d.tool)
             PROVE  Posts(d.tool, d.run, d.session)'
  BY DEF Going, Mine
<1>1. PICK f \in sent : f.event = "post" /\ f.tool = d.tool /\ f.run = d.run
                        /\ f.session = d.session
  BY DEF LInv, Accounted, CallOrder, Posts
<1>2. d.tool # None
  BY NoneAssumption DEF LInv, IInv, SentInv, Here
<1>3. Rank[d.event] < Rank["post"]
  BY DEF Rank
<1>4. f # e
  BY <1>1, <1>2, <1>3 DEF Overtakes
<1> QED
  BY <1>1, <1>4 DEF Posts

\* Two starts of one call are one event.
LEMMA OneStart ==
  ASSUME IInv, ProcessInv, NEW d \in sent, NEW e \in sent, d.event = "pre", e.event = "pre",
         d.tool = e.tool
  PROVE  d = e
<1>1. d \in Event /\ e \in Event
  BY DEF IInv, Types
<1>2. d.tool \in Here(d.run, d.session) /\ e.tool \in Here(e.run, e.session)
  BY DEF IInv, SentInv
<1>3. d.run = e.run /\ d.session = e.session
  BY <1>2 DEF Here
<1>4. d.request = "none" /\ e.request = "none"
  BY DEF ProcessInv
<1> QED
  BY <1>1, <1>3, <1>4 DEF Event

\* What is recorded of an event the store refuses changes no row.
LEMMA RefusedAccounts ==
  ASSUME LInv, Live, NEW e \in sent, ~Overtakes(e), sent' = sent \ {e},
         UNCHANGED <<row, items, claude, call>>, ~Accepted(e)
  PROVE  Accounted'
<1>1. Accounted
  BY DEF LInv
<1>2. ~(Mine(e) /\ e.event = "start")
  BY DEF Accepted, Mine, Live
<1>3. SessionOrder'
  BY <1>1, <1>2 DEF Accounted, SessionOrder, Mine
<1>4. CallOrder'
  BY <1>1, SentAccounts DEF Accounted, CallOrder, Mine
<1>5. ASSUME NEW t, Open(t) PROVE Open(t)'
  <2>1. CASE Posts(t, row.run, row.session)
    <3>1. PICK f \in sent : f.event = "post" /\ f.tool = t /\ f.run = row.run
                            /\ f.session = row.session
      BY <2>1 DEF Posts
    <3>2. f # e
      BY <3>1 DEF Accepted, Live
    <3>3. Posts(t, row.run, row.session)'
      BY <3>1, <3>2 DEF Posts
    <3> QED
      BY <3>3 DEF Open
  <2>2. CASE t \in Here(row.run, row.session) /\ Going(t)
    BY <2>2 DEF Open, Here, Going
  <2> QED
    BY <1>5, <2>1, <2>2 DEF Open
<1>6. Owed'
  BY <1>1, <1>5 DEF Accounted, Owed
<1> QED
  BY <1>3, <1>4, <1>6 DEF Accounted

\* The rows an accepted event leaves are owed their ends.
LEMMA AcceptedRowsOwed ==
  ASSUME LInv, Live, NEW e \in sent, RecordWorkerActivity(e), Accepted(e),
         e.event # "start", row'.run = row.run, row'.session = row.session,
         row.session = e.session
  PROVE  /\ Owed'
         /\ \A j \in ToolRows(items') :
              \/ \E i \in ToolRows(items) : i.id = j.id
              \/ e.event \in {"pre", "post"} /\ j.id = e.tool
<1> DEFINE S == Here(row.run, row.session)
<1>1. e \in Event /\ e.event \in {"stop", "pre", "post", "ask", "answer"}
  BY DEF LInv, IInv, Types, Event
<1>2. Mine(e) /\ Table(items, S) /\ Owed /\ CallOrder
  BY DEF Accepted, Mine, LInv, IInv, ItemInv, Accounted
<1>3. e.event # "stop" => e.tool \in S /\ e.tool \in Tools
  BY <1>1, <1>2 DEF LInv, IInv, SentInv, Here, Mine
<1>4. sent' = sent \ {e} /\ UNCHANGED call
  BY DEF RecordWorkerActivity
<1>5. ASSUME NEW t, Open(t), t # e.tool \/ e.event # "post" PROVE Open(t)'
  <2>1. CASE Posts(t, row.run, row.session)
    <3>1. Posts(t, row.run, row.session)'
      BY <1>4, <1>5, <2>1 DEF Posts
    <3> QED
      BY <3>1 DEF Open
  <2>2. CASE t \in S /\ Going(t)
    BY <1>4, <2>2 DEF Open, Here, Going
  <2> QED
    BY <1>5, <2>1, <2>2 DEF Open
\* The call that asks, or has just begun, is to end.
<1>6. ASSUME e.event \in {"pre", "ask", "answer"} PROVE Open(e.tool)'
  <2>1. Open(e.tool)
    BY <1>2, <1>3, <1>6 DEF CallOrder, Open, Mine
  <2> QED
    BY <1>5, <1>6, <2>1
<1>7. items' \in CASE e.event = "stop" -> {{[i EXCEPT !.finished = TRUE] : i \in items}}
                   [] e.event \in {"pre", "post"} ->
                        {RecordTool(items, e.tool, e.event = "post")}
                   [] OTHER -> RecordRequest(items, e)
  BY <1>1 DEF RecordWorkerActivity
<1>8. Parented(items) /\ \A i \in PendingTools(items) : Open(i.id)
  BY <1>2 DEF Owed
<1> HIDE DEF S
<1>9. CASE e.event = "stop"
  <2>1. items' = {[i EXCEPT !.finished = TRUE] : i \in items}
    BY <1>7, <1>9
  <2>2. Ended(items')
    BY <1>2, <2>1, StopKeeps
  <2>3. PendingTools(items') = {} /\ Waiting(items') = {}
    BY <2>2 DEF Ended, PendingTools, ToolRows, Waiting
  <2>4. Owed'
    BY <2>3 DEF Owed, Parented, Orphans
  <2>5. \A j \in ToolRows(items') : \E i \in ToolRows(items) : i.id = j.id
    BY <1>2, <2>1 DEF ToolRows, Table, Item
  <2> QED
    BY <2>4, <2>5
<1>10. CASE e.event \in {"pre", "post"}
  <2> DEFINE done == e.event = "post"
  <2>1. items' = RecordTool(items, e.tool, done)
    BY <1>7, <1>10
  <2>2. done \/ \A i \in ToolRows(items) : i.id # e.tool
    BY <1>2, <1>10 DEF CallOrder
  <2>3. /\ Parented(items')
        /\ Orphans(items') # {} => PendingTools(items') # {}
        /\ \A j \in PendingTools(items') :
             (j.id = e.tool /\ ~done) \/ (j.id # e.tool /\ j \in PendingTools(items))
        /\ \A j \in ToolRows(items') : j.id = e.tool \/ \E i \in ToolRows(items) : i.id = j.id
    <3> HIDE DEF done
    <3>1. done \in BOOLEAN
      BY DEF done
    <3> QED
      BY <1>2, <1>3, <1>8, <1>10, <2>1, <2>2, <3>1, RecordToolLinks
  <2>4. \A j \in PendingTools(items') : Open(j.id)'
    BY <1>5, <1>6, <1>8, <1>10, <2>3
  <2>5. \A j \in PendingTools(items') : j.id \in Tools
    BY <1>2, <1>3, <1>10, <2>3 DEF PendingTools, ToolRows, Table
  <2>6. Orphans(items') # {} => \E t \in Tools : Open(t)'
    BY <2>3, <2>4, <2>5
  <2>7. Owed'
    BY <2>3, <2>4, <2>6 DEF Owed
  <2> QED
    BY <1>10, <2>3, <2>7
<1>11. CASE e.event \in {"ask", "answer"}
  <2>1. items' \in RecordRequest(items, e)
    BY <1>7, <1>11
  <2>2. /\ SameTools(items, items') /\ Parented(items')
        /\ e.event = "answer" /\ Orphans(items') # {} => Orphans(items) # {}
    BY <1>1, <1>2, <1>3, <1>8, <1>11, <2>1, RecordRequestLinks
  <2>3. \A j \in PendingTools(items') : Open(j.id)'
    BY <1>5, <1>8, <1>11, <2>2 DEF SameTools, PendingTools
  <2>4. Orphans(items') # {} => \E t \in Tools : Open(t)'
    BY <1>3, <1>6, <1>11
  <2>5. Owed'
    BY <2>2, <2>3, <2>4 DEF Owed
  <2> QED
    BY <2>2, <2>5 DEF SameTools
<1> QED
  BY <1>1, <1>9, <1>10, <1>11

LEMMA AcceptedAccounts ==
  ASSUME LInv, Live, NEW e \in sent, RecordWorkerActivity(e), Accepted(e), ~Overtakes(e)
  PROVE  Accounted'
<1>1. /\ e.session \in Conversations /\ e.session # None
      /\ row' = [row EXCEPT !.session = e.session,
                            !.accepting = CASE e.event = "start" -> TRUE
                                            [] e.event = "stop" -> FALSE
                                            [] OTHER -> @]
      /\ sent' = sent \ {e} /\ UNCHANGED <<claude, call>>
  BY NoneAssumption DEF RecordWorkerActivity, LInv, IInv, Types, Event
<1>2. row'.run = row.run /\ row'.session = e.session
  BY <1>1 DEF LInv, IInv, Types, RunRow
<1>3. Mine(e) /\ Accounted /\ (row.session \in {None, e.session} \/ e.event = "start")
  BY DEF Accepted, Mine, LInv
<1>4. \A d \in sent' : Mine(d) /\ d.event \in {"pre", "ask", "answer"} =>
        Going(d.tool)' \/ Posts(d.tool, d.run, d.session)'
  BY <1>1, <1>2, SentAccounts
<1>5. CASE e.event = "start"
  <2>1. e.session = claude.session
    BY <1>3, <1>5 DEF LInv, ProcessInv
  <2>2. SessionOrder'
    BY <1>1, <1>2, <1>3, <2>1 DEF SessionOrder, Accounted
  <2>3. items' = Kept(e)
    BY <1>5 DEF RecordWorkerActivity, Kept
  <2>4. CASE items' = {}
    <3>1. Owed'
      BY <2>4 DEF Owed, Parented, Orphans, Waiting, PendingTools, ToolRows
    <3>2. CallOrder'
      BY <1>2, <1>4, <2>4 DEF CallOrder, ToolRows, Mine
    <3> QED
      BY <2>2, <3>1, <3>2 DEF Accounted
  <2>5. CASE row.session = e.session
    <3>1. items' = items
      BY <2>3, <2>5 DEF Kept
    <3>2. ASSUME NEW t, Open(t) PROVE Open(t)'
      <4>1. CASE Posts(t, row.run, row.session)
        <5>1. Posts(t, row.run, row.session)'
          BY <1>1, <1>2, <1>5, <2>5, <4>1 DEF Posts
        <5> QED
          BY <5>1 DEF Open
      <4>2. CASE t \in Here(row.run, row.session) /\ Going(t)
        BY <1>1, <1>2, <2>5, <4>2 DEF Open, Here, Going
      <4> QED
        BY <3>2, <4>1, <4>2 DEF Open
    <3>3. Owed'
      BY <1>3, <3>1, <3>2 DEF Accounted, Owed
    <3>4. CallOrder'
      BY <1>1, <1>2, <1>3, <1>4, <3>1 DEF Accounted, CallOrder, Mine
    <3> QED
      BY <2>2, <3>3, <3>4 DEF Accounted
  <2>6. row.session # e.session => items' = {}
    BY <1>1, <2>3 DEF Kept, LInv, IInv, ItemInv
  <2> QED
    BY <2>4, <2>5, <2>6
<1>6. CASE e.event # "start"
  <2>1. row.session # None
    BY <1>3, <1>6 DEF Accounted, SessionOrder
  <2>2. row.session = e.session /\ row'.session = row.session
    BY <1>2, <1>3, <1>6, <2>1
  <2>3. SessionOrder'
    BY <1>1, <1>2, <1>3, <1>6, <2>1, <2>2 DEF SessionOrder, Accounted, Mine
  <2>4. /\ Owed'
        /\ \A j \in ToolRows(items') :
             \/ \E i \in ToolRows(items) : i.id = j.id
             \/ e.event \in {"pre", "post"} /\ j.id = e.tool
    BY <1>2, <1>6, <2>2, AcceptedRowsOwed
  <2>5. ASSUME NEW d \in sent', Mine(d), d.event = "pre", NEW j \in ToolRows(items')
        PROVE  j.id # d.tool
    <3>1. d \in sent /\ d # e
      BY <1>1
    <3>2. \A i \in ToolRows(items) : i.id # d.tool
      BY <1>3, <2>5, <3>1 DEF Accounted, CallOrder
    <3>3. e.event = "pre" => e.tool # d.tool
      BY <2>5, <3>1, OneStart DEF LInv
    <3>4. e.event = "post" => e.tool # d.tool
      <4>1. d.tool # None
        BY <2>5, <3>1, NoneAssumption DEF LInv, IInv, SentInv, Here
      <4>2. Rank["pre"] < Rank["post"]
        BY DEF Rank
      <4> QED
        BY <2>5, <3>1, <4>1, <4>2 DEF Overtakes
    <3> QED
      BY <2>4, <3>2, <3>3, <3>4
  <2>6. CallOrder'
    BY <1>2, <1>4, <2>5 DEF CallOrder, Mine
  <2> QED
    BY <2>3, <2>4, <2>6 DEF Accounted
<1> QED
  BY <1>5, <1>6

LEMMA RecordAccounts == ASSUME NEW e \in sent PROVE LInv /\ RecordWorkerActivity(e) => LInv'
<1> SUFFICES ASSUME LInv, RecordWorkerActivity(e) PROVE LInv'
  OBVIOUS
<1>1. IInv'
  BY RecordKeeps DEF LInv
<1>2. /\ sent' = sent \ {e} /\ UNCHANGED <<claude, call>>
      /\ orderly' = (orderly /\ ~Overtakes(e))
      /\ ~Accepted(e) => UNCHANGED <<row, items>>
      /\ row'.run = row.run /\ row'.closed = row.closed
  BY DEF RecordWorkerActivity, LInv, IInv, Types, RunRow
<1>3. ProcessInv'
  BY <1>2 DEF LInv, ProcessInv, Mine
<1>4. ASSUME Live' PROVE Accounted'
  <2>1. Live /\ ~Overtakes(e)
    BY <1>2, <1>4 DEF Live, LInv, IInv, Types
  <2> QED
    BY <1>2, <2>1, RefusedAccounts, AcceptedAccounts
<1> QED
  BY <1>1, <1>3, <1>4 DEF LInv

LEMMA NextLInv == LInv /\ [Next]_vars => LInv'
<1> SUFFICES ASSUME LInv, [Next]_vars PROVE LInv'
  OBVIOUS
<1>1. CASE UNCHANGED vars
  <2>1. IInv'
    BY <1>1, NextIInv DEF LInv
  <2>2. ProcessInv' /\ (Live' => Live)
    BY <1>1 DEF vars, LInv, ProcessInv, Mine, Live
  <2>3. Accounted => Accounted'
    BY <1>1 DEF vars, Accounted, SessionOrder, CallOrder, Owed, Mine, Going, Posts, Open, Here,
       ToolRows, PendingTools, Parented, Orphans, Waiting
  <2> QED
    BY <2>1, <2>2, <2>3 DEF LInv
<1>2. CASE Next
  BY <1>2, BeginAccounts, EndAccounts, HookFailsAccounts, RecordAccounts, StartAccounts,
     StopTurnAccounts, CallStepAccounts DEF Next, Claude
<1> QED
  BY <1>1, <1>2

-----------------------------------------------------------------------------
(* The theorems.                                                            *)

\* The types, and the primary key of worker_activity_items.
THEOREM TypeCorrect == Spec => []TypeOK
<1>1. IInv => TypeOK
  BY DEF IInv, Types, CallRow, ItemInv, Table, TypeOK
<1> QED
  BY <1>1, SpecIInv, PTL

\* Nothing that a hook of an earlier run or conversation says is ever shown.
THEOREM ShownOfThisRun == Spec => []ShownIsOfThisRun
<1>1. IInv => ShownIsOfThisRun
  BY DEF IInv, ItemInv, Table, Here, ShownIsOfThisRun
<1> QED
  BY <1>1, SpecIInv, PTL

\* After the end of a turn nothing runs or waits, whichever hooks are still late.
THEOREM IdleIsIdle == Spec => []IdleShowsNothing
<1>1. IInv => IdleShowsNothing
  BY DEF IInv
<1> QED
  BY <1>1, SpecIInv, PTL

\* The slot resumes the conversation whose activity it shows.
THEOREM ResumesWhatIsShown == Spec => []ResumeIsShown
<1>1. IInv => ResumeIsShown
  BY DEF IInv
<1> QED
  BY <1>1, SpecIInv, PTL

\* No hook, however late, makes what has ended run or wait again.
THEOREM EndedStaysEnded == Spec => NoResurrection
<1> DEFINE Keeps == \A i \in items, j \in items' : SameKey(i, j) /\ i.finished => j.finished
<1>1. ASSUME IInv, IInv', [Next]_vars
      PROVE  [Keeps]_vars
  <2>1. CASE items' = items
    BY <1>1, <2>1 DEF IInv, ItemInv, Table
  <2>2. CASE items' = {}
    BY <2>2
  <2>3. ASSUME NEW e \in sent, RecordWorkerActivity(e) PROVE Keeps
    <3>1. CASE Accepted(e)
      <4>1. Grows(Kept(e), items') /\ Table(items', Here(row.run, e.session))
        BY <1>1, <2>3, <3>1, RecordedRows
      <4>2. CASE Kept(e) = items
        <5> SUFFICES ASSUME NEW i \in items, NEW j \in items', SameKey(i, j), i.finished
                     PROVE  j.finished
          OBVIOUS
        <5>1. PICK k \in items' : SameKey(i, k) /\ k.finished
          BY <4>1, <4>2 DEF Grows
        <5>2. SameKey(k, j)
          BY <5>1 DEF SameKey
        <5> QED
          BY <4>1, <5>1, <5>2 DEF Table
      <4>3. CASE row.session \notin {None, e.session}
        <5>1. e.event = "start" /\ items' = {}
          BY <2>3, <3>1, <4>3 DEF Accepted, RecordWorkerActivity
        <5> QED
          BY <5>1
      <4> QED
        BY <4>2, <4>3 DEF Kept
    <3>2. CASE ~Accepted(e)
      <4>1. items' = items
        BY <2>3, <3>2 DEF RecordWorkerActivity
      <4> QED
        BY <1>1, <4>1 DEF IInv, ItemInv, Table
    <3> QED
      BY <3>1, <3>2
  <2>4. CASE UNCHANGED vars
    BY <2>4 DEF vars
  <2>5. CASE BeginWorkerActivity \/ EndWorkerActivity
    BY <2>2, <2>5 DEF BeginWorkerActivity, EndWorkerActivity
  <2>6. CASE \E e \in sent : RecordWorkerActivity(e) \/ HookFails(e)
    BY <2>1, <2>3, <2>6 DEF HookFails
  <2>7. CASE Claude
    BY <2>1, <2>7 DEF Claude, Start, Stop, CallTool, Elicit, Answer, EndTool
  <2> HIDE DEF Keeps
  <2> QED
    BY <1>1, <2>4, <2>5, <2>6, <2>7 DEF Next
<1> QED
  BY <1>1, SpecIInv, PTL DEF Spec, NoResurrection

\* Once all calls of the conversation shown have ended and all hooks have recorded, in
\* the order of each call, nothing is shown as running or waiting: for any number of
\* parallel calls and requests, with or without an ID.
THEOREM NothingLeftWaiting == Spec => []Settled
<1>1. LInv => Settled
  <2> SUFFICES ASSUME LInv, orderly, sent = {}, ~row.closed,
                      \A t \in Tools : call[t].run = row.run /\ call[t].session = row.session
                                         => call[t].state = "ended"
               PROVE  \A i \in items : i.finished
    BY DEF Settled
  <2>1. \A t : ~Open(t)
    BY DEF Open, Posts, Here, Going
  <2>2. Owed
    BY DEF LInv, Live, Accounted
  <2>3. PendingTools(items) = {} /\ Orphans(items) = {}
    BY <2>1, <2>2 DEF Owed
  <2>4. Waiting(items) = {}
    BY <2>2, <2>3 DEF Owed, Parented, Orphans
  <2>5. \A i \in items : i.kind \in {"tool", "confirmation"}
    BY DEF LInv, IInv, ItemInv, Table, Item
  <2> QED
    BY <2>3, <2>4, <2>5 DEF PendingTools, ToolRows, Waiting
<1>2. Spec => []LInv
  BY InitLInv, NextLInv, PTL DEF Spec
<1> QED
  BY <1>1, <1>2, PTL

=============================================================================
