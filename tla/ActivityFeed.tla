---------------------------- MODULE ActivityFeed ----------------------------
(***************************************************************************)
(* The activity log (activity.record_activity) written by several          *)
(* processes and threads, and the event stream of the page                 *)
(* (live_server_mysql._activity_events, the script in                      *)
(* activity.render_ingress_tables).                                        *)
(*                                                                         *)
(* A writer reads the clock, MySQL gives its row the next id, and the row  *)
(* is there for others when the transaction is committed: the order of     *)
(* ids, of seconds and of commits are three.  Rows are their ids.          *)
(* PageSize stands for the LIMIT 100 of the page, of the stream's query,   *)
(* and of the rows the script keeps.                                       *)
(***************************************************************************)
EXTENDS Integers, Sequences, FiniteSets, FiniteSetsExt, Functions

CONSTANTS
    Writers,        \* processes and threads that write to the log
    MaxRows,        \* bound: rows inserted
    MaxTime,        \* bound: seconds
    PageSize,       \* LIMIT
    MaxDrops        \* bound: broken connections and clearings of the log

ASSUME FeedAssumption ==
    MaxRows \in Nat /\ MaxTime \in Nat /\ PageSize \in Nat \ {0} /\ MaxDrops \in Nat

VARIABLES
    clock,        \* seconds
    read,         \* by writer: the second it has read for the next row, or -1
    lastId,       \* AUTO_INCREMENT
    createdAt,    \* by id: created_at
    open,         \* by writer: the row inserted and not yet committed, or 0
    rows,         \* activity_log
    stream,       \* on: a request to /events, last_id, the rows it has read
    page,         \* the browser: its table, from the top
    after,        \* the browser: the largest id when the page was loaded, -1 before
    lastEvent,    \* the browser: Last-Event-ID
    drops,        \* bound: drops so far
    shown,        \* history: rows that were on the page
    passed        \* history: rows committed after the stream was past their id,
                  \* left out of a full page, or cleared

log == <<clock, read, lastId, createdAt, open, rows>>
browser == <<page, after, lastEvent>>
feedVars == <<log, stream, browser, drops, shown, passed>>

FeedTypeOK ==
    /\ clock \in 0..MaxTime /\ read \in [Writers -> -1..MaxTime]
    /\ createdAt \in [1..lastId -> 0..MaxTime]
    /\ lastId \in 0..MaxRows /\ open \in [Writers -> 0..MaxRows] /\ rows \subseteq 1..MaxRows
    /\ stream.on \in BOOLEAN /\ stream.last \in 0..MaxRows /\ stream.batch \in Seq(1..MaxRows)
    /\ page \in Seq(1..MaxRows) /\ Len(page) <= PageSize
    /\ after \in -1..MaxRows /\ lastEvent \in 0..MaxRows /\ drops \in 0..MaxDrops

NoStream == [on |-> FALSE, last |-> 0, batch |-> <<>>]

FeedInit ==
    /\ clock = 0 /\ read = [w \in Writers |-> -1] /\ createdAt = <<>>
    /\ lastId = 0 /\ open = [w \in Writers |-> 0] /\ rows = {}
    /\ stream = NoStream /\ page = <<>> /\ after = -1 /\ lastEvent = 0
    /\ drops = 0 /\ shown = {} /\ passed = {}

-----------------------------------------------------------------------------
(* record_activity *)

Tick ==
    /\ clock < MaxTime /\ clock' = clock + 1
    /\ UNCHANGED <<read, lastId, createdAt, open, rows, stream, browser, drops, shown, passed>>

ReadClock(w) ==
    /\ read[w] = -1 /\ open[w] = 0
    /\ read' = [read EXCEPT ![w] = clock]
    /\ UNCHANGED <<clock, lastId, createdAt, open, rows, stream, browser, drops, shown, passed>>

Insert(w) ==
    /\ read[w] # -1 /\ lastId < MaxRows
    /\ lastId' = lastId + 1 /\ open' = [open EXCEPT ![w] = lastId + 1]
    /\ createdAt' = Append(createdAt, read[w]) /\ read' = [read EXCEPT ![w] = -1]
    /\ UNCHANGED <<clock, rows, stream, browser, drops, shown, passed>>

\* Where the stream, or the request that will open it again, goes on.
Cursor == IF stream.on THEN stream.last ELSE Max({after, lastEvent})
Behind(i) == i <= Max({Cursor} \cup Range(stream.batch))

Commit(w) ==
    /\ open[w] # 0
    /\ rows' = rows \cup {open[w]} /\ open' = [open EXCEPT ![w] = 0]
    /\ passed' = IF Behind(open[w]) THEN passed \cup {open[w]} ELSE passed
    /\ UNCHANGED <<clock, read, lastId, createdAt, stream, browser, drops, shown>>

\* The transaction fails; the id is not given again.
Rollback(w) ==
    /\ open[w] # 0
    /\ open' = [open EXCEPT ![w] = 0]
    /\ UNCHANGED <<clock, read, lastId, createdAt, rows, stream, browser, drops, shown, passed>>

-----------------------------------------------------------------------------
(* The page and its stream *)

\* ORDER BY .. LIMIT: the first rows of S in an order (a set of one sequence).
FirstOf(S, Before(_, _)) ==
    {p \in [1..Min({PageSize, Cardinality(S)}) -> S] :
        /\ \A i, j \in DOMAIN p : i < j => Before(p[i], p[j])
        /\ \A i \in DOMAIN p, r \in S \ Range(p) : Before(p[i], r)}

NewerRow(i, j) == createdAt[i] > createdAt[j] \/ (createdAt[i] = createdAt[j] /\ i > j)

\* ORDER BY created_at DESC, id DESC LIMIT
Newest == FirstOf(rows, NewerRow)

\* render_ingress_tables; the script takes the largest id (otaActivityLastId) and opens
\* the stream from there.
LoadPage ==
    /\ after = -1
    /\ page' \in Newest /\ after' = Max({0} \cup Range(page'))
    /\ shown' = Range(page')
    /\ passed' = {i \in rows : i < after'} \ Range(page')
    /\ stream' = [on |-> TRUE, last |-> after', batch |-> <<>>]
    /\ UNCHANGED <<log, lastEvent, drops>>

Following == {i \in rows : i > stream.last}

\* Mutant: in the order of the page.
ReadsNewest == FirstOf(Following, NewerRow)

\* WHERE id > last ORDER BY id LIMIT
Reads == FirstOf(Following, <)

Poll ==
    /\ stream.on /\ stream.batch = <<>>
    /\ Following # {}
    /\ \E p \in Reads : stream' = [stream EXCEPT !.batch = p]
    /\ UNCHANGED <<log, browser, drops, shown, passed>>

\* otaInsertActivity
Inserted(i) ==
    IF i \in Range(page) THEN page
    ELSE SubSeq(<<i>> \o page, 1, Min({PageSize, Len(page) + 1}))

SendRow ==
    /\ stream.on /\ stream.batch # <<>>
    /\ LET i == Head(stream.batch) IN
       /\ page' = Inserted(i) /\ lastEvent' = i /\ shown' = shown \cup {i}
       /\ stream' = [stream EXCEPT !.last = i, !.batch = Tail(@)]
    /\ UNCHANGED <<log, after, drops, passed>>

\* The connection breaks, or the server ends.
Drop ==
    /\ stream.on /\ drops < MaxDrops
    /\ drops' = drops + 1 /\ stream' = NoStream
    /\ UNCHANGED <<log, browser, shown, passed>>

\* Mutant: the address of the page says from where.
ResumesAfter == after

\* Last-Event-ID comes on top of the `after' of the address.
Resumes == Max({after, lastEvent})

\* EventSource connects again by itself, to the same address.
Reconnect ==
    /\ ~stream.on /\ after # -1
    /\ stream' = [on |-> TRUE, last |-> Resumes, batch |-> <<>>]
    /\ UNCHANGED <<log, browser, drops, shown, passed>>

\* clear_maintenance_target('activity'); ids go on from where they were.
ClearLog ==
    /\ rows # {} /\ drops < MaxDrops
    /\ drops' = drops + 1 /\ rows' = {}
    /\ passed' = passed \cup rows
    /\ UNCHANGED <<clock, read, lastId, createdAt, open, stream, browser, shown>>

StreamStep == LoadPage \/ Poll \/ SendRow \/ Reconnect

FeedNext ==
    \/ Tick
    \/ \E w \in Writers : ReadClock(w) \/ Insert(w) \/ Commit(w) \/ Rollback(w)
    \/ StreamStep \/ Drop \/ ClearLog


-----------------------------------------------------------------------------
(* Properties *)

\* A row that has left the page for newer ones does not come back on top of them, through
\* broken connections and clearings of the log (live_server_mysql.py:41, activity.py:236).
NoRowReturns == [][Range(page') \cap shown \subseteq Range(page)]_feedVars

\* Every row comes onto the page in the end, unless the stream was past its id when it
\* was committed, the page was full, or it was cleared (live_server_mysql.py:57).
RowsShown == \A i \in 1..MaxRows : i \in rows ~> i \in shown \cup passed
=============================================================================
