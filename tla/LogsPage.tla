------------------------------- MODULE LogsPage -------------------------------
(* The audit logs of the management console (src/web/src/App.jsx and       *)
(* src/web/src/components/LogsView.jsx): one page of the records at a      *)
(* time, cut by the server, filtered by time and by session; the page is   *)
(* fetched by the buttons, by an effect and every 8 seconds, and the       *)
(* answers come in any order.  The timer's handler sees the filters of the *)
(* render it was made in, and the offset through a reference.              *)
EXTENDS Integers, FiniteSets

CONSTANTS MaxLog,        \* records are numbered 1..MaxLog, a later one is higher
          Conversations, \* session ids
          NoFilter,
          SessionOf,     \* record -> session
          OldLogs,       \* the records the server holds when the page opens
          PageSize,      \* LOG_PAGE_SIZE
          MaxLogSteps

ASSUME LogsAssumption ==
    /\ MaxLog \in Nat /\ PageSize \in Nat \ {0}
    /\ NoFilter \notin Conversations
    /\ SessionOf \in [1..MaxLog -> Conversations]
    /\ OldLogs \subseteq 1..MaxLog

LogIds == 1..MaxLog
\* "all", or one of the windows that end now, here the last two records.
Ranges == {"all", "recent"}

VARIABLES
    serverLogs,
    logs,                \* the rows the page holds
    logOffset, logOffsetRef,
    timeRange, sessionFilter, logFilter,
    pollFilters,         \* the filters the timer's handler sees
    logLoading,
    selectedLogIds,
    activeLogDetail,     \* the record that is inspected
    logCalls,            \* requests sent and not yet handled
    logSteps             \* what the user did so far, bounded by MaxLogSteps

logFilters == <<timeRange, sessionFilter>>
logOffsets == <<logOffset, logOffsetRef>>
logVars == <<serverLogs, logs, logOffsets, logFilters, logFilter, pollFilters, logLoading,
             selectedLogIds, activeLogDetail, logCalls, logSteps>>

Filters(range, session) == [range |-> range, session |-> session]
LogQuery(offset, filters) ==
    [op |-> "logs", offset |-> offset, filters |-> filters, ids |-> {}, served |-> FALSE, ok |-> FALSE]
LogRequest(op, ids) ==
    [op |-> op, offset |-> 0, filters |-> Filters(timeRange, sessionFilter), ids |-> ids,
     served |-> FALSE, ok |-> FALSE]

\* What the server returns for a query: newest first.
MatchingLogs(filters) ==
    {i \in serverLogs : /\ filters.range = "recent" => i > MaxLog - 2
                        /\ filters.session \in {NoFilter, SessionOf[i]}}
LogPage(offset, filters) ==
    LET matching == MatchingLogs(filters)
        before(i) == Cardinality({j \in matching : j > i})
    IN  {i \in matching : offset <= before(i) /\ before(i) < offset + PageSize}

\* The page that is viewed not recorded.
fetchLogsUnrecorded(offset, filters) ==
    /\ logOffsetRef' = offset /\ UNCHANGED logOffset
    /\ logLoading' = TRUE
    /\ logCalls' = logCalls \cup {LogQuery(offset, filters)}

\* fetchLogs: the offset is the one given, or the first page when a filter is
\* given, or the page being viewed.
fetchLogs(offset, filters) ==
    /\ logOffsetRef' = offset /\ logOffset' = offset
    /\ logLoading' = TRUE
    /\ logCalls' = logCalls \cup {LogQuery(offset, filters)}

LogsInit ==
    /\ serverLogs = OldLogs
    /\ logs = {}
    /\ logOffset = 0 /\ logOffsetRef = 0
    /\ timeRange = "all" /\ sessionFilter = NoFilter /\ logFilter = NoFilter
    /\ pollFilters = Filters("all", NoFilter)
    /\ logLoading = TRUE
    /\ selectedLogIds = {}
    /\ activeLogDetail = 0
    /\ logCalls = {LogQuery(0, Filters("all", NoFilter))}
    /\ logSteps = 0

-----------------------------------------------------------------------------
(* The server.                                                             *)

\* The gateway writes a record.
RecordWritten ==
    /\ serverLogs # LogIds
    /\ \E i \in LogIds \ serverLogs : (\A j \in serverLogs : j < i) /\ serverLogs' = serverLogs \cup {i}
    /\ UNCHANGED <<logs, logOffsets, logFilters, logFilter, pollFilters, logLoading, selectedLogIds,
                   activeLogDetail, logCalls>>

LogAnswer(c, ok) ==
    /\ c \in logCalls /\ ~c.served
    /\ serverLogs' = IF ~ok \/ c.op = "logs" THEN serverLogs
                     ELSE IF c.op = "clear" THEN {} ELSE serverLogs \ c.ids
    /\ logCalls' = (logCalls \ {c})
            \cup {[c EXCEPT !.served = TRUE, !.ok = ok,
                            !.ids = IF c.op = "logs" THEN LogPage(c.offset, c.filters) ELSE @]}
    /\ UNCHANGED <<logs, logOffsets, logFilters, logFilter, pollFilters, logLoading, selectedLogIds,
                   activeLogDetail, logSteps>>

LogsServed == \E c \in logCalls : LogAnswer(c, TRUE)
LogsFail == \E c \in logCalls : LogAnswer(c, FALSE)

\* The end of fetchLogs, in whatever order: there is no check that the answer
\* is the one awaited.
LogRows(c) ==
    /\ c \in logCalls /\ c.served /\ c.op = "logs"
    /\ logs' = IF c.ok THEN c.ids ELSE logs
    /\ logLoading' = FALSE
    /\ logCalls' = logCalls \ {c}
    /\ UNCHANGED <<serverLogs, logOffsets, logFilters, logFilter, pollFilters, selectedLogIds,
                   activeLogDetail, logSteps>>

LogsArrive == \E c \in logCalls : LogRows(c)
GoodLogsArrive == \E c \in logCalls : c.ok /\ LogRows(c)

\* The ends of handleBatchDeleteLogs, handleClearLogs and handleDeleteSingleLog:
\* the ticks go, those of the one record only in the last case.  The rows are
\* fetched anew with the filters of the render the button was pressed in.
LogsDeleted ==
    \E c \in logCalls :
        /\ c.served /\ c.op # "logs"
        /\ selectedLogIds' = IF ~c.ok THEN selectedLogIds
                             ELSE IF c.op = "delete" THEN selectedLogIds \ c.ids ELSE {}
        /\ IF c.ok THEN /\ logLoading' = TRUE
                        /\ logCalls' = (logCalls \ {c}) \cup {LogQuery(logOffsetRef, c.filters)}
                   ELSE logCalls' = logCalls \ {c} /\ UNCHANGED logLoading
        /\ UNCHANGED <<serverLogs, logs, logOffsets, logFilters, logFilter, pollFilters,
                       activeLogDetail, logSteps>>

\* The timer's handler with the offset of the render it was made in.
PollLogsOfTheRender ==
    /\ fetchLogs(0, pollFilters)
    /\ UNCHANGED <<serverLogs, logs, logFilters, logFilter, pollFilters, selectedLogIds,
                   activeLogDetail, logSteps>>

\* Every 8 seconds: fetchLogs() of the render the timer was set in.
PollLogs ==
    /\ fetchLogs(logOffsetRef, pollFilters)
    /\ UNCHANGED <<serverLogs, logs, logFilters, logFilter, pollFilters, selectedLogIds,
                   activeLogDetail, logSteps>>

-----------------------------------------------------------------------------
(* The page.                                                               *)

LogsInReach == activeLogDetail = 0

\* Disabled while rows are awaited.
RefreshLogs ==
    /\ LogsInReach /\ ~logLoading
    /\ fetchLogs(logOffsetRef, Filters(timeRange, sessionFilter))
    /\ UNCHANGED <<serverLogs, logs, logFilters, logFilter, pollFilters, selectedLogIds, activeLogDetail>>

\* A new filter starts on the first page: the button's own fetchLogs and the
\* effect ask for the same.
SetFilters(range, session) ==
    /\ timeRange' = range /\ sessionFilter' = session
    /\ fetchLogs(0, Filters(range, session))
    /\ UNCHANGED <<serverLogs, logs, logFilter, pollFilters, selectedLogIds>>

SetTimeRange ==
    /\ LogsInReach
    /\ \E range \in Ranges : SetFilters(range, sessionFilter)
    /\ UNCHANGED activeLogDetail

ClearSessionFilter ==
    /\ LogsInReach /\ sessionFilter # NoFilter
    /\ SetFilters(timeRange, NoFilter)
    /\ UNCHANGED activeLogDetail

filteredLogs == {i \in logs : logFilter \in {NoFilter, SessionOf[i]}}

\* The search button of a row; the record's dialog has one too, and closes;
\* by then the row may be gone.
LogsOffered == IF LogsInReach THEN filteredLogs ELSE {activeLogDetail}

FilterBySession ==
    \E i \in LogsOffered :
        /\ SetFilters(timeRange, SessionOf[i])
        /\ activeLogDetail' = 0

\* The search field looks through the rows the page holds.
SearchRows ==
    /\ LogsInReach
    /\ logFilter' \in {NoFilter} \cup Conversations
    /\ UNCHANGED <<serverLogs, logs, logOffsets, logFilters, pollFilters, logLoading, selectedLogIds,
                   activeLogDetail, logCalls>>

\* The buttons "previous" and "next"; an offset below zero is ignored.
PagesOffered ==
    IF logLoading THEN {}
    ELSE (IF logOffset > 0 THEN {logOffset - PageSize} ELSE {})
            \cup (IF Cardinality(logs) >= PageSize THEN {logOffset + PageSize} ELSE {})

\* The buttons left enabled and the offset not checked.
handleLogPageChangeUnchecked ==
    \E newOffset \in {logOffset - PageSize, logOffset + PageSize} :
        /\ LogsInReach /\ ~logLoading
        /\ fetchLogs(newOffset, Filters(timeRange, sessionFilter))
        /\ UNCHANGED <<serverLogs, logs, logFilters, logFilter, pollFilters, selectedLogIds, activeLogDetail>>

handleLogPageChange ==
    \E newOffset \in PagesOffered :
        /\ LogsInReach
        /\ newOffset >= 0
        /\ fetchLogs(newOffset, Filters(timeRange, sessionFilter))
        /\ UNCHANGED <<serverLogs, logs, logFilters, logFilter, pollFilters, selectedLogIds, activeLogDetail>>

Ticked(ids) ==
    /\ LogsInReach
    /\ selectedLogIds' = ids
    /\ UNCHANGED <<serverLogs, logs, logOffsets, logFilters, logFilter, pollFilters, logLoading,
                   activeLogDetail, logCalls>>

\* The box in the head, and "cancel the selection".
TickAllLogs == \E ids \in {filteredLogs, {}} : Ticked(ids)

TickLog ==
    \E i \in filteredLogs :
        Ticked(IF i \in selectedLogIds THEN selectedLogIds \ {i} ELSE selectedLogIds \cup {i})

AskToDelete(c) ==
    /\ logCalls' = logCalls \cup {c}
    /\ UNCHANGED <<serverLogs, logs, logOffsets, logFilters, logFilter, pollFilters, logLoading, selectedLogIds>>

\* The bar is there when records are ticked, those of other pages included.
handleBatchDeleteLogs ==
    /\ LogsInReach /\ selectedLogIds # {}
    /\ AskToDelete(LogRequest("batch", selectedLogIds))
    /\ UNCHANGED activeLogDetail

handleClearLogs ==
    /\ LogsInReach
    /\ AskToDelete(LogRequest("clear", {}))
    /\ UNCHANGED activeLogDetail

\* The button of a row; the one of the record's dialog closes it.
handleDeleteSingleLog ==
    \E i \in LogsOffered :
        /\ AskToDelete(LogRequest("delete", {i}))
        /\ activeLogDetail' = 0

InspectLog ==
    /\ activeLogDetail' \in IF LogsInReach THEN filteredLogs ELSE {0}
    /\ UNCHANGED <<serverLogs, logs, logOffsets, logFilters, logFilter, pollFilters, logLoading,
                   selectedLogIds, logCalls>>

LogGesture ==
    \/ RecordWritten
    \/ RefreshLogs \/ SetTimeRange \/ ClearSessionFilter \/ FilterBySession \/ SearchRows
    \/ handleLogPageChange \/ TickAllLogs \/ TickLog
    \/ handleBatchDeleteLogs \/ handleClearLogs \/ handleDeleteSingleLog \/ InspectLog

LogsNext ==
    \/ LogsServed \/ LogsFail \/ LogsArrive \/ LogsDeleted \/ PollLogs
    \/ /\ logSteps < MaxLogSteps
       /\ logSteps' = logSteps + 1
       /\ LogGesture

LogsSpec == LogsInit /\ [][LogsNext]_logVars

-----------------------------------------------------------------------------
LogsTypeOK ==
    /\ serverLogs \subseteq LogIds /\ logs \subseteq LogIds /\ selectedLogIds \subseteq LogIds
    /\ {logOffset, logOffsetRef} \subseteq Nat
    /\ timeRange \in Ranges /\ {sessionFilter, logFilter} \subseteq Conversations \cup {NoFilter}
    /\ pollFilters \in [range : Ranges, session : Conversations \cup {NoFilter}]
    /\ logLoading \in BOOLEAN
    /\ activeLogDetail \in LogIds \cup {0}
    /\ \A c \in logCalls : c.ids \subseteq LogIds /\ c.offset \in Nat

\* The user turns the pages and nobody else does: neither the timer, whose
\* handler was made when another page was viewed, nor an answer, nor the fetch
\* after a deletion takes the view to another page.
OnlyTheUserTurnsPages == [][logSteps' = logSteps => logOffset' = logOffset]_logVars
=============================================================================
