----------------------------- MODULE AutoOpener -----------------------------
(***************************************************************************)
(* The per-connection traces of mcp/session_autoopen.py: every tool call   *)
(* makes sure its connection has an open trace, and the end of a           *)
(* connection closes it.  Calls and closes are asyncio tasks; a step is    *)
(* what runs between two awaits, and each awaited database statement is a  *)
(* step of its own, so that a close may fall between a trace being written *)
(* and the call that wrote it learning so.                                 *)
(*                                                                         *)
(* A trace is its number among the traces of its connection; 0 is none.    *)
(***************************************************************************)
EXTENDS Integers, FiniteSets

CONSTANTS
    Conns,          \* MCP connections
    Calls,          \* tool calls in flight at once, and closes
    MaxConns,       \* max_connections: memoized, and remembered as terminated
    MaxTraces,      \* bound on the traces of one connection
    MaxErrors       \* bound on failing statements

ASSUME TraceAssumption == MaxConns \in Nat /\ MaxTraces \in Nat /\ MaxErrors \in Nat

VARIABLES
    open,           \* [Conns -> the open trace in the database, or 0]
    last,           \* [Conns -> number of traces opened so far]
    memo,           \* [Conns -> memoized trace, or 0]
    terminated,     \* [connections remembered as ended -> those ended before]
    call,           \* [Calls -> task]
    gone,           \* connections whose transport ended
    unclosed,       \* connections the opener left to the trace net
    errors

traceVars == <<open, last, memo, terminated, call, gone, unclosed, errors>>

Idle == [at |-> "idle", c |-> "none", id |-> 0]

\* Tables, memory and tasks keep their shapes.
TraceTypeOK ==
    /\ open \in [Conns -> 0 .. MaxTraces] /\ last \in [Conns -> 0 .. MaxTraces]
    /\ memo \in [Conns -> 0 .. MaxTraces]
    /\ DOMAIN terminated \subseteq Conns /\ terminated \in [DOMAIN terminated -> SUBSET Conns]
    /\ call \in [Calls -> [at : {"idle", "arrived", "observe", "observed", "refused", "open",
                                 "opened", "close", "end"},
                           c : Conns \cup {"none"}, id : 0 .. MaxTraces]]
    /\ gone \subseteq Conns /\ unclosed \subseteq Conns
    /\ errors \in 0 .. MaxErrors

TraceInit ==
    /\ open = [c \in Conns |-> 0] /\ last = [c \in Conns |-> 0] /\ memo = [c \in Conns |-> 0]
    /\ terminated = [c \in {} |-> {}]
    /\ call = [p \in Calls |-> Idle]
    /\ gone = {} /\ unclosed = {} /\ errors = 0

\* ensure_open's own count: neither a call the middleware has not brought
\* there yet nor the transport's own close is in it.
InFlight(c) == \E p \in Calls : call[p].c = c /\ call[p].at \notin {"idle", "arrived", "end"}

Proceed(p, at) == call' = [call EXCEPT ![p].at = at]
Return(p) == call' = [call EXCEPT ![p] = Idle]

Fails == errors < MaxErrors /\ errors' = errors + 1

(***************************************************************************)
(* ensure_open                                                             *)
(***************************************************************************)
\* A transport that ended accepts no new call.
CallArrives(p, c) ==
    /\ call[p] = Idle /\ c \notin gone
    /\ call' = [call EXCEPT ![p] = [at |-> "arrived", c |-> c, id |-> 0]]
    /\ UNCHANGED <<open, last, memo, terminated, gone, unclosed, errors>>

\* A call of a connection remembered as ended opens nothing; one that
\* arrived before the end and enters after it was forgotten does.
EnsureOpen(p) ==
    /\ call[p].at = "arrived"
    /\ LET c == call[p].c IN
       /\ call' = [call EXCEPT ![p] = IF c \in DOMAIN terminated THEN Idle
                                      ELSE IF memo[c] # 0 THEN [at |-> "observe", c |-> c, id |-> memo[c]]
                                      ELSE [at |-> "open", c |-> c, id |-> 0]]
       /\ unclosed' = unclosed \cup ({c} \cap (gone \ DOMAIN terminated))
    /\ UNCHANGED <<open, last, memo, terminated, gone, errors>>

\* The observation finds the memoized trace open, or not, or fails.
ObserveRuns(p) ==
    /\ call[p].at = "observe"
    /\ \/ Proceed(p, IF open[call[p].c] = call[p].id THEN "observed" ELSE "refused") /\ UNCHANGED errors
       \/ Proceed(p, "observed") /\ Fails
    /\ UNCHANGED <<open, last, memo, terminated, gone, unclosed>>

\* Anything but a plain FALSE keeps the memo.
ObserveReturns(p) ==
    /\ \/ call[p].at = "observed" /\ Return(p) /\ UNCHANGED memo
       \/ call[p].at = "refused" /\ Proceed(p, "open") /\ memo' = [memo EXCEPT ![call[p].c] = 0]
    /\ UNCHANGED <<open, last, terminated, gone, unclosed, errors>>

\* ON CONFLICT finds the open trace of the connection.
OpenRuns(p) ==
    /\ call[p].at = "open"
    /\ LET c == call[p].c
           id == IF open[c] # 0 THEN open[c] ELSE last[c] + 1
       IN  \/ /\ id <= MaxTraces
              /\ open' = [open EXCEPT ![c] = id]
              /\ last' = [last EXCEPT ![c] = IF id > @ THEN id ELSE @]
              /\ call' = [call EXCEPT ![p].at = "opened", ![p].id = id]
              /\ UNCHANGED errors
           \/ Fails /\ Return(p) /\ UNCHANGED <<open, last>>
    /\ UNCHANGED <<memo, terminated, gone, unclosed>>

Memoized == {c \in Conns : memo[c] # 0}

\* The least recently used entries beyond MaxConns are dropped; any other than
\* the new one may be the oldest.
Remember(c, id) ==
    \E drop \in SUBSET (Memoized \ {c}) :
        /\ Cardinality((Memoized \cup {c}) \ drop) = IF Cardinality(Memoized \cup {c}) > MaxConns THEN MaxConns
                                                     ELSE Cardinality(Memoized \cup {c})
        /\ memo' = [x \in Conns |-> IF x = c THEN id ELSE IF x \in drop THEN 0 ELSE memo[x]]

ForgetOldest(ended) ==
    LET excess == Cardinality(DOMAIN ended) - MaxConns
        kept == {c \in DOMAIN ended : Cardinality(ended[c]) >= excess}
    IN  [c \in kept |-> ended[c] \cap kept]

\* _forget_old_terminations: of ended, the oldest that no call is still using.
ForgetOld(ended) ==
    LET idle == {c \in DOMAIN ended : ~InFlight(c)}
        excess == Cardinality(DOMAIN ended) - MaxConns
        kept == {c \in DOMAIN ended : InFlight(c) \/ Cardinality(ended[c] \cap idle) >= excess}
    IN  [c \in kept |-> ended[c] \cap kept]

\* The connection ended last, whatever was remembered of it.
EndedLast(c) ==
    [x \in DOMAIN terminated \cup {c} |-> (IF x = c THEN DOMAIN terminated ELSE terminated[x]) \ {c}]

Terminate(c) ==
    /\ terminated' = ForgetOld(EndedLast(c))
    /\ memo' = [memo EXCEPT ![c] = 0]

OpenReturnsAlways(p) ==
    /\ call[p].at = "opened"
    /\ Remember(call[p].c, call[p].id) /\ Return(p) /\ UNCHANGED terminated
    /\ UNCHANGED <<open, last, gone, unclosed, errors>>

\* A close that ran meanwhile could not see this trace: close it here.
OpenReturns(p) ==
    /\ call[p].at = "opened"
    /\ IF call[p].c \in DOMAIN terminated
       THEN Terminate(call[p].c) /\ Proceed(p, "close")
       ELSE Remember(call[p].c, call[p].id) /\ Return(p) /\ UNCHANGED terminated
    /\ UNCHANGED <<open, last, gone, unclosed, errors>>

(***************************************************************************)
(* close                                                                   *)
(***************************************************************************)
ConnectionEnds(p, c) ==
    /\ call[p] = Idle /\ c \notin gone
    /\ gone' = gone \cup {c}
    /\ Terminate(c)
    /\ call' = [call EXCEPT ![p] = [at |-> "end", c |-> c, id |-> 0]]
    /\ UNCHANGED <<open, last, unclosed, errors>>

CloseRuns(p) ==
    /\ call[p].at \in {"close", "end"}
    /\ LET c == call[p].c IN
       \/ open' = [open EXCEPT ![c] = 0] /\ UNCHANGED <<unclosed, errors>>
       \/ Fails /\ unclosed' = unclosed \cup {c} /\ UNCHANGED open
    /\ Return(p)
    /\ UNCHANGED <<last, memo, terminated, gone>>

NetClosesLive(c) ==
    /\ open[c] # 0 /\ ~InFlight(c) /\ c \notin gone
    /\ open' = [open EXCEPT ![c] = 0]
    /\ UNCHANGED <<last, memo, terminated, call, gone, unclosed, errors>>

\* The trace net closes a trace no call has observed for four hours.
NetCloses(c) ==
    /\ open[c] # 0 /\ ~InFlight(c)
    /\ open' = [open EXCEPT ![c] = 0]
    /\ UNCHANGED <<last, memo, terminated, call, gone, unclosed, errors>>

Runs(p) == EnsureOpen(p) \/ ObserveRuns(p) \/ ObserveReturns(p) \/ OpenRuns(p) \/ OpenReturns(p) \/ CloseRuns(p)

TraceNext ==
    \/ \E p \in Calls : \/ EnsureOpen(p) \/ ObserveRuns(p) \/ ObserveReturns(p) \/ OpenRuns(p) \/ OpenReturns(p)
                        \/ CloseRuns(p)
                        \/ \E c \in Conns : CallArrives(p, c) \/ ConnectionEnds(p, c)
    \/ \E c \in Conns : NetCloses(c)

TraceSpec == TraceInit /\ [][TraceNext]_traceVars

(***************************************************************************)
(* Properties                                                              *)
(***************************************************************************)
\* A connection that ended leaves no trace behind once its calls are over:
\* a call still opening when the close ran closes what it opened.  Left to
\* the trace net are a closing statement that failed and a call that had
\* not entered ensure_open when the end of its connection was forgotten.
NoOrphanTrace ==
    \A c \in gone \ unclosed :
        (\A p \in Calls : call[p].c # c) => open[c] = 0

\* The bounded memory of open traces never serves a connection that ended:
\* close() forgets it, and a call whose insert was awaited meanwhile may not
\* bring it back, where it would take the room of a live connection and
\* nothing would ever forget it.  Only a call that enters ensure_open after the
\* end was forgotten can.
MemoIsLive ==
    /\ Cardinality(Memoized) <= MaxConns
    /\ Memoized \cap gone \subseteq unclosed

\* An ended connection's trace is closed for good in the end, by the trace
\* net if the opener could not.
EndedTraceCloses == \A c \in Conns : (c \in gone) ~> [](open[c] = 0)
=============================================================================
