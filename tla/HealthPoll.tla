----------------------------- MODULE HealthPoll -----------------------------
(***************************************************************************)
(* The operations side of the browser (App.tsx): App fetches the symbols   *)
(* and mounts Dashboard, which asks GET /api/health (routes_rest.py) every *)
(* HEALTH_POLL_MS, whether or not the last poll was answered, and shows the*)
(* rows of pipeline_status in HealthPanel, with one warning line that it   *)
(* shares with the initial load (Dashboard).                               *)
(*                                                                         *)
(* One symbol.  The answers carry, besides what the panel shows, the number*)
(* of the row's version that they were read from.                          *)
(***************************************************************************)
EXTENDS Integers, Sequences, FiniteSets

CONSTANTS
  STALE_THRESHOLD_SECONDS,
  MaxClock,      \* bound: the server's clock
  MaxVersion,    \* bound: writes to the row
  MaxOutages,    \* bound: times that the server stops answering
  MaxRequests    \* bound: polls under way at a time

ASSUME HealthAssumption ==
  /\ STALE_THRESHOLD_SECONDS \in Nat /\ MaxClock \in Nat
  /\ MaxVersion \in Nat /\ MaxOutages \in Nat
  /\ MaxRequests \in Nat \ {0}

Requests == 1..MaxRequests
None == -1                     \* a NULL timestamp

VARIABLES
  \* the server
  clock,
  version,        \* writes to the symbol's row so far, 0 when there is none
  ws_connected, last_trade_at,
  up,             \* the server answers
  outages,        \* history
  \* the browser
  page,           \* "loading", "mounted" or "left"
  load,           \* the initial load is under way
  polls,          \* per request, how it stands and the rows that it carries
  health,         \* the rows that the panel shows
  warning,        \* "none", "load" or "poll"
  shown           \* history: per poll under way, the version of the row that the
                  \*   panel showed when it was sent

row    == <<version, ws_connected, last_trade_at>>
server == <<clock, row, up, outages>>
view   == <<health, warning>>
vars   == <<server, page, load, polls, view, shown>>

Idle == [state |-> "idle", rows |-> <<>>]

\* Of the row in an answer, 0 if there is none.
Version(rows) == IF rows = <<>> THEN 0 ELSE rows[1].version

Init ==
  /\ clock = 0 /\ version = 0 /\ ws_connected = FALSE /\ last_trade_at = None
  /\ up \in BOOLEAN /\ outages = 0
  /\ page = "loading" /\ load = FALSE /\ shown = [i \in Requests |-> 0]
  /\ polls = [i \in Requests |-> Idle]
  /\ health = <<>> /\ warning = "none"

-----------------------------------------------------------------------------
(* The server. *)

Tick ==
  /\ clock < MaxClock
  /\ clock' = clock + 1
  /\ UNCHANGED <<row, up, outages, page, load, polls, view, shown>>

\* The pipeline writes the row: the connection, or the time of the last trade.
WriteRow ==
  /\ up
  /\ version < MaxVersion
  /\ version' = version + 1
  /\ \/ ws_connected' \in BOOLEAN /\ UNCHANGED last_trade_at
     \/ last_trade_at' = clock /\ UNCHANGED ws_connected
  /\ UNCHANGED <<clock, up, outages, page, load, polls, view, shown>>

ServerDown ==
  /\ up /\ outages < MaxOutages
  /\ up' = FALSE
  /\ outages' = outages + 1
  /\ UNCHANGED <<clock, row, page, load, polls, view, shown>>

ServerUp ==
  /\ ~up
  /\ up' = TRUE
  /\ UNCHANGED <<clock, row, outages, page, load, polls, view, shown>>

Stale ==
  \/ ~ws_connected
  \/ last_trade_at = None
  \/ clock - last_trade_at > STALE_THRESHOLD_SECONDS

\* Mutant: ensure_pipeline_status_row without ON CONFLICT, a row for each write.
GetHealthPerWrite ==
  [i \in 1..version |-> [version |-> i, ws_connected |-> ws_connected, stale |-> Stale]]

\* What get_health answers now.
GetHealth ==
  IF version = 0 THEN <<>>
  ELSE <<[version |-> version, ws_connected |-> ws_connected, stale |-> Stale]>>

-----------------------------------------------------------------------------
(* App: the symbols. *)

\* fetchConfig answers or fails: the configured symbols or the fallback ones.
\* Dashboard is mounted and its effects send the load and the first poll.
Mount ==
  /\ page = "loading"
  /\ page' = "mounted"
  /\ load' = TRUE
  /\ polls' = [polls EXCEPT ![1].state = "asked"]
  /\ shown' = [shown EXCEPT ![1] = Version(health)]
  /\ UNCHANGED <<server, view>>

Unmount ==
  /\ page = "mounted"
  /\ page' = "left"
  /\ UNCHANGED <<server, load, polls, view, shown>>

\* The load ends, well or with a warning; see Dashboard.
LoadEnds ==
  /\ load
  /\ load' = FALSE
  /\ warning' \in IF page = "mounted" THEN {warning, "load"} ELSE {warning}
  /\ UNCHANGED <<server, page, polls, health, shown>>

-----------------------------------------------------------------------------
(* Dashboard: the polls. *)

UnderWay == {i \in Requests : polls[i].state # "idle"}

\* Mutant: the interval is cleared by a failed poll.
UntilFailure == page = "mounted" /\ warning = "none"

\* The interval is cleared by the effect's cleanup.
Interval == page = "mounted"

\* setInterval(poll, HEALTH_POLL_MS).
Poll ==
  /\ Interval
  /\ \E i \in Requests \ UnderWay :
       /\ polls' = [polls EXCEPT ![i].state = "asked"]
       /\ shown' = [shown EXCEPT ![i] = Version(health)]
  /\ UNCHANGED <<server, page, load, view>>

\* The server reads the rows, or the request fails.
Answer(i) ==
  /\ polls[i].state = "asked"
  /\ polls' = [polls EXCEPT ![i] =
                 IF up THEN [state |-> "rows", rows |-> GetHealth]
                       ELSE [state |-> "error", rows |-> <<>>]]
  /\ UNCHANGED <<server, page, load, view, shown>>

\* Mutant: a failure is shown as no rows.
ShowNoRows(i) ==
  /\ health' = polls[i].rows
  /\ warning' = IF polls[i].state = "rows" THEN "none" ELSE "poll"

\* The rows take the place of what is shown; a failure only warns.
Show(i) ==
  IF polls[i].state = "rows"
  THEN health' = polls[i].rows /\ warning' = "none"
  ELSE warning' = "poll" /\ UNCHANGED health

\* fetchHealth settles, in any order; a page that was left ignores it.
Settle(i) ==
  /\ polls[i].state \in {"rows", "error"}
  /\ polls' = [polls EXCEPT ![i] = Idle]
  /\ shown' = [shown EXCEPT ![i] = 0]
  /\ IF page = "mounted" THEN Show(i) ELSE UNCHANGED view
  /\ UNCHANGED <<server, page, load>>

-----------------------------------------------------------------------------
Next ==
  \/ Tick \/ WriteRow \/ ServerDown \/ ServerUp
  \/ Mount \/ Unmount \/ LoadEnds \/ Poll
  \/ \E i \in Requests : Answer(i) \/ Settle(i)

\* Every fetch settles and the interval fires again and again.
Spec ==
  /\ Init /\ [][Next]_vars
  /\ WF_vars(Mount) /\ WF_vars(LoadEnds) /\ WF_vars(Poll)
  /\ \A i \in Requests : WF_vars(Answer(i)) /\ WF_vars(Settle(i))

-----------------------------------------------------------------------------
(* Properties. *)

Row == [version : 1..MaxVersion, ws_connected : BOOLEAN, stale : BOOLEAN]

Rows == {<<>>} \cup {<<r>> : r \in Row}

TypeOK ==
  /\ clock \in 0..MaxClock
  /\ version \in 0..MaxVersion /\ ws_connected \in BOOLEAN
  /\ last_trade_at \in 0..clock \cup {None}
  /\ up \in BOOLEAN /\ outages \in 0..MaxOutages
  /\ page \in {"loading", "mounted", "left"} /\ load \in BOOLEAN
  /\ polls \in [Requests -> [state : {"idle", "asked", "rows", "error"}, rows : Rows]]
  /\ health \in Rows
  /\ warning \in {"none", "load", "poll"}
  /\ shown \in [Requests -> 0..MaxVersion]

\* A page that stays shows in the end what the server has, staleness included,
\* and no warning, or the warning if the server is gone: outages, answers that
\* overtake each other and a failed load leave no trace.
PanelSettles ==
  <>[](page = "mounted" =>
         IF up
         THEN warning = "none" /\ health = GetHealth
         ELSE warning = "poll")

\* An answer that was overtaken by a later poll's takes the panel back in time, but
\* never behind what it showed when the overtaken poll was sent, whatever fails
\* meanwhile: it never goes back while each poll settles before the next is sent.
NeverOlder ==
  [][health' # health =>
        \E i \in UnderWay \ UnderWay' : shown[i] <= Version(health')]_vars
=============================================================================
