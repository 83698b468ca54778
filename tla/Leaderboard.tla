------------------------------ MODULE Leaderboard ------------------------------
(***************************************************************************)
(* Standings and the table a browser shows: the sorted set in Redis, the   *)
(* REST snapshot, the hub (ScoreHub) with the browser's connection and     *)
(* those of strangers, and the hook useLeaderboard, which merges snapshots *)
(* and SCORE_UPDATE messages and reconnects.                               *)
(***************************************************************************)
EXTENDS ScoreHub

CONSTANTS Handles,   \* the contestants
          MaxScore,  \* bound on the scores, which are 1, 2, ...
          Fetches    \* slots for requests in flight (a bound)

\* A SCORE_UPDATE carries the contestant and the standing.
ScoreUpdates == [handle : Handles, score : 1..MaxScore]

ASSUME LeaderboardAssumption == MaxScore \in Nat /\ Messages = ScoreUpdates

VARIABLES standings,  \* leaderboard:current, 0 for an absent member
          scored,     \* the contestant whose new standing is to be broadcast
          mounted,    \* the component is on the page
          wsState,    \* wsRef: "none", "connecting", "open"
          socket,     \* the connection the service has given it
          timer,      \* reconnectTimerRef is set
          hasConnected,
          fetch,      \* requests: "idle", "asked", "answered" with a table
          view,       \* entries, 0 for an absent one
          error       \* the last snapshot failed, which the page says

storeVars == <<standings, scored>>
pageVars == <<mounted, wsState, socket, timer, hasConnected, fetch, view, error>>
vars == <<serverVars, storeVars, pageVars>>

Tables == [Handles -> 0..MaxScore]
Idle == [state |-> "idle", table |-> [h \in Handles |-> 0]]

-----------------------------------------------------------------------------
(* Scoring, which is outside src/: it calls UpdateStanding and Broadcast. *)

\* Mutant of UpdateStanding: without GT the last score counts.
SetStanding(h, s) ==
    /\ scored = None
    /\ standings' = [standings EXCEPT ![h] = s]
    /\ scored' = h
    /\ UNCHANGED <<serverVars, pageVars>>

\* ZADD GT
UpdateStanding(h, s) ==
    /\ scored = None
    /\ standings' = [standings EXCEPT ![h] = IF s > @ THEN s ELSE @]
    /\ scored' = h
    /\ UNCHANGED <<serverVars, pageVars>>

PublishStanding ==
    /\ scored # None
    /\ CallBroadcast([handle |-> scored, score |-> standings[scored]])
    /\ scored' = None
    /\ UNCHANGED <<standings, pageVars>>

-----------------------------------------------------------------------------
(* The REST snapshot *)

\* fetchSnapshot: the request leaves.
Ask(i) == fetch' = [fetch EXCEPT ![i] = [fetch[i] EXCEPT !.state = "asked"]]

\* fetchFromRedis reads the page.
ServeSnapshot(i) ==
    /\ fetch[i].state = "asked"
    /\ fetch' = [fetch EXCEPT ![i] = [state |-> "answered", table |-> standings]]
    /\ UNCHANGED <<serverVars, storeVars, mounted, wsState, socket, timer, hasConnected, view,
                   error>>

\* The table is replaced by the snapshot, or the request failed.
TakeSnapshot(i) ==
    /\ fetch[i].state # "idle"
    /\ fetch' = [fetch EXCEPT ![i] = Idle]
    /\ \/ fetch[i].state = "answered" /\ view' = fetch[i].table /\ error' = FALSE
       \/ error' = TRUE /\ UNCHANGED view
    /\ UNCHANGED <<serverVars, storeVars, mounted, wsState, socket, timer, hasConnected>>

-----------------------------------------------------------------------------
(* The hook *)

Mount ==
    /\ ~mounted
    /\ mounted' = TRUE
    /\ \E i \in Fetches : Ask(i)
    /\ wsState' = "connecting"
    /\ UNCHANGED <<serverVars, storeVars, socket, timer, hasConnected, view, error>>

\* Mutant of Unmount: the reconnect timer is not cleared.
UnmountKeepsTimer ==
    /\ mounted
    /\ mounted' = FALSE
    /\ wsState' = "none" /\ socket' = None
    /\ hasConnected' = FALSE
    /\ fetch' = [i \in Fetches |-> Idle]
    /\ view' = [h \in Handles |-> 0] /\ error' = FALSE
    /\ UNCHANGED <<serverVars, storeVars, timer>>

\* The socket is closed, the timer cleared, and answers that come later are
\* ignored; a later mount starts from nothing.
Unmount ==
    /\ mounted
    /\ mounted' = FALSE
    /\ wsState' = "none" /\ socket' = None /\ timer' = FALSE
    /\ hasConnected' = FALSE
    /\ fetch' = [i \in Fetches |-> Idle]
    /\ view' = [h \in Handles |-> 0] /\ error' = FALSE
    /\ UNCHANGED <<serverVars, storeVars>>

\* The service accepts the connection.
Accept(k) ==
    /\ wsState = "connecting" /\ socket = None
    /\ Upgrade(k)
    /\ socket' = k
    /\ UNCHANGED <<storeVars, mounted, wsState, timer, hasConnected, fetch, view, error>>

\* onopen: a reconnection fetches the snapshot again.
OnOpen ==
    /\ wsState = "connecting" /\ socket # None
    /\ wsState' = "open"
    /\ hasConnected' = TRUE
    /\ IF hasConnected THEN \E i \in {j \in Fetches : fetch[j].state = "idle"} : Ask(i)
                       ELSE UNCHANGED fetch
    /\ UNCHANGED <<serverVars, storeVars, mounted, socket, timer, view, error>>

\* onmessage: the contestant's entry is replaced and the table sorted again.
OnMessage ==
    /\ wsState = "open"
    /\ Read(socket)
    /\ LET msg == wire[socket][read[socket] + 1]
       IN  view' = [view EXCEPT ![msg.handle] = msg.score]
    /\ UNCHANGED <<storeVars, mounted, wsState, socket, timer, hasConnected, fetch, error>>

\* The socket can close: the attempt failed, the network broke, or the service
\* closed the connection.
MayClose == wsState # "none"

\* Mutant of OnClose: no reconnection is scheduled.
OnCloseForGood ==
    /\ MayClose
    /\ wsState' = "none" /\ socket' = None
    /\ UNCHANGED <<serverVars, storeVars, mounted, timer, hasConnected, fetch, view, error>>

OnClose ==
    /\ MayClose
    /\ wsState' = "none" /\ socket' = None
    /\ timer' = TRUE
    /\ UNCHANGED <<serverVars, storeVars, mounted, hasConnected, fetch, view, error>>

\* The timer fires and calls connect, which does nothing after an unmount.
Reconnect ==
    /\ timer
    /\ timer' = FALSE
    /\ wsState' = IF mounted THEN "connecting" ELSE wsState
    /\ UNCHANGED <<serverVars, storeVars, mounted, socket, hasConnected, fetch, view, error>>

-----------------------------------------------------------------------------
(* The service, and its other clients *)

Stranger(k) ==
    /\ \/ k # socket /\ (Upgrade(k) \/ Read(k))
       \/ HangUp(k)
    /\ UNCHANGED <<storeVars, pageVars>>

Serve ==
    /\ \/ Broadcast \/ HubStep
       \/ \E k \in Conns : WriterStep(k) \/ WriteMessage(k)
    /\ UNCHANGED <<storeVars, pageVars>>

Stop == Cancel /\ UNCHANGED <<storeVars, pageVars>>

\* A scorer in the same process forgets what it had not broadcast.
Replace ==
    /\ Restart
    /\ scored' = None
    /\ UNCHANGED <<standings, pageVars>>

Page ==
    \/ Mount \/ Unmount \/ OnOpen \/ OnMessage \/ OnClose \/ Reconnect
    \/ \E k \in Conns : Accept(k)
    \/ \E i \in Fetches : ServeSnapshot(i) \/ TakeSnapshot(i)

Init ==
    /\ ServerInit
    /\ standings = [h \in Handles |-> 0] /\ scored = None
    /\ mounted = FALSE /\ wsState = "none" /\ socket = None
    /\ timer = FALSE /\ hasConnected = FALSE
    /\ fetch = [i \in Fetches |-> Idle]
    /\ view = [h \in Handles |-> 0] /\ error = FALSE

Next ==
    \/ \E h \in Handles, s \in 1..MaxScore : UpdateStanding(h, s)
    \/ PublishStanding
    \/ Page
    \/ \E k \in Conns : Stranger(k)
    \/ Serve
    \/ Stop
    \/ Replace

Spec == Init /\ [][Next]_vars

\* The server's fairness, and timers fire.
Fairness ==
    /\ ServerFairness
    /\ WF_vars(cancelled /\ Replace)
    /\ WF_vars(Reconnect)

FairSpec == Spec /\ Fairness

-----------------------------------------------------------------------------
(* Properties *)

TypeOK ==
    /\ HubTypeOK
    /\ standings \in Tables /\ scored \in Handles \cup {None}
    /\ {mounted, timer, hasConnected, error} \subseteq BOOLEAN
    /\ wsState \in {"none", "connecting", "open"}
    /\ socket \in Conns \cup {None}
    /\ fetch \in [Fetches -> [state : {"idle", "asked", "answered"}, table : Tables]]
    /\ view \in Tables

\* store.go:33-36, useLeaderboard.ts:112-141: whatever snapshots and messages
\* overtake each other, no entry exceeds the contestant's best score.
NeverOverstates == \A h \in Handles : view[h] <= standings[h]

\* useLeaderboard.ts:143-153, 160-178: a mounted component has a socket or a
\* timer, never both, and an unmounted one neither.
OneConnection ==
    /\ mounted <=> (wsState # "none" \/ timer)
    /\ ~(wsState # "none" /\ timer)

\* The page and the server it talks to are in states of their own.
PageConsistent == TypeOK /\ OneConnection

\* useLeaderboard.ts:40: a component that lost its connection, or did not get
\* one, tries again.
TriesAgain == (mounted /\ wsState = "none") ~> (wsState = "connecting" \/ ~mounted)
=============================================================================
