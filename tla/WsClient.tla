------------------------------ MODULE WsClient ------------------------------
(***************************************************************************)
(* The reconnecting web socket client of internal/ws: Connect, WriteJSON,  *)
(* Run with its back-off and its read loop, and Close and a cancelled      *)
(* context, which come from other goroutines.  Sockets are numbered in the *)
(* order they are dialled; a socket that is conn no longer is never read   *)
(* again, so that what reaches it is left out.  What a message does is     *)
(* left to the handler, which a module that extends this one defines.      *)
(***************************************************************************)
EXTENDS Naturals, Sequences

CONSTANTS
    MaxDials,       \* bound on the sockets dialled
    MinBackoff,     \* 100ms
    MaxBackoff      \* Client.maxBackoff

ASSUME WsAssumption == /\ MaxDials \in Nat
                       /\ MinBackoff \in Nat \ {0} /\ MaxBackoff \in Nat
                       /\ MinBackoff <= MaxBackoff

VARIABLES
    wsPc,       \* the goroutine that calls Connect, WriteJSON and Run
    conn,       \* Client.conn, 0 for nil; only this goroutine replaces it
    closed,     \* Client.closed
    msg,        \* the message of readLoop, a sequence of at most one
    wsBackoff,  \* backoff of Run
    done,       \* the context is cancelled
    closer,     \* the goroutine that calls Close
    captured,   \* conn of Close
    dials,      \* sockets dialled so far
    open,       \* sockets this side has not closed
    broken,     \* the connection of conn is broken
    inbox,      \* messages that have reached conn
    subscribed  \* sockets the subscription was sent on

socketVars == <<dials, open, broken, inbox, subscribed>>
closeVars == <<closed, done, closer, captured>>
wsVars == <<wsPc, conn, msg, wsBackoff, closeVars, socketVars>>

Sockets == 1..MaxDials
None == 0

WsInit ==
    /\ wsPc = "connect" /\ conn = None /\ msg = <<>> /\ wsBackoff = MinBackoff
    /\ closed = FALSE /\ done = FALSE /\ closer = "idle" /\ captured = None
    /\ dials = 0 /\ open = {} /\ subscribed = {} /\ broken = FALSE /\ inbox = <<>>

\* conn can be read from and written to.
Live == conn \in open /\ ~ broken
-----------------------------------------------------------------------------
(* connect, WriteJSON and the back-off *)

\* connect: the socket it replaces, if any, is not closed.
Dialled ==
    /\ ~ done /\ dials < MaxDials
    /\ dials' = dials + 1
    /\ conn' = dials + 1
    /\ open' = open \cup {dials + 1}
    /\ broken' = FALSE /\ inbox' = <<>>
    /\ UNCHANGED subscribed

Connect ==
    /\ wsPc = "connect"
    /\ \/ Dialled /\ wsPc' = "write"
       \/ wsPc' = "ended" /\ UNCHANGED <<conn, socketVars>>
    /\ UNCHANGED <<msg, wsBackoff, closeVars>>

\* Its error is ignored.
WriteJSON ==
    /\ wsPc = "write"
    /\ subscribed' = IF Live THEN subscribed \cup {conn} ELSE subscribed
    /\ wsPc' = "top"
    /\ UNCHANGED <<conn, msg, wsBackoff, closeVars, dials, open, broken, inbox>>

\* nextBackoff: twice the last one and a random part of it, up to the maximum.
NextBackoff(prev) ==
    {IF b > MaxBackoff THEN MaxBackoff ELSE b : b \in (2 * prev)..(3 * prev)}
-----------------------------------------------------------------------------
(* Run and readLoop *)

Top ==
    /\ wsPc = "top"
    /\ wsPc' = IF closed THEN "ended" ELSE "dial"
    /\ UNCHANGED <<conn, msg, wsBackoff, closeVars, socketVars>>

Dial ==
    /\ wsPc = "dial"
    /\ Dialled
    /\ wsBackoff' = MinBackoff
    /\ wsPc' = "read"
    /\ UNCHANGED <<msg, closeVars>>

\* Mutated form of DialFails: a cancelled context is not looked at.
DialFailsGoesOn ==
    /\ wsPc = "dial"
    /\ wsBackoff' \in NextBackoff(wsBackoff)
    /\ wsPc' = "wait"
    /\ UNCHANGED <<conn, msg, closeVars, socketVars>>

DialFails ==
    /\ wsPc = "dial"
    /\ \/ done /\ wsPc' = "ended" /\ UNCHANGED wsBackoff
       \/ ~ done /\ wsPc' = "wait" /\ wsBackoff' \in NextBackoff(wsBackoff)
    /\ UNCHANGED <<conn, msg, closeVars, socketVars>>

\* The select: when both are ready either may win.
Wait ==
    /\ wsPc = "wait"
    /\ \/ done /\ wsPc' = "ended"
       \/ wsPc' = "top"
    /\ UNCHANGED <<conn, msg, wsBackoff, closeVars, socketVars>>

\* Mutated form of Read: the read loop does not look at closed.
ReadIgnoresClosed ==
    /\ wsPc = "read"
    /\ wsPc' = IF conn = None THEN "clean" ELSE "recv"
    /\ UNCHANGED <<conn, msg, wsBackoff, closeVars, socketVars>>

Read ==
    /\ wsPc = "read"
    /\ wsPc' = IF conn = None \/ closed THEN "clean" ELSE "recv"
    /\ UNCHANGED <<conn, msg, wsBackoff, closeVars, socketVars>>

\* ReadMessage returns a message, also one that arrived before the socket broke.
Recv ==
    /\ wsPc = "recv"
    /\ inbox # <<>>
    /\ msg' = <<Head(inbox)>>
    /\ inbox' = Tail(inbox)
    /\ wsPc' = "handle"
    /\ UNCHANGED <<conn, wsBackoff, closeVars, dials, open, broken, subscribed>>

\* ... or an error, once the socket is closed or broken.
RecvFails ==
    /\ wsPc = "recv"
    /\ ~ Live
    /\ wsPc' = "clean"
    /\ UNCHANGED <<conn, msg, wsBackoff, closeVars, socketVars>>

\* conn is set to nil; what it had received and not read is gone.
Dropped == conn' = None /\ broken' = FALSE /\ inbox' = <<>>

\* Mutated form of Clean: the socket is forgotten and not closed.
CleanForgets ==
    /\ wsPc = "clean"
    /\ \/ done /\ wsPc' = "ended" /\ UNCHANGED <<conn, wsBackoff, broken, inbox>>
       \/ ~ done /\ wsPc' = "wait" /\ Dropped /\ wsBackoff' \in NextBackoff(wsBackoff)
    /\ UNCHANGED <<msg, closeVars, dials, open, subscribed>>

\* After the read loop: a cancelled context leaves without closing the socket.
Clean ==
    /\ wsPc = "clean"
    /\ \/ /\ done
          /\ wsPc' = "ended"
          /\ UNCHANGED <<conn, wsBackoff, open, broken, inbox>>
       \/ /\ ~ done
          /\ open' = open \ {conn}
          /\ Dropped
          /\ wsBackoff' \in NextBackoff(wsBackoff)
          /\ wsPc' = "wait"
    /\ UNCHANGED <<msg, closeVars, dials, subscribed>>
-----------------------------------------------------------------------------
(* Other goroutines, and the network *)

\* Close: the flag and the socket are taken under the lock ...
Close ==
    /\ closer = "idle"
    /\ closed' = TRUE
    /\ captured' = conn
    /\ closer' = "closing"
    /\ UNCHANGED <<wsPc, conn, msg, wsBackoff, done, socketVars>>

\* ... and that socket is closed after it.
CloseConn ==
    /\ closer = "closing"
    /\ open' = open \ {captured}
    /\ captured' = None
    /\ closer' = "done"
    /\ UNCHANGED <<wsPc, conn, msg, wsBackoff, closed, done, dials, broken, inbox,
                   subscribed>>

Cancel ==
    /\ ~ done
    /\ done' = TRUE
    /\ UNCHANGED <<wsPc, conn, msg, wsBackoff, closed, closer, captured, socketVars>>

\* The connection of conn breaks; a part of what was under way is lost.
Cut ==
    /\ Live
    /\ broken' = TRUE
    /\ \E n \in 0..Len(inbox) : inbox' = SubSeq(inbox, 1, n)
    /\ UNCHANGED <<wsPc, conn, msg, wsBackoff, closeVars, dials, open, subscribed>>

WsStep ==
    \/ Connect \/ WriteJSON \/ Top \/ Dial \/ DialFails \/ Wait
    \/ Read \/ Recv \/ RecvFails \/ Clean
WsEnvironment == Close \/ CloseConn \/ Cancel \/ Cut
-----------------------------------------------------------------------------
WsTypeOK ==
    /\ wsPc \in {"connect", "write", "top", "dial", "wait", "read", "recv", "handle",
                 "clean", "ended"}
    /\ {conn, captured} \subseteq Sockets \cup {None}
    /\ wsBackoff \in MinBackoff..MaxBackoff
    /\ closed \in BOOLEAN /\ done \in BOOLEAN /\ closer \in {"idle", "closing", "done"}
    /\ dials \in 0..MaxDials
    /\ open \subseteq 1..dials /\ broken \in BOOLEAN /\ subscribed \subseteq 1..dials

\* However it is cut, closed and dialled again, the client holds on to one socket
\* besides conn, the one of Connect that Run replaces (ws.go:60-62, 86); and once
\* Run has ended without a cancelled context no other is left open (ws.go:107-112).
LeakBound ==
    /\ open \ {conn} \subseteq {1}
    /\ wsPc = "ended" /\ ~ done => open \subseteq {1}

\* Close ends Run, wherever Run is when it comes (ws.go:66-75): before or after a
\* dial, in the back-off, or blocked in ReadMessage.
CloseEnds == closed ~> wsPc = "ended"

\* A cancelled context ends Run as well (ws.go:87-95, 101-103, 114-118), unless
\* it stays blocked in ReadMessage on a live socket, which does not look at it.
CancelEnds == done ~> wsPc = "ended" \/ (wsPc = "recv" /\ Live)
=============================================================================
