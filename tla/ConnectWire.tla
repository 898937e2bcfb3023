----------------------------- MODULE ConnectWire -----------------------------
(***************************************************************************)
(* The control plane between the API server and the Connect desktop app:   *)
(* one WebSocket per connection attempt, FIFO in both directions.  Only    *)
(* the messages that drive the Chrome lease are kept; hello, profiles and  *)
(* ping/pong change no lease state, and the binary CDP frames are another  *)
(* component.  Messages from the app carry no run id (the code sends bare  *)
(* {"type": ...} objects), messages to the app do.                         *)
(***************************************************************************)
EXTENDS Naturals, Sequences

CONSTANTS
    Runs,       \* automation runs of one user
    NoRun,      \* None / the empty run id
    MaxConn     \* bound: how many times the app may connect

ASSUME WireAssumption == /\ NoRun \notin Runs
                         /\ MaxConn \in Nat

Conn == 1 .. MaxConn          \* connections, numbered in the order they are made
NoConn == 0
RunOrNone == Runs \cup {NoRun}

ToAppMsg == [type : {"start", "stop"}, run : RunOrNone]
ToServerMsg == {"starting", "ready", "stopped", "error"}

VARIABLES
    toApp,      \* [Conn -> Seq(ToAppMsg)]: server outbox and socket
    toServer,   \* [Conn -> Seq(ToServerMsg)]: socket towards the server
    link,       \* the connection whose socket the app holds, or NoConn
    made        \* how many connections have been made

wireVars == <<toApp, toServer, link, made>>

WireTypeOK ==
    /\ toApp \in [Conn -> Seq(ToAppMsg)]
    /\ toServer \in [Conn -> Seq(ToServerMsg)]
    /\ link \in Conn \cup {NoConn}
    /\ made \in 0 .. MaxConn

WireInit ==
    /\ toApp = [c \in Conn |-> <<>>]
    /\ toServer = [c \in Conn |-> <<>>]
    /\ link = NoConn
    /\ made = 0

\* Mutant: the message goes out without its run_id.
EnqueueWithoutRun(c, m) ==
    toApp' = IF c = link THEN [toApp EXCEPT ![c] = Append(@, [type |-> m.type])] ELSE toApp

\* WorkerConnection.enqueue_json: always accepted, but what is queued for a
\* connection whose socket is gone reaches nobody.
EnqueueJson(c, m) ==
    toApp' = IF c = link THEN [toApp EXCEPT ![c] = Append(@, m)] ELSE toApp

\* sa_worker_ws_send_text for each of ms, in order.
SendText(c, ms) == toServer' = [toServer EXCEPT ![c] = @ \o ms]
==============================================================================
