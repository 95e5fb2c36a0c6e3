----------------------------- MODULE DacpClient -----------------------------
(***************************************************************************)
(* The remote control of the sender (dacp_client.c): RTSP tasks name and   *)
(* forget the session, buttons queue commands, and one worker looks the    *)
(* port of the sender's service up in mDNS and sends.  The mutex covers    *)
(* the four session variables, not the second and a half of a query nor    *)
(* the request: what the worker stores or sends after them may be about a  *)
(* session that is over.                                                   *)
(*                                                                         *)
(* Each sender has one DACP-ID and one port, both written as the sender.   *)
(* Its Active-Remote token and its address may change; those that came     *)
(* together are written as one claim.  Allocation of the HTTP client       *)
(* succeeds.                                                               *)
(***************************************************************************)
EXTENDS Naturals, Sequences

CONSTANTS
  Senders,
  Tokens,     \* the tokens of a sender, each with an address
  NoSender,   \* an empty string, port 0
  QueueLength \* CMD_QUEUE_LEN

Claims == [of : Senders, token : Tokens]

ASSUME DacpAssumption ==
  /\ NoSender \notin Senders /\ NoSender \notin Claims
  /\ QueueLength \in Nat \ {0}

VARIABLES
  initialized, \* s_initialized
  id,          \* s_dacp_id; s_session_valid unless it is empty
  remote,      \* s_active_remote
  ip,          \* s_client_ip
  port,        \* s_dacp_port
  queue,       \* s_cmd_queue
  worker,      \* where dacp_worker_task is
  wanted,      \* dacp_id_local
  request,     \* active_remote_copy, client_ip_copy and port_copy
  published,   \* the senders whose service is in mDNS
  strayed      \* history: the session changed during the query that port is from

session == <<id, remote, ip, port>>
dacpVars == <<initialized, session, queue, worker, wanted, request, published, strayed>>

Named == Senders \cup {NoSender}
Claimed == Claims \cup {NoSender}
Requests == [remote : Claimed, ip : Claimed, port : Named]
NoRequest == [remote |-> NoSender, ip |-> NoSender, port |-> NoSender]

DacpTypeOK ==
  /\ initialized \in BOOLEAN
  /\ id \in Named /\ remote \in Claimed /\ ip \in Claimed /\ port \in Named
  /\ queue \in Seq({"discover", "command"}) /\ Len(queue) <= QueueLength
  /\ worker \in {"idle", "resolving", "asking", "resolved", "sending", "answered"}
  /\ wanted \in Named /\ request \in Requests
  /\ worker = "sending" => request.port # NoSender /\ request.ip # NoSender
  /\ published \subseteq Senders /\ strayed \in BOOLEAN

DacpInit ==
  /\ initialized = FALSE
  /\ id = NoSender /\ remote = NoSender /\ ip = NoSender /\ port = NoSender
  /\ queue = <<>> /\ worker = "idle" /\ wanted = NoSender /\ request = NoRequest
  /\ published = {} /\ strayed = FALSE

StartDacp ==                    \* dacp_init, by playback_control_init
  /\ ~initialized /\ initialized' = TRUE
  /\ UNCHANGED <<session, queue, worker, wanted, request, published, strayed>>

-----------------------------------------------------------------------------
(***************************************************************************)
(* RTSP tasks and buttons: a queue that is full drops what comes.          *)
(***************************************************************************)
Room == initialized /\ Len(queue) < QueueLength
Discover == queue' = IF Room THEN <<"discover">> \o queue ELSE queue
workerVars == <<initialized, worker, wanted, request, published>>

PortKept(c) ==                  \* mutant: the port of the former session stays
  /\ initialized
  /\ remote' = c /\ ip' = c /\ id' = c.of
  /\ \/ id = c.of /\ UNCHANGED <<queue, strayed>>
     \/ id # c.of /\ strayed' = (worker = "asking") /\ Discover
  /\ UNCHANGED <<port, workerVars>>

SetSession(c) ==                \* the same DACP-ID: only the token and the address
  /\ initialized
  /\ remote' = c /\ ip' = c /\ id' = c.of
  /\ \/ id = c.of /\ UNCHANGED <<port, queue, strayed>>
     \/ id # c.of /\ port' = NoSender /\ strayed' = (worker = "asking") /\ Discover
  /\ UNCHANGED workerVars

ClearSession ==                 \* the address stays
  /\ initialized
  /\ id' = NoSender /\ remote' = NoSender /\ port' = NoSender /\ strayed' = (worker = "asking")
  /\ UNCHANGED <<ip, queue, workerVars>>

SendCommand ==                  \* volume is sent without a look at the session
  /\ Room
  /\ queue' = Append(queue, "command")
  /\ UNCHANGED <<session, strayed, workerVars>>

Press ==                        \* play/pause, next, previous: dacp_can_control first
  /\ Room /\ id # NoSender
  /\ \/ port # NoSender /\ queue' = Append(queue, "command")
     \/ port = NoSender /\ Discover
  /\ UNCHANGED <<session, strayed, workerVars>>

-----------------------------------------------------------------------------
(***************************************************************************)
(* dacp_worker_task                                                        *)
(***************************************************************************)
Goes(from, to) == worker = from /\ worker' = to
callerVars == <<initialized, id, remote, ip, published>>

TakeDiscover ==
  /\ Goes("idle", "resolving")
  /\ queue # <<>> /\ Head(queue) = "discover" /\ queue' = Tail(queue)
  /\ UNCHANGED <<port, wanted, request, strayed, callerVars>>

Copy == request' = [remote |-> remote, ip |-> ip, port |-> port]

TakeCommand ==                  \* execute_dacp_request
  /\ queue # <<>> /\ Head(queue) = "command" /\ queue' = Tail(queue)
  /\ \/ Goes("idle", "idle") /\ id = NoSender /\ UNCHANGED request
     \/ Goes("idle", "sending") /\ id # NoSender /\ port # NoSender /\ Copy
     \/ Goes("idle", "resolving") /\ id # NoSender /\ port = NoSender /\ Copy
  /\ UNCHANGED <<port, wanted, strayed, callerVars>>

Returns == IF request = NoRequest THEN "idle" ELSE "resolved"

NothingToAsk ==
  /\ Goes("resolving", Returns)
  /\ port # NoSender \/ id = NoSender
  /\ UNCHANGED <<port, queue, wanted, request, strayed, callerVars>>

Query ==
  /\ Goes("resolving", "asking")
  /\ port = NoSender /\ id # NoSender
  /\ wanted' = id /\ strayed' = FALSE
  /\ UNCHANGED <<port, queue, request, callerVars>>

StorePort(found) ==
  /\ Goes("asking", Returns)
  /\ port' = found /\ wanted' = NoSender
  /\ strayed' = (strayed /\ found # NoSender)
  /\ UNCHANGED <<queue, request, callerVars>>

QueryFinds == wanted \in published /\ StorePort(wanted)
QueryFails == StorePort(NoSender)

CopiedTooEarly ==               \* mutant: the address of before the query
  /\ \/ Goes("resolved", "idle") /\ port = NoSender /\ request' = NoRequest
     \/ /\ Goes("resolved", "sending") /\ port # NoSender
        /\ request' = [request EXCEPT !.remote = remote, !.port = port]
  /\ UNCHANGED <<port, queue, wanted, strayed, callerVars>>

CopyAgain ==
  /\ \/ Goes("resolved", "idle") /\ port = NoSender /\ request' = NoRequest
     \/ Goes("resolved", "sending") /\ port # NoSender /\ Copy
  /\ UNCHANGED <<port, queue, wanted, strayed, callerVars>>

RequestAnswered ==              \* whatever its status
  /\ Goes("sending", "answered")
  /\ request.port = request.ip.of /\ request.port \in published
  /\ UNCHANGED <<port, queue, wanted, request, strayed, callerVars>>

FailureIgnored ==               \* mutant: a port that does not answer is kept
  /\ Goes("sending", "idle") /\ request' = NoRequest
  /\ UNCHANGED <<port, queue, wanted, strayed, callerVars>>

RequestFails ==
  /\ Goes("sending", "idle") /\ request' = NoRequest
  /\ port' = NoSender /\ strayed' = FALSE
  /\ UNCHANGED <<queue, wanted, callerVars>>

RequestDone ==
  /\ Goes("answered", "idle") /\ request' = NoRequest
  /\ UNCHANGED <<port, queue, wanted, strayed, callerVars>>

WorkerStep ==
  \/ TakeDiscover \/ TakeCommand \/ NothingToAsk \/ Query \/ QueryFinds \/ QueryFails
  \/ CopyAgain \/ RequestAnswered \/ RequestFails \/ RequestDone

Advertise ==                    \* iOS publishes and withdraws its service
  /\ initialized
  /\ \E s \in Senders :
       \/ s \notin published /\ published' = published \cup {s}
       \/ s \in published /\ published' = published \ {s}
  /\ UNCHANGED <<initialized, session, queue, worker, wanted, request, strayed>>

DacpNext ==
  \/ StartDacp \/ \E c \in Claims : SetSession(c)
  \/ ClearSession \/ SendCommand \/ Press \/ WorkerStep \/ Advertise

(***************************************************************************)
(* The worker goes on: queries and requests have a limit.  One that could  *)
(* be answered is, now and then; and somebody presses a button.            *)
(***************************************************************************)
DacpFairness ==
  /\ WF_dacpVars(WorkerStep) /\ WF_dacpVars(Press)
  /\ SF_dacpVars(QueryFinds) /\ SF_dacpVars(RequestAnswered)

DacpSpec == DacpInit /\ [][DacpNext]_dacpVars /\ DacpFairness

-----------------------------------------------------------------------------
(***************************************************************************)
(* However sessions follow one another, and tokens and addresses within    *)
(* them, while the worker asks, a token reaches no other host than the one *)
(* it came with (dacp_client.c:157-162 reads all three again after the     *)
(* query).  The queue stays within its limit.                              *)
(***************************************************************************)
TokenStaysHome ==
  /\ DacpTypeOK
  /\ worker = "sending" => request.remote \in {NoSender, request.ip}

(***************************************************************************)
(* A port is the port of the current session (dacp_client.c:276 and 301    *)
(* forget it); unless the session changed within the query that found it,  *)
(* which nothing tells from the current one.                               *)
(***************************************************************************)
OwnPort == port # NoSender /\ ~strayed => port = id

(***************************************************************************)
(* The promise of dacp_client.c:151-154 and 194: the buttons work, however *)
(* early the session began, whatever was queued for, asked for or stored   *)
(* in former ones, however the token changed and requests failed.          *)
(***************************************************************************)
ButtonsWork ==
  \A c \in Claims :
    <>[](remote = c /\ c.of \in published)
      => []<>(worker = "answered" /\ request = [remote |-> c, ip |-> c, port |-> c.of])
=============================================================================
