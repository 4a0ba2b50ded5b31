----------------------------- MODULE ShareServer -----------------------------
(***************************************************************************)
(* The HTTP server that shares one file of a snapshot (src/share.rs, with  *)
(* stream_file_content of src/repo.rs).  `start` binds the port, mints a   *)
(* signed link that expires and spawns a thread with a runtime of its own. *)
(* Each request of a valid link gets a blocking reader, which sends the    *)
(* file's blobs over a channel of bounded capacity to the connection's     *)
(* body.  `stop` sends the shutdown and joins the thread; the runtime      *)
(* drops its tasks and then waits for the readers.                         *)
(*                                                                         *)
(* A target is a node name in a tree of a snapshot; the URL has the        *)
(* snapshot, the tree and the expiry, the signature also covers the name.  *)
(* The file of any target has Blobs blobs.  A connection stands for one    *)
(* client; it may ask again on the same connection.                        *)
(***************************************************************************)
EXTENDS Naturals, Sequences, FiniteSets

CONSTANTS
  Target,    \* files that may be shared: [snap, tree, name]
  NoTarget,
  Conn,      \* connections of clients
  Blobs,     \* blobs of a file
  Capacity,  \* of the channel: 8
  Ttl,       \* SHARE_TTL
  MaxTime,   \* bound: ticks of the clock
  MaxStarts  \* bound: servers started

ASSUME ServerConstants ==
  /\ NoTarget \notin Target
  /\ Blobs \in Nat /\ Capacity \in Nat \ {0}
  /\ Ttl \in Nat /\ MaxTime \in Nat /\ MaxStarts \in Nat

VARIABLES
  now,      \* wall clock
  starts,   \* servers started so far
  minted,   \* the links shown so far
  main,     \* the main thread: "free", "running" (it has a handle), "joining"
  bound,    \* the target of the server, or NoTarget
  thread,   \* its thread: "none", "spawned", "serving", "dropping"
  conn,     \* conn[c]: its state, the response and what the client got of it
  channel,  \* channel[c]: blobs, or an error, on their way to the body of c
  readers   \* readers[c]: the blocking reader started for c

serverVars == <<now, starts, minted, main, bound, thread, conn, channel, readers>>

Link == [target : Target, exp : Nat, start : Nat]
NoLink == [target |-> NoTarget, exp |-> 0, start |-> 0]

\* An item of the channel: the number of a blob, or an error.
Error == Blobs + 1
Closed == [state |-> "closed", status |-> 0, link |-> NoLink, at |-> 0, got |-> <<>>]
NoReader == [state |-> "none", next |-> 1]

ServerInit ==
  /\ now = 0 /\ starts = 0 /\ minted = {}
  /\ main = "free" /\ bound = NoTarget /\ thread = "none"
  /\ conn = [c \in Conn |-> Closed]
  /\ channel = [c \in Conn |-> <<>>]
  /\ readers = [c \in Conn |-> NoReader]

----------------------------------------------------------------------------
(* The main thread. *)

\* start, when the port can be bound, the index loads and the thread spawns.
StartServer(t) ==
  /\ main = "free" /\ thread = "none"
  /\ starts < MaxStarts
  /\ starts' = starts + 1
  /\ minted' = minted \cup {[target |-> t, exp |-> now + Ttl, start |-> starts + 1]}
  /\ main' = "running" /\ bound' = t /\ thread' = "spawned"
  /\ UNCHANGED <<now, conn, channel, readers>>

\* stop: the shutdown is sent, then the thread is joined.
StopServer ==
  /\ main = "running"
  /\ main' = "joining"
  /\ UNCHANGED <<now, starts, minted, bound, thread, conn, channel, readers>>

\* Mutant of Joined: the handle is only dropped, which sends and does not join.
JoinedNobody ==
  /\ main = "joining"
  /\ main' = "free" /\ bound' = NoTarget
  /\ UNCHANGED <<now, starts, minted, thread, conn, channel, readers>>

Joined ==
  /\ main = "joining" /\ thread = "none"
  /\ main' = "free" /\ bound' = NoTarget
  /\ UNCHANGED <<now, starts, minted, thread, conn, channel, readers>>

----------------------------------------------------------------------------
(* The server's thread. *)
MainVars == <<now, starts, minted, main, bound>>

\* The runtime is built and the listeners are handed over, or the thread ends.
ThreadStarts ==
  /\ thread = "spawned"
  /\ thread' \in {"serving", "none"}
  /\ UNCHANGED <<MainVars, conn, channel, readers>>

\* block_on returns; the runtime drops the tasks, with them the connections and
\* the receivers of the channels.
DropTasks ==
  /\ thread = "serving" /\ main = "joining"
  /\ thread' = "dropping"
  /\ conn' = [c \in Conn |-> Closed]
  /\ channel' = [c \in Conn |-> <<>>]
  /\ UNCHANGED <<MainVars, readers>>

\* The runtime's drop waits for the blocking readers.
ThreadEnds ==
  /\ thread = "dropping"
  /\ \A c \in Conn : readers[c] = NoReader
  /\ thread' = "none"
  /\ UNCHANGED <<MainVars, conn, channel, readers>>

----------------------------------------------------------------------------
(* Requests. *)
Accept(c) ==
  /\ thread = "serving"
  /\ conn[c].state = "closed" /\ readers[c] = NoReader
  /\ conn' = [conn EXCEPT ![c] = [Closed EXCEPT !.state = "open"]]
  /\ UNCHANGED <<MainVars, thread, channel, readers>>

\* What the signature covers, and with it the key of this configuration.
Signature(t, exp) == <<t.snap, t.tree, t.name, exp>>
InUrl(t) == <<t.snap, t.tree>>

\* Mutant of Status: the name is neither in the URL nor signed.
StatusUnsigned(l) ==
  IF InUrl(l.target) # InUrl(bound) THEN 404
  ELSE IF now > l.exp THEN 403 ELSE 200

\* handle, for /dl with the parameters of a link minted now or by an earlier
\* server.
Status(l) ==
  IF InUrl(l.target) # InUrl(bound) THEN 404
  ELSE IF now > l.exp \/ Signature(l.target, l.exp) # Signature(bound, l.exp) THEN 403
  ELSE 200

Respond(c, l, status) ==
  conn' = [conn EXCEPT ![c] = [state |-> IF status = 200 THEN "body" ELSE "open",
                               status |-> status, link |-> l, at |-> now, got |-> <<>>]]

\* A GET of /dl.  A link that verifies gets a channel and a reader.
Download(c, l) ==
  /\ conn[c].state = "open"
  /\ Respond(c, l, Status(l))
  /\ readers' = IF Status(l) = 200
                THEN [readers EXCEPT ![c] = [state |-> "find", next |-> 1]] ELSE readers
  /\ UNCHANGED <<MainVars, thread, channel>>

\* A GET of /s/<id> is sent on to the long link of the server that runs.
Redirect(c, l) ==
  /\ conn[c].state = "open"
  /\ Respond(c, l, IF l.start = starts THEN 302 ELSE 404)
  /\ UNCHANGED <<MainVars, thread, channel, readers>>

\* Another method, another path, or parameters missing or malformed.
BadRequest(c) ==
  /\ conn[c].state = "open"
  /\ \E status \in {400, 404, 405} : Respond(c, NoLink, status)
  /\ UNCHANGED <<MainVars, thread, channel, readers>>

\* The client goes away; hyper drops the body and its receiver.
Disconnect(c) ==
  /\ conn[c].state # "closed"
  /\ conn' = [conn EXCEPT ![c] = Closed]
  /\ channel' = [channel EXCEPT ![c] = <<>>]
  /\ UNCHANGED <<MainVars, thread, readers>>

----------------------------------------------------------------------------
(* A reader: stream_file_content on a blocking thread. *)
ReaderVars == <<MainVars, thread, conn>>
Receiving(c) == conn[c].state = "body"
SetReader(c, s, n) == readers' = [readers EXCEPT ![c] = [state |-> s, next |-> n]]
EndReader(c) == readers' = [readers EXCEPT ![c] = NoReader]

\* The node is found and is a file, or it is an error.
FindNode(c) ==
  /\ readers[c].state = "find"
  /\ SetReader(c, "read", 1) \/ SetReader(c, "fail", 1)
  /\ UNCHANGED <<ReaderVars, channel>>

\* dump reads the next blob; after the last one the sender is dropped.
ReadBlob(c) ==
  /\ readers[c].state = "read"
  /\ IF readers[c].next > Blobs THEN EndReader(c)
     ELSE SetReader(c, "send", readers[c].next) \/ SetReader(c, "fail", readers[c].next)
  /\ UNCHANGED <<ReaderVars, channel>>

\* Mutant of SendBlob: the channel is unbounded.
SendBlobUnbounded(c) ==
  /\ readers[c].state = "send"
  /\ IF Receiving(c)
     THEN /\ channel' = [channel EXCEPT ![c] = Append(@, readers[c].next)]
          /\ SetReader(c, "read", readers[c].next + 1)
     ELSE SetReader(c, "fail", readers[c].next) /\ UNCHANGED channel
  /\ UNCHANGED ReaderVars

\* Mutant of SendBlob: it waits for room although nobody receives any more.
SendBlobWaits(c) ==
  /\ readers[c].state = "send"
  /\ Receiving(c) /\ Len(channel[c]) < Capacity
  /\ channel' = [channel EXCEPT ![c] = Append(@, readers[c].next)]
  /\ SetReader(c, "read", readers[c].next + 1)
  /\ UNCHANGED ReaderVars

\* ChannelWriter::write blocks while the channel is full, and fails once the
\* receiver is gone.
SendBlob(c) ==
  /\ readers[c].state = "send"
  /\ IF Receiving(c)
     THEN /\ Len(channel[c]) < Capacity
          /\ channel' = [channel EXCEPT ![c] = Append(@, readers[c].next)]
          /\ SetReader(c, "read", readers[c].next + 1)
     ELSE SetReader(c, "fail", readers[c].next) /\ UNCHANGED channel
  /\ UNCHANGED ReaderVars

\* The error follows the blobs, if anybody still listens.
SendError(c) ==
  /\ readers[c].state = "fail"
  /\ IF Receiving(c)
     THEN /\ Len(channel[c]) < Capacity
          /\ channel' = [channel EXCEPT ![c] = Append(@, Error)]
     ELSE UNCHANGED channel
  /\ EndReader(c)
  /\ UNCHANGED ReaderVars

\* ChannelBody::poll_frame: a blob goes to the client, an error breaks the
\* response, and when the sender is gone it ends.
PollFrame(c) ==
  /\ Receiving(c)
  /\ IF channel[c] # <<>>
     THEN LET item == Head(channel[c])
          IN  /\ channel' = [channel EXCEPT ![c] = IF item = Error THEN <<>> ELSE Tail(@)]
              /\ conn' = [conn EXCEPT ![c] =
                   IF item = Error THEN Closed
                   ELSE [conn[c] EXCEPT !.got = Append(conn[c].got, item)]]
     ELSE /\ readers[c] = NoReader
          /\ conn' = [conn EXCEPT ![c].state = "open"]
          /\ UNCHANGED channel
  /\ UNCHANGED <<MainVars, thread, readers>>

Tick ==
  /\ now < MaxTime
  /\ now' = now + 1
  /\ UNCHANGED <<starts, minted, main, bound, thread, conn, channel, readers>>

----------------------------------------------------------------------------
ReaderStep(c) == FindNode(c) \/ ReadBlob(c) \/ SendBlob(c) \/ SendError(c)
ThreadStep == ThreadStarts \/ DropTasks \/ ThreadEnds
ClientStep(c) ==
  \/ Accept(c) \/ BadRequest(c) \/ Disconnect(c) \/ PollFrame(c)
  \/ \E l \in minted : Download(c, l) \/ Redirect(c, l)

\* Everything but the main thread's start and stop.
ServerStep == ThreadStep \/ Tick \/ \E c \in Conn : ReaderStep(c) \/ ClientStep(c)

\* The operating system runs the threads; reads of the repository return.
ServerFairness ==
  /\ WF_serverVars(ThreadStep)
  /\ \A c \in Conn : WF_serverVars(ReaderStep(c))

ServerType ==
  /\ now \in 0..MaxTime /\ starts \in 0..MaxStarts
  /\ minted \subseteq Link
  /\ main \in {"free", "running", "joining"}
  /\ bound \in Target \cup {NoTarget}
  /\ thread \in {"none", "spawned", "serving", "dropping"}
  /\ conn \in [Conn -> [state : {"closed", "open", "body"}, link : Link \cup {NoLink},
                        status : {0, 200, 302, 400, 403, 404, 405}, at : 0..MaxTime,
                        got : Seq(1..Blobs)]]
  /\ channel \in [Conn -> Seq(1..Error)]
  /\ \A c \in Conn : Len(channel[c]) <= Capacity
  /\ readers \in [Conn -> [state : {"none", "find", "read", "send", "fail"},
                           next : 1..Blobs + 1]]
=============================================================================
